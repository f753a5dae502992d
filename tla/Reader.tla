------------------------------- MODULE Reader -------------------------------
(***************************************************************************)
(* What the service shows to those who call it.  Engine is extended with   *)
(* the API keys of app/api/auth.py, with the interrupt payload LangGraph   *)
(* stores beside a checkpoint, and with one client who polls               *)
(* GET /assessments/{id} and GET /assessments/{id}/trace while workers run. *)
(* GET is two or three reads, at as many moments: no transaction encloses  *)
(* the two rows, and the pending review comes from the checkpointer.       *)
(***************************************************************************)
EXTENDS Engine

CONSTANTS
  Keys,      \* what callers may put into the X-API-Key header
  Scopes     \* settings.api_key_registry: the scopes of each registered key

ASSUME ScopesAssumption ==
  /\ DOMAIN Scopes \subseteq Keys
  /\ \A key \in DOMAIN Scopes : Scopes[key] \subseteq {"caller", "reviewer"}
  /\ "none" \notin Keys

VARIABLES
  by,           \* per call of POST /resume: the key it came with
  interrupts,   \* per thread: the interrupt last stored, and its checkpoint
  view,         \* the GET in progress: what it has read so far
  shown,        \* per case: the latest response to GET
  trace         \* per case: the response to GET trace, if one came since

observer   == <<view, shown, trace>>
readerVars == <<vars, by, interrupts, observer>>

-----------------------------------------------------------------------------
Interrupt   == [id : Nat, conflict_round : Nat]
NoInterrupt == [id |-> 0, conflict_round |-> 0]

NoView == [stage |-> "idle", assessment |-> "none", status |-> "none", decision |-> {}]

\* review holds the conflict_round of the PendingHumanReview, if one is shown.
\* traced: the trace on hand was asked for after this response.
Response   == [status : Statuses \cup {"none"}, decision : SUBSET DecisionRow,
               review : SUBSET Nat, traced : BOOLEAN]
NoResponse == [status |-> "none", decision |-> {}, review |-> {}, traced |-> FALSE]

ReaderTypeOK ==
  /\ TypeOK
  /\ by \in [Requests -> Keys \cup {"none"}]
  /\ interrupts \in [Assessments -> Interrupt]
  /\ view \in [stage : {"idle", "row", "review"}, assessment : Assessments \cup {"none"},
               status : Statuses \cup {"none"}, decision : SUBSET DecisionRow]
  /\ shown \in [Assessments -> Response]
  /\ \A a \in Assessments : \A k \in DOMAIN trace[a] : trace[a][k].node \in Nodes

ReaderInit ==
  /\ Init
  /\ by = [q \in Requests |-> "none"]
  /\ interrupts = [a \in Assessments |-> NoInterrupt]
  /\ view = NoView
  /\ shown = [a \in Assessments |-> NoResponse]
  /\ trace = [a \in Assessments |-> <<>>]

-----------------------------------------------------------------------------
(* Who may call, app/api/auth.py.  A refused call, 401 or 403, reads and    *)
(* writes nothing.                                                          *)

\* A mutated check: every registered key is taken for a reviewer's.
AnyRegisteredKey(key, scope) == key \in DOMAIN Scopes

Authorised(key, scope) == key \in DOMAIN Scopes /\ scope \in Scopes[key]

Submit(a) ==
  /\ \E key \in Keys : Authorised(key, "caller")
  /\ create_assessment(a)
  /\ UNCHANGED <<by, interrupts, observer>>

Resume(q) ==
  /\ \E key \in Keys : Authorised(key, "reviewer") /\ by' = [by EXCEPT ![q] = key]
  /\ RequestResume(q)
  /\ UNCHANGED <<interrupts, observer>>

ResumeAccepted(q) ==
  /\ AcceptResume(q)
  /\ UNCHANGED <<by, interrupts, observer>>

-----------------------------------------------------------------------------
(* The interrupt, beside the checkpoint.                                    *)

Stored(w) ==
  [interrupts EXCEPT ![Case(w)] = [id |-> state[w].id, conflict_round |-> state[w].conflict_round]]

\* interrupt() has been called and its background write is through; the run has
\* not ended yet, and may still crash.
StoreInterrupt(w) ==
  /\ pc[w] = "interrupt" /\ answer[w] = "none"
  /\ interrupts' = Stored(w)
  /\ interrupts' # interrupts
  /\ UNCHANGED <<vars, by, observer>>

Pausing(w) == pc[w] = "interrupt" /\ answer[w] = "none" /\ pc'[w] = "done"

\* A mutated runtime that leaves the payload in the worker's memory.
InterruptNotStored(w) == interrupts' = interrupts

\* A run that pauses has its interrupt stored when it returns.
InterruptKept(w) == interrupts' = IF Pausing(w) THEN Stored(w) ELSE interrupts

Work(w) ==
  /\ WorkerStep(w) \/ Persist(w) \/ Crash(w)
  /\ InterruptKept(w)
  /\ UNCHANGED <<by, observer>>

TimePasses ==
  /\ \E j \in Jobs : JobAges(j)
  /\ UNCHANGED <<by, interrupts, observer>>

-----------------------------------------------------------------------------
(* GET /assessments/{id}.                                                   *)

\* A mutated handler that looks for the decision before the status.
DecisionFirst == <<"decisions", "assessments">>

\* get_assessment's two SELECTs, in order.
Tables == <<"assessments", "decisions">>

Fetched(v, a, table) ==
  IF table = "assessments" THEN [v EXCEPT !.status = status[a]]
  ELSE [v EXCEPT !.decision = decisions[a]]

\* A mutated response: a decision belongs to a completed case only.
DecisionIfCompleted(v) == IF v.status = "completed" THEN v.decision ELSE {}

DecisionOutput(v) == v.decision

\* The client drops the trace it has when it reads the case anew.
Respond(v, review) ==
  /\ shown' = [shown EXCEPT ![v.assessment] =
       [status |-> v.status, decision |-> DecisionOutput(v), review |-> review, traced |-> FALSE]]
  /\ trace' = [trace EXCEPT ![v.assessment] = <<>>]
  /\ view' = NoView

\* An unknown id is answered 404.
GetFirstRow(a) ==
  /\ \E key \in Keys : Authorised(key, "caller")
  /\ view = NoView
  /\ status[a] # "none"
  /\ view' = [Fetched(NoView, a, Tables[1]) EXCEPT !.stage = "row", !.assessment = a]
  /\ UNCHANGED <<vars, by, interrupts, shown, trace>>

GetSecondRow ==
  LET v == Fetched(view, view.assessment, Tables[2])
  IN  /\ view.stage = "row"
      /\ IF v.status = "escalated"
         THEN view' = [v EXCEPT !.stage = "review"] /\ UNCHANGED <<shown, trace>>
         ELSE Respond(v, {})
      /\ UNCHANGED <<vars, by, interrupts>>

\* aget_state: the interrupts of the tasks of the latest checkpoint.
PendingReview(a) ==
  IF checkpoints[a].id > 0 /\ interrupts[a].id = checkpoints[a].id
  THEN {interrupts[a].conflict_round} ELSE {}

GetReview ==
  /\ view.stage = "review"
  /\ Respond(view, PendingReview(view.assessment))
  /\ UNCHANGED <<vars, by, interrupts>>

(* GET /assessments/{id}/trace.                                             *)

\* A mutated query that leaves out what humans did.
AgentsOnly(a) == SelectSeq(Trail(a), LAMBDA e : e.node # "human_escalation")

\* One SELECT on the view assessment_trace, ORDER BY seq.
fetch_trace(a) == Trail(a)

GetTrace(a) ==
  /\ \E key \in Keys : Authorised(key, "caller")
  /\ status[a] # "none"
  /\ trace' = [trace EXCEPT ![a] = fetch_trace(a)]
  /\ shown' = [shown EXCEPT ![a].traced = TRUE]
  /\ UNCHANGED <<vars, by, interrupts, view>>

-----------------------------------------------------------------------------
ReaderNext ==
  \/ \E a \in Assessments : Submit(a)
  \/ \E q \in Requests : Resume(q) \/ ResumeAccepted(q)
  \/ \E w \in Workers : Work(w) \/ StoreInterrupt(w)
  \/ TimePasses
  \/ \E a \in Assessments : GetFirstRow(a) \/ GetTrace(a)
  \/ GetSecondRow \/ GetReview

ReaderSpec == ReaderInit /\ [][ReaderNext]_readerVars

-----------------------------------------------------------------------------
(* Properties.                                                              *)

\* A response that says "completed" carries the decision, though the two were
\* read at two moments.  (get_assessment reads the status first, and Finalize
\* commits both together; the transaction alone would not be enough.)
CompletedShowsDecision ==
  \A a \in Assessments : shown[a].status = "completed" => shown[a].decision # {}

\* What a client has been told is decided stays decided, in the same words,
\* whatever the status column says afterwards.  (A job delivered again, a
\* duplicate resume, or a closing update that fails, writes "in_progress" or
\* "failed" over a completed case; every later response must keep the decision.)
ShownDecisionIsFinal ==
  [][\A a \in Assessments :
       shown[a].decision # {} => shown'[a].decision = shown[a].decision]_readerVars

\* A client who sees a decision and then asks for the trace finds there why: the
\* closing row with that verdict, a reviewer's row exactly if the decision says
\* it was reviewed, and as many rejections as it counts rounds.
TraceExplainsDecision ==
  \A a \in Assessments : shown[a].traced => \A d \in shown[a].decision :
    /\ trace[a] # <<>>
    /\ trace[a][Len(trace[a])] = [node |-> "finalize_decision", outcome |-> d.verdict]
    /\ d.reviewed_by_human <=> Audit!AnswersIn(trace[a]) # {}
    /\ d.conflict_rounds = Audit!Rejections(trace[a])

\* A review once shown is not bypassed: the case gets no decision but one that a
\* human reviewed, and the dispute shown is the one on record.  (The payload
\* comes from the checkpointer, the decision and the dispute from the ledger.)
ShownReviewIsHonoured ==
  \A a \in Assessments : \A round \in shown[a].review :
    /\ round = Audit!Rejections(Trail(a))
    /\ \A d \in decisions[a] : d.reviewed_by_human

\* As long as no worker has crashed, a case at rest in "escalated" would be shown
\* with its review: nobody is asked to decide on nothing.
WaitingCaseShowsReview ==
  crashes = 0 =>
    \A a \in Assessments : Quiet(a) /\ status[a] = "escalated" => PendingReview(a) # {}

\* Every answer in the ledger was given, in these words and about this case, by
\* a caller whose key has the reviewer scope.  (The scope is checked in the API,
\* the answer travels through queue, worker and checkpoint.)
AnswersComeFromReviewers ==
  \A a \in Assessments : \A given \in Audit!AnswersIn(Trail(a)) :
    \E q \in Requests :
      /\ request[q].stage = "accepted"
      /\ request[q].assessment = a /\ request[q].decision = given
      /\ by[q] \in DOMAIN Scopes /\ "reviewer" \in Scopes[by[q]]
=============================================================================
