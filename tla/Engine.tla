------------------------------- MODULE Engine -------------------------------
(***************************************************************************)
(* The whole service: the API handlers of app/api/routes.py that write,    *)
(* the run queue, the worker loop of app/worker.py, the graph it drives    *)
(* with LangGraph's checkpointer, and the ledger.  Every database          *)
(* statement of a node that commits on its own is a step of its own, so    *)
(* workers interleave, and may crash, between any two of them.  What the   *)
(* agents compute is left to DecisionGraph: here the critic may reach any  *)
(* verdict and any node may raise.                                         *)
(***************************************************************************)
EXTENDS RunQueue, Ledger

CONSTANTS
  Workers,      \* worker replicas
  Requests,     \* calls of POST /resume
  MaxCrashes,   \* bound on worker crashes, for model checking
  SlowRuns,     \* may a live run outlast run_queue_stale_after_seconds?
  NodeFaults    \* may a node, or closing its job, raise (provider, data, database)?

ASSUME EngineAssumption ==
  /\ MaxCrashes \in Nat
  /\ SlowRuns \in BOOLEAN
  /\ NodeFaults \in BOOLEAN
  /\ "none" \notin Assessments

VARIABLES
  checkpoints,   \* per thread: the latest checkpoint in Postgres
  request,       \* per call of POST /resume: how far its handler is
  pc,            \* per worker: where run_once is
  job,           \* per worker: the run_queue row it holds, 0 for none
  state,         \* per worker: the graph state after its last completed node
  answer,        \* per worker: the resume value interrupt() would return
  created,       \* per thread: checkpoints created so far, saved or not
  crashes

workerVars == <<pc, job, state, answer>>
vars == <<run_queue, ledger, status, checkpoints, created, request, workerVars, crashes>>

-----------------------------------------------------------------------------
\* A checkpoint: the channels of AssessmentState the control depends on, the
\* node scheduled next, and the id, which LangGraph hands out in time order.
GraphState == [id : Nat, next : Positions, event_seq : Nat, conflict_round : Nat,
               verdict : Verdicts \cup {"none"}, human_decision : Answers \cup {"none"}]

\* A thread without a checkpoint: the values POST /assessments puts in the
\* initial state.
NoCheckpoint == [id |-> 0, next |-> "supervisor", event_seq |-> 0, conflict_round |-> 0,
                 verdict |-> "none", human_decision |-> "none"]

\* Worker positions: between two jobs; before ainvoke; before a node; inside
\* one, after its first statement; after it, closing the job.
InNode     == {"log", "interrupt", "conflict", "resolve"}
InRun      == {"node"} \cup InNode
PcValues   == {"poll", "invoke", "done", "failed", "case"} \cup InRun
Stages     == {"idle", "checked", "accepted"}

NoRequest == [stage |-> "idle", assessment |-> "none", decision |-> "none"]

TypeOK ==
  /\ RunQueueTypeOK
  /\ LedgerTypeOK
  /\ CaseFileTypeOK
  /\ checkpoints \in [Assessments -> GraphState]
  /\ request \in [Requests -> [stage : Stages, assessment : Assessments \cup {"none"},
                               decision : Answers \cup {"none"}]]
  /\ pc \in [Workers -> PcValues]
  /\ job \in [Workers -> Nat]
  /\ \A w \in Workers : IF pc[w] = "poll" THEN job[w] = 0 ELSE job[w] \in Jobs
  /\ state \in [Workers -> GraphState]
  /\ answer \in [Workers -> Answers \cup {"none"}]
  /\ created \in [Assessments -> Nat]
  /\ crashes \in Nat

Init ==
  /\ run_queue = <<>>
  /\ LedgerInit
  /\ CaseFileInit
  /\ checkpoints = [a \in Assessments |-> NoCheckpoint]
  /\ request = [q \in Requests |-> NoRequest]
  /\ pc = [w \in Workers |-> "poll"]
  /\ job = [w \in Workers |-> 0]
  /\ state = [w \in Workers |-> NoCheckpoint]
  /\ answer = [w \in Workers |-> "none"]
  /\ created = [a \in Assessments |-> 0]
  /\ crashes = 0

-----------------------------------------------------------------------------
(* The API, app/api/routes.py.                                              *)

\* One transaction: the case, its thread id, and the start job.
create_assessment(a) ==
  /\ InsertAssessment(a)
  /\ Enqueue(a, "start", "none")
  /\ UNCHANGED <<ledger, checkpoints, created, request, workerVars, crashes>>

\* resume_assessment reads the status.  Any other status than 'escalated' is
\* answered 409 and leaves no trace.
RequestResume(q) ==
  /\ request[q].stage = "idle"
  /\ \E a \in Assessments, decision \in Answers :
       /\ status[a] = "escalated"
       /\ request' = [request EXCEPT ![q] =
            [stage |-> "checked", assessment |-> a, decision |-> decision]]
  /\ UNCHANGED <<run_queue, ledger, status, checkpoints, created, workerVars, crashes>>

\* Then, in a second statement, it inserts the job.  The status is left alone.
AcceptResume(q) ==
  /\ request[q].stage = "checked"
  /\ Enqueue(request[q].assessment, "resume", request[q].decision)
  /\ request' = [request EXCEPT ![q].stage = "accepted"]
  /\ UNCHANGED <<ledger, status, checkpoints, created, workerVars, crashes>>

-----------------------------------------------------------------------------
(* The worker loop, app/worker.py.                                          *)

Case(w) == run_queue[job[w]].assessment

\* Back to the top of run_worker_loop, nothing held.
Idle(w) ==
  /\ pc' = [pc EXCEPT ![w] = "poll"]
  /\ job' = [job EXCEPT ![w] = 0]
  /\ state' = [state EXCEPT ![w] = NoCheckpoint]
  /\ answer' = [answer EXCEPT ![w] = "none"]

Reclaim(w) ==
  /\ pc[w] = "poll"
  /\ ReclaimStale
  /\ UNCHANGED <<ledger, status, checkpoints, created, request, workerVars, crashes>>

ClaimOneJob(w) ==
  /\ pc[w] = "poll"
  /\ \E j \in Jobs : Claim(j) /\ job' = [job EXCEPT ![w] = j]
  /\ pc' = [pc EXCEPT ![w] = "invoke"]
  /\ UNCHANGED <<ledger, status, checkpoints, created, request, state, answer, crashes>>

\* graph.ainvoke(initial state): the input is written over whatever checkpoint
\* the thread has, so the graph starts again at its entry point.
InvokeStart(w) ==
  LET a == Case(w)
  IN  /\ pc[w] = "invoke" /\ run_queue[job[w]].kind = "start"
      /\ created' = [created EXCEPT ![a] = @ + 1]
      /\ state' = [state EXCEPT ![w] =
           [checkpoints[a] EXCEPT !.id = created[a] + 1, !.next = "supervisor",
                                  !.event_seq = 0, !.conflict_round = 0]]
      /\ pc' = [pc EXCEPT ![w] = "node"]
      /\ UNCHANGED <<run_queue, ledger, status, checkpoints, request, job, answer, crashes>>

\* graph.ainvoke(Command(resume=...)): the latest checkpoint's next node runs,
\* and it alone can receive the answer.  A finished thread has no next node;
\* a thread without a checkpoint makes the call raise.
InvokeResume(w) ==
  LET a == Case(w)
  IN  /\ pc[w] = "invoke" /\ run_queue[job[w]].kind = "resume"
      /\ state' = [state EXCEPT ![w] = checkpoints[a]]
      /\ answer' = [answer EXCEPT ![w] = run_queue[job[w]].payload]
      /\ pc' = [pc EXCEPT ![w] = IF checkpoints[a] = NoCheckpoint THEN "failed"
                                 ELSE IF checkpoints[a].next = "end" THEN "done"
                                 ELSE "node"]
      /\ UNCHANGED <<run_queue, ledger, status, checkpoints, created, request, job, crashes>>

\* run_once after a run that returned, and after one that raised: two
\* statements, each committing on its own.
MarkDone(w) ==
  /\ pc[w] = "done"
  /\ Settle(job[w], "done")
  /\ Idle(w)
  /\ UNCHANGED <<ledger, status, checkpoints, created, request, crashes>>

\* ainvoke raises and saves no more of the run, its checkpointer failing to read
\* or to write; or the closing update raises, which is inside run_once's try
\* too, and a run that ended well is handled as a failed one.
JobRaises(w) ==
  /\ NodeFaults
  /\ pc[w] \in {"invoke", "done"} \cup InRun
  /\ pc' = [pc EXCEPT ![w] = "failed"]
  /\ UNCHANGED <<run_queue, ledger, status, checkpoints, created, request, job, state,
                 answer, crashes>>

MarkJobFailed(w) ==
  /\ pc[w] = "failed"
  /\ Settle(job[w], "failed")
  /\ pc' = [pc EXCEPT ![w] = "case"]
  /\ UNCHANGED <<ledger, status, checkpoints, created, request, job, state, answer, crashes>>

\* A mutated handler: the job is marked failed, the case is not.
CaseLeftAsItIs(w) ==
  /\ pc[w] = "case"
  /\ Idle(w)
  /\ UNCHANGED <<run_queue, ledger, status, checkpoints, created, request, crashes>>

MarkCaseFailed(w) ==
  /\ pc[w] = "case"
  /\ update_assessment_status(Case(w), "failed")
  /\ Idle(w)
  /\ UNCHANGED <<run_queue, ledger, checkpoints, created, request, crashes>>

\* The process dies and a replica is started in its place: what was only in
\* memory is gone, what was committed stays, the job stays claimed.
Crash(w) ==
  /\ pc[w] # "poll"
  /\ crashes < MaxCrashes
  /\ crashes' = crashes + 1
  /\ Idle(w)
  /\ UNCHANGED <<run_queue, ledger, status, checkpoints, created, request>>

\* Time passes over a claim; without SlowRuns every live run is faster.
JobAges(j) ==
  /\ SlowRuns \/ \A w \in Workers : job[w] # j
  /\ ClaimAges(j)
  /\ UNCHANGED <<ledger, status, checkpoints, created, request, workerVars, crashes>>

-----------------------------------------------------------------------------
(* The run of the graph: app/agents/nodes.py under LangGraph's loop.        *)

At(w, node) == pc[w] = "node" /\ state[w].next = node

\* The background write of the latest checkpoint reaches Postgres.  A reader
\* takes the checkpoint with the highest id.
Saved(w) ==
  IF state[w].id > checkpoints[Case(w)].id
  THEN [checkpoints EXCEPT ![Case(w)] = state[w]]
  ELSE checkpoints

Persist(w) ==
  /\ pc[w] \in InRun
  /\ state[w].id > checkpoints[Case(w)].id
  /\ checkpoints' = Saved(w)
  /\ UNCHANGED <<run_queue, ledger, status, created, request, workerVars, crashes>>

\* The node returned, its update is merged, the router has chosen: a new
\* checkpoint is in memory and on its way.
CompleteNode(w, update) ==
  LET a == Case(w)
  IN  /\ created' = [created EXCEPT ![a] = @ + 1]
      /\ state' = [state EXCEPT ![w] = [update EXCEPT !.id = created[a] + 1]]
      /\ answer' = [answer EXCEPT ![w] = "none"]
      /\ pc' = [pc EXCEPT ![w] = "node"]
      /\ UNCHANGED <<checkpoints, job>>

\* ainvoke returns, or raises, once its background writes are through.
EndRun(w, to) ==
  /\ checkpoints' = Saved(w)
  /\ pc' = [pc EXCEPT ![w] = to]
  /\ UNCHANGED <<created, job, state, answer>>

GraphEnds(w) ==
  /\ At(w, "end")
  /\ EndRun(w, "done")
  /\ UNCHANGED <<run_queue, ledger, status, request, crashes>>

\* The event_type a node gives its row, the critic's rejections no other than its
\* approvals.
EventTypeOf ==
  [supervisor        |-> "routing_decision",
   data_engineer     |-> "tool_call",
   financial_analyst |-> "tool_call",
   risk_critic       |-> "agent_call",
   human_escalation  |-> "human_decision",
   finalize_decision |-> "final_decision"]

NextSeq(w) == state[w].event_seq + 1

\* _log: the next ledger row of the run.
Log(w, node, outcome) == RecordEvent(Case(w), NextSeq(w), EventTypeOf[node], node, outcome)

Returned(w, to) == [state[w] EXCEPT !.next = to, !.event_seq = @ + 1]

\* supervisor_node: the status in one statement, the event in the next.
SupervisorStarts(w) ==
  /\ At(w, "supervisor")
  /\ update_assessment_status(Case(w), "in_progress")
  /\ pc' = [pc EXCEPT ![w] = "log"]
  /\ UNCHANGED <<run_queue, ledger, checkpoints, created, request, job, state, answer, crashes>>

SupervisorLogs(w) ==
  /\ pc[w] = "log" /\ state[w].next = "supervisor"
  /\ Log(w, "supervisor", "none")
  /\ CompleteNode(w, Returned(w, EdgeAfter.supervisor))
  /\ UNCHANGED <<run_queue, conflicts, decisions, status, request, crashes>>

data_engineer_node(w) ==
  /\ At(w, "data_engineer")
  /\ Log(w, "data_engineer", "none")
  /\ CompleteNode(w, Returned(w, EdgeAfter.data_engineer))
  /\ UNCHANGED <<run_queue, conflicts, decisions, status, request, crashes>>

financial_analyst_node(w) ==
  /\ At(w, "financial_analyst")
  /\ Log(w, "financial_analyst", "none")
  /\ CompleteNode(w, Returned(w, EdgeAfter.financial_analyst))
  /\ UNCHANGED <<run_queue, conflicts, decisions, status, request, crashes>>

\* risk_critic_node when it does not reject: the event is its only write.
CriticPasses(w) ==
  /\ At(w, "risk_critic")
  /\ \E verdict \in {"approve", "escalate"} :
       /\ Log(w, "risk_critic", verdict)
       /\ CompleteNode(w, [Returned(w, route_after_risk_critic(verdict, state[w].conflict_round))
                             EXCEPT !.verdict = verdict])
  /\ UNCHANGED <<run_queue, conflicts, decisions, status, request, crashes>>

\* When it rejects: the event, then the conflict row, then its resolution.
CriticRejects(w) ==
  /\ At(w, "risk_critic")
  /\ Log(w, "risk_critic", "reject")
  /\ pc' = [pc EXCEPT ![w] = "conflict"]
  /\ UNCHANGED <<run_queue, conflicts, decisions, status, checkpoints, created, request,
                 job, state, answer, crashes>>

\* A mutated count: the round of this rejection is not counted.
RoundNotCounted(w) == state[w].conflict_round

NewRound(w) == state[w].conflict_round + 1

\* A mutated node for which the index is dispensable: its insert fails, the
\* exception is swallowed, and the run goes on.
CriticGoesOnUnindexed(w) ==
  /\ pc[w] = "conflict"
  /\ CompleteNode(w, [Returned(w, route_after_risk_critic("reject", NewRound(w)))
                        EXCEPT !.verdict = "reject", !.conflict_round = NewRound(w)])
  /\ UNCHANGED <<run_queue, ledger, status, request, crashes>>

CriticOpensConflict(w) ==
  /\ pc[w] = "conflict"
  /\ record_conflict(Case(w), NextSeq(w), NewRound(w))
  /\ pc' = [pc EXCEPT ![w] = "resolve"]
  /\ UNCHANGED <<run_queue, audit_events, decisions, status, checkpoints, created, request,
                 job, state, answer, crashes>>

CriticResolves(w) ==
  /\ pc[w] = "resolve"
  /\ resolve_conflict(Case(w), NextSeq(w), ConflictResolution(NewRound(w)))
  /\ CompleteNode(w, [Returned(w, route_after_risk_critic("reject", NewRound(w)))
                        EXCEPT !.verdict = "reject", !.conflict_round = NewRound(w)])
  /\ UNCHANGED <<run_queue, audit_events, decisions, status, request, crashes>>

\* human_escalation_node up to interrupt(), on every execution.
EscalationStarts(w) ==
  /\ At(w, "human_escalation")
  /\ update_assessment_status(Case(w), "escalated")
  /\ pc' = [pc EXCEPT ![w] = "interrupt"]
  /\ UNCHANGED <<run_queue, ledger, checkpoints, created, request, job, state, answer, crashes>>

\* interrupt() without an answer ends the run, the node still to do.
EscalationPauses(w) ==
  /\ pc[w] = "interrupt" /\ answer[w] = "none"
  /\ EndRun(w, "done")
  /\ UNCHANGED <<run_queue, ledger, status, request, crashes>>

\* With an answer it returns; status and event are again two statements.
EscalationResumes(w) ==
  /\ pc[w] = "interrupt" /\ answer[w] # "none"
  /\ update_assessment_status(Case(w), "in_progress")
  /\ pc' = [pc EXCEPT ![w] = "log"]
  /\ UNCHANGED <<run_queue, ledger, checkpoints, created, request, job, state, answer, crashes>>

\* A mutated node: the answer is logged but not returned to the state.
EscalationForgetsAnswer(w) ==
  /\ pc[w] = "log" /\ state[w].next = "human_escalation"
  /\ Log(w, "human_escalation", answer[w])
  /\ CompleteNode(w, Returned(w, EdgeAfter.human_escalation))
  /\ UNCHANGED <<run_queue, conflicts, decisions, status, request, crashes>>

EscalationLogs(w) ==
  /\ pc[w] = "log" /\ state[w].next = "human_escalation"
  /\ Log(w, "human_escalation", answer[w])
  /\ CompleteNode(w, [Returned(w, EdgeAfter.human_escalation)
                        EXCEPT !.human_decision = answer[w]])
  /\ UNCHANGED <<run_queue, conflicts, decisions, status, request, crashes>>

\* finalize_decision_node: event, decision and status in one transaction.
finalize_decision_node(w) ==
  LET human == state[w].human_decision
  IN  /\ At(w, "finalize_decision")
      /\ Log(w, "finalize_decision", PublishedVerdict(human))
      /\ record_decision(Case(w), [verdict           |-> PublishedVerdict(human),
                                   reviewed_by_human |-> human # "none",
                                   conflict_rounds   |-> state[w].conflict_round])
      /\ update_assessment_status(Case(w), "completed")
      /\ CompleteNode(w, Returned(w, EdgeAfter.finalize_decision))
      /\ UNCHANGED <<run_queue, conflicts, request, crashes>>

\* The statement the node is at is the insert of its event.
AtInsert(w) ==
  \/ pc[w] = "log"
  \/ At(w, "data_engineer") \/ At(w, "financial_analyst") \/ At(w, "risk_critic")
  \/ At(w, "finalize_decision")

\* The row exists already: UniqueViolationError ends the run.
SeqTaken(w) ==
  /\ AtInsert(w)
  /\ ~SeqFree(Case(w), NextSeq(w))
  /\ EndRun(w, "failed")
  /\ UNCHANGED <<run_queue, ledger, status, request, crashes>>

\* Any other exception: the provider, the data, a lost connection to the tables.
NodeRaises(w) ==
  /\ NodeFaults
  /\ pc[w] \in InRun /\ ~At(w, "end")
  /\ EndRun(w, "failed")
  /\ UNCHANGED <<run_queue, ledger, status, request, crashes>>

-----------------------------------------------------------------------------
RunStep(w) ==
  \/ SupervisorStarts(w) \/ SupervisorLogs(w)
  \/ data_engineer_node(w) \/ financial_analyst_node(w)
  \/ CriticPasses(w) \/ CriticRejects(w) \/ CriticOpensConflict(w) \/ CriticResolves(w)
  \/ EscalationStarts(w) \/ EscalationPauses(w) \/ EscalationResumes(w) \/ EscalationLogs(w)
  \/ finalize_decision_node(w) \/ GraphEnds(w)
  \/ SeqTaken(w) \/ NodeRaises(w)

WorkerStep(w) ==
  \/ Reclaim(w) \/ ClaimOneJob(w)
  \/ InvokeStart(w) \/ InvokeResume(w)
  \/ RunStep(w)
  \/ MarkDone(w) \/ JobRaises(w) \/ MarkJobFailed(w) \/ MarkCaseFailed(w)

Next ==
  \/ \E a \in Assessments : create_assessment(a)
  \/ \E q \in Requests : RequestResume(q) \/ AcceptResume(q)
  \/ \E w \in Workers : WorkerStep(w) \/ Persist(w) \/ Crash(w)
  \/ \E j \in Jobs : JobAges(j)

Spec == Init /\ [][Next]_vars

\* Workers keep polling and working, and time passes.  Nothing obliges callers
\* to submit, reviewers to answer, or a background write to beat a crash.
Fairness ==
  /\ \A w \in Workers : WF_vars(WorkerStep(w))
  /\ WF_vars(\E j \in Jobs : JobAges(j))

FairSpec == Spec /\ Fairness

-----------------------------------------------------------------------------
(* Properties.                                                              *)

\* What an auditor reads of a case, in seq order.
Trail(a) ==
  [k \in 1..Cardinality(Recorded(a)) |->
     [node |-> audit_events[a][k].node, outcome |-> audit_events[a][k].outcome]]

Audit == INSTANCE AuditTrail WITH trails <- [a \in Assessments |-> Trail(a)]

\* The ledger implements AuditTrail: for every case it only ever grows by the
\* next row of one legal walk through the graph.  (Restarted runs, duplicate
\* resumes and crashes repeat nodes; UNIQUE (assessment_id, seq) and the
\* numbering by event_seq in _log must keep the repetitions out.)
LedgerIsLegalWalk == Audit!Spec

\* Every row's prev_hash is the record_hash of the row numbered one less, down
\* to the genesis row, with no number missing: the chain audit_events_chain_hash
\* builds from "the last row" agrees with the numbers the nodes assign.
ChainUnbroken ==
  \A a \in Assessments : \A k \in Recorded(a) :
    /\ k > 0
    /\ audit_events[a][k].prev = k - 1
    /\ k > 1 => k - 1 \in Recorded(a)

\* A checkpoint past the supervisor is the summary of a prefix of the ledger:
\* the number of its rows, the rejections among them, the reviewer's answer and
\* the node the walk takes next.  (state returned by the nodes, and the writes
\* of the checkpointer, against the rows of _log.)
CheckpointsReplayLedger ==
  \A a \in Assessments :
    LET c == checkpoints[a]
        prefix == SubSeq(Trail(a), 1, c.event_seq)
    IN  c.event_seq > 0 =>
          /\ c.event_seq \in Recorded(a)
          /\ c.next = Audit!Expected(prefix)
          /\ c.conflict_round = Audit!Rejections(prefix)
          /\ Audit!AnswersIn(prefix) = (IF c.human_decision = "none" THEN {}
                                        ELSE {c.human_decision})

\* A decision row and a closing ledger row come together, and the decision is
\* the ledger's: the same verdict, reviewed by a human exactly if a reviewer's
\* answer is on record, as many conflict rounds as rejections.
DecisionMatchesLedger ==
  \A a \in Assessments :
    LET closing == {k \in Recorded(a) : audit_events[a][k].node = "finalize_decision"}
    IN  /\ decisions[a] # {} <=> closing # {}
        /\ \A d \in decisions[a] :
             /\ \A k \in closing : audit_events[a][k].outcome = d.verdict
             /\ d.reviewed_by_human <=> Audit!AnswersIn(Trail(a)) # {}
             /\ d.conflict_rounds = Audit!Rejections(Trail(a))

\* The rows by which the critic rejects.
Disputes(a) ==
  {k \in Recorded(a) : audit_events[a][k].node = "risk_critic"
                        /\ audit_events[a][k].outcome = "reject"}

\* A dispute has its conflicts row, resolved as the row's round calls for.
Indexed(a, k) ==
  \E c \in conflicts[a] : c.event = k /\ c.resolution = ConflictResolution(c.round)

\* The conflicts table is an index over the ledger's rejections: each row refers
\* to one of them, no two to the same, and the n-th rejection is round n; and no
\* case gets a row after a rejection before that is indexed, its resolution the
\* one its round calls for.  (The rejection, its index row and the resolution
\* are three commits, and other runs of the case go on between them.)
ConflictsIndexRejections ==
  \A a \in Assessments :
    /\ \A c \in conflicts[a] :
         /\ c.event \in Disputes(a)
         /\ c.round = Audit!Rejections(SubSeq(Trail(a), 1, c.event))
         /\ \A d \in conflicts[a] : d.event = c.event => d = c
    /\ \A k \in Disputes(a) : k + 1 \in Recorded(a) => Indexed(a, k)

\* "A reader can never observe a completed assessment with no matching
\* decision" (nodes.py, Finalize), whatever other runs of the case do.
CompletedHasDecision ==
  \A a \in Assessments : status[a] = "completed" => decisions[a] # {}

\* No row of the queue is worked on by two workers.
JobHasOneRunner ==
  \A v, w \in Workers : v # w /\ job[v] = job[w] => job[w] = 0

\* Nothing more will happen to the case unless someone asks for it.
Quiet(a) ==
  /\ \A j \in Jobs : run_queue[j].assessment = a => run_queue[j].status \in {"done", "failed"}
  /\ \A w \in Workers : job[w] # 0 => Case(w) # a

\* As long as no worker has crashed, a case at rest shows a status the caller
\* can act on, and an escalated one is really waiting in interrupt().
QuietCaseIsSettled ==
  crashes = 0 =>
    \A a \in Assessments : Quiet(a) =>
      /\ status[a] \notin {"pending", "in_progress"}
      /\ status[a] = "escalated" => checkpoints[a].next = "human_escalation"
      /\ status[a] = "completed" => checkpoints[a].next = "end"

\* As long as no worker has crashed, a run that fails between a rejection and the
\* resolution of its conflict is seen to have failed: a case at rest with a
\* dispute that is missing from the conflicts table, or pending there, does not
\* wait for a reviewer and is not completed.
UnindexedDisputeFailsCase ==
  crashes = 0 =>
    \A a \in Assessments :
      Quiet(a) /\ (\E k \in Disputes(a) : ~Indexed(a, k)) => status[a] = "failed"

\* Every job is closed, done or failed, whatever worker crashes on it, as long
\* as crashes stop: the claim, the reclaim and run_once's two endings.
JobsSettle ==
  \A j \in 1..(Cardinality(Assessments) + Cardinality(Requests)) :
    j \in Jobs ~> j \in Jobs /\ run_queue[j].status \in {"done", "failed"}

-----------------------------------------------------------------------------
(* What comments in the code say, and the code does not do.                 *)

\* worker.py, of a crash: the next worker "resumes the graph from its last
\* checkpoint -- so a crash loses at most the work since the last completed
\* node, never the whole run".  Where nothing else fails, a crash then never
\* fails the case.  (A reclaimed start job starts the graph anew, and its first
\* _log meets the row the crashed run has left.)
CrashIsRecovered == \A a \in Assessments : status[a] # "failed"

\* nodes.py, Finalize: "a reader can never observe a 'completed' assessment
\* with no matching decision, or vice versa".  This is the vice versa, and
\* asked only of a case at rest.
DecisionImpliesCompleted ==
  \A a \in Assessments : decisions[a] # {} /\ Quiet(a) => status[a] = "completed"

\* worker.py, run_once: "Mark both the job and the case failed rather than
\* leaving either silently stuck."  A case whose job failed, and for which
\* nothing is left to run, is not shown as still under way.
NoSilentlyStuckCase ==
  \A j \in Jobs :
    LET a == run_queue[j].assessment
    IN  run_queue[j].status = "failed" /\ Quiet(a) => status[a] # "in_progress"

\* schema.sql, of conflicts: "Each row also has a matching event_type =
\* 'conflict' row in audit_events".
ConflictHasItsEvent ==
  \A a \in Assessments : conflicts[a] # {} =>
    \E k \in Recorded(a) : audit_events[a][k].event_type = "conflict"
=============================================================================
