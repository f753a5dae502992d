---------------------------- MODULE ReaderProofs ----------------------------
(***************************************************************************)
(* Proofs about Reader: what the service shows, for every set of cases,    *)
(* workers, requests and keys, and any number of crashes.                  *)
(*                                                                         *)
(* A step of Reader is a step of Engine or changes none of its variables,  *)
(* so EngineInv and ReplayInv hold here too.  What is shown was read       *)
(* earlier, in two or three reads, so the invariants here say that what a  *)
(* GET has read, and what a response has said, has not been overtaken.     *)
(***************************************************************************)
EXTENDS Reader, LedgerProofs

USE RetriesAssumption, EngineAssumption, ScopesAssumption

-----------------------------------------------------------------------------
\* What is around the engine leaves it as it was, or lets it take one step.
LEMMA ReaderStepIsEngineStep == [ReaderNext]_readerVars => [Next]_vars
BY DEF ReaderNext, readerVars, Next, vars, Submit, Resume, ResumeAccepted, Work, StoreInterrupt,
       TimePasses, GetFirstRow, GetTrace, GetSecondRow, GetReview

\* Every behaviour of the service with its readers is one of the engine.
LEMMA ReaderRunsEngine == ReaderSpec => Spec
<1>1. ReaderInit => Init
  BY DEF ReaderInit
<1> QED
  BY <1>1, ReaderStepIsEngineStep, PTL DEF ReaderSpec, Spec

\* The engine is not disturbed by those who watch it: its invariants, and the
\* ledger's, hold in every state of the service with its readers.
THEOREM ReaderKeepsEngine == ReaderSpec => [](EngineInv /\ ReplayInv /\ CompletedHasDecision)
BY ReaderRunsEngine, EngineInvariant, ReplayInvariant, CompletedCarriesDecision, PTL

-----------------------------------------------------------------------------
(* Types.                                                                   *)

View == [stage : {"idle", "row", "review"}, assessment : Assessments \cup {"none"},
         status : Statuses \cup {"none"}, decision : SUBSET DecisionRow]

ReaderTypes ==
  /\ by \in [Requests -> Keys \cup {"none"}]
  /\ interrupts \in [Assessments -> Interrupt]
  /\ view \in View
  /\ view.stage # "idle" => view.assessment \in Assessments
  /\ shown \in [Assessments -> Response]
  /\ trace \in [Assessments -> Seq(TrailRow)]

\* The ledger as an auditor reads it is a trail of rows.
LEMMA TrailType ==
  ASSUME EngineInv, NEW a \in Assessments
  PROVE  Trail(a) \in Seq(TrailRow)
BY RowsLemma, PrefixLemma

\* The steps of a client, with what they read where: a response of a status, a
\* decision and perhaps a review,
Shows(a, response) ==
  /\ shown' = [shown EXCEPT ![a] = response]
  /\ trace' = [trace EXCEPT ![a] = <<>>]
  /\ view' = NoView

\* the row of assessments,
ReadsRow(a) ==
  /\ view' = [stage |-> "row", assessment |-> a, status |-> status[a], decision |-> {}]
  /\ UNCHANGED <<shown, trace>>

\* that of decisions, with a response unless a review is still to be read,
ReadsDecision(a) ==
  /\ view.stage = "row" /\ view.assessment = a
  /\ \/ /\ view.status = "escalated"
        /\ view' = [stage |-> "review", assessment |-> a, status |-> "escalated",
                    decision |-> decisions[a]]
        /\ UNCHANGED <<shown, trace>>
     \/ /\ view.status # "escalated"
        /\ Shows(a, [status |-> view.status, decision |-> decisions[a], review |-> {},
                     traced |-> FALSE])

\* the interrupts of the thread,
ReadsReview(a) ==
  /\ view.stage = "review" /\ view.assessment = a
  /\ Shows(a, [status |-> view.status, decision |-> view.decision, review |-> PendingReview(a),
               traced |-> FALSE])

\* and the trace.
ReadsTrace(a) ==
  /\ trace' = [trace EXCEPT ![a] = Trail(a)]
  /\ shown' = [shown EXCEPT ![a].traced = TRUE]
  /\ UNCHANGED view

\* A step is one of the engine and those who write to it, which the client does
\* not notice, or one of the client, which leaves the service as it is.
LEMMA ClientSteps ==
  ASSUME EngineInv, ReaderTypes, [ReaderNext]_readerVars
  PROVE  \/ UNCHANGED observer
         \/ /\ UNCHANGED <<vars, by, interrupts>>
            /\ \E a \in Assessments : \/ ReadsRow(a) \/ ReadsDecision(a) \/ ReadsReview(a)
                                      \/ ReadsTrace(a)
<1>1. view \in View /\ (view.stage # "idle" => view.assessment \in Assessments)
  BY DEF ReaderTypes
<1>2. ASSUME NEW a \in Assessments, GetFirstRow(a)
      PROVE  ReadsRow(a) /\ UNCHANGED <<vars, by, interrupts>>
  <2>1. view' = [[NoView EXCEPT !.status = status[a]] EXCEPT !.stage = "row", !.assessment = a]
    BY <1>2 DEF GetFirstRow, Fetched, Tables
  <2> QED
    BY <1>2, <2>1 DEF GetFirstRow, ReadsRow, NoView
<1>3. CASE GetSecondRow
  <2>1. PICK a \in Assessments : a = view.assessment /\ view.stage = "row"
    BY <1>1, <1>3 DEF GetSecondRow
  <2>2. PICK v : v = [view EXCEPT !.decision = decisions[a]]
    OBVIOUS
  <2>3. IF v.status = "escalated"
        THEN view' = [v EXCEPT !.stage = "review"] /\ UNCHANGED <<shown, trace>>
        ELSE Respond(v, {})
    BY <1>3, <2>1, <2>2 DEF GetSecondRow, Fetched, Tables
  <2>4. /\ v.status = view.status /\ v.assessment = a /\ v.decision = decisions[a]
        /\ [v EXCEPT !.stage = "review"] =
             [stage |-> "review", assessment |-> a, status |-> view.status, decision |-> decisions[a]]
    <3>1. view = [stage |-> "row", assessment |-> a, status |-> view.status,
                  decision |-> view.decision]
      BY <1>1, <2>1 DEF View
    <3>2. v = [stage |-> "row", assessment |-> a, status |-> view.status,
               decision |-> decisions[a]]
      BY <2>2, <3>1
    <3> QED
      BY <3>2
  <2>5. ReadsDecision(a)
    BY <2>1, <2>3, <2>4 DEF ReadsDecision, Respond, DecisionOutput, Shows
  <2> QED
    BY <1>3, <2>5 DEF GetSecondRow
<1>4. CASE GetReview
  BY <1>1, <1>4 DEF GetReview, Respond, DecisionOutput, ReadsReview, Shows
<1>5. ASSUME NEW a \in Assessments, GetTrace(a)
      PROVE  ReadsTrace(a) /\ UNCHANGED <<vars, by, interrupts>>
  BY <1>5 DEF GetTrace, fetch_trace, ReadsTrace
<1> QED
  BY <1>2, <1>3, <1>4, <1>5
  DEF ReaderNext, readerVars, observer, Submit, Resume, ResumeAccepted, Work, StoreInterrupt, TimePasses

\* What the checkpointer's interrupts look like to aget_state.
LEMMA PendingReviewType ==
  ASSUME ReaderTypes, NEW a \in Assessments
  PROVE  PendingReview(a) \in SUBSET Nat
BY DEF ReaderTypes, Interrupt, PendingReview

\* Stored interrupts have their type.
LEMMA InterruptTypes ==
  ASSUME EngineInv, ReaderTypes, [ReaderNext]_readerVars
  PROVE  interrupts' \in [Assessments -> Interrupt]
<1>1. interrupts \in [Assessments -> Interrupt]
  BY DEF ReaderTypes
<1>2. ASSUME NEW w \in Workers, pc[w] = "interrupt"
      PROVE  Stored(w) \in [Assessments -> Interrupt]
  <2>1. Case(w) \in Assessments /\ state[w] \in GraphState
    BY <1>2, CaseLemma, PartsLemma DEF WorkerTypes
  <2>2. [id |-> state[w].id, conflict_round |-> state[w].conflict_round] \in Interrupt
    BY <2>1 DEF GraphState, Interrupt
  <2> QED
    BY <1>1, <2>1, <2>2 DEF Stored
<1>3. \/ UNCHANGED interrupts
      \/ \E w \in Workers : pc[w] = "interrupt" /\ interrupts' = Stored(w)
  BY DEF ReaderNext, readerVars, Submit, Resume, ResumeAccepted, Work, StoreInterrupt, TimePasses,
         GetFirstRow, GetTrace, GetSecondRow, GetReview, InterruptKept, Pausing
<1> QED
  BY <1>1, <1>2, <1>3

\* The reads of a GET and its responses have their types.
LEMMA StepReaderTypes ==
  ASSUME EngineInv, ReaderTypes, [ReaderNext]_readerVars
  PROVE  ReaderTypes'
<1>1. by' \in [Requests -> Keys \cup {"none"}]
  <2>1. by \in [Requests -> Keys \cup {"none"}]
    BY DEF ReaderTypes
  <2>2. UNCHANGED by \/ \E q \in Requests, key \in Keys : by' = [by EXCEPT ![q] = key]
    BY DEF ReaderNext, readerVars, Submit, Resume, ResumeAccepted, Work, StoreInterrupt,
           TimePasses, GetFirstRow, GetTrace, GetSecondRow, GetReview
  <2> QED
    BY <2>1, <2>2
<1>2. interrupts' \in [Assessments -> Interrupt]
  BY InterruptTypes
<1>3. /\ view \in View /\ (view.stage # "idle" => view.assessment \in Assessments)
      /\ shown \in [Assessments -> Response] /\ trace \in [Assessments -> Seq(TrailRow)]
      /\ status \in [Assessments -> Statuses \cup {"none"}]
      /\ decisions \in [Assessments -> SUBSET DecisionRow]
  BY DEF ReaderTypes, EngineInv, TypeOK, CaseFileTypeOK, LedgerTypeOK
<1>4. CASE UNCHANGED observer
  BY <1>1, <1>2, <1>3, <1>4 DEF ReaderTypes, observer
<1>5. ASSUME NEW a \in Assessments, NEW response \in Response, Shows(a, response)
      PROVE  ReaderTypes'
  <2>1. NoView \in View /\ <<>> \in Seq(TrailRow) /\ NoView.stage = "idle"
    BY DEF NoView, View
  <2> QED
    BY <1>1, <1>2, <1>3, <1>5, <2>1 DEF ReaderTypes, Shows
<1>6. ASSUME NEW a \in Assessments, ReadsRow(a) PROVE ReaderTypes'
  <2>1. view' \in View /\ view'.assessment = a
    BY <1>3, <1>6 DEF ReadsRow, View
  <2> QED
    BY <1>1, <1>2, <1>3, <1>6, <2>1 DEF ReaderTypes, ReadsRow
<1>7. ASSUME NEW a \in Assessments, ReadsDecision(a) PROVE ReaderTypes'
  <2>1. [status |-> view.status, decision |-> decisions[a], review |-> {}, traced |-> FALSE] \in Response
    BY <1>3 DEF View, Response
  <2>2. [stage |-> "review", assessment |-> a, status |-> "escalated", decision |-> decisions[a]] \in View
    BY <1>3 DEF View, Statuses
  <2> QED
    BY <1>1, <1>2, <1>3, <1>5, <1>7, <2>1, <2>2 DEF ReaderTypes, ReadsDecision
<1>8. ASSUME NEW a \in Assessments, ReadsReview(a) PROVE ReaderTypes'
  <2>1. [status |-> view.status, decision |-> view.decision, review |-> PendingReview(a),
         traced |-> FALSE] \in Response
    BY <1>3, PendingReviewType DEF View, Response
  <2> QED
    BY <1>5, <1>8, <2>1 DEF ReadsReview
<1>9. ASSUME NEW a \in Assessments, ReadsTrace(a) PROVE ReaderTypes'
  <2>1. [shown[a] EXCEPT !.traced = TRUE] \in Response /\ Trail(a) \in Seq(TrailRow)
    <3>1. \A r \in Response : [r EXCEPT !.traced = TRUE] \in Response
      BY DEF Response
    <3> QED
      BY <1>3, <3>1, TrailType
  <2> QED
    BY <1>1, <1>2, <1>3, <1>9, <2>1 DEF ReaderTypes, ReadsTrace
<1> QED
  BY <1>4, <1>6, <1>7, <1>8, <1>9, ClientSteps

-----------------------------------------------------------------------------
(* Decisions, as they are shown.                                            *)

\* A decision once published is never replaced: every version written is 1, and
\* UNIQUE (assessment_id, version) lets only the first through.
LEMMA DecisionsStay ==
  ASSUME EngineInv, [Next]_vars, NEW a \in Assessments, decisions[a] # {}
  PROVE  decisions'[a] = decisions[a]
<1>1. decisions \in [Assessments -> SUBSET DecisionRow]
  BY DEF EngineInv, TypeOK, LedgerTypeOK
<1>2. ASSUME NEW w \in Workers, finalize_decision_node(w)
      PROVE  decisions'[a] = decisions[a]
  <2>1. PICK c, row : decisions[c] = {} /\ decisions' = [decisions EXCEPT ![c] = {row}]
    BY <1>2 DEF finalize_decision_node, record_decision
  <2> QED
    BY <1>1, <2>1
<1> QED
  BY <1>2, DecisionKinds

\* What a GET has read so far: a decision of a completed case is there to be
\* read, and what it read of the decision is not less than what it last showed.
ViewInv ==
  /\ view.stage # "idle" /\ view.status = "completed" => decisions[view.assessment] # {}
  /\ view.stage = "review" =>
       /\ view.status = "escalated"
       /\ view.decision # {} => view.decision = decisions[view.assessment]
       /\ shown[view.assessment].decision # {} => view.decision # {}

\* What was shown of a case, and the trace asked for after it.
ShownInv(a) ==
  /\ shown[a].decision # {} => shown[a].decision = decisions[a]
  /\ shown[a].status = "completed" => shown[a].decision # {}
  /\ shown[a].traced => \A d \in shown[a].decision :
       /\ trace[a] # <<>>
       /\ trace[a][Len(trace[a])] = [node |-> "finalize_decision", outcome |-> d.verdict]
       /\ d.reviewed_by_human <=> Audit!AnswersIn(trace[a]) # {}
       /\ d.conflict_rounds = Audit!Rejections(trace[a])

ReaderInv == ReaderTypes /\ ViewInv /\ \A a \in Assessments : ShownInv(a)

\* A decision and its trail, in the form the trace endpoint returns it.
LEMMA TrailExplains ==
  ASSUME EngineInv, ReplayInv, NEW a \in Assessments, NEW d \in decisions[a]
  PROVE  /\ Trail(a) # <<>>
         /\ Trail(a)[Len(Trail(a))] = [node |-> "finalize_decision", outcome |-> d.verdict]
         /\ d.reviewed_by_human <=> Audit!AnswersIn(Trail(a)) # {}
         /\ d.conflict_rounds = Audit!Rejections(Trail(a))
<1>1. PICK n : n = Rows(a) /\ n \in Nat /\ Trail(a) = Prefix(a, n)
               /\ \A k \in 1..n : Row(a, k) \in TrailRow
  BY RowsLemma
<1>2. /\ n > 0 /\ Row(a, n) = [node |-> "finalize_decision", outcome |-> d.verdict]
      /\ d.reviewed_by_human <=> Audit!AnswersIn(Trail(a)) # {}
      /\ d.conflict_rounds = Audit!Rejections(Trail(a))
  BY <1>1 DEF ReplayInv, DecisionTable
<1>3. Len(Prefix(a, n)) = n /\ Prefix(a, n)[n] = Row(a, n)
  BY <1>1, <1>2, PrefixLemma DEF Prefix
<1> QED
  BY <1>1, <1>2, <1>3

\* What a response says of a decision, and of the trace: a new response starts
\* without one.
LEMMA ShowsStep ==
  ASSUME ReaderInv, UNCHANGED vars, NEW c \in Assessments,
         NEW st \in Statuses \cup {"none"}, NEW dec \in SUBSET DecisionRow, NEW review \in SUBSET Nat,
         dec # {} => dec = decisions[c], st = "completed" => dec # {},
         Shows(c, [status |-> st, decision |-> dec, review |-> review, traced |-> FALSE])
  PROVE  ViewInv' /\ \A a \in Assessments : ShownInv(a)'
<1> DEFINE response == [status |-> st, decision |-> dec, review |-> review, traced |-> FALSE]
<1>1. /\ shown' = [shown EXCEPT ![c] = response] /\ trace' = [trace EXCEPT ![c] = <<>>]
      /\ view' = NoView
  BY DEF Shows
<1>2. /\ response.status = st /\ response.decision = dec /\ ~response.traced
      /\ shown \in [Assessments -> Response] /\ trace \in [Assessments -> Seq(TrailRow)]
      /\ UNCHANGED decisions
  BY DEF ReaderInv, ReaderTypes, vars, ledger
<1> HIDE DEF response
<1>3. ViewInv'
  BY <1>1 DEF ViewInv, NoView
<1>4. ASSUME NEW a \in Assessments, a # c PROVE ShownInv(a)'
  <2>1. shown'[a] = shown[a] /\ trace'[a] = trace[a] /\ decisions'[a] = decisions[a]
    BY <1>1, <1>2, <1>4
  <2> QED
    BY <2>1 DEF ReaderInv, ShownInv
<1>5. ShownInv(c)'
  <2>1. shown'[c] = response /\ decisions'[c] = decisions[c]
    BY <1>1, <1>2
  <2> QED
    BY <1>2, <2>1 DEF ShownInv
<1> QED
  BY <1>3, <1>4, <1>5

\* Every step keeps what was read and shown from being overtaken.
LEMMA StepReaderInv ==
  ASSUME EngineInv, ReplayInv, CompletedHasDecision, ReaderInv, [ReaderNext]_readerVars
  PROVE  ReaderInv'
<1>1. ReaderTypes' /\ [Next]_vars
  BY StepReaderTypes, ReaderStepIsEngineStep DEF ReaderInv
<1>2. /\ view \in View /\ (view.stage # "idle" => view.assessment \in Assessments)
      /\ shown \in [Assessments -> Response] /\ trace \in [Assessments -> Seq(TrailRow)]
      /\ decisions \in [Assessments -> SUBSET DecisionRow]
      /\ status \in [Assessments -> Statuses \cup {"none"}]
  BY DEF ReaderInv, ReaderTypes, EngineInv, TypeOK, LedgerTypeOK, CaseFileTypeOK
<1>3. SUFFICES ViewInv' /\ \A a \in Assessments : ShownInv(a)'
  BY <1>1 DEF ReaderInv
<1>4. CASE UNCHANGED observer
  <2>1. \A a \in Assessments : decisions[a] # {} => decisions'[a] = decisions[a]
    BY <1>1, DecisionsStay
  <2>2. ViewInv'
    BY <1>2, <1>4, <2>1 DEF ReaderInv, ViewInv, observer
  <2>3. ASSUME NEW a \in Assessments PROVE ShownInv(a)'
    BY <1>4, <2>1 DEF ReaderInv, ShownInv, observer
  <2> QED
    BY <2>2, <2>3
<1>5. ASSUME UNCHANGED vars, NEW c \in Assessments, ReadsRow(c)
      PROVE  ViewInv' /\ \A a \in Assessments : ShownInv(a)'
  <2>1. ViewInv'
    BY <1>5 DEF ReadsRow, ViewInv, vars, ledger, CompletedHasDecision
  <2>2. ASSUME NEW a \in Assessments PROVE ShownInv(a)'
    BY <1>5 DEF ReadsRow, ReaderInv, ShownInv, vars, ledger
  <2> QED
    BY <2>1, <2>2
<1>6. ASSUME UNCHANGED vars, NEW c \in Assessments, ReadsDecision(c)
      PROVE  ViewInv' /\ \A a \in Assessments : ShownInv(a)'
  <2>1. CASE view.status = "escalated"
    <3>1. /\ view' = [stage |-> "review", assessment |-> c, status |-> "escalated",
                      decision |-> decisions[c]]
          /\ UNCHANGED <<shown, trace, decisions>>
      BY <1>5, <1>6, <2>1 DEF ReadsDecision, vars, ledger
    <3>2. ViewInv'
      BY <3>1 DEF ReaderInv, ViewInv, ShownInv
    <3>3. ASSUME NEW a \in Assessments PROVE ShownInv(a)'
      BY <3>1 DEF ReaderInv, ShownInv
    <3> QED
      BY <3>2, <3>3
  <2>2. CASE view.status # "escalated"
    <3>1. PICK st \in Statuses \cup {"none"}, dec \in SUBSET DecisionRow :
            /\ st = view.status /\ dec = decisions[c] /\ (st = "completed" => dec # {})
            /\ Shows(c, [status |-> st, decision |-> dec, review |-> {}, traced |-> FALSE])
      BY <1>2, <1>6, <2>2 DEF ReadsDecision, ReaderInv, ViewInv, View
    <3> QED
      BY <1>6, <3>1, ShowsStep
  <2> QED
    BY <2>1, <2>2
<1>7. ASSUME UNCHANGED vars, NEW c \in Assessments, ReadsReview(c)
      PROVE  ViewInv' /\ \A a \in Assessments : ShownInv(a)'
  <2>1. PICK st \in Statuses \cup {"none"}, dec \in SUBSET DecisionRow, review \in SUBSET Nat :
          /\ st = view.status /\ dec = view.decision
          /\ Shows(c, [status |-> st, decision |-> dec, review |-> review, traced |-> FALSE])
    BY <1>2, <1>7, PendingReviewType DEF ReadsReview, View, ReaderInv
  <2>2. st = "escalated" /\ (dec # {} => dec = decisions[c])
    BY <1>7, <2>1 DEF ReadsReview, ReaderInv, ViewInv
  <2> QED
    BY <1>7, <2>1, <2>2, ShowsStep
<1>8. ASSUME UNCHANGED vars, NEW c \in Assessments, ReadsTrace(c)
      PROVE  ViewInv' /\ \A a \in Assessments : ShownInv(a)'
  <2>1. PICK r \in Response : r = shown[c]
    BY <1>2
  <2>2. /\ [r EXCEPT !.traced = TRUE].status = r.status
        /\ [r EXCEPT !.traced = TRUE].decision = r.decision
    BY DEF Response
  <2>3. shown' = [shown EXCEPT ![c] = [r EXCEPT !.traced = TRUE]] /\ UNCHANGED <<view, decisions>>
    BY <1>2, <1>8, <2>1 DEF ReadsTrace, vars, ledger
  <2>4. \A a \in Assessments : shown'[a].status = shown[a].status /\ shown'[a].decision = shown[a].decision
    BY <1>2, <2>1, <2>2, <2>3
  <2>5. ViewInv'
    BY <1>2, <2>3, <2>4 DEF ReaderInv, ViewInv
  <2>6. ASSUME NEW a \in Assessments, a # c PROVE ShownInv(a)'
    <3>1. shown'[a] = shown[a] /\ trace'[a] = trace[a] /\ decisions'[a] = decisions[a]
      BY <1>2, <1>8, <2>3, <2>6 DEF ReadsTrace
    <3>2. ShownInv(a)
      BY DEF ReaderInv
    <3> QED
      BY <3>1, <3>2 DEF ShownInv
  <2>7. ShownInv(c)'
    <3>1. trace'[c] = Trail(c)
      BY <1>2, <1>8 DEF ReadsTrace
    <3>2. \A d \in decisions[c] :
            /\ trace'[c] # <<>>
            /\ trace'[c][Len(trace'[c])] = [node |-> "finalize_decision", outcome |-> d.verdict]
            /\ d.reviewed_by_human <=> Audit!AnswersIn(trace'[c]) # {}
            /\ d.conflict_rounds = Audit!Rejections(trace'[c])
      BY <3>1, TrailExplains
    <3> QED
      BY <2>3, <2>4, <3>2 DEF ReaderInv, ShownInv
  <2> QED
    BY <2>5, <2>6, <2>7
<1> QED
  BY <1>1, <1>4, <1>5, <1>6, <1>7, <1>8, ClientSteps DEF ReaderInv

\* Before anyone has asked nothing is shown.
LEMMA InitReaderInv == ReaderInit => ReaderInv
<1> SUFFICES ASSUME ReaderInit PROVE ReaderInv
  OBVIOUS
<1>1. NoView \in View /\ NoView.stage = "idle"
  BY DEF NoView, View
<1>2. NoResponse \in Response /\ NoResponse.decision = {} /\ NoResponse.status = "none" /\ ~NoResponse.traced
  BY DEF NoResponse, Response
<1>3. NoInterrupt \in Interrupt /\ <<>> \in Seq(TrailRow)
  BY DEF NoInterrupt, Interrupt
<1>4. ReaderTypes
  BY <1>1, <1>2, <1>3 DEF ReaderInit, ReaderTypes
<1>5. ViewInv
  BY <1>1 DEF ReaderInit, ViewInv
<1>6. \A a \in Assessments : ShownInv(a)
  BY <1>2 DEF ReaderInit, ShownInv
<1> QED
  BY <1>4, <1>5, <1>6 DEF ReaderInv

\* In every reachable state of the service with its readers: what a GET has read
\* so far is not overtaken, every response that names a decision names the one
\* that is published, and a trace asked for after it explains it.
THEOREM ReaderInvariant == ReaderSpec => []ReaderInv
<1>1. (EngineInv /\ ReplayInv /\ CompletedHasDecision) /\ ReaderInv /\ [ReaderNext]_readerVars
        => ReaderInv'
  BY StepReaderInv
<1> QED
  BY <1>1, InitReaderInv, ReaderKeepsEngine, PTL DEF ReaderSpec

\* The tables and responses the callers see keep their types.
THEOREM ReaderTypeCorrect == ReaderSpec => []ReaderTypeOK
<1>1. EngineInv /\ ReaderInv => ReaderTypeOK
  <2> SUFFICES ASSUME EngineInv, ReaderInv PROVE ReaderTypeOK
    OBVIOUS
  <2>1. \A a \in Assessments : \A k \in DOMAIN trace[a] : trace[a][k].node \in Nodes
    <3>1. ASSUME NEW t \in Seq(TrailRow), NEW k \in DOMAIN t PROVE t[k].node \in Nodes
      <4>1. t[k] \in TrailRow
        BY <3>1, LenProperties, ElementOfSeq
      <4> QED
        BY <4>1 DEF TrailRow
    <3> QED
      BY <3>1 DEF ReaderInv, ReaderTypes
  <2> QED
    BY <2>1 DEF EngineInv, ReaderInv, ReaderTypes, View, ReaderTypeOK
<1> QED
  BY <1>1, ReaderKeepsEngine, ReaderInvariant, PTL

\* A response that says "completed" carries the decision, although the status and
\* the decision are read at two moments while workers run.
THEOREM CompletedIsShownDecided == ReaderSpec => []CompletedShowsDecision
<1>1. ReaderInv => CompletedShowsDecision
  BY DEF ReaderInv, ShownInv, CompletedShowsDecision
<1> QED
  BY <1>1, ReaderInvariant, PTL

\* A client who sees a decision and then asks for the trace finds in it the
\* closing row, the reviewer's part and the rejections the decision speaks of.
THEOREM TraceExplains == ReaderSpec => []TraceExplainsDecision
<1>1. ReaderInv => TraceExplainsDecision
  BY DEF ReaderInv, ShownInv, TraceExplainsDecision
<1> QED
  BY <1>1, ReaderInvariant, PTL

\* What a client has been told is decided stays decided, in the same words,
\* however often the case is started, resumed or failed afterwards.
THEOREM DecisionStaysShown == ReaderSpec => ShownDecisionIsFinal
<1> DEFINE Final == \A a \in Assessments :
                      shown[a].decision # {} => shown'[a].decision = shown[a].decision
<1>1. ASSUME EngineInv, ReaderInv, ReaderInv', [ReaderNext]_readerVars
      PROVE  Final
  <2> SUFFICES ASSUME NEW a \in Assessments, shown[a].decision # {}
               PROVE  shown'[a].decision = shown[a].decision
    OBVIOUS
  <2>1. shown[a].decision = decisions[a] /\ decisions'[a] = decisions[a]
    BY <1>1, DecisionsStay, ReaderStepIsEngineStep DEF ReaderInv, ShownInv
  <2>2. shown'[a].decision # {} => shown'[a].decision = decisions'[a]
    BY <1>1 DEF ReaderInv, ShownInv
  <2>3. shown'[a].decision # {}
    <3>1. shown \in [Assessments -> Response]
      BY <1>1 DEF ReaderInv, ReaderTypes
    <3>2. ASSUME NEW c \in Assessments, ReadsDecision(c) \/ ReadsReview(c)
          PROVE  shown'[a].decision # {}
      <4>1. CASE shown'[a] = shown[a]
        BY <4>1
      <4>2. CASE ReadsDecision(c) /\ shown'[a] # shown[a]
        <5> DEFINE r == [status |-> view.status, decision |-> decisions[c], review |-> {},
                         traced |-> FALSE]
        <5>1. shown' = [shown EXCEPT ![c] = r]
          BY <4>2 DEF ReadsDecision, Shows
        <5>2. r.decision = decisions[c]
          OBVIOUS
        <5> HIDE DEF r
        <5>3. c = a /\ shown'[a] = r
          BY <3>1, <4>2, <5>1
        <5> QED
          BY <2>1, <5>2, <5>3
      <4>3. CASE ReadsReview(c) /\ shown'[a] # shown[a]
        <5> DEFINE r == [status |-> view.status, decision |-> view.decision,
                         review |-> PendingReview(c), traced |-> FALSE]
        <5>1. shown' = [shown EXCEPT ![c] = r]
          BY <4>3 DEF ReadsReview, Shows
        <5>2. r.decision = view.decision
          OBVIOUS
        <5> HIDE DEF r
        <5>3. c = a /\ shown'[a] = r
          BY <3>1, <4>3, <5>1
        <5>4. view.decision # {}
          BY <1>1, <4>3, <5>3 DEF ReadsReview, ReaderInv, ViewInv
        <5> QED
          BY <5>2, <5>3, <5>4
      <4> QED
        BY <3>2, <4>1, <4>2, <4>3
    <3>3. ASSUME NEW c \in Assessments, ReadsTrace(c)
          PROVE  shown'[a].decision # {}
      BY <3>1, <3>3 DEF ReadsTrace, Response
    <3> QED
      BY <1>1, <3>2, <3>3, ClientSteps DEF ReaderInv, observer, ReadsRow
  <2> QED
    BY <2>1, <2>2, <2>3
<1>2. EngineInv /\ ReaderInv /\ ReaderInv' /\ [ReaderNext]_readerVars => [Final]_readerVars
  BY <1>1
<1> QED
  BY <1>2, ReaderKeepsEngine, ReaderInvariant, PTL DEF ReaderSpec, ShownDecisionIsFinal
=============================================================================
