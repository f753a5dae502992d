---------------------------- MODULE EngineProofs ----------------------------
(***************************************************************************)
(* Proofs about Engine, for every set of cases, workers and requests, any  *)
(* number of crashes and any retry limit.                                  *)
(*                                                                         *)
(* TypeOK and ChainUnbroken are not inductive: the row a run inserts next  *)
(* extends the chain only if the run's event_seq is the number of a row    *)
(* that exists, and that must hold of every copy of the state, in a worker *)
(* or in a checkpoint, however old.  SeqInv says so; EngineInv joins it to *)
(* the types.  RunnerInv, for the theorem about the queue, ties the rows   *)
(* workers hold to the rows' status.                                       *)
(***************************************************************************)
EXTENDS Engine, SequenceTheorems, TLAPS

\* A request past its check names a case.
RequestInv == \A q \in Requests : request[q].stage # "idle" => request[q].assessment \in Assessments

\* The numbers a state may carry: that of a recorded row, or none yet.
Carried(a) == {0} \cup Recorded(a)

\* The rows of a case are numbered 1..n and chained in that order.
Chained(a) ==
  \E n \in Nat : /\ Recorded(a) = 1..n
                 /\ \A k \in 1..n : audit_events[a][k].prev = k - 1

SeqInv ==
  /\ \A a \in Assessments : Chained(a)
  /\ \A a \in Assessments : checkpoints[a].event_seq \in Carried(a)
  /\ \A w \in Workers : pc[w] \in InRun => state[w].event_seq \in Carried(Case(w))
  /\ \A w \in Workers : pc[w] \in {"conflict", "resolve"} =>
                          state[w].event_seq + 1 \in Recorded(Case(w))

EngineInv == TypeOK /\ RequestInv /\ SeqInv

USE RetriesAssumption, EngineAssumption

-----------------------------------------------------------------------------
\* The last row of a chain numbered 1..n is row n.
LEMMA LastSeqLemma ==
  ASSUME NEW a, NEW n \in Nat, Recorded(a) = 1..n
  PROVE  LastSeq(a) = n
<1>1. CASE n = 0
  BY <1>1 DEF LastSeq
<1>2. CASE n > 0
  <2>1. n \in Recorded(a) /\ \A i \in Recorded(a) : i \in Nat /\ i <= n
    BY <1>2
  <2>2. \A k \in Recorded(a) : (\A i \in Recorded(a) : i <= k) => k = n
    BY <2>1
  <2>3. Recorded(a) # {}
    BY <2>1
  <2> QED
    BY <2>1, <2>2, <2>3 DEF LastSeq
<1> QED
  BY <1>1, <1>2

\* An insert by a run whose event_seq is carried extends the chain by one row:
\* SeqFree lets it through only at the end.
LEMMA RecordExtendsChain ==
  ASSUME NEW a \in Assessments, NEW n \in Nat, NEW seq \in Nat,
         NEW type \in EventTypes, NEW node \in Nodes, NEW outcome,
         DOMAIN audit_events = Assessments,
         Recorded(a) = 1..n,
         \A k \in 1..n : audit_events[a][k].prev = k - 1,
         seq \in Carried(a),
         RecordEvent(a, seq + 1, type, node, outcome)
  PROVE  /\ seq = n
         /\ DOMAIN audit_events' = Assessments
         /\ Recorded(a)' = 1..(n + 1)
         /\ \A k \in 1..n : audit_events'[a][k] = audit_events[a][k]
         /\ audit_events'[a][n + 1] =
              [prev |-> n, event_type |-> type, node |-> node, outcome |-> outcome]
         /\ \A b \in Assessments : b # a => audit_events'[b] = audit_events[b]
<1>1. seq = n
  BY DEF Carried, RecordEvent, SeqFree
<1>2. LastSeq(a) = n
  BY LastSeqLemma
<1>3. audit_events' = [audit_events EXCEPT ![a] =
        [k \in (1..n) \cup {n + 1} |->
           IF k = n + 1 THEN [prev |-> n, event_type |-> type, node |-> node, outcome |-> outcome]
           ELSE audit_events[a][k]]]
  BY <1>1, <1>2 DEF RecordEvent
<1>4. (1..n) \cup {n + 1} = 1..(n + 1)
  OBVIOUS
<1>5. audit_events'[a] = [k \in 1..(n + 1) |->
           IF k = n + 1 THEN [prev |-> n, event_type |-> type, node |-> node, outcome |-> outcome]
           ELSE audit_events[a][k]]
  BY <1>3, <1>4
<1> QED
  BY <1>1, <1>3, <1>5 DEF Recorded

-----------------------------------------------------------------------------
\* The queue: rows are appended and their status changes, nothing else does.
QueueGrows ==
  /\ RunQueueTypeOK'
  /\ Jobs \subseteq Jobs'
  /\ \A j \in Jobs : run_queue'[j].assessment = run_queue[j].assessment

\* The statements of routes.py and worker.py append rows to the queue or change
\* their status: a job never disappears and never changes its case.
LEMMA QueueStep ==
  ASSUME TypeOK, RequestInv, [Next]_vars
  PROVE  QueueGrows
<1>1. run_queue \in Seq(Job)
  BY DEF TypeOK, RunQueueTypeOK
<1>2. PICK n \in Nat : Jobs = 1..n /\ run_queue \in [1..n -> Job]
  BY <1>1, SeqDef DEF Jobs
<1>3. ASSUME run_queue' \in [Jobs -> Job],
             \A j \in Jobs : run_queue'[j].assessment = run_queue[j].assessment
      PROVE  QueueGrows
  <2>1. run_queue' \in Seq(Job) /\ DOMAIN run_queue' = Jobs
    BY <1>2, <1>3, SeqDef
  <2> QED
    BY <1>3, <2>1 DEF RunQueueTypeOK, Jobs, QueueGrows
<1>4. ASSUME NEW a \in Assessments, NEW kind \in {"start", "resume"},
             NEW payload \in {"none", "approve", "reject"}, Enqueue(a, kind, payload)
      PROVE  QueueGrows
  <2> DEFINE row == [assessment |-> a, kind |-> kind, payload |-> payload,
                     status |-> "queued", stale |-> FALSE]
  <2>1. row \in Job
    BY DEF Job, JobStatuses
  <2>2. run_queue' = Append(run_queue, row)
    BY <1>4 DEF Enqueue
  <2> HIDE DEF row
  <2>3. /\ run_queue' \in Seq(Job) /\ DOMAIN run_queue' = 1..(n + 1)
        /\ \A j \in 1..n : run_queue'[j] = run_queue[j]
    BY <1>1, <1>2, <2>1, <2>2 DEF Jobs
  <2> QED
    BY <1>2, <2>3 DEF RunQueueTypeOK, Jobs, QueueGrows
<1>5. ASSUME NEW r \in Job, NEW to \in JobStatuses, NEW old \in BOOLEAN
      PROVE  /\ [r EXCEPT !.status = to, !.stale = old] \in Job
             /\ [r EXCEPT !.status = to] \in Job
             /\ [r EXCEPT !.stale = old] \in Job
             /\ [r EXCEPT !.status = to, !.stale = old].assessment = r.assessment
             /\ [r EXCEPT !.status = to].assessment = r.assessment
             /\ [r EXCEPT !.stale = old].assessment = r.assessment
  BY DEF Job
<1>6. ASSUME NEW j \in Jobs, NEW r, r \in Job, r.assessment = run_queue[j].assessment,
             run_queue' = [run_queue EXCEPT ![j] = r]
      PROVE  QueueGrows
  BY <1>2, <1>3, <1>6
<1>7. CASE \E a \in Assessments : create_assessment(a)
  BY <1>4, <1>7 DEF create_assessment
<1>8. CASE \E q \in Requests : AcceptResume(q)
  <2>1. PICK q \in Requests : AcceptResume(q)
    BY <1>8
  <2>2. /\ request[q].assessment \in Assessments
        /\ request[q].decision \in {"none", "approve", "reject"}
    BY <2>1 DEF AcceptResume, RequestInv, Answers, TypeOK
  <2> QED
    BY <1>4, <2>1, <2>2 DEF AcceptResume
<1>9. CASE \E w \in Workers : Reclaim(w)
  <2>1. run_queue' = [j \in Jobs |->
          IF run_queue[j].status = "claimed" /\ run_queue[j].stale
          THEN [run_queue[j] EXCEPT !.status = "queued", !.stale = FALSE]
          ELSE run_queue[j]]
    BY <1>9 DEF Reclaim, ReclaimStale
  <2>2. \A j \in Jobs : run_queue'[j] \in Job /\ run_queue'[j].assessment = run_queue[j].assessment
    BY <1>2, <1>5, <2>1 DEF JobStatuses
  <2> QED
    BY <1>3, <2>1, <2>2
<1>10. CASE \E w \in Workers : ClaimOneJob(w)
  <2>1. PICK j \in Jobs : Claim(j)
    BY <1>10 DEF ClaimOneJob
  <2>2. PICK r \in Job : r = run_queue[j]
    BY <1>2
  <2>3. PICK taken : taken = [r EXCEPT !.status = "claimed", !.stale = FALSE]
    OBVIOUS
  <2>4. taken \in Job /\ taken.assessment = run_queue[j].assessment
    BY <1>5, <2>2, <2>3 DEF JobStatuses
  <2>5. run_queue' = [run_queue EXCEPT ![j] = taken]
    BY <1>2, <2>1, <2>2, <2>3 DEF Claim
  <2> QED
    BY <1>6, <2>4, <2>5
<1>11. CASE \E w \in Workers : MarkDone(w) \/ MarkJobFailed(w)
  <2>1. PICK w \in Workers, outcome \in {"done", "failed"} : pc[w] # "poll" /\ Settle(job[w], outcome)
    BY <1>11 DEF MarkDone, MarkJobFailed
  <2>2. job[w] \in Jobs
    BY <2>1 DEF TypeOK
  <2>3. PICK r \in Job : r = run_queue[job[w]]
    BY <1>2, <2>2
  <2>4. PICK closed : closed = [r EXCEPT !.status = outcome]
    OBVIOUS
  <2>5. closed \in Job /\ closed.assessment = run_queue[job[w]].assessment
    BY <1>5, <2>3, <2>4 DEF JobStatuses
  <2>6. run_queue' = [run_queue EXCEPT ![job[w]] = closed]
    BY <2>1, <2>3, <2>4 DEF Settle
  <2> QED
    BY <1>6, <2>2, <2>5, <2>6
<1>12. CASE \E j \in Jobs : JobAges(j)
  <2>1. PICK j \in Jobs : run_queue' = [run_queue EXCEPT ![j] = [run_queue[j] EXCEPT !.stale = TRUE]]
    BY <1>12 DEF JobAges, ClaimAges
  <2>2. PICK r \in Job : r = run_queue[j]
    BY <1>2
  <2>3. PICK aged : aged = [r EXCEPT !.stale = TRUE]
    OBVIOUS
  <2>4. aged \in Job /\ aged.assessment = run_queue[j].assessment
    BY <1>5, <2>2, <2>3 DEF JobStatuses
  <2>5. run_queue' = [run_queue EXCEPT ![j] = aged]
    BY <2>1, <2>2, <2>3
  <2> QED
    BY <1>6, <2>4, <2>5
<1>13. CASE \/ \E q \in Requests : RequestResume(q)
            \/ \E w \in Workers : \/ RunStep(w) \/ Persist(w) \/ Crash(w)
                                  \/ InvokeStart(w) \/ InvokeResume(w) \/ MarkCaseFailed(w)
                                  \/ JobRaises(w)
            \/ UNCHANGED vars
  <2>1. UNCHANGED run_queue
    BY <1>13 DEF RequestResume, RunStep, Persist, Crash, InvokeStart, InvokeResume,
         MarkCaseFailed, JobRaises, vars, SupervisorStarts, SupervisorLogs, data_engineer_node,
         financial_analyst_node, CriticPasses, CriticRejects, CriticOpensConflict,
         CriticResolves, EscalationStarts, EscalationPauses, EscalationResumes,
         EscalationLogs, finalize_decision_node, GraphEnds, SeqTaken, NodeRaises
  <2> QED
    BY <1>2, <1>3, <2>1
<1> QED
  BY <1>7, <1>8, <1>9, <1>10, <1>11, <1>12, <1>13 DEF Next, WorkerStep

-----------------------------------------------------------------------------
\* The ledger: one row is added to one case, or none.
LedgerGrows ==
  /\ LedgerTypeOK'
  /\ \A a \in Assessments : Chained(a)' /\ Recorded(a) \subseteq Recorded(a)'

Outcome == Verdicts \cup Answers \cup PublishedVerdicts \cup {"none"}

\* What _log does to audit_events, for a worker inside a run.
LEMMA LogStep ==
  ASSUME EngineInv, NEW w \in Workers, pc[w] \in InRun,
         NEW c \in Assessments, c = Case(w),
         NEW node \in Nodes, NEW outcome \in Outcome, Log(w, node, outcome)
  PROVE  /\ DOMAIN audit_events' = Assessments
         /\ \A a \in Assessments :
              /\ DOMAIN audit_events'[a] \subseteq Nat
              /\ \A k \in DOMAIN audit_events'[a] : audit_events'[a][k] \in Event
              /\ Chained(a)'
              /\ Recorded(a) \subseteq Recorded(a)'
         /\ state[w].event_seq + 1 \in Recorded(c)'
<1>1. state[w] \in GraphState
  BY DEF EngineInv, TypeOK
<1>2. /\ DOMAIN audit_events = Assessments
      /\ \A a \in Assessments :
           /\ DOMAIN audit_events[a] \subseteq Nat
           /\ \A k \in DOMAIN audit_events[a] : audit_events[a][k] \in Event
           /\ Chained(a)
  BY DEF EngineInv, TypeOK, LedgerTypeOK, SeqInv
<1>3. PICK n \in Nat : Recorded(c) = 1..n /\ \A k \in 1..n : audit_events[c][k].prev = k - 1
  BY <1>2 DEF Chained
<1>4. PICK seq \in Nat : seq = state[w].event_seq /\ seq \in Carried(c)
  BY <1>1 DEF GraphState, EngineInv, SeqInv
<1>5. PICK type \in EventTypes : RecordEvent(c, seq + 1, type, node, outcome)
  BY <1>4 DEF Log, NextSeq, EventTypeOf, EventTypes, Nodes
<1>6. /\ seq = n
      /\ DOMAIN audit_events' = Assessments
      /\ Recorded(c)' = 1..(n + 1)
      /\ \A k \in 1..n : audit_events'[c][k] = audit_events[c][k]
      /\ audit_events'[c][n + 1] = [prev |-> n, event_type |-> type, node |-> node, outcome |-> outcome]
      /\ \A b \in Assessments : b # c => audit_events'[b] = audit_events[b]
  BY <1>2, <1>3, <1>4, <1>5, RecordExtendsChain
<1>7. [prev |-> n, event_type |-> type, node |-> node, outcome |-> outcome] \in Event
  BY DEF Event, Outcome
<1>8. \A k \in 1..(n + 1) : /\ audit_events'[c][k] \in Event
                           /\ audit_events'[c][k].prev = k - 1
  <2>1. \A k \in 1..n : audit_events[c][k] \in Event
    BY <1>2, <1>3 DEF Recorded
  <2> QED
    BY <1>3, <1>6, <1>7, <2>1
<1>9. Chained(c)'
  BY <1>6, <1>8 DEF Chained
<1>10. ASSUME NEW a \in Assessments, a # c
       PROVE  Chained(a)' /\ Recorded(a)' = Recorded(a)
  <2>1. audit_events'[a] = audit_events[a]
    BY <1>6, <1>10
  <2>2. Recorded(a)' = Recorded(a)
    BY <2>1 DEF Recorded
  <2>3. PICK m \in Nat : Recorded(a) = 1..m /\ \A k \in 1..m : audit_events[a][k].prev = k - 1
    BY <1>2 DEF Chained
  <2> QED
    BY <2>1, <2>2, <2>3 DEF Chained
<1> QED
  BY <1>2, <1>3, <1>4, <1>6, <1>8, <1>9, <1>10 DEF Recorded

\* A worker that holds a job works on a case.
LEMMA CaseLemma ==
  ASSUME EngineInv, NEW w \in Workers, pc[w] # "poll"
  PROVE  job[w] \in Jobs /\ Case(w) \in Assessments
<1>1. job[w] \in Jobs /\ run_queue \in Seq(Job)
  BY DEF EngineInv, TypeOK, RunQueueTypeOK
<1>2. run_queue[job[w]] \in Job
  BY <1>1, ElementOfSeq DEF Jobs
<1> QED
  BY <1>1, <1>2 DEF Case, Job

\* The steps of a run that write to the ledger.
Logging(w) ==
  \/ SupervisorLogs(w) \/ data_engineer_node(w) \/ financial_analyst_node(w)
  \/ CriticPasses(w) \/ CriticRejects(w) \/ EscalationLogs(w) \/ finalize_decision_node(w)

\* Every node that writes an audit_events row writes it through _log, with the
\* number after the event_seq the worker holds.
LEMMA LoggingLemma ==
  ASSUME EngineInv, NEW w \in Workers, Logging(w)
  PROVE  /\ pc[w] \in {"node", "log"}
         /\ \E node \in Nodes, outcome \in Outcome : Log(w, node, outcome)
<1> USE DEF Nodes, Outcome
<1>1. CASE SupervisorLogs(w) \/ data_engineer_node(w) \/ financial_analyst_node(w)
  BY <1>1 DEF SupervisorLogs, data_engineer_node, financial_analyst_node, At
<1>2. CASE CriticPasses(w) \/ CriticRejects(w)
  BY <1>2 DEF CriticPasses, CriticRejects, At, Verdicts
<1>3. CASE EscalationLogs(w)
  BY <1>3 DEF EscalationLogs, EngineInv, TypeOK
<1>4. CASE finalize_decision_node(w)
  BY <1>4 DEF finalize_decision_node, At, PublishedVerdict, PublishedVerdicts
<1> QED
  BY <1>1, <1>2, <1>3, <1>4 DEF Logging

\* A step of any worker leaves audit_events alone or adds one row of the next
\* free number, chained to the last: the table only grows and stays chained.
LEMMA LedgerStep ==
  ASSUME EngineInv, [Next]_vars
  PROVE  LedgerGrows
<1>1. LedgerTypeOK /\ \A a \in Assessments : Chained(a)
  BY DEF EngineInv, TypeOK, SeqInv
<1>2. /\ DOMAIN audit_events' = Assessments
      /\ \A a \in Assessments :
           /\ DOMAIN audit_events'[a] \subseteq Nat
           /\ \A k \in DOMAIN audit_events'[a] : audit_events'[a][k] \in Event
           /\ Chained(a)'
           /\ Recorded(a) \subseteq Recorded(a)'
  <2>1. CASE \E w \in Workers : Logging(w)
    <3>1. PICK w \in Workers : Logging(w)
      BY <2>1
    <3>2. PICK node \in Nodes, outcome \in Outcome : pc[w] \in InRun /\ Log(w, node, outcome)
      BY <3>1, LoggingLemma DEF InRun, InNode
    <3>3. PICK c \in Assessments : c = Case(w)
      BY <3>2, CaseLemma DEF InRun, InNode
    <3> QED
      BY <3>2, <3>3, LogStep
  <2>2. CASE UNCHANGED audit_events
    BY <1>1, <2>2 DEF LedgerTypeOK, Chained, Recorded
  <2> QED
    BY <2>1, <2>2
    DEF Next, vars, ledger, create_assessment, RequestResume, AcceptResume, WorkerStep, Persist,
        Crash, JobAges, Reclaim, ClaimOneJob, InvokeStart, InvokeResume, MarkDone, JobRaises,
        MarkJobFailed, MarkCaseFailed, RunStep, Logging, SupervisorStarts, CriticOpensConflict,
        CriticResolves, EscalationStarts, EscalationPauses, EscalationResumes, GraphEnds, SeqTaken, NodeRaises
<1>3. conflicts' \in [Assessments -> SUBSET Conflict]
  <2>1. CASE \E w \in Workers : CriticOpensConflict(w) \/ CriticResolves(w)
    <3>1. PICK w \in Workers : CriticOpensConflict(w) \/ CriticResolves(w)
      BY <2>1
    <3>2. Case(w) \in Assessments
      BY <3>1, CaseLemma DEF CriticOpensConflict, CriticResolves
    <3>3. PICK n \in Nat, round \in Nat : n = NextSeq(w) /\ round = NewRound(w)
      BY DEF NextSeq, NewRound, EngineInv, TypeOK, GraphState
    <3>4. conflicts \in [Assessments -> SUBSET Conflict]
      BY <1>1 DEF LedgerTypeOK
    <3>5. CASE CriticOpensConflict(w)
      <4> DEFINE row == [event |-> n, round |-> round, resolution |-> "pending"]
      <4>1. row \in Conflict
        BY DEF Conflict
      <4>2. record_conflict(Case(w), n, round)
        BY <3>3, <3>5 DEF CriticOpensConflict
      <4> QED
        BY <3>2, <3>4, <4>1, <4>2 DEF record_conflict
    <3>6. CASE CriticResolves(w)
      <4>1. PICK r \in {"retried", "escalated_to_human"} : resolve_conflict(Case(w), n, r)
        BY <3>3, <3>6 DEF CriticResolves, ConflictResolution
      <4>2. \A c \in Conflict : [c EXCEPT !.resolution = r] \in Conflict
        BY DEF Conflict
      <4> QED
        BY <3>2, <3>4, <4>1, <4>2 DEF resolve_conflict
    <3> QED
      BY <3>1, <3>5, <3>6
  <2>2. CASE UNCHANGED conflicts
    BY <1>1, <2>2 DEF LedgerTypeOK
  <2> QED
    BY <2>1, <2>2
    DEF Next, vars, ledger, create_assessment, RequestResume, AcceptResume, WorkerStep, Persist,
        Crash, JobAges, Reclaim, ClaimOneJob, InvokeStart, InvokeResume, MarkDone, JobRaises,
        MarkJobFailed, MarkCaseFailed, RunStep, SupervisorStarts, SupervisorLogs, data_engineer_node,
        financial_analyst_node, CriticPasses, CriticRejects, EscalationStarts, EscalationPauses,
        EscalationResumes, EscalationLogs, finalize_decision_node, GraphEnds, SeqTaken, NodeRaises
<1>4. decisions' \in [Assessments -> SUBSET DecisionRow]
  <2>1. CASE \E w \in Workers : finalize_decision_node(w)
    <3>1. PICK w \in Workers : finalize_decision_node(w)
      BY <2>1
    <3> DEFINE row == [verdict           |-> PublishedVerdict(state[w].human_decision),
                       reviewed_by_human |-> state[w].human_decision # "none",
                       conflict_rounds   |-> state[w].conflict_round]
    <3>2. record_decision(Case(w), row)
      BY <3>1 DEF finalize_decision_node
    <3>3. state[w].conflict_round \in Nat
      BY DEF EngineInv, TypeOK, GraphState
    <3>4. row \in DecisionRow
      BY <3>3 DEF DecisionRow, PublishedVerdict, PublishedVerdicts
    <3>5. decisions \in [Assessments -> SUBSET DecisionRow]
      BY <1>1 DEF LedgerTypeOK
    <3> HIDE DEF row
    <3> QED
      BY <3>2, <3>4, <3>5 DEF record_decision
  <2>2. CASE UNCHANGED decisions
    BY <1>1, <2>2 DEF LedgerTypeOK
  <2> QED
    BY <2>1, <2>2
    DEF Next, vars, ledger, create_assessment, RequestResume, AcceptResume, WorkerStep, Persist,
        Crash, JobAges, Reclaim, ClaimOneJob, InvokeStart, InvokeResume, MarkDone, JobRaises,
        MarkJobFailed, MarkCaseFailed, RunStep, SupervisorStarts, SupervisorLogs, data_engineer_node,
        financial_analyst_node, CriticPasses, CriticRejects, CriticOpensConflict, CriticResolves,
        EscalationStarts, EscalationPauses, EscalationResumes, EscalationLogs, GraphEnds,
        SeqTaken, NodeRaises
<1> QED
  BY <1>2, <1>3, <1>4 DEF LedgerTypeOK, LedgerGrows

-----------------------------------------------------------------------------
\* The status column and the requests.
LEMMA StatusStep ==
  ASSUME EngineInv, [Next]_vars
  PROVE  CaseFileTypeOK'
<1>1. status \in [Assessments -> Statuses \cup {"none"}]
  BY DEF EngineInv, TypeOK, CaseFileTypeOK
<1>2. ASSUME NEW a, NEW to \in Statuses, update_assessment_status(a, to)
      PROVE  CaseFileTypeOK'
  BY <1>1, <1>2 DEF update_assessment_status, CaseFileTypeOK
<1>3. CASE \E a \in Assessments : create_assessment(a)
  BY <1>1, <1>3 DEF create_assessment, InsertAssessment, CaseFileTypeOK, Statuses
<1>4. CASE \E w \in Workers : \/ MarkCaseFailed(w) \/ SupervisorStarts(w) \/ EscalationStarts(w)
                              \/ EscalationResumes(w) \/ finalize_decision_node(w)
  BY <1>2, <1>4 DEF MarkCaseFailed, SupervisorStarts, EscalationStarts, EscalationResumes,
                    finalize_decision_node, Statuses
<1>5. CASE UNCHANGED status
  BY <1>1, <1>5 DEF CaseFileTypeOK
<1> QED
  BY <1>3, <1>4, <1>5
  DEF Next, vars, RequestResume, AcceptResume, WorkerStep, Persist, Crash, JobAges, Reclaim,
      ClaimOneJob, InvokeStart, InvokeResume, MarkDone, JobRaises, MarkJobFailed,
      RunStep, SupervisorLogs,
      data_engineer_node, financial_analyst_node, CriticPasses, CriticRejects,
      CriticOpensConflict, CriticResolves, EscalationPauses, EscalationLogs, GraphEnds,
      SeqTaken, NodeRaises

Request == [stage : Stages, assessment : Assessments \cup {"none"},
            decision : Answers \cup {"none"}]

\* A resume handler that has read a status keeps the case it read it of until
\* its insert (resume_assessment).
LEMMA RequestStep ==
  ASSUME EngineInv, [Next]_vars
  PROVE  request' \in [Requests -> Request] /\ RequestInv'
<1>1. request \in [Requests -> Request] /\ RequestInv
  BY DEF EngineInv, TypeOK, Request
<1>2. CASE \E q \in Requests : RequestResume(q)
  <2>1. PICK q \in Requests, a \in Assessments, decision \in Answers :
          request' = [request EXCEPT ![q] =
            [stage |-> "checked", assessment |-> a, decision |-> decision]]
    BY <1>2 DEF RequestResume
  <2> DEFINE new == [stage |-> "checked", assessment |-> a, decision |-> decision]
  <2>2. new \in Request /\ new.assessment \in Assessments
    BY DEF Request, Stages
  <2> HIDE DEF new
  <2> QED
    BY <1>1, <2>1, <2>2 DEF RequestInv, new
<1>3. CASE \E q \in Requests : AcceptResume(q)
  BY <1>1, <1>3 DEF AcceptResume, RequestInv, Request, Stages
<1>4. CASE UNCHANGED request
  BY <1>1, <1>4 DEF RequestInv
<1> QED
  BY <1>2, <1>3, <1>4
  DEF Next, vars, create_assessment, WorkerStep, Persist, Crash, JobAges, Reclaim,
      ClaimOneJob, InvokeStart, InvokeResume, MarkDone, JobRaises, MarkJobFailed,
      MarkCaseFailed, RunStep,
      SupervisorStarts, SupervisorLogs, data_engineer_node, financial_analyst_node, CriticPasses,
      CriticRejects, CriticOpensConflict, CriticResolves, EscalationStarts, EscalationPauses,
      EscalationResumes, EscalationLogs, finalize_decision_node, GraphEnds, SeqTaken, NodeRaises

-----------------------------------------------------------------------------
\* What EngineInv says of one worker and of the checkpoints.
Held(w) ==
  /\ IF pc[w] = "poll" THEN job[w] = 0 ELSE job[w] \in Jobs
  /\ pc[w] \in InRun => state[w].event_seq \in Carried(Case(w))
  /\ pc[w] \in {"conflict", "resolve"} => state[w].event_seq + 1 \in Recorded(Case(w))

WorkerTypes ==
  /\ pc \in [Workers -> PcValues]
  /\ job \in [Workers -> Nat]
  /\ state \in [Workers -> GraphState]
  /\ answer \in [Workers -> Answers \cup {"none"}]

CheckpointsInv ==
  /\ checkpoints \in [Assessments -> GraphState]
  /\ \A a \in Assessments : checkpoints[a].event_seq \in Carried(a)
  /\ created \in [Assessments -> Nat]

\* A worker that takes no step keeps what it holds while tables grow.
LEMMA OthersHold ==
  ASSUME EngineInv, QueueGrows, LedgerGrows, NEW v \in Workers,
         pc'[v] = pc[v], job'[v] = job[v], state'[v] = state[v]
  PROVE  Held(v)'
<1>1. Held(v)
  BY DEF Held, EngineInv, TypeOK, SeqInv
<1>2. CASE pc[v] = "poll"
  BY <1>1, <1>2 DEF Held, InRun, InNode
<1>3. CASE pc[v] # "poll"
  <2>1. job[v] \in Jobs /\ Case(v) \in Assessments
    BY <1>3, CaseLemma
  <2>2. job'[v] \in Jobs' /\ run_queue'[job'[v]].assessment = run_queue[job[v]].assessment
    BY <2>1 DEF QueueGrows
  <2>3. PICK c \in Assessments : c = Case(v)
    BY <2>1
  <2>4. Case(v)' = c
    BY <2>2, <2>3 DEF Case
  <2>5. Recorded(c) \subseteq Recorded(c)'
    BY DEF LedgerGrows
  <2>6. Recorded(c)' = Recorded(Case(v))' /\ Carried(c)' = Carried(Case(v))'
    BY <2>4 DEF Recorded, Carried
  <2> QED
    BY <1>1, <1>3, <2>2, <2>3, <2>5, <2>6 DEF Held, Carried
<1> QED
  BY <1>2, <1>3

WorkersKept ==
  WorkerTypes' /\ CheckpointsInv' /\ \A v \in Workers : Held(v)'

\* The initial state of POST /assessments is a state of the graph.
LEMMA NoCheckpointType == NoCheckpoint \in GraphState
BY DEF NoCheckpoint, GraphState, Positions, Nodes

\* The parts of the invariant that speak of workers and checkpoints, by name.
LEMMA PartsLemma ==
  ASSUME EngineInv
  PROVE  WorkerTypes /\ CheckpointsInv /\ \A w \in Workers : Held(w)
BY DEF EngineInv, TypeOK, SeqInv, WorkerTypes, CheckpointsInv, Held

\* Checkpoints stay good while the ledger grows.
LEMMA CheckpointsHold ==
  ASSUME EngineInv, LedgerGrows, UNCHANGED checkpoints, created' \in [Assessments -> Nat]
  PROVE  CheckpointsInv'
<1>1. \A a \in Assessments : Carried(a) \subseteq Carried(a)'
  BY DEF LedgerGrows, Carried
<1> QED
  BY <1>1, PartsLemma DEF CheckpointsInv

\* Only the position of a worker moves, within its run or out of it.
LEMMA MoveStep ==
  ASSUME EngineInv, QueueGrows, LedgerGrows, NEW w \in Workers, pc[w] # "poll",
         NEW to \in PcValues \ {"poll"}, pc' = [pc EXCEPT ![w] = to],
         to \in InRun => pc[w] \in InRun,
         NEW c \in Assessments, c = Case(w),
         to \in {"conflict", "resolve"} => state[w].event_seq + 1 \in Recorded(c)',
         UNCHANGED <<job, state, answer, checkpoints, created>>
  PROVE  WorkersKept
<1>1. WorkerTypes' /\ CheckpointsInv'
  BY PartsLemma, CheckpointsHold DEF WorkerTypes, CheckpointsInv
<1>2. ASSUME NEW v \in Workers, v # w PROVE Held(v)'
  BY <1>2, OthersHold, PartsLemma DEF WorkerTypes
<1>3. Held(w)'
  <2>1. job[w] \in Jobs /\ Held(w)
    BY CaseLemma, PartsLemma
  <2>2. Case(w)' = c /\ job'[w] \in Jobs' /\ pc'[w] = to
    BY <2>1, PartsLemma DEF Case, QueueGrows, WorkerTypes
  <2>3. Recorded(c)' = Recorded(Case(w))' /\ Carried(c)' = Carried(Case(w))'
    BY <2>2 DEF Recorded, Carried
  <2>4. Carried(c) \subseteq Carried(c)'
    BY DEF LedgerGrows, Carried
  <2> QED
    BY <2>1, <2>2, <2>3, <2>4 DEF Held
<1> QED
  BY <1>1, <1>2, <1>3 DEF WorkersKept

\* A worker gives up its job, and what it had in memory.
LEMMA IdleStep ==
  ASSUME EngineInv, QueueGrows, LedgerGrows, NEW w \in Workers, Idle(w),
         UNCHANGED <<checkpoints, created>>
  PROVE  WorkersKept
<1>1. WorkerTypes' /\ CheckpointsInv'
  BY PartsLemma, CheckpointsHold, NoCheckpointType
  DEF WorkerTypes, CheckpointsInv, Idle, PcValues, InRun, InNode
<1>2. ASSUME NEW v \in Workers, v # w PROVE Held(v)'
  BY <1>2, OthersHold, PartsLemma DEF WorkerTypes, Idle
<1>3. Held(w)'
  BY PartsLemma DEF Held, Idle, WorkerTypes, InRun, InNode
<1> QED
  BY <1>1, <1>2, <1>3 DEF WorkersKept

\* The latest state of a run reaches the checkpoints.
LEMMA SavedLemma ==
  ASSUME EngineInv, LedgerGrows, NEW w \in Workers, pc[w] \in InRun,
         checkpoints' = Saved(w) \/ UNCHANGED checkpoints, UNCHANGED created
  PROVE  CheckpointsInv'
<1>1. CASE checkpoints' = [checkpoints EXCEPT ![Case(w)] = state[w]]
  <2>1. PICK c \in Assessments : c = Case(w)
    BY CaseLemma DEF InRun, InNode
  <2>2. state[w] \in GraphState /\ state[w].event_seq \in Carried(c)
    BY <2>1, PartsLemma DEF WorkerTypes, Held
  <2>3. \A a \in Assessments : Carried(a) \subseteq Carried(a)'
    BY DEF LedgerGrows, Carried
  <2> QED
    BY <1>1, <2>1, <2>2, <2>3, PartsLemma DEF CheckpointsInv
<1>2. CASE UNCHANGED checkpoints
  BY <1>2, CheckpointsHold, PartsLemma DEF CheckpointsInv
<1> QED
  BY <1>1, <1>2 DEF Saved

\* ainvoke returning or raising, with its last background write, keeps workers
\* and checkpoints good.
LEMMA EndRunStep ==
  ASSUME EngineInv, QueueGrows, LedgerGrows, NEW w \in Workers, pc[w] \in InRun,
         NEW to \in {"done", "failed"}, EndRun(w, to)
  PROVE  WorkersKept
<1>1. CheckpointsInv'
  BY SavedLemma DEF EndRun
<1>2. WorkerTypes'
  BY PartsLemma DEF EndRun, WorkerTypes, PcValues
<1>3. ASSUME NEW v \in Workers, v # w PROVE Held(v)'
  BY <1>3, OthersHold, PartsLemma DEF WorkerTypes, EndRun
<1>4. Held(w)'
  <2>1. job[w] \in Jobs /\ job'[w] = job[w] /\ pc'[w] = to
    BY CaseLemma, PartsLemma DEF InRun, InNode, EndRun, WorkerTypes
  <2> QED
    BY <2>1 DEF Held, QueueGrows, InRun, InNode
<1> QED
  BY <1>1, <1>2, <1>3, <1>4 DEF WorkersKept

\* A node is complete: its event_seq is that of a row by now.
LEMMA CompleteStep ==
  ASSUME EngineInv, QueueGrows, LedgerGrows, NEW w \in Workers, pc[w] \in InRun,
         NEW c \in Assessments, c = Case(w),
         NEW update, update \in GraphState, update.event_seq \in Recorded(c)',
         CompleteNode(w, update)
  PROVE  WorkersKept
<1>1. PICK new : /\ new \in GraphState /\ new.event_seq = update.event_seq
                 /\ state' = [state EXCEPT ![w] = new]
  <2>1. created[Case(w)] + 1 \in Nat
    BY PartsLemma DEF CheckpointsInv
  <2>2. /\ [update EXCEPT !.id = created[Case(w)] + 1] \in GraphState
        /\ [update EXCEPT !.id = created[Case(w)] + 1].event_seq = update.event_seq
    BY <2>1 DEF GraphState
  <2> QED
    BY <2>2 DEF CompleteNode
<1>2. CheckpointsInv'
  <2>1. created' \in [Assessments -> Nat]
    BY PartsLemma DEF CompleteNode, CheckpointsInv
  <2> QED
    BY <2>1, CheckpointsHold DEF CompleteNode
<1>3. WorkerTypes'
  BY <1>1, PartsLemma DEF CompleteNode, WorkerTypes, PcValues, InRun
<1>4. ASSUME NEW v \in Workers, v # w PROVE Held(v)'
  BY <1>1, <1>4, OthersHold, PartsLemma DEF WorkerTypes, CompleteNode
<1>5. Held(w)'
  <2>1. job[w] \in Jobs /\ job'[w] = job[w] /\ pc'[w] = "node"
    BY CaseLemma, PartsLemma DEF InRun, InNode, CompleteNode, WorkerTypes
  <2>2. Case(w)' = c /\ job'[w] \in Jobs'
    BY <2>1 DEF Case, QueueGrows
  <2>3. Recorded(c)' = Recorded(Case(w))'
    BY <2>2 DEF Recorded
  <2>4. state'[w].event_seq = update.event_seq
    BY <1>1, PartsLemma DEF WorkerTypes
  <2> QED
    BY <2>1, <2>2, <2>3, <2>4 DEF Held, Carried
<1> QED
  BY <1>2, <1>3, <1>4, <1>5 DEF WorkersKept

\* Returned, and what a node adds to it, is a graph state one row further.
LEMMA ReturnedLemma ==
  ASSUME EngineInv, NEW w \in Workers, NEW to \in Positions,
         NEW verdict \in Verdicts, NEW human \in Answers \cup {"none"}, NEW round \in Nat
  PROVE  /\ Returned(w, to) \in GraphState
         /\ Returned(w, to).event_seq = state[w].event_seq + 1
         /\ [Returned(w, to) EXCEPT !.verdict = verdict] \in GraphState
         /\ [Returned(w, to) EXCEPT !.verdict = verdict].event_seq = state[w].event_seq + 1
         /\ [Returned(w, to) EXCEPT !.human_decision = human] \in GraphState
         /\ [Returned(w, to) EXCEPT !.human_decision = human].event_seq = state[w].event_seq + 1
         /\ [Returned(w, to) EXCEPT !.verdict = verdict, !.conflict_round = round] \in GraphState
         /\ [Returned(w, to) EXCEPT !.verdict = verdict, !.conflict_round = round].event_seq
               = state[w].event_seq + 1
<1>1. state[w] \in GraphState
  BY PartsLemma DEF WorkerTypes
<1>2. Returned(w, to) \in GraphState /\ Returned(w, to).event_seq = state[w].event_seq + 1
  <2>1. PICK seq \in Nat : seq = state[w].event_seq + 1
    BY <1>1 DEF GraphState
  <2>2. Returned(w, to) = [state[w] EXCEPT !.next = to, !.event_seq = seq]
    BY <1>1, <2>1 DEF GraphState, Returned
  <2>3. ASSUME NEW r \in GraphState
        PROVE  /\ [r EXCEPT !.next = to, !.event_seq = seq] \in GraphState
               /\ [r EXCEPT !.next = to, !.event_seq = seq].event_seq = seq
    BY DEF GraphState
  <2> QED
    BY <1>1, <2>1, <2>2, <2>3
<1>3. ASSUME NEW r \in GraphState
      PROVE  /\ [r EXCEPT !.verdict = verdict] \in GraphState
             /\ [r EXCEPT !.human_decision = human] \in GraphState
             /\ [r EXCEPT !.verdict = verdict, !.conflict_round = round] \in GraphState
             /\ [r EXCEPT !.verdict = verdict].event_seq = r.event_seq
             /\ [r EXCEPT !.human_decision = human].event_seq = r.event_seq
             /\ [r EXCEPT !.verdict = verdict, !.conflict_round = round].event_seq = r.event_seq
  BY DEF GraphState
<1> QED
  BY <1>2, <1>3

\* route_after_risk_critic names a node of the graph.
LEMMA RoutedLemma ==
  ASSUME NEW verdict, NEW round
  PROVE  route_after_risk_critic(verdict, round) \in Positions
BY DEF route_after_risk_critic, Positions, Nodes

\* Every step of the service keeps what workers hold and what the checkpointer
\* stores good: one case per kind of step.
LEMMA WorkersStep ==
  ASSUME EngineInv, [Next]_vars
  PROVE  WorkersKept
<1>1. QueueGrows /\ LedgerGrows
  BY QueueStep, LedgerStep DEF EngineInv
<1>2. WorkerTypes /\ CheckpointsInv
  BY PartsLemma
<1>3. CASE \E w \in Workers : Logging(w)
  <2>1. PICK w \in Workers : Logging(w)
    BY <1>3
  <2>2. pc[w] \in {"node", "log"} /\ pc[w] \in InRun
    BY <2>1, LoggingLemma DEF InRun, InNode
  <2>3. PICK c \in Assessments : c = Case(w)
    BY <2>2, CaseLemma
  <2>4. state[w].event_seq + 1 \in Recorded(c)'
    BY <2>1, <2>2, <2>3, LoggingLemma, LogStep
  <2>5. ASSUME NEW update, update \in GraphState, update.event_seq = state[w].event_seq + 1,
               CompleteNode(w, update)
        PROVE  WorkersKept
    BY <1>1, <2>2, <2>3, <2>4, <2>5, CompleteStep
  <2>6. CASE SupervisorLogs(w) \/ data_engineer_node(w) \/ financial_analyst_node(w)
             \/ finalize_decision_node(w)
    <3>1. PICK to \in Positions : CompleteNode(w, Returned(w, to))
      BY <2>6 DEF SupervisorLogs, data_engineer_node, financial_analyst_node,
                  finalize_decision_node, EdgeAfter, Positions, Nodes
    <3> QED
      BY <2>5, <3>1, ReturnedLemma DEF Verdicts
  <2>7. CASE CriticPasses(w)
    <3>1. PICK verdict \in {"approve", "escalate"} :
            CompleteNode(w, [Returned(w, route_after_risk_critic(verdict, state[w].conflict_round))
                               EXCEPT !.verdict = verdict])
      BY <2>7 DEF CriticPasses
    <3> QED
      BY <2>5, <3>1, ReturnedLemma, RoutedLemma DEF Verdicts
  <2>8. CASE EscalationLogs(w)
    <3>1. answer[w] \in Answers \cup {"none"} /\ EdgeAfter.human_escalation \in Positions
      BY <1>2 DEF WorkerTypes, EdgeAfter, Positions, Nodes
    <3> QED
      BY <2>5, <2>8, <3>1, ReturnedLemma DEF EscalationLogs, Verdicts
  <2>9. CASE CriticRejects(w)
    BY <1>1, <2>2, <2>3, <2>4, <2>9, MoveStep DEF CriticRejects, PcValues, InRun, InNode
  <2> QED
    BY <2>1, <2>6, <2>7, <2>8, <2>9 DEF Logging
<1>4. CASE \E w \in Workers : CriticOpensConflict(w)
  <2>1. PICK w \in Workers : CriticOpensConflict(w)
    BY <1>4
  <2>2. PICK c \in Assessments : c = Case(w)
    BY <2>1, CaseLemma DEF CriticOpensConflict
  <2>3. state[w].event_seq + 1 \in Recorded(c)'
    BY <1>1, <2>1, <2>2, PartsLemma DEF CriticOpensConflict, Held, LedgerGrows
  <2> QED
    BY <1>1, <2>1, <2>2, <2>3, MoveStep DEF CriticOpensConflict, PcValues, InRun, InNode
<1>5. CASE \E w \in Workers : CriticResolves(w)
  <2>1. PICK w \in Workers : CriticResolves(w)
    BY <1>5
  <2>2. PICK c \in Assessments : c = Case(w)
    BY <2>1, CaseLemma DEF CriticResolves
  <2>3. state[w].event_seq + 1 \in Recorded(c)'
    BY <1>1, <2>1, <2>2, PartsLemma DEF CriticResolves, Held, LedgerGrows
  <2>4. NewRound(w) \in Nat
    BY <1>2 DEF NewRound, WorkerTypes, GraphState
  <2> DEFINE update == [Returned(w, route_after_risk_critic("reject", NewRound(w)))
                          EXCEPT !.verdict = "reject", !.conflict_round = NewRound(w)]
  <2>5. CompleteNode(w, update) /\ pc[w] \in InRun
    BY <2>1 DEF CriticResolves, InRun, InNode
  <2>6. update \in GraphState /\ update.event_seq = state[w].event_seq + 1
    BY <2>4, ReturnedLemma, RoutedLemma DEF Verdicts
  <2> HIDE DEF update
  <2> QED
    BY <1>1, <2>2, <2>3, <2>5, <2>6, CompleteStep
<1>6. CASE \E w \in Workers : \/ SupervisorStarts(w) \/ EscalationStarts(w)
                              \/ EscalationResumes(w) \/ MarkJobFailed(w) \/ JobRaises(w)
  <2>1. PICK w \in Workers, to \in {"log", "interrupt", "case", "failed"} :
          /\ pc[w] # "poll" /\ pc' = [pc EXCEPT ![w] = to]
          /\ to \in InRun => pc[w] \in InRun
          /\ UNCHANGED <<job, state, answer, checkpoints, created>>
    BY <1>6 DEF SupervisorStarts, EscalationStarts, EscalationResumes, MarkJobFailed,
                JobRaises, At, InRun, InNode
  <2>2. PICK c \in Assessments : c = Case(w)
    BY <2>1, CaseLemma
  <2> QED
    BY <1>1, <2>1, <2>2, MoveStep DEF PcValues, InRun, InNode
<1>7. CASE \E w \in Workers : \/ GraphEnds(w) \/ EscalationPauses(w) \/ SeqTaken(w) \/ NodeRaises(w)
  <2>1. PICK w \in Workers, to \in {"done", "failed"} : pc[w] \in InRun /\ EndRun(w, to)
    BY <1>7 DEF GraphEnds, EscalationPauses, SeqTaken, NodeRaises, AtInsert, At, InRun, InNode
  <2> QED
    BY <1>1, <2>1, EndRunStep
<1>8. CASE \E w \in Workers : MarkDone(w) \/ MarkCaseFailed(w) \/ Crash(w)
  <2>1. PICK w \in Workers : Idle(w) /\ UNCHANGED <<checkpoints, created>>
    BY <1>8 DEF MarkDone, MarkCaseFailed, Crash
  <2> QED
    BY <1>1, <2>1, IdleStep
<1>9. CASE \E w \in Workers : ClaimOneJob(w)
  <2>1. PICK w \in Workers, j \in Jobs :
          /\ job' = [job EXCEPT ![w] = j] /\ pc' = [pc EXCEPT ![w] = "invoke"]
          /\ UNCHANGED <<checkpoints, created, state, answer>>
    BY <1>9 DEF ClaimOneJob
  <2>2. j \in Nat /\ j \in Jobs'
    <3>1. run_queue \in Seq(Job)
      BY DEF EngineInv, TypeOK, RunQueueTypeOK
    <3> QED
      BY <1>1, <2>1, <3>1 DEF Jobs, QueueGrows
  <2>3. WorkerTypes' /\ CheckpointsInv'
    BY <1>1, <1>2, <2>1, <2>2, CheckpointsHold DEF WorkerTypes, PcValues, CheckpointsInv
  <2>4. ASSUME NEW v \in Workers, v # w PROVE Held(v)'
    BY <1>1, <1>2, <2>1, <2>4, OthersHold DEF WorkerTypes
  <2>5. Held(w)'
    BY <1>2, <2>1, <2>2 DEF WorkerTypes, Held, InRun, InNode
  <2> QED
    BY <2>3, <2>4, <2>5 DEF WorkersKept
<1>10. CASE \E w \in Workers : InvokeStart(w)
  <2>1. PICK w \in Workers : InvokeStart(w)
    BY <1>10
  <2>2. PICK c \in Assessments : c = Case(w)
    BY <2>1, CaseLemma DEF InvokeStart
  <2>3. PICK new : /\ new \in GraphState /\ new.event_seq = 0
                   /\ state' = [state EXCEPT ![w] = new]
    <3>1. checkpoints[c] \in GraphState /\ created[c] + 1 \in Nat
      BY <1>2 DEF CheckpointsInv
    <3> DEFINE input == [checkpoints[c] EXCEPT !.id = created[c] + 1, !.next = "supervisor",
                                               !.event_seq = 0, !.conflict_round = 0]
    <3>2. input \in GraphState /\ input.event_seq = 0
      <4>1. "supervisor" \in Positions
        BY DEF Positions, Nodes
      <4>2. ASSUME NEW r \in GraphState, NEW id \in Nat
            PROVE  LET start == [r EXCEPT !.id = id, !.next = "supervisor",
                                          !.event_seq = 0, !.conflict_round = 0]
                   IN  start \in GraphState /\ start.event_seq = 0
        BY <4>1 DEF GraphState
      <4> QED
        BY <3>1, <4>2
    <3>3. state' = [state EXCEPT ![w] = input]
      BY <2>1, <2>2 DEF InvokeStart
    <3> HIDE DEF input
    <3> QED
      BY <3>2, <3>3
  <2>4. created' \in [Assessments -> Nat]
    BY <1>2, <2>1, <2>2 DEF InvokeStart, CheckpointsInv
  <2>5. WorkerTypes' /\ CheckpointsInv'
    BY <1>1, <1>2, <2>1, <2>3, <2>4, CheckpointsHold
    DEF WorkerTypes, PcValues, InRun, InvokeStart
  <2>6. ASSUME NEW v \in Workers, v # w PROVE Held(v)'
    BY <1>1, <1>2, <2>1, <2>3, <2>6, OthersHold DEF WorkerTypes, InvokeStart
  <2>7. Held(w)'
    <3>1. /\ pc'[w] = "node" /\ job'[w] \in Jobs' /\ state'[w].event_seq = 0
      BY <1>1, <1>2, <2>1, <2>3, CaseLemma DEF WorkerTypes, InvokeStart, QueueGrows
    <3> QED
      BY <3>1 DEF Held, Carried
  <2> QED
    BY <2>5, <2>6, <2>7 DEF WorkersKept
<1>11. CASE \E w \in Workers : InvokeResume(w)
  <2>1. PICK w \in Workers : InvokeResume(w)
    BY <1>11
  <2>2. PICK c \in Assessments : c = Case(w)
    BY <2>1, CaseLemma DEF InvokeResume
  <2>3. run_queue[job[w]].payload \in Answers \cup {"none"}
    <3>1. run_queue[job[w]] \in Job
      BY <2>1, CaseLemma, ElementOfSeq
      DEF InvokeResume, EngineInv, TypeOK, RunQueueTypeOK, Jobs
    <3> QED
      BY <3>1 DEF Job, Answers
  <2>4. PICK to \in {"failed", "done", "node"} : pc' = [pc EXCEPT ![w] = to]
    BY <2>1 DEF InvokeResume
  <2>5. state' = [state EXCEPT ![w] = checkpoints[c]]
    BY <2>1, <2>2 DEF InvokeResume
  <2>6. WorkerTypes' /\ CheckpointsInv'
    BY <1>1, <1>2, <2>1, <2>3, <2>4, <2>5, CheckpointsHold
    DEF WorkerTypes, PcValues, InRun, InvokeResume, CheckpointsInv
  <2>7. ASSUME NEW v \in Workers, v # w PROVE Held(v)'
    BY <1>1, <1>2, <2>1, <2>4, <2>5, <2>7, OthersHold DEF WorkerTypes, InvokeResume
  <2>8. Held(w)'
    <3>1. /\ pc'[w] = to /\ job'[w] = job[w] /\ job[w] \in Jobs
          /\ state'[w] = checkpoints[c]
      BY <1>2, <2>1, <2>4, <2>5, CaseLemma DEF WorkerTypes, InvokeResume
    <3>2. job'[w] \in Jobs' /\ Case(w)' = c
      BY <1>1, <2>2, <3>1 DEF Case, QueueGrows
    <3>3. Carried(c)' = Carried(Case(w))' /\ Carried(c) \subseteq Carried(c)'
      BY <1>1, <3>2 DEF Carried, Recorded, LedgerGrows
    <3> QED
      BY <1>2, <3>1, <3>2, <3>3 DEF Held, CheckpointsInv
  <2> QED
    BY <2>6, <2>7, <2>8 DEF WorkersKept
<1>12. CASE \E w \in Workers : Persist(w)
  <2>1. PICK w \in Workers : Persist(w)
    BY <1>12
  <2>2. CheckpointsInv'
    BY <1>1, <2>1, SavedLemma DEF Persist
  <2>3. \A v \in Workers : Held(v)'
    BY <1>1, <2>1, OthersHold DEF Persist, workerVars
  <2> QED
    BY <1>2, <2>1, <2>2, <2>3 DEF WorkersKept, WorkerTypes, Persist, workerVars
<1>13. CASE UNCHANGED <<workerVars, checkpoints, created>>
  <2>1. \A v \in Workers : Held(v)'
    BY <1>1, <1>13, OthersHold DEF workerVars
  <2> QED
    BY <1>1, <1>2, <1>13, <2>1, CheckpointsHold
    DEF WorkersKept, WorkerTypes, CheckpointsInv, workerVars
<1> QED
  BY <1>3, <1>4, <1>5, <1>6, <1>7, <1>8, <1>9, <1>10, <1>11, <1>12, <1>13
  DEF Next, vars, WorkerStep, RunStep, Logging, create_assessment, RequestResume, AcceptResume,
      Reclaim, JobAges

-----------------------------------------------------------------------------
\* The empty database satisfies the invariant.
LEMMA InitEngineInv == Init => EngineInv
<1> SUFFICES ASSUME Init PROVE EngineInv
  OBVIOUS
<1> USE DEF Init
<1>1. TypeOK
  BY NoCheckpointType
  DEF TypeOK, RunQueueTypeOK, LedgerInit, LedgerTypeOK, CaseFileInit, CaseFileTypeOK, NoRequest,
      Stages, PcValues, InRun
<1>2. RequestInv
  BY DEF RequestInv, NoRequest
<1>3. \A a \in Assessments : Recorded(a) = {} /\ Chained(a)
  <2>1. \A a \in Assessments : Recorded(a) = {}
    BY DEF LedgerInit, Recorded
  <2>2. 0 \in Nat /\ 1..0 = {}
    OBVIOUS
  <2> QED
    BY <2>1, <2>2 DEF Chained
<1>4. SeqInv
  BY <1>3 DEF SeqInv, NoCheckpoint, Carried, InRun, InNode
<1> QED
  BY <1>1, <1>2, <1>4 DEF EngineInv

\* Every step of the API, the workers, the checkpointer and time keeps it.
LEMMA StepEngineInv == EngineInv /\ [Next]_vars => EngineInv'
<1> SUFFICES ASSUME EngineInv, [Next]_vars PROVE EngineInv'
  OBVIOUS
<1>1. QueueGrows /\ LedgerGrows
  BY QueueStep, LedgerStep DEF EngineInv
<1>2. CaseFileTypeOK' /\ request' \in [Requests -> Request] /\ RequestInv'
  BY StatusStep, RequestStep
<1>3. WorkerTypes' /\ CheckpointsInv' /\ \A w \in Workers : Held(w)'
  BY WorkersStep DEF WorkersKept
<1>4. crashes' \in Nat
  <2>1. crashes \in Nat /\ (crashes' = crashes \/ crashes' = crashes + 1)
    BY DEF EngineInv, TypeOK, Next, vars, create_assessment, RequestResume, AcceptResume,
        WorkerStep, Persist, Crash, JobAges, Reclaim, ClaimOneJob, InvokeStart, InvokeResume,
        MarkDone, JobRaises, MarkJobFailed, MarkCaseFailed, RunStep, SupervisorStarts,
        SupervisorLogs,
        data_engineer_node, financial_analyst_node, CriticPasses, CriticRejects,
        CriticOpensConflict, CriticResolves, EscalationStarts, EscalationPauses,
        EscalationResumes, EscalationLogs, finalize_decision_node, GraphEnds, SeqTaken, NodeRaises
  <2> QED
    BY <2>1
<1>5. TypeOK'
  BY <1>1, <1>2, <1>3, <1>4
  DEF TypeOK, QueueGrows, LedgerGrows, Request, WorkerTypes, CheckpointsInv, Held
<1>6. SeqInv'
  BY <1>1, <1>3 DEF SeqInv, LedgerGrows, CheckpointsInv, Held
<1> QED
  BY <1>2, <1>5, <1>6 DEF EngineInv

\* In every reachable state of the service, for any number of cases, workers,
\* requests and crashes, each event_seq a worker or a checkpoint carries is 0 or
\* the number of a recorded row, and the rows of a case are chained 1..n.
THEOREM EngineInvariant == Spec => []EngineInv
BY InitEngineInv, StepEngineInv, PTL DEF Spec

\* Every variable of the service keeps its type, whatever workers, crashes and
\* concurrent requests do.
THEOREM EngineTypeCorrect == Spec => []TypeOK
<1>1. EngineInv => TypeOK
  BY DEF EngineInv
<1> QED
  BY <1>1, EngineInvariant, PTL

\* The hash chain of the ledger is never broken: the trigger's "last row" and
\* the numbers _log takes from the graph state never disagree, however many
\* workers write to a case and however often its job is reclaimed.
THEOREM LedgerChain == Spec => []ChainUnbroken
<1>1. EngineInv => ChainUnbroken
  <2> SUFFICES ASSUME EngineInv, NEW a \in Assessments, NEW k \in Recorded(a)
               PROVE  /\ k > 0
                      /\ audit_events[a][k].prev = k - 1
                      /\ k > 1 => k - 1 \in Recorded(a)
    BY DEF ChainUnbroken
  <2>1. PICK n \in Nat : Recorded(a) = 1..n /\ \A i \in 1..n : audit_events[a][i].prev = i - 1
    BY DEF EngineInv, SeqInv, Chained
  <2> QED
    BY <2>1
<1> QED
  BY <1>1, EngineInvariant, PTL

-----------------------------------------------------------------------------
\* A completed case has its decision: finalize_decision_node is the only writer
\* of that status, decisions are never deleted, and no other run of the case
\* can bring the status about without one.
THEOREM CompletedCarriesDecision == Spec => []CompletedHasDecision
<1> DEFINE Completed == EngineInv /\ CompletedHasDecision
<1>1. Init => Completed
  BY InitEngineInv DEF Init, CaseFileInit, CompletedHasDecision
<1>2. Completed /\ [Next]_vars => Completed'
  <2> SUFFICES ASSUME Completed, [Next]_vars PROVE CompletedHasDecision'
    BY StepEngineInv
  <2>1. /\ status \in [Assessments -> Statuses \cup {"none"}]
        /\ decisions \in [Assessments -> SUBSET DecisionRow]
    BY DEF EngineInv, TypeOK, CaseFileTypeOK, LedgerTypeOK
  <2>2. ASSUME NEW a, NEW to, to # "completed", update_assessment_status(a, to),
               UNCHANGED decisions
        PROVE  CompletedHasDecision'
    BY <2>1, <2>2 DEF update_assessment_status, CompletedHasDecision
  <2>3. CASE \E a \in Assessments : create_assessment(a)
    BY <2>1, <2>3 DEF create_assessment, InsertAssessment, ledger, CompletedHasDecision
  <2>4. CASE \E w \in Workers : \/ MarkCaseFailed(w) \/ SupervisorStarts(w)
                                \/ EscalationStarts(w) \/ EscalationResumes(w)
    BY <2>2, <2>4 DEF MarkCaseFailed, SupervisorStarts, EscalationStarts, EscalationResumes, ledger
  <2>5. CASE \E w \in Workers : finalize_decision_node(w)
    <3>1. PICK w \in Workers : finalize_decision_node(w)
      BY <2>5
    <3>2. PICK row : /\ decisions' = [decisions EXCEPT ![Case(w)] = {row}]
                     /\ status' = [status EXCEPT ![Case(w)] = "completed"]
      BY <3>1 DEF finalize_decision_node, record_decision, update_assessment_status
    <3> QED
      BY <2>1, <3>2 DEF CompletedHasDecision
  <2>6. CASE UNCHANGED <<status, decisions>>
    BY <2>6 DEF CompletedHasDecision
  <2> QED
    BY <2>3, <2>4, <2>5, <2>6
    DEF Next, vars, ledger, RequestResume, AcceptResume, WorkerStep, Persist, Crash, JobAges,
        Reclaim, ClaimOneJob, InvokeStart, InvokeResume, MarkDone, JobRaises,
        MarkJobFailed, RunStep,
        SupervisorLogs, data_engineer_node, financial_analyst_node, CriticPasses, CriticRejects,
        CriticOpensConflict, CriticResolves, EscalationPauses, EscalationLogs, GraphEnds,
        SeqTaken, NodeRaises
<1>3. Spec => []Completed
  BY <1>1, <1>2, PTL DEF Spec
<1> QED
  BY <1>3, PTL

-----------------------------------------------------------------------------
\* While no run outlasts the reclaim interval: the row a worker holds is claimed
\* and fresh until the worker closes it.
RunnerInv ==
  /\ JobHasOneRunner
  /\ \A w \in Workers : pc[w] # "poll" =>
       /\ run_queue[job[w]].status = (IF pc[w] = "case" THEN "failed" ELSE "claimed")
       /\ ~run_queue[job[w]].stale

\* The claim, the reclaim and the two endings of run_once keep RunnerInv, as long
\* as no live run outlasts the staleness limit.
LEMMA StepRunnerInv ==
  ASSUME ~SlowRuns, EngineInv, RunnerInv, [Next]_vars
  PROVE  RunnerInv'
<1>1. /\ run_queue \in [Jobs -> Job]
      /\ 0 \notin Jobs
      /\ pc \in [Workers -> PcValues] /\ job \in [Workers -> Nat]
      /\ \A w \in Workers : IF pc[w] = "poll" THEN job[w] = 0 ELSE job[w] \in Jobs
  BY SeqDef DEF EngineInv, TypeOK, RunQueueTypeOK, Jobs
<1> USE DEF RunnerInv, JobHasOneRunner
<1>2. CASE \/ \E a \in Assessments : create_assessment(a)
           \/ \E q \in Requests : AcceptResume(q)
  <2>1. PICK row : run_queue' = Append(run_queue, row) /\ UNCHANGED workerVars
    BY <1>2 DEF create_assessment, AcceptResume, Enqueue
  <2>2. \A j \in Jobs : run_queue'[j] = run_queue[j]
    BY <2>1 DEF EngineInv, TypeOK, RunQueueTypeOK, Jobs
  <2> QED
    BY <1>1, <2>1, <2>2 DEF workerVars
<1>3. CASE \E w \in Workers : Reclaim(w)
  <2>1. /\ UNCHANGED workerVars
        /\ run_queue' = [j \in Jobs |->
             IF run_queue[j].status = "claimed" /\ run_queue[j].stale
             THEN [run_queue[j] EXCEPT !.status = "queued", !.stale = FALSE]
             ELSE run_queue[j]]
    BY <1>3 DEF Reclaim, ReclaimStale
  <2>2. \A j \in Jobs : ~run_queue[j].stale => run_queue'[j] = run_queue[j]
    BY <2>1
  <2> QED
    BY <1>1, <2>1, <2>2 DEF workerVars
<1>4. CASE \E j \in Jobs : JobAges(j)
  <2>1. PICK j \in Jobs : /\ \A w \in Workers : job[w] # j
                         /\ run_queue' = [run_queue EXCEPT ![j].stale = TRUE]
                         /\ UNCHANGED workerVars
    BY <1>4 DEF JobAges, ClaimAges
  <2> QED
    BY <1>1, <2>1 DEF workerVars
<1>5. CASE \E w \in Workers : ClaimOneJob(w)
  <2>1. PICK w \in Workers, j \in Jobs :
          /\ pc[w] = "poll" /\ run_queue[j].status = "queued"
          /\ run_queue' = [run_queue EXCEPT ![j].status = "claimed", ![j].stale = FALSE]
          /\ job' = [job EXCEPT ![w] = j] /\ pc' = [pc EXCEPT ![w] = "invoke"]
    BY <1>5 DEF ClaimOneJob, Claim
  <2>2. \A v \in Workers : job[v] # j
    BY <1>1, <2>1
  <2>3. run_queue'[j].status = "claimed" /\ ~run_queue'[j].stale
    BY <1>1, <2>1 DEF Job
  <2>4. \A i \in Jobs : i # j => run_queue'[i] = run_queue[i]
    BY <1>1, <2>1
  <2> QED
    BY <1>1, <2>1, <2>2, <2>3, <2>4
<1>6. CASE \E w \in Workers : MarkDone(w)
  <2>1. PICK w \in Workers : /\ pc[w] = "done"
                            /\ run_queue' = [run_queue EXCEPT ![job[w]].status = "done"]
                            /\ pc' = [pc EXCEPT ![w] = "poll"] /\ job' = [job EXCEPT ![w] = 0]
    BY <1>6 DEF MarkDone, Settle, Idle
  <2>2. \A v \in Workers : v # w /\ pc[v] # "poll" => run_queue'[job[v]] = run_queue[job[v]]
    BY <1>1, <2>1
  <2> QED
    BY <1>1, <2>1, <2>2
<1>7. CASE \E w \in Workers : MarkJobFailed(w)
  <2>1. PICK w \in Workers : /\ pc[w] = "failed"
                            /\ run_queue' = [run_queue EXCEPT ![job[w]].status = "failed"]
                            /\ pc' = [pc EXCEPT ![w] = "case"] /\ job' = job
    BY <1>7 DEF MarkJobFailed, Settle
  <2>2. \A v \in Workers : v # w /\ pc[v] # "poll" => run_queue'[job[v]] = run_queue[job[v]]
    BY <1>1, <2>1
  <2>3. run_queue'[job[w]].status = "failed" /\ ~run_queue'[job[w]].stale
    BY <1>1, <2>1 DEF Job
  <2> QED
    BY <1>1, <2>1, <2>2, <2>3
<1>8. CASE \E w \in Workers : MarkCaseFailed(w) \/ Crash(w)
  BY <1>1, <1>8 DEF MarkCaseFailed, Crash, Idle
<1>9. CASE \E w \in Workers : RunStep(w) \/ InvokeStart(w) \/ InvokeResume(w) \/ JobRaises(w)
  <2>1. PICK w \in Workers : RunStep(w) \/ InvokeStart(w) \/ InvokeResume(w) \/ JobRaises(w)
    BY <1>9
  <2>2. UNCHANGED <<run_queue, job>> /\ pc[w] \in InRun \cup {"invoke", "done"}
    BY <2>1
    DEF RunStep, JobRaises, InvokeStart, InvokeResume, SupervisorStarts, SupervisorLogs,
        data_engineer_node, financial_analyst_node, CriticPasses, CriticRejects,
        CriticOpensConflict, CriticResolves, EscalationStarts, EscalationPauses,
        EscalationResumes, EscalationLogs, finalize_decision_node, GraphEnds, SeqTaken,
        NodeRaises, At, AtInsert, CompleteNode,
        EndRun, InRun, InNode
  <2>3. PICK to : pc' = [pc EXCEPT ![w] = to] /\ to \notin {"poll", "case"}
    <3>1. CASE \E update : CompleteNode(w, update)
      BY <3>1 DEF CompleteNode
    <3>2. CASE \E to \in {"done", "failed"} : EndRun(w, to)
      BY <3>2 DEF EndRun
    <3>3. CASE \/ SupervisorStarts(w) \/ CriticRejects(w) \/ CriticOpensConflict(w)
               \/ EscalationStarts(w) \/ EscalationResumes(w)
      BY <3>3 DEF SupervisorStarts, CriticRejects, CriticOpensConflict, EscalationStarts,
                  EscalationResumes
    <3>4. CASE InvokeStart(w) \/ JobRaises(w)
      <4>1. pc' = [pc EXCEPT ![w] = "node"] \/ pc' = [pc EXCEPT ![w] = "failed"]
        BY <3>4 DEF InvokeStart, JobRaises
      <4> QED
        BY <4>1
    <3>5. CASE InvokeResume(w)
      <4>1. \E to \in {"failed", "done", "node"} : pc' = [pc EXCEPT ![w] = to]
        BY <3>5 DEF InvokeResume
      <4> QED
        BY <4>1
    <3> QED
      BY <2>1, <3>1, <3>2, <3>3, <3>4, <3>5
      DEF RunStep, SupervisorLogs, data_engineer_node, financial_analyst_node, CriticPasses,
          CriticResolves, EscalationPauses, EscalationLogs, finalize_decision_node, GraphEnds,
          SeqTaken, NodeRaises
  <2>4. pc[w] \notin {"poll", "case"}
    BY <2>2 DEF InRun, InNode
  <2> QED
    BY <1>1, <2>2, <2>3, <2>4
<1>10. CASE UNCHANGED <<run_queue, workerVars>>
  BY <1>10 DEF workerVars
<1> QED
  BY <1>2, <1>3, <1>4, <1>5, <1>6, <1>7, <1>8, <1>9, <1>10
  DEF Next, vars, WorkerStep, RequestResume, Persist

\* Provided every run is faster than run_queue_stale_after_seconds, a job held is
\* claimed, freshly, and held by one worker, whatever crashes and reclaims.
THEOREM RunnerInvariant == ~SlowRuns /\ Spec => []RunnerInv
<1> SUFFICES ASSUME ~SlowRuns PROVE Spec => []RunnerInv
  OBVIOUS
<1>1. Init => RunnerInv
  BY DEF Init, RunnerInv, JobHasOneRunner
<1>2. EngineInv /\ RunnerInv /\ [Next]_vars => RunnerInv'
  BY StepRunnerInv
<1> QED
  BY <1>1, <1>2, EngineInvariant, PTL DEF Spec

\* Under the same proviso no row of the queue is ever worked on twice at a time.
THEOREM OneRunnerPerJob == ~SlowRuns /\ Spec => []JobHasOneRunner
<1>1. RunnerInv => JobHasOneRunner
  BY DEF RunnerInv
<1> QED
  BY <1>1, RunnerInvariant, PTL
=============================================================================
