--------------------------- MODULE SettlingProofs ---------------------------
(***************************************************************************)
(* A case at rest shows a status its caller can act on, for every set of   *)
(* cases, workers and requests, as long as no worker has crashed and no    *)
(* run is slow.                                                            *)
(*                                                                         *)
(* Then nothing is delivered twice, so that of every case one can say who  *)
(* has still to write its status: CalmInv follows a case from its start    *)
(* job to its last resume job, and compares, by their number, what the     *)
(* runs of a case leave in the checkpointer.                               *)
(*                                                                         *)
(* The same invariant tells what becomes of a rejection whose statements   *)
(* were cut short: its case is shown as failed.                            *)
(***************************************************************************)
EXTENDS LedgerProofs

USE RetriesAssumption, EngineAssumption

-----------------------------------------------------------------------------
(* The queue, while nothing crashes.                                        *)

\* No claim is old, and behind every claim there is a worker.
ClaimsHeld ==
  \A j \in Jobs : /\ ~run_queue[j].stale
                  /\ run_queue[j].status = "claimed" => \E w \in Workers : job[w] = j

\* A step that neither loses a worker nor gives anyone's job to another.
CalmStep ==
  /\ [Next]_vars
  /\ \A w \in Workers : ~Crash(w) /\ ~Reclaim(w)
  /\ ~ \E j \in Jobs : JobAges(j)

\* Crashes are counted.
LEMMA CrashesCount ==
  ASSUME EngineInv, [Next]_vars, crashes' = 0
  PROVE  crashes = 0 /\ \A w \in Workers : ~Crash(w)
<1>1. crashes \in Nat
  BY DEF EngineInv, TypeOK
<1>2. \A w \in Workers : ~Crash(w)
  BY <1>1 DEF Crash
<1>3. UNCHANGED crashes
  BY <1>2
  DEF Next, vars, create_assessment, RequestResume, AcceptResume, WorkerStep, Persist, JobAges,
      Reclaim, ClaimOneJob, InvokeStart, InvokeResume, MarkDone, JobRaises,
      MarkJobFailed, MarkCaseFailed, RunStep, SupervisorStarts, SupervisorLogs,
      data_engineer_node, financial_analyst_node, CriticPasses, CriticRejects,
      CriticOpensConflict, CriticResolves, EscalationStarts, EscalationPauses,
      EscalationResumes, EscalationLogs, finalize_decision_node, GraphEnds, SeqTaken, NodeRaises
<1> QED
  BY <1>2, <1>3

\* While claims are held, a live run is faster than the limit and no claim ages,
\* so there is nothing to reclaim.
LEMMA NothingAges ==
  ASSUME ~SlowRuns, ClaimsHeld
  PROVE  /\ \A w \in Workers : ~Reclaim(w)
         /\ ~ \E j \in Jobs : JobAges(j)
BY DEF ClaimsHeld, Reclaim, ReclaimStale, JobAges, ClaimAges

\* A step moves a worker by its own doing, or not at all.
LEMMA OwnStep ==
  ASSUME EngineInv, [Next]_vars, NEW w \in Workers
  PROVE  Still(w) \/ WorkerStep(w) \/ Crash(w)
BY OneActor DEF Still, workerVars

\* A worker changes its job where it claims one and where it closes one.
LEMMA JobMoves ==
  ASSUME EngineInv, CalmStep, NEW w \in Workers, job'[w] # job[w]
  PROVE  ClaimOneJob(w) \/ MarkDone(w) \/ MarkCaseFailed(w)
BY OwnStep
DEF CalmStep, Still, WorkerStep, JobRaises, MarkJobFailed, InvokeStart, InvokeResume, RunStep,
    SupervisorStarts, SupervisorLogs, data_engineer_node, financial_analyst_node, CriticPasses,
    CriticRejects, CriticOpensConflict, CriticResolves, EscalationStarts, EscalationPauses,
    EscalationResumes, EscalationLogs, finalize_decision_node, GraphEnds, SeqTaken, NodeRaises,
    CompleteNode, EndRun

\* The claim hands the row to its worker, and run_once's endings close the row
\* before, or with, the worker's return to the top of the loop.
LEMMA ClaimsStep ==
  ASSUME EngineInv, RunnerInv, ClaimsHeld, CalmStep
  PROVE  ClaimsHeld'
<1> SUFFICES ASSUME NEW j \in Jobs'
             PROVE  /\ ~run_queue'[j].stale
                    /\ run_queue'[j].status = "claimed" => \E w \in Workers : job'[w] = j
  BY DEF ClaimsHeld
<1>1. CASE j \in Jobs /\ run_queue'[j] = run_queue[j]
  <2>1. ~run_queue[j].stale
    BY <1>1 DEF ClaimsHeld
  <2>2. ASSUME run_queue[j].status = "claimed" PROVE \E w \in Workers : job'[w] = j
    <3>1. PICK w \in Workers : job[w] = j
      BY <1>1, <2>2 DEF ClaimsHeld
    <3>2. ASSUME job'[w] # j PROVE FALSE
      <4>1. ClaimOneJob(w) \/ MarkDone(w) \/ MarkCaseFailed(w)
        BY <3>1, <3>2, JobMoves
      <4>2. CASE ClaimOneJob(w)
        BY <1>1, <3>1, <4>2, SeqDef DEF ClaimOneJob, EngineInv, TypeOK, RunQueueTypeOK, Jobs
      <4>3. CASE MarkDone(w)
        <5>1. PICK r \in Job : r = run_queue[j]
          BY <1>1, ElementOfSeq DEF EngineInv, TypeOK, RunQueueTypeOK, Jobs
        <5>2. run_queue' = [run_queue EXCEPT ![j] = [r EXCEPT !.status = "done"]]
          BY <3>1, <4>3, <5>1 DEF MarkDone, Settle
        <5>3. [r EXCEPT !.status = "done"].status = "done"
          BY DEF Job
        <5> QED
          BY <1>1, <2>2, <5>1, <5>2, <5>3 DEF Jobs
      <4>4. CASE MarkCaseFailed(w)
        BY <2>2, <3>1, <4>4 DEF MarkCaseFailed, RunnerInv
      <4> QED
        BY <4>1, <4>2, <4>3, <4>4
    <3> QED
      BY <3>2
  <2> QED
    BY <1>1, <2>1, <2>2
<1>2. CASE Claimed(j)
  BY <1>2 DEF Claimed
<1>3. CASE Settled(j) /\ j \in Jobs
  BY <1>3 DEF Settled, ClaimsHeld
<1>4. CASE run_queue'[j].status = "queued" /\ ~run_queue'[j].stale
  BY <1>4
<1>5. [Next]_vars /\ (\A w \in Workers : ~Reclaim(w)) /\ (~ \E i \in Jobs : JobAges(i))
  BY DEF CalmStep
<1> QED
  BY <1>1, <1>2, <1>3, <1>4, <1>5, JobKinds DEF SameJob, Reclaimed

-----------------------------------------------------------------------------
(* The status column, and who has still to write it.                        *)

On(w, a) == pc[w] # "poll" /\ Case(w) = a

\* The worker has a status of its case still to write: a run whose next node is
\* not the end, and every run that has failed.
Owes(w) ==
  \/ pc[w] \in {"log", "conflict", "resolve", "failed", "case"}
  \/ pc[w] = "node" /\ state[w].next # "end"
  \/ pc[w] = "interrupt" /\ answer[w] # "none"

Owed(a) == \E w \in Workers : On(w, a) /\ Owes(w)

\* The statements that write the status of a case.
LEMMA StatusKinds ==
  ASSUME EngineInv, [Next]_vars, NEW a \in Assessments, status'[a] # status[a]
  PROVE  \/ create_assessment(a) /\ status[a] = "none" /\ status'[a] = "pending"
         \/ \E w \in Workers :
              /\ On(w, a)
              /\ \/ SupervisorStarts(w) \/ EscalationResumes(w)
                 \/ EscalationStarts(w) \/ finalize_decision_node(w) \/ MarkCaseFailed(w)
<1>1. status \in [Assessments -> Statuses \cup {"none"}]
  BY DEF EngineInv, TypeOK, CaseFileTypeOK
<1>2. CASE \E c \in Assessments : create_assessment(c)
  BY <1>1, <1>2 DEF create_assessment, InsertAssessment
<1>3. ASSUME NEW w \in Workers, NEW to, update_assessment_status(Case(w), to)
      PROVE  Case(w) = a
  BY <1>1, <1>3 DEF update_assessment_status
<1>4. CASE \E w \in Workers : \/ SupervisorStarts(w) \/ EscalationResumes(w)
                              \/ EscalationStarts(w) \/ finalize_decision_node(w)
                              \/ MarkCaseFailed(w)
  BY <1>3, <1>4 DEF SupervisorStarts, EscalationResumes, EscalationStarts, finalize_decision_node,
                    MarkCaseFailed, At, On
<1>5. CASE UNCHANGED status
  BY <1>5
<1> QED
  BY <1>2, <1>4, <1>5
  DEF Next, vars, RequestResume, AcceptResume, WorkerStep, Persist, Crash, JobAges, Reclaim,
      ClaimOneJob, InvokeStart, InvokeResume, MarkDone, JobRaises, MarkJobFailed, RunStep,
      SupervisorLogs, data_engineer_node, financial_analyst_node, CriticPasses, CriticRejects,
      CriticOpensConflict, CriticResolves, EscalationPauses, EscalationLogs, GraphEnds,
      SeqTaken, NodeRaises

\* What those statements write.
LEMMA StatusWritten ==
  ASSUME EngineInv, NEW w \in Workers, pc[w] # "poll", NEW a, a = Case(w)
  PROVE  /\ SupervisorStarts(w) \/ EscalationResumes(w) => status'[a] = "in_progress"
         /\ EscalationStarts(w) => status'[a] = "escalated"
         /\ finalize_decision_node(w) => status'[a] = "completed"
         /\ MarkCaseFailed(w) => status'[a] = "failed"
<1>1. status \in [Assessments -> Statuses \cup {"none"}] /\ a \in Assessments
  BY CaseLemma DEF EngineInv, TypeOK, CaseFileTypeOK
<1> QED
  BY <1>1 DEF SupervisorStarts, EscalationResumes, EscalationStarts, finalize_decision_node,
              MarkCaseFailed, update_assessment_status

\* Whoever owes a status goes on owing it until it writes "escalated",
\* "completed" or "failed", a reviewer's answer in hand not even then.
LEMMA OwesStep ==
  ASSUME EngineInv, ReplayInv, CalmStep, NEW w \in Workers, Owes(w)
  PROVE  \/ pc'[w] # "poll" /\ job'[w] = job[w] /\ Owes(w)'
         \/ EscalationStarts(w) /\ answer[w] = "none"
         \/ finalize_decision_node(w) \/ MarkCaseFailed(w)
<1>1. WorkerTypes /\ [Next]_vars /\ Working(w)
  BY PartsLemma DEF CalmStep, ReplayInv
<1>2. CASE Still(w)
  BY <1>2 DEF Still, Owes
<1>3. ASSUME NEW to, to \in {"log", "conflict", "resolve", "failed", "case"},
             pc' = [pc EXCEPT ![w] = to], job' = job
      PROVE  pc'[w] # "poll" /\ job'[w] = job[w] /\ Owes(w)'
  BY <1>1, <1>3 DEF WorkerTypes, Owes
<1>4. CASE \/ SupervisorStarts(w) \/ EscalationResumes(w) \/ CriticRejects(w)
           \/ CriticOpensConflict(w) \/ SeqTaken(w) \/ NodeRaises(w) \/ MarkJobFailed(w)
           \/ JobRaises(w)
  BY <1>3, <1>4 DEF SupervisorStarts, EscalationResumes, CriticRejects, CriticOpensConflict,
                    SeqTaken, NodeRaises, MarkJobFailed, JobRaises, EndRun
<1>5. CASE EscalationStarts(w)
  BY <1>1, <1>5 DEF EscalationStarts, Owes, WorkerTypes, At
<1>6. CASE Logging(w) /\ ~CriticRejects(w) /\ ~finalize_decision_node(w)
  <2>1. PICK outcome \in Outcome, u \in GraphState :
          /\ Log(w, state[w].next, outcome)
          /\ state[w].next \in Nodes
          /\ state[w].next = "risk_critic" => outcome \in {"approve", "escalate"}
          /\ Follows(u, state[w], outcome)
          /\ state' = [state EXCEPT ![w] = u] /\ pc' = [pc EXCEPT ![w] = "node"]
          /\ UNCHANGED job
    BY <1>1, <1>6, NodeFollows
  <2>2. PICK s : s = state[w] /\ s.next # "finalize_decision"
    BY <1>1, <1>6, LoggedRow
  <2>3. u.next # "end"
    BY <2>1, <2>2 DEF Follows, EdgeAfter, Nodes, route_after_risk_critic
  <2> QED
    BY <1>1, <2>1, <2>3 DEF WorkerTypes, Owes
<1>7. CASE CriticResolves(w)
  <2>1. PICK to, id : /\ to = route_after_risk_critic("reject", NewRound(w)) /\ to # "end"
                      /\ state' = [state EXCEPT ![w] = [[Returned(w, to) EXCEPT !.verdict = "reject",
                                       !.conflict_round = NewRound(w)] EXCEPT !.id = id]]
                      /\ pc' = [pc EXCEPT ![w] = "node"] /\ job' = job
    BY <1>7 DEF CriticResolves, CompleteNode, route_after_risk_critic
  <2> QED
    BY <1>1, <2>1 DEF WorkerTypes, Owes, Returned, GraphState
<1>8. ~ (MarkDone(w) \/ GraphEnds(w) \/ EscalationPauses(w) \/ InvokeStart(w) \/ InvokeResume(w)
         \/ ClaimOneJob(w))
  BY <1>1 DEF Working, MarkDone, GraphEnds, EscalationPauses, InvokeStart, InvokeResume, ClaimOneJob,
     Owes, At
<1>9. ~Crash(w) /\ ~Reclaim(w)
  BY DEF CalmStep
<1> QED
  BY <1>1, <1>2, <1>4, <1>5, <1>6, <1>7, <1>8, <1>9, OwnStep DEF WorkerStep, RunStep, Logging

\* A step by which a case comes to rest, or to wait.
Rests(w) ==
  \/ EscalationStarts(w) /\ answer[w] = "none"
  \/ finalize_decision_node(w)
  \/ MarkCaseFailed(w)

\* A status that is owed is still owed after a step, unless it is written by it.
LEMMA OwedStep ==
  ASSUME EngineInv, ReplayInv, CalmStep, NEW a \in Assessments, Owed(a)
  PROVE  Owed(a)' \/ \E w \in Workers : On(w, a) /\ Rests(w)
<1>1. PICK w \in Workers : On(w, a) /\ Owes(w)
  BY DEF Owed
<1>2. QueueGrows
  BY QueueStep DEF EngineInv, CalmStep
<1>3. CASE pc'[w] # "poll" /\ job'[w] = job[w] /\ Owes(w)'
  <2>1. On(w, a)'
    BY <1>1, <1>2, <1>3, CaseKept DEF On
  <2> QED
    BY <1>3, <2>1 DEF Owed
<1> QED
  BY <1>1, <1>3, OwesStep DEF Rests

\* What a step by which a case comes to rest makes of its status.
LEMMA RestStatus ==
  ASSUME EngineInv, [Next]_vars, NEW a \in Assessments, NEW w \in Workers, On(w, a), Rests(w)
  PROVE  /\ status'[a] \in {"escalated", "completed", "failed"}
         /\ status'[a] = "escalated" => EscalationStarts(w) /\ answer[w] = "none"
         /\ status'[a] = "completed" => finalize_decision_node(w)
BY StatusWritten DEF On, Rests

\* A run that has started, or started again, still has its status to write.
LEMMA StartsOwe ==
  ASSUME EngineInv, [Next]_vars, NEW a \in Assessments, NEW w \in Workers, On(w, a),
         \/ SupervisorStarts(w) \/ EscalationResumes(w)
         \/ EscalationStarts(w) /\ answer[w] # "none"
  PROVE  Owed(a)'
<1>1. /\ pc'[w] = "log" \/ (pc'[w] = "interrupt" /\ answer'[w] # "none")
      /\ job' = job
  BY PartsLemma
  DEF WorkerTypes, SupervisorStarts, EscalationResumes, EscalationStarts
<1>2. QueueGrows
  BY QueueStep DEF EngineInv
<1>3. On(w, a)'
  BY <1>1, <1>2, CaseKept DEF On
<1> QED
  BY <1>1, <1>3 DEF Owed, Owes

\* "in_progress" is what supervisor_node and human_escalation_node say of a case
\* while a run is in their hands; with that run it goes.
LEMMA InProgressStep ==
  ASSUME EngineInv, ReplayInv, CalmStep, NEW a \in Assessments,
         status[a] = "in_progress" => Owed(a),
         status'[a] = "in_progress"
  PROVE  Owed(a)'
<1>1. [Next]_vars
  BY DEF CalmStep
<1>2. CASE status'[a] = status[a]
  BY <1>1, <1>2, OwedStep, RestStatus
<1>3. CASE status'[a] # status[a]
  <2>1. PICK w \in Workers :
          /\ On(w, a)
          /\ \/ SupervisorStarts(w) \/ EscalationResumes(w)
             \/ EscalationStarts(w) \/ finalize_decision_node(w) \/ MarkCaseFailed(w)
    BY <1>1, <1>3, StatusKinds
  <2>2. SupervisorStarts(w) \/ EscalationResumes(w)
    BY <2>1, StatusWritten DEF On
  <2> QED
    BY <1>1, <2>1, <2>2, StartsOwe
<1> QED
  BY <1>2, <1>3

-----------------------------------------------------------------------------
(* Before the first run.                                                    *)

Starts(j, a) == j \in Jobs /\ run_queue[j].kind = "start" /\ run_queue[j].assessment = a

\* The start job waits, or its run is yet to reach the supervisor's statement, or
\* is on its way to the failure handler.
Due(a) ==
  \/ \E j \in Jobs : Starts(j, a) /\ run_queue[j].status = "queued"
  \/ \E w \in Workers :
       /\ On(w, a)
       /\ \/ pc[w] = "invoke" /\ run_queue[job[w]].kind = "start"
          \/ pc[w] \in {"failed", "case"}
          \/ At(w, "supervisor")

\* A run that is due to write the first status of its case stays due until it has
\* written one.
LEMMA DueRun ==
  ASSUME EngineInv, CalmStep, NEW w \in Workers,
         \/ pc[w] = "invoke" /\ run_queue[job[w]].kind = "start"
         \/ pc[w] \in {"failed", "case"}
         \/ At(w, "supervisor")
  PROVE  \/ /\ pc'[w] # "poll" /\ job'[w] = job[w]
            /\ \/ pc'[w] = "invoke" \/ pc'[w] \in {"failed", "case"} \/ At(w, "supervisor")'
            /\ pc'[w] = "invoke" => pc[w] = "invoke"
         \/ SupervisorStarts(w) \/ MarkCaseFailed(w)
<1>1. WorkerTypes /\ [Next]_vars
  BY PartsLemma DEF CalmStep
<1>2. CASE Still(w)
  BY <1>2 DEF Still, At
<1>3. CASE InvokeStart(w)
  <2>1. PICK c \in Assessments : c = Case(w)
    BY <1>3, CaseLemma DEF InvokeStart
  <2>2. PICK s \in GraphState : s = checkpoints[c]
    BY PartsLemma DEF CheckpointsInv
  <2>3. state'[w].next = "supervisor"
    BY <1>1, <1>3, <2>1, <2>2 DEF InvokeStart, WorkerTypes, GraphState
  <2> QED
    BY <1>1, <1>3, <2>3 DEF InvokeStart, WorkerTypes, At
<1>4. CASE JobRaises(w) \/ MarkJobFailed(w) \/ NodeRaises(w)
  BY <1>1, <1>4 DEF JobRaises, MarkJobFailed, NodeRaises, EndRun, WorkerTypes
<1>5. ~ \/ InvokeResume(w) \/ ClaimOneJob(w) \/ MarkDone(w) \/ SupervisorLogs(w)
        \/ data_engineer_node(w) \/ financial_analyst_node(w) \/ CriticPasses(w)
        \/ CriticRejects(w) \/ CriticOpensConflict(w) \/ CriticResolves(w)
        \/ EscalationStarts(w) \/ EscalationPauses(w) \/ EscalationResumes(w)
        \/ EscalationLogs(w) \/ finalize_decision_node(w) \/ GraphEnds(w) \/ SeqTaken(w)
  BY DEF InvokeResume, ClaimOneJob, MarkDone, SupervisorLogs, data_engineer_node,
         financial_analyst_node, CriticPasses, CriticRejects, CriticOpensConflict,
         CriticResolves, EscalationStarts, EscalationPauses, EscalationResumes, EscalationLogs,
         finalize_decision_node, GraphEnds, SeqTaken, AtInsert, At
<1>6. ~Crash(w) /\ ~Reclaim(w)
  BY DEF CalmStep
<1> QED
  BY <1>1, <1>2, <1>3, <1>4, <1>5, <1>6, OwnStep DEF WorkerStep, RunStep

\* A case shown as pending has its first run before it.
LEMMA PendingStep ==
  ASSUME EngineInv, RunnerInv, CalmStep, NEW a \in Assessments,
         status[a] = "pending" => Due(a),
         status'[a] = "pending"
  PROVE  Due(a)'
<1>1. [Next]_vars /\ QueueGrows
  BY QueueStep DEF CalmStep, EngineInv
<1>2. CASE status[a] # "pending"
  <2>1. create_assessment(a)
    BY <1>1, <1>2, StatusKinds, StatusWritten DEF On
  <2>2. PICK n, r : /\ n = Len(run_queue) /\ run_queue' = Append(run_queue, r)
                    /\ r = [assessment |-> a, kind |-> "start", payload |-> "none",
                            status |-> "queued", stale |-> FALSE]
    BY <2>1 DEF create_assessment, Enqueue, EngineInv, TypeOK, RunQueueTypeOK
  <2>3. n + 1 \in Jobs' /\ run_queue'[n + 1] = r
    BY <2>2 DEF Jobs, EngineInv, TypeOK, RunQueueTypeOK
  <2>4. Starts(n + 1, a)' /\ run_queue'[n + 1].status = "queued"
    BY <2>2, <2>3 DEF Starts
  <2> QED
    BY <2>3, <2>4 DEF Due
<1>3. ASSUME NEW j \in Jobs, Starts(j, a), run_queue[j].status = "queued"
      PROVE  Due(a)'
  <2>1. j \in Jobs' /\ Jobs \subseteq Jobs'
    BY <1>1 DEF QueueGrows
  <2>2. ~Settled(j)
    BY <1>3 DEF Settled, RunnerInv, MarkDone, MarkJobFailed
  <2>3. SameJob(j) /\ (run_queue'[j] = run_queue[j] \/ Claimed(j))
    BY <1>1, <2>1, <2>2, JobKinds DEF CalmStep, Reclaimed
  <2>4. Starts(j, a)'
    BY <1>3, <2>1, <2>3 DEF SameJob, Starts
  <2>5. CASE run_queue'[j] = run_queue[j]
    BY <1>3, <2>1, <2>4, <2>5 DEF Due
  <2>6. CASE Claimed(j)
    <3>1. PICK w \in Workers : ClaimOneJob(w) /\ job'[w] = j
      BY <2>6 DEF Claimed
    <3>2. pc'[w] = "invoke"
      BY <3>1, PartsLemma DEF ClaimOneJob, WorkerTypes
    <3> QED
      BY <2>4, <3>1, <3>2 DEF Due, On, Case, Starts
  <2> QED
    BY <2>3, <2>5, <2>6
<1>4. ASSUME NEW w \in Workers, On(w, a),
             \/ pc[w] = "invoke" /\ run_queue[job[w]].kind = "start"
             \/ pc[w] \in {"failed", "case"}
             \/ At(w, "supervisor")
      PROVE  Due(a)'
  <2>1. ~SupervisorStarts(w) /\ ~MarkCaseFailed(w)
    BY <1>4, StatusWritten DEF On
  <2>2. /\ pc'[w] # "poll" /\ job'[w] = job[w]
        /\ \/ pc'[w] = "invoke" \/ pc'[w] \in {"failed", "case"} \/ At(w, "supervisor")'
        /\ pc'[w] = "invoke" => pc[w] = "invoke"
    BY <1>4, <2>1, DueRun
  <2>3. On(w, a)'
    BY <1>1, <1>4, <2>2, CaseKept DEF On
  <2>4. job[w] \in Jobs /\ job[w] \in Jobs'
    BY <1>1, <1>4, CaseLemma DEF On, QueueGrows
  <2>5. SameJob(job[w])
    BY <1>1, <2>4, JobKinds
  <2>6. pc'[w] = "invoke" => run_queue'[job'[w]].kind = "start"
    BY <1>4, <2>2, <2>5 DEF SameJob, At
  <2> QED
    BY <2>2, <2>3, <2>6 DEF Due
<1> QED
  BY <1>2, <1>3, <1>4 DEF Due

-----------------------------------------------------------------------------
(* What holds of queue, runs and checkpoints, while nothing crashes.        *)

\* Checkpoints of a case are numbered as its rows are, from 1.
Num(s, n) == s.id = s.event_seq + 1 /\ s.id <= n

NumberedCase(a) ==
  /\ created[a] = 0 => Recorded(a) = {}
  /\ created[a] <= Rows(a) + 1
  /\ checkpoints[a] = NoCheckpoint \/ Num(checkpoints[a], created[a])

NumberedRun(w) ==
  /\ pc[w] \in InRun => Num(state[w], created[Case(w)])
  /\ Open(w) => created[Case(w)] = Rows(Case(w))

\* A case has one start job, and that is invoked once.
Waiting(j) ==
  \/ run_queue[j].status = "queued"
  \/ \E w \in Workers : job[w] = j /\ pc[w] = "invoke"

StartsOnce(a) ==
  /\ \A i, j \in Jobs : Starts(i, a) /\ Starts(j, a) => i = j
  /\ \A j \in Jobs : Starts(j, a) /\ Waiting(j) => created[a] = 0

\* Before POST /assessments there is nothing of the case.
Unstarted(a) ==
  status[a] = "none" => created[a] = 0 /\ \A j \in Jobs : run_queue[j].assessment # a

\* The walk has been at the human, and the start job's run writes no more.
Sent(a) == \E n \in Recorded(a) : Audit!Expected(Prefix(a, n)) = "human_escalation"

StartOver(a) ==
  \A j \in Jobs : Starts(j, a) =>
    /\ run_queue[j].status # "queued"
    /\ \A w \in Workers : job[w] = j => pc[w] \in {"interrupt", "done", "failed", "case"}

Reached(a) == Sent(a) /\ StartOver(a)

\* Who resumes a case has been told that it is escalated.
ResumesReached ==
  /\ \A j \in Jobs : run_queue[j].kind = "resume" =>
       run_queue[j].payload \in Answers /\ Reached(run_queue[j].assessment)
  /\ \A q \in Requests : request[q].stage # "idle" =>
       request[q].decision \in Answers /\ Reached(request[q].assessment)
  /\ \A a \in Assessments : status[a] = "escalated" => Reached(a)

AnswerHeld(w) ==
  answer[w] # "none" => pc[w] # "poll" /\ run_queue[job[w]].kind = "resume"

\* The start job's run has the whole ledger before it, until it comes to the human.
StartRun(w) ==
  pc[w] \in {"node", "log"} /\ run_queue[job[w]].kind = "start" =>
    state[w].event_seq = Rows(Case(w))

\* A resume job's run has the answer the node it is at asks for, or the human is
\* behind it, or it has started from an old checkpoint and will not get a row in.
ResumeRun(w) ==
  pc[w] \in InRun /\ run_queue[job[w]].kind = "resume" =>
    \/ state[w].next = "human_escalation" /\ answer[w] # "none"
    \/ state[w].next \in {"finalize_decision", "end"}
    \/ /\ state[w].next # "human_escalation" /\ ~Open(w)
       /\ state[w].event_seq < Rows(Case(w))

Calm ==
  /\ ClaimsHeld /\ ResumesReached
  /\ \A a \in Assessments : NumberedCase(a) /\ StartsOnce(a) /\ Unstarted(a)
  /\ \A w \in Workers : NumberedRun(w) /\ AnswerHeld(w) /\ StartRun(w) /\ ResumeRun(w)

\* The invariants this rests on.
Sound ==
  /\ EngineInv /\ ReplayInv /\ RunnerInv
  /\ \A a \in Assessments : Walk(a)

-----------------------------------------------------------------------------
(* What kinds of steps there are.                                           *)

\* The last statement of a node.
Completes(w) == (Logging(w) /\ ~CriticRejects(w)) \/ CriticResolves(w)

\* Every such statement ends in LangGraph's loop taking over a state of the graph.
LEMMA CompletesNode ==
  ASSUME EngineInv, NEW w \in Workers, Completes(w)
  PROVE  /\ \E update \in GraphState : CompleteNode(w, update)
         /\ UNCHANGED run_queue
         /\ pc[w] \in InRun
<1>1. ASSUME NEW to \in Positions, NEW verdict \in Verdicts, NEW human \in Answers \cup {"none"},
             NEW round \in Nat
      PROVE  /\ Returned(w, to) \in GraphState
             /\ [Returned(w, to) EXCEPT !.verdict = verdict] \in GraphState
             /\ [Returned(w, to) EXCEPT !.human_decision = human] \in GraphState
             /\ [Returned(w, to) EXCEPT !.verdict = verdict, !.conflict_round = round] \in GraphState
  BY <1>1, ReturnedLemma
<1>2. \A node \in {"supervisor", "data_engineer", "financial_analyst", "human_escalation",
                   "finalize_decision"} : EdgeAfter[node] \in Positions
  BY DEF EdgeAfter, Positions, Nodes
<1>3. /\ EdgeAfter.supervisor \in Positions /\ EdgeAfter.data_engineer \in Positions
      /\ EdgeAfter.financial_analyst \in Positions /\ EdgeAfter.human_escalation \in Positions
      /\ EdgeAfter.finalize_decision \in Positions
  BY <1>2
<1>4. \A to \in Positions : Returned(w, to) \in GraphState
  BY <1>1 DEF Verdicts, Answers
<1>5. CASE SupervisorLogs(w) \/ data_engineer_node(w) \/ financial_analyst_node(w)
           \/ finalize_decision_node(w)
  BY <1>3, <1>4, <1>5 DEF SupervisorLogs, data_engineer_node, financial_analyst_node,
     finalize_decision_node, At, InRun, InNode
<1>6. CASE CriticPasses(w)
  <2>1. PICK verdict \in Verdicts :
          CompleteNode(w, [Returned(w, route_after_risk_critic(verdict, state[w].conflict_round))
                             EXCEPT !.verdict = verdict])
    BY <1>6 DEF CriticPasses, Verdicts
  <2>2. PICK to \in Positions : to = route_after_risk_critic(verdict, state[w].conflict_round)
    BY RoutedLemma
  <2> QED
    BY <1>1, <1>6, <2>1, <2>2 DEF CriticPasses, At, InRun, Answers
<1>7. CASE EscalationLogs(w)
  <2>1. PICK human \in Answers \cup {"none"} : human = answer[w]
    BY PartsLemma DEF WorkerTypes
  <2> QED
    BY <1>1, <1>3, <1>7, <2>1 DEF EscalationLogs, InRun, InNode, Verdicts
<1>8. CASE CriticResolves(w)
  <2>1. PICK round \in Nat : round = NewRound(w)
    BY PartsLemma DEF WorkerTypes, NewRound, GraphState
  <2>2. PICK to \in Positions : to = route_after_risk_critic("reject", round)
    BY RoutedLemma
  <2>3. CompleteNode(w, [Returned(w, to) EXCEPT !.verdict = "reject", !.conflict_round = round])
    BY <1>8, <2>1, <2>2 DEF CriticResolves
  <2>4. [Returned(w, to) EXCEPT !.verdict = "reject", !.conflict_round = round] \in GraphState
    BY <1>1, <2>1, <2>2 DEF Verdicts, Answers
  <2> QED
    BY <1>8, <2>3, <2>4 DEF CriticResolves, InRun, InNode
<1> QED
  BY <1>5, <1>6, <1>7, <1>8 DEF Completes, Logging

\* What a worker and its case have after such a statement.
LEMMA Completed ==
  ASSUME EngineInv, NEW w \in Workers, Working(w), OpenInv(w), Completes(w), NEW c \in Assessments, c = Case(w)
  PROVE  /\ created' = [created EXCEPT ![c] = created[c] + 1]
         /\ pc'[w] = "node" /\ job'[w] = job[w] /\ answer'[w] = "none"
         /\ checkpoints' = checkpoints
         /\ state'[w].id = created[c] + 1
         /\ state'[w].event_seq = state[w].event_seq + 1
         /\ state[w].next = "human_escalation" => state'[w].next = "finalize_decision"
         /\ state[w].next = "finalize_decision" => state'[w].next = "end"
<1>1. WorkerTypes /\ created \in [Assessments -> Nat]
  BY PartsLemma DEF CheckpointsInv
<1>2. PICK update \in GraphState : CompleteNode(w, update)
  BY CompletesNode
<1>3. /\ created' = [created EXCEPT ![c] = created[c] + 1]
      /\ state' = [state EXCEPT ![w] = [update EXCEPT !.id = created[c] + 1]]
      /\ pc'[w] = "node" /\ job'[w] = job[w] /\ answer'[w] = "none" /\ checkpoints' = checkpoints
  BY <1>1, <1>2 DEF CompleteNode, WorkerTypes
<1>4. state'[w].id = created[c] + 1
  BY <1>1, <1>3 DEF GraphState, WorkerTypes
<1>5. CASE Logging(w) /\ ~CriticRejects(w)
  <2>1. PICK outcome \in Outcome, u \in GraphState :
          /\ state[w].next \in Nodes
          /\ Follows(u, state[w], outcome)
          /\ state' = [state EXCEPT ![w] = u]
    BY <1>5, NodeFollows
  <2>2. state'[w] = u
    BY <1>1, <2>1 DEF WorkerTypes
  <2>3. /\ u.event_seq = state[w].event_seq + 1
        /\ state[w].next # "risk_critic" => u.next = EdgeAfter[state[w].next]
    BY <2>1 DEF Follows
  <2>4. /\ EdgeAfter["human_escalation"] = "finalize_decision"
        /\ EdgeAfter["finalize_decision"] = "end"
    BY DEF EdgeAfter
  <2>5. /\ state'[w].event_seq = state[w].event_seq + 1
        /\ state[w].next = "human_escalation" => state'[w].next = "finalize_decision"
        /\ state[w].next = "finalize_decision" => state'[w].next = "end"
    BY <2>2, <2>3, <2>4
  <2> QED
    BY <1>3, <1>4, <2>5
<1>6. CASE CriticResolves(w)
  <2>1. PICK round \in Nat : round = NewRound(w)
    BY <1>1 DEF WorkerTypes, NewRound, GraphState
  <2>2. PICK to \in Positions : to = route_after_risk_critic("reject", round)
    BY RoutedLemma
  <2>3. CompleteNode(w, [Returned(w, to) EXCEPT !.verdict = "reject", !.conflict_round = round])
    BY <1>6, <2>1, <2>2 DEF CriticResolves
  <2>4. PICK r \in GraphState :
          /\ r = [Returned(w, to) EXCEPT !.verdict = "reject", !.conflict_round = round]
          /\ r.event_seq = state[w].event_seq + 1
    <3>1. PICK b \in GraphState : b = Returned(w, to) /\ b.event_seq = state[w].event_seq + 1
      BY <2>2, ReturnedLemma DEF Verdicts, Answers
    <3>2. /\ [b EXCEPT !.verdict = "reject", !.conflict_round = round] \in GraphState
          /\ [b EXCEPT !.verdict = "reject", !.conflict_round = round].event_seq = b.event_seq
      BY <2>1 DEF GraphState, Verdicts
    <3> QED
      BY <3>1, <3>2
  <2>5. state' = [state EXCEPT ![w] = [r EXCEPT !.id = created[c] + 1]]
    BY <2>3, <2>4 DEF CompleteNode
  <2>6. state'[w].event_seq = state[w].event_seq + 1
    BY <1>1, <2>4, <2>5 DEF GraphState, WorkerTypes
  <2>7. state[w].next = "risk_critic"
    BY <1>6 DEF OpenInv, Open, CriticResolves
  <2> QED
    BY <1>3, <1>4, <2>6, <2>7
<1> QED
  BY <1>5, <1>6 DEF Completes

\* The steps that move a worker on with the state it has.
Moves(w) ==
  \/ SupervisorStarts(w) \/ CriticRejects(w) \/ CriticOpensConflict(w)
  \/ EscalationStarts(w) \/ EscalationResumes(w)
  \/ EscalationPauses(w) \/ GraphEnds(w) \/ SeqTaken(w) \/ NodeRaises(w)
  \/ JobRaises(w) \/ MarkJobFailed(w)

\* What such a step does.
LEMMA Moved ==
  ASSUME EngineInv, NEW w \in Workers, Moves(w)
  PROVE  /\ state'[w] = state[w] /\ job'[w] = job[w] /\ answer'[w] = answer[w]
         /\ pc[w] # "poll" /\ pc'[w] \in {"log", "interrupt", "conflict", "resolve", "done",
                                          "failed", "case"}
         /\ pc'[w] \in InRun => pc[w] \in InRun
         /\ pc'[w] = "log" => SupervisorStarts(w) \/ EscalationResumes(w)
         /\ Open(w)' => CriticRejects(w) \/ CriticOpensConflict(w)
<1>1. WorkerTypes
  BY PartsLemma
<1> QED
  BY <1>1
  DEF Moves, WorkerTypes, SupervisorStarts, CriticRejects, CriticOpensConflict, EscalationStarts,
      EscalationResumes, EscalationPauses, GraphEnds, SeqTaken, NodeRaises, JobRaises,
      MarkJobFailed, EndRun, At, AtInsert, InRun, InNode, Open

\* What may become of a worker in a step.
LEMMA OwnKinds ==
  ASSUME EngineInv, [Next]_vars, NEW w \in Workers
  PROVE  \/ Still(w) \/ InvokeStart(w) \/ InvokeResume(w) \/ Completes(w) \/ Moves(w)
         \/ pc'[w] = "poll"
         \/ ClaimOneJob(w) /\ pc[w] = "poll" /\ pc'[w] = "invoke"
<1>1. WorkerTypes
  BY PartsLemma
<1>2. CASE ClaimOneJob(w) \/ Reclaim(w) \/ Crash(w) \/ MarkDone(w) \/ MarkCaseFailed(w)
  BY <1>1, <1>2 DEF WorkerTypes, ClaimOneJob, Reclaim, Crash, MarkDone, MarkCaseFailed, Idle,
                    workerVars
<1> QED
  BY <1>2, OwnStep DEF WorkerStep, RunStep, Moves, Completes, Logging

\* Checkpoints are created where a run starts and where a node returns.
LEMMA CreatedKinds ==
  ASSUME EngineInv, ReplayInv, [Next]_vars, NEW a \in Assessments
  PROVE  \/ created'[a] = created[a]
         \/ /\ created'[a] = created[a] + 1
            /\ \E w \in Workers : On(w, a) /\ (InvokeStart(w) \/ Completes(w))
<1>1. created \in [Assessments -> Nat]
  BY PartsLemma DEF CheckpointsInv
<1>2. ASSUME NEW w \in Workers, InvokeStart(w)
      PROVE  /\ created' = [created EXCEPT ![Case(w)] = created[Case(w)] + 1]
             /\ pc[w] # "poll"
  BY <1>2 DEF InvokeStart
<1>3. ASSUME NEW w \in Workers, Completes(w)
      PROVE  /\ created' = [created EXCEPT ![Case(w)] = created[Case(w)] + 1]
             /\ pc[w] # "poll"
  <2>1. pc[w] # "poll"
    BY <1>3, CompletesNode DEF InRun, InNode
  <2>2. PICK c \in Assessments : c = Case(w)
    BY <2>1, CaseLemma
  <2>3. Working(w) /\ OpenInv(w)
    BY DEF ReplayInv
  <2> QED
    BY <1>3, <2>1, <2>2, <2>3, Completed
<1>4. ASSUME NEW w \in Workers, InvokeStart(w) \/ Completes(w)
      PROVE  \/ created'[a] = created[a]
             \/ created'[a] = created[a] + 1 /\ On(w, a)
  BY <1>1, <1>2, <1>3, <1>4 DEF On
<1>5. CASE ~ \E w \in Workers : InvokeStart(w) \/ Completes(w)
  <2>1. UNCHANGED created
    BY <1>5
    DEF Next, vars, create_assessment, RequestResume, AcceptResume, WorkerStep, Persist, Crash,
        JobAges, Reclaim, ClaimOneJob, InvokeResume, MarkDone, JobRaises, MarkJobFailed,
        MarkCaseFailed, RunStep, SupervisorStarts, Logging, Completes, CriticRejects,
        CriticOpensConflict, EscalationStarts, EscalationPauses, EscalationResumes, GraphEnds,
        SeqTaken, NodeRaises, EndRun
  <2> QED
    BY <2>1
<1> QED
  BY <1>4, <1>5

\* A node that writes a row has seen all the rows before it.
LEMMA LogsAtEnd ==
  ASSUME EngineInv, NEW w \in Workers, Logging(w), NEW c \in Assessments, c = Case(w)
  PROVE  /\ pc[w] \in InRun /\ On(w, c)
         /\ state[w].event_seq = Rows(c) /\ Rows(c)' = Rows(c) + 1
         /\ \A b \in Assessments : b # c => Rows(b)' = Rows(b)
<1>1. pc[w] \in InRun /\ pc[w] # "poll"
  BY LoggingLemma DEF InRun, InNode
<1>2. PICK node \in Nodes, outcome \in Outcome : Log(w, node, outcome)
  BY LoggingLemma
<1>3. PICK n \in Nat : n = state[w].event_seq
  BY PartsLemma DEF WorkerTypes, GraphState
<1>4. n = Rows(c) /\ Rows(c)' = n + 1 /\ \A b \in Assessments : b # c => audit_events'[b] = audit_events[b]
  BY <1>1, <1>2, <1>3, LogEffect
<1>5. \A b \in Assessments : b # c => Rows(b)' = Rows(b)
  BY <1>4 DEF Rows, Recorded
<1> QED
  BY <1>1, <1>3, <1>4, <1>5 DEF On

\* Rows are written by such nodes and by nothing else.
LEMMA RowsKinds ==
  ASSUME EngineInv, [Next]_vars, NEW a \in Assessments
  PROVE  \/ audit_events'[a] = audit_events[a] /\ Rows(a)' = Rows(a)
         \/ \E w \in Workers : /\ Logging(w) /\ On(w, a) /\ pc[w] \in InRun
                               /\ state[w].event_seq = Rows(a) /\ Rows(a)' = Rows(a) + 1
<1>1. CASE \E w \in Workers : Logging(w)
  <2>1. PICK w \in Workers : Logging(w)
    BY <1>1
  <2>2. pc[w] # "poll"
    BY <2>1, LoggingLemma
  <2>3. PICK c \in Assessments : c = Case(w)
    BY <2>2, CaseLemma
  <2>4. CASE a = c
    BY <2>1, <2>3, <2>4, LogsAtEnd
  <2>5. CASE a # c
    <3>1. PICK node \in Nodes, outcome \in Outcome : Log(w, node, outcome)
      BY <2>1, LoggingLemma
    <3>2. audit_events'[a] = audit_events[a]
      BY <2>3, <2>5, <3>1 DEF Log, RecordEvent, EngineInv, TypeOK, LedgerTypeOK
    <3> QED
      BY <3>2 DEF Rows, Recorded
  <2> QED
    BY <2>4, <2>5
<1>2. CASE UNCHANGED audit_events
  BY <1>2 DEF Rows, Recorded
<1> QED
  BY <1>1, <1>2, LedgerKinds DEF CriticOpensConflict, CriticResolves, ledger

\* Checkpoint numbers and rows only ever grow.
LEMMA NumbersGrow ==
  ASSUME EngineInv, ReplayInv, [Next]_vars, NEW a \in Assessments
  PROVE  /\ created[a] \in Nat /\ created'[a] \in Nat /\ created[a] <= created'[a]
         /\ Rows(a) \in Nat /\ Rows(a)' \in Nat /\ Rows(a) <= Rows(a)'
         /\ Recorded(a) = 1..Rows(a)
<1>1. created \in [Assessments -> Nat]
  BY PartsLemma DEF CheckpointsInv
<1>2. Rows(a) \in Nat /\ Recorded(a) = 1..Rows(a)
  BY RowsLemma
<1> QED
  BY <1>1, <1>2, CreatedKinds, RowsKinds

\* The number of a checkpoint is right for good.
LEMMA NumKept ==
  ASSUME EngineInv, ReplayInv, [Next]_vars, NEW a \in Assessments,
         NEW s \in GraphState, Num(s, created[a])
  PROVE  Num(s, created'[a])
<1>1. created[a] <= created'[a] /\ created[a] \in Nat /\ created'[a] \in Nat
  BY NumbersGrow
<1> QED
  BY <1>1 DEF Num, GraphState

-----------------------------------------------------------------------------
(* The walk, and the checkpoints along it.                                  *)

\* The walk goes on from each row of the ledger but the last.
LEMMA WalkGoesOn ==
  ASSUME EngineInv, NEW a \in Assessments, Walk(a), NEW n \in Recorded(a), n + 1 \in Recorded(a)
  PROVE  /\ n \in Nat
         /\ Audit!Expected(Prefix(a, n)) \in Nodes
         /\ Audit!Expected(Prefix(a, n)) = "human_escalation" =>
              Audit!Expected(Prefix(a, n + 1)) = "finalize_decision"
         /\ Audit!Expected(Prefix(a, n)) = "finalize_decision" =>
              Audit!Expected(Prefix(a, n + 1)) = "end"
<1>1. PICK m \in Nat : /\ m = Rows(a) /\ Recorded(a) = 1..m
                       /\ \A k \in 1..m : Row(a, k) \in TrailRow
  BY RowsLemma
<1>2. n \in Nat /\ n + 1 \in 1..m /\ (n + 1) - 1 = n
  BY <1>1
<1>3. PICK t \in Seq(TrailRow), row \in TrailRow :
        /\ t = Prefix(a, n) /\ row = Row(a, n + 1) /\ Prefix(a, n + 1) = Append(t, row)
  BY <1>1, <1>2, PrefixLemma
<1>4. row.node = Audit!Expected(t)
  BY <1>2, <1>3 DEF Walk
<1>5. row.node # "risk_critic" => Audit!Expected(Append(t, row)) = EdgeAfter[row.node]
  BY <1>3, ExpectedAppend
<1>6. EdgeAfter["human_escalation"] = "finalize_decision" /\ EdgeAfter["finalize_decision"] = "end"
  BY DEF EdgeAfter
<1>7. row.node \in Nodes
  BY DEF TrailRow
<1> QED
  BY <1>2, <1>3, <1>4, <1>5, <1>6, <1>7

\* Where the walk ends there is nothing after it.
LEMMA EndIsLast ==
  ASSUME EngineInv, NEW a \in Assessments, Walk(a), NEW n \in Recorded(a),
         Audit!Expected(Prefix(a, n)) = "end"
  PROVE  n = Rows(a)
<1>1. PICK m \in Nat : m = Rows(a) /\ Recorded(a) = 1..m
  BY RowsLemma
<1>2. ~(n + 1 \in Recorded(a))
  BY WalkGoesOn DEF Nodes
<1> QED
  BY <1>1, <1>2

\* Behind the human there are the closing row and the end.
LEMMA HumanBehind ==
  ASSUME EngineInv, NEW a \in Assessments, Walk(a), NEW n \in Recorded(a), NEW m \in Recorded(a),
         n <= m, Audit!Expected(Prefix(a, n)) = "human_escalation"
  PROVE  m = n \/ Audit!Expected(Prefix(a, m)) \in {"finalize_decision", "end"}
<1>1. PICK r \in Nat : r = Rows(a) /\ Recorded(a) = 1..r
  BY RowsLemma
<1>2. CASE m = n
  BY <1>2
<1>3. CASE m > n
  <2>1. n + 1 \in Recorded(a) /\ n + 1 \in Nat
    BY <1>1, <1>3
  <2>2. Audit!Expected(Prefix(a, n + 1)) = "finalize_decision"
    BY <2>1, WalkGoesOn
  <2>3. CASE m = n + 1
    BY <2>2, <2>3
  <2>4. CASE m > n + 1
    <3>1. PICK k \in Recorded(a) : k = n + 1 /\ k + 1 \in Recorded(a)
      BY <1>1, <2>1, <2>4
    <3>2. Audit!Expected(Prefix(a, k + 1)) = "end"
      BY <2>2, <3>1, WalkGoesOn
    <3>3. k + 1 = r
      BY <1>1, <3>1, <3>2, EndIsLast
    <3> QED
      BY <1>1, <2>1, <2>4, <3>1, <3>2, <3>3
  <2> QED
    BY <1>1, <1>3, <2>1, <2>3, <2>4
<1> QED
  BY <1>1, <1>2, <1>3

\* That the walk has come to the human stays true.
LEMMA SentKept ==
  ASSUME EngineInv, ReplayInv, [Next]_vars, NEW a \in Assessments, Sent(a)
  PROVE  Sent(a)'
<1>1. LedgerExtends
  BY LedgerExtendsStep
<1>2. PICK n \in Recorded(a) : Audit!Expected(Prefix(a, n)) = "human_escalation"
  BY DEF Sent
<1>3. n \in Recorded(a)' /\ n \in Nat /\ \A k \in 1..n : audit_events'[a][k] = audit_events[a][k]
  <2>1. PICK m \in Nat : Recorded(a) = 1..m
    BY RowsLemma
  <2> QED
    BY <1>1, <1>2, <2>1 DEF LedgerExtends
<1>4. Prefix(a, n)' = Prefix(a, n)
  BY <1>3, PrefixKept
<1> QED
  BY <1>2, <1>3, <1>4 DEF Sent

\* A state past the supervisor is that of a row, and its next node the one the
\* rows up to it call for.
LEMMA PastSupervisor ==
  ASSUME EngineInv, NEW a \in Assessments, NEW s, Replays(s, a), s.next # "supervisor"
  PROVE  /\ s.event_seq \in Recorded(a)
         /\ s.next = Audit!Expected(Prefix(a, s.event_seq))
BY DEF Replays, Fresh, Summary, Carried

\* The checkpoint that has kept a state of the end of the ledger from being saved
\* is of the end of the ledger itself.
LEMMA NewerCheckpoint ==
  ASSUME EngineInv, NEW a \in Assessments, Replays(checkpoints[a], a),
         checkpoints[a] = NoCheckpoint \/ Num(checkpoints[a], created[a]),
         NEW s, Replays(s, a), Num(s, created[a]), s.event_seq = Rows(a), s.next # "supervisor",
         ~(s.id > checkpoints[a].id)
  PROVE  checkpoints[a].next = s.next
<1>1. PICK c \in GraphState : c = checkpoints[a]
  BY DEF Replays
<1>2. PICK n \in Nat : n = Rows(a) /\ Recorded(a) = 1..n
  BY RowsLemma
<1>3. s \in GraphState
  BY DEF Replays
<1>4. s.event_seq \in 1..n /\ s.next = Audit!Expected(Prefix(a, n))
  BY <1>2, PastSupervisor
<1>5. c.id # 0
  BY <1>1, <1>3, <1>4 DEF Num, GraphState
<1>6. c # NoCheckpoint
  BY <1>5 DEF NoCheckpoint
<1>7. c.event_seq >= s.event_seq /\ c.event_seq \in Nat
  BY <1>1, <1>3, <1>6 DEF Num, GraphState
<1>8. c.event_seq \in Carried(a)
  BY <1>1 DEF Replays
<1>9. c.event_seq = n /\ n # 0
  BY <1>2, <1>4, <1>7, <1>8 DEF Carried
<1>10. c.next = Audit!Expected(Prefix(a, n))
  BY <1>1, <1>9 DEF Replays, Summary
<1> QED
  BY <1>1, <1>4, <1>10

\* A checkpoint of the end of the ledger is not replaced.
LEMMA LastCheckpointStays ==
  ASSUME EngineInv, ReplayInv, [Next]_vars, NEW a \in Assessments,
         \A w \in Workers : NumberedRun(w),
         Num(checkpoints[a], created[a]), checkpoints[a].event_seq = Rows(a)
  PROVE  checkpoints'[a] = checkpoints[a]
<1>1. ASSUME NEW w \in Workers, pc[w] \in InRun, Case(w) = a
      PROVE  ~(state[w].id > checkpoints[a].id)
  <2>1. PICK s \in GraphState, c \in GraphState : s = state[w] /\ c = checkpoints[a]
    BY PartsLemma DEF WorkerTypes, CheckpointsInv
  <2>2. PICK n \in Nat : n = Rows(a) /\ Recorded(a) = 1..n
    BY RowsLemma
  <2>3. s.event_seq \in Carried(a)
    BY <1>1, <2>1, PartsLemma DEF Held
  <2>4. s.id = s.event_seq + 1 /\ c.id = c.event_seq + 1
    BY <1>1, <2>1 DEF NumberedRun, Num
  <2> QED
    BY <2>1, <2>2, <2>3, <2>4 DEF Carried, GraphState
<1>2. checkpoints \in [Assessments -> GraphState]
  BY PartsLemma DEF CheckpointsInv
<1> QED
  BY <1>1, <1>2, CheckpointKinds DEF Saved

-----------------------------------------------------------------------------
(* The start job.                                                           *)

\* Of two runs of one start job there is only one.
LEMMA StartAlone ==
  ASSUME Sound, Calm, NEW a \in Assessments, NEW v \in Workers, NEW w \in Workers,
         On(v, a), On(w, a),
         run_queue[job[v]].kind = "start", run_queue[job[w]].kind = "start"
  PROVE  v = w
<1>1. job[v] \in Jobs /\ job[w] \in Jobs /\ job[v] # 0
  BY CaseLemma DEF Sound, EngineInv, TypeOK, RunQueueTypeOK, Jobs, On
<1>2. Starts(job[v], a) /\ Starts(job[w], a)
  BY <1>1 DEF Starts, On, Case
<1>3. job[v] = job[w]
  BY <1>1, <1>2 DEF Calm, StartsOnce
<1> QED
  BY <1>1, <1>3 DEF Sound, RunnerInv, JobHasOneRunner

\* The run that starts is the first of its case.
LEMMA FirstRun ==
  ASSUME Sound, Calm, NEW w \in Workers, InvokeStart(w), NEW a \in Assessments, a = Case(w)
  PROVE  created[a] = 0 /\ Recorded(a) = {} /\ Rows(a) = 0 /\ checkpoints[a] = NoCheckpoint
<1>1. job[w] \in Jobs
  BY CaseLemma DEF Sound, InvokeStart
<1>2. Starts(job[w], a) /\ Waiting(job[w])
  BY <1>1 DEF InvokeStart, Starts, Waiting, Case
<1>3. created[a] = 0 /\ Recorded(a) = {}
  BY <1>1, <1>2 DEF Calm, StartsOnce, NumberedCase
<1>4. Rows(a) = 0
  BY <1>3, FS_EmptySet DEF Rows
<1>5. checkpoints[a] = NoCheckpoint
  BY <1>3, PartsLemma DEF Sound, Calm, NumberedCase, Num, CheckpointsInv, GraphState
<1> QED
  BY <1>3, <1>4, <1>5

\* A run has a checkpoint of its case behind it.
LEMMA RunCreated ==
  ASSUME Sound, Calm, NEW w \in Workers, pc[w] \in InRun, NEW a \in Assessments, a = Case(w)
  PROVE  created[a] > 0
<1>1. created[a] \in Nat /\ state[w] \in GraphState
  BY PartsLemma DEF Sound, WorkerTypes, CheckpointsInv
<1> QED
  BY <1>1 DEF Calm, NumberedRun, Num, GraphState

\* A start job waits until it is invoked, and is not put back.
LEMMA WaitingKinds ==
  ASSUME Sound, CalmStep, NEW j \in Jobs, Waiting(j)'
  PROVE  Waiting(j)
<1>1. j \in Jobs' /\ [Next]_vars
  BY QueueStep DEF Sound, EngineInv, CalmStep, QueueGrows
<1>2. CASE run_queue'[j].status = "queued"
  BY <1>1, <1>2, JobKinds DEF Sound, CalmStep, Reclaimed, Claimed, Settled, Waiting
<1>3. ASSUME NEW w \in Workers, job'[w] = j, pc'[w] = "invoke"
      PROVE  Waiting(j)
  <2>1. CASE Still(w)
    BY <1>3, <2>1 DEF Still, Waiting
  <2>2. CASE ClaimOneJob(w)
    BY <1>3, <2>2, PartsLemma DEF ClaimOneJob, Claim, Waiting, Sound, WorkerTypes
  <2>3. CASE ~Still(w) /\ ~ClaimOneJob(w)
    BY <1>1, <1>3, <2>3, OwnStep, PartsLemma
    DEF Sound, CalmStep, WorkerTypes, WorkerStep, JobRaises, MarkDone, MarkJobFailed,
        MarkCaseFailed, InvokeStart, InvokeResume, RunStep, SupervisorStarts, SupervisorLogs,
        data_engineer_node, financial_analyst_node, CriticPasses, CriticRejects,
        CriticOpensConflict, CriticResolves, EscalationStarts, EscalationPauses,
        EscalationResumes, EscalationLogs, finalize_decision_node, GraphEnds, SeqTaken,
        NodeRaises, CompleteNode, EndRun, Idle
  <2> QED
    BY <2>1, <2>2, <2>3
<1> QED
  BY <1>2, <1>3 DEF Waiting

\* Nobody has worked on a case that POST /assessments has yet to insert.
LEMMA NothingBefore ==
  ASSUME Sound, Calm, NEW a \in Assessments, status[a] = "none"
  PROVE  /\ created[a] = 0 /\ ~Sent(a)
         /\ \A j \in Jobs : run_queue[j].assessment # a
         /\ \A w \in Workers : ~On(w, a)
<1>1. created[a] = 0 /\ (\A j \in Jobs : run_queue[j].assessment # a) /\ Recorded(a) = {}
  BY DEF Calm, Unstarted, NumberedCase
<1>2. \A w \in Workers : ~On(w, a)
  BY <1>1, CaseLemma DEF Sound, On, Case
<1> QED
  BY <1>1, <1>2 DEF Sent

\* A new case has the one start job its handler inserts, and that one waits until
\* its run creates the first checkpoint.
LEMMA StartsOnceStep ==
  ASSUME Sound, Calm, CalmStep, NEW a \in Assessments
  PROVE  StartsOnce(a)'
<1>1. EngineInv /\ ReplayInv /\ [Next]_vars /\ Jobs \subseteq Jobs'
  BY QueueStep DEF Sound, EngineInv, CalmStep, QueueGrows
<1>2. ASSUME NEW j \in Jobs, Starts(j, a)' PROVE Starts(j, a)
  BY <1>1, <1>2, JobKinds DEF Starts, SameJob
<1>3. CASE create_assessment(a)
  <2>1. status[a] = "none" /\ created' = created
    BY <1>3 DEF create_assessment, InsertAssessment
  <2>2. created'[a] = 0 /\ \A j \in Jobs : ~Starts(j, a)'
    BY <1>2, <2>1, NothingBefore DEF Starts
  <2>3. PICK n \in Nat : Jobs = 1..n /\ Jobs' = 1..(n + 1)
    <3>1. PICK r : run_queue' = Append(run_queue, r)
      BY <1>3 DEF create_assessment, Enqueue
    <3>2. PICK n \in Nat : n = Len(run_queue) /\ Jobs = 1..n
      <4>1. Len(run_queue) \in Nat /\ Jobs = 1..Len(run_queue)
        BY <1>1, LenProperties DEF Jobs, EngineInv, TypeOK, RunQueueTypeOK
      <4> QED
        BY <4>1
    <3>3. Jobs' = 1..(n + 1)
      BY <1>1, <3>1, <3>2 DEF Jobs, EngineInv, TypeOK, RunQueueTypeOK
    <3> QED
      BY <3>2, <3>3
  <2>4. \A i, j \in Jobs' : Starts(i, a)' /\ Starts(j, a)' => i = j
    BY <2>2, <2>3
  <2> QED
    BY <2>2, <2>4 DEF StartsOnce
<1>4. CASE ~create_assessment(a)
  <2>1. ASSUME NEW j \in Jobs', Starts(j, a)' PROVE j \in Jobs
    <3>1. run_queue'[j].kind = "start" /\ run_queue'[j].assessment = a
      BY <2>1 DEF Starts
    <3> QED
      BY <1>1, <1>4, <3>1, JobKinds DEF SameJob
  <2>2. \A i, j \in Jobs' : Starts(i, a)' /\ Starts(j, a)' => i = j
    BY <1>2, <2>1 DEF Calm, StartsOnce
  <2>3. ASSUME NEW j \in Jobs, Starts(j, a)', Waiting(j)'
        PROVE  created'[a] = 0
    <3>1. Starts(j, a) /\ Waiting(j) /\ created[a] = 0
      BY <1>2, <2>3, WaitingKinds DEF Calm, StartsOnce
    <3>2. ASSUME NEW w \in Workers, On(w, a), Completes(w) PROVE FALSE
      BY <1>1, <3>1, <3>2, CompletesNode, RunCreated DEF On
    <3>3. ASSUME NEW w \in Workers, On(w, a), InvokeStart(w) PROVE FALSE
      <4>1. job[w] = j
        BY <1>1, <3>1, <3>3, CaseLemma DEF InvokeStart, On, Case, Starts, Calm, StartsOnce
      <4>2. /\ run_queue' = run_queue /\ job' = job /\ pc'[w] = "node"
            /\ \A v \in Workers : pc'[v] = "invoke" => pc[v] = "invoke"
        BY <1>1, <3>3, PartsLemma DEF InvokeStart, WorkerTypes
      <4>3. run_queue[j].status = "claimed" /\ j # 0
        <5>1. pc[w] = "invoke"
          BY <3>3 DEF InvokeStart
        <5>2. j # 0
          BY <1>1 DEF Jobs, EngineInv, TypeOK, RunQueueTypeOK
        <5> QED
          BY <4>1, <5>1, <5>2 DEF Sound, RunnerInv
      <4>4. PICK v \in Workers : job'[v] = j /\ pc'[v] = "invoke"
        BY <2>3, <4>2, <4>3 DEF Waiting
      <4> QED
        BY <4>1, <4>2, <4>3, <4>4 DEF Sound, RunnerInv, JobHasOneRunner
    <3> QED
      BY <1>1, <3>1, <3>2, <3>3, CreatedKinds
  <2> QED
    BY <2>1, <2>2, <2>3 DEF StartsOnce
<1> QED
  BY <1>3, <1>4

\* The status leaves "none" for good.
LEMMA InsertedStays ==
  ASSUME EngineInv, [Next]_vars, NEW a \in Assessments, status'[a] = "none"
  PROVE  status[a] = "none" /\ ~create_assessment(a)
<1>1. status \in [Assessments -> Statuses \cup {"none"}]
  BY DEF EngineInv, TypeOK, CaseFileTypeOK
<1>2. ~create_assessment(a)
  BY <1>1 DEF create_assessment, InsertAssessment
<1>3. ASSUME status[a] # "none" PROVE FALSE
  <2>1. PICK w \in Workers :
          /\ On(w, a)
          /\ \/ SupervisorStarts(w) \/ EscalationResumes(w)
             \/ EscalationStarts(w) \/ finalize_decision_node(w) \/ MarkCaseFailed(w)
    BY <1>3, StatusKinds
  <2> QED
    BY <2>1, StatusWritten DEF On
<1> QED
  BY <1>2, <1>3

\* Jobs and checkpoints come after the case: POST /assessments inserts both rows
\* in one transaction, and a resume is for a case that has been shown escalated.
LEMMA UnstartedStep ==
  ASSUME Sound, Calm, CalmStep, NEW a \in Assessments
  PROVE  Unstarted(a)'
<1> SUFFICES ASSUME status'[a] = "none"
             PROVE  created'[a] = 0 /\ \A j \in Jobs' : run_queue'[j].assessment # a
  BY DEF Unstarted
<1>1. EngineInv /\ ReplayInv /\ [Next]_vars
  BY DEF Sound, CalmStep
<1>2. status[a] = "none" /\ ~create_assessment(a)
  BY <1>1, InsertedStays
<1>3. created[a] = 0 /\ ~Sent(a) /\ \A j \in Jobs : run_queue[j].assessment # a
  BY <1>2, NothingBefore
<1>4. created'[a] = 0
  BY <1>1, <1>2, <1>3, NothingBefore, CreatedKinds
<1>5. ASSUME NEW j \in Jobs', run_queue'[j].assessment = a PROVE FALSE
  <2>1. CASE SameJob(j)
    BY <1>3, <1>5, <2>1 DEF SameJob
  <2>2. ASSUME NEW q \in Requests, AcceptResume(q), request[q].assessment = a PROVE FALSE
    BY <1>3, <2>2 DEF AcceptResume, Calm, ResumesReached, Reached
  <2> QED
    BY <1>1, <1>2, <1>5, <2>1, <2>2, JobKinds
<1> QED
  BY <1>4, <1>5

-----------------------------------------------------------------------------
(* The numbers of the checkpoints.                                          *)

\* A row of the ledger is written by a run, so there is a checkpoint; and each
\* row brings the next one, its run's own.
LEMMA NumberedCaseStep ==
  ASSUME Sound, Calm, CalmStep, NEW a \in Assessments
  PROVE  NumberedCase(a)'
<1>1. EngineInv /\ ReplayInv /\ [Next]_vars /\ NumberedCase(a)
  BY DEF Sound, CalmStep, Calm
<1>2. PICK n, m, k, l : /\ n = Rows(a) /\ m = Rows(a)' /\ k = created[a] /\ l = created'[a]
                        /\ n \in Nat /\ m \in Nat /\ n <= m /\ k \in Nat /\ l \in Nat /\ k <= l
  BY <1>1, NumbersGrow
<1>3. ASSUME l = 0 PROVE Recorded(a)' = {}
  <2>1. k = 0 /\ Recorded(a) = {}
    BY <1>1, <1>2, <1>3 DEF NumberedCase
  <2>2. audit_events'[a] = audit_events[a]
    <3>1. ASSUME NEW w \in Workers, On(w, a), pc[w] \in InRun PROVE FALSE
      <4>1. created[a] > 0
        BY <3>1, RunCreated DEF On
      <4> QED
        BY <1>2, <2>1, <4>1
    <3> QED
      BY <1>1, <3>1, RowsKinds
  <2> QED
    BY <2>1, <2>2 DEF Recorded
<1>4. l <= m + 1
  <2>1. CASE l = k
    BY <1>1, <1>2, <2>1 DEF NumberedCase
  <2>2. ASSUME NEW w \in Workers, On(w, a), InvokeStart(w), l = k + 1 PROVE l <= m + 1
    BY <1>2, <2>2, FirstRun DEF On
  <2>3. ASSUME NEW w \in Workers, On(w, a), Logging(w), l = k + 1 PROVE l <= m + 1
    BY <1>1, <1>2, <2>3, LogsAtEnd DEF On, NumberedCase
  <2>4. ASSUME NEW w \in Workers, On(w, a), CriticResolves(w), l = k + 1 PROVE l <= m + 1
    BY <1>2, <2>4 DEF On, Calm, NumberedRun, Open, CriticResolves
  <2> QED
    BY <1>1, <1>2, <2>1, <2>2, <2>3, <2>4, CreatedKinds DEF Completes
<1>5. checkpoints'[a] = NoCheckpoint \/ Num(checkpoints'[a], created'[a])
  <2>1. checkpoints \in [Assessments -> GraphState] /\ WorkerTypes
    BY <1>1, PartsLemma DEF CheckpointsInv
  <2>2. CASE checkpoints'[a] = checkpoints[a]
    BY <1>1, <2>1, <2>2, NumKept DEF NumberedCase, Num
  <2>3. ASSUME NEW w \in Workers, pc[w] \in InRun, Case(w) = a, checkpoints'[a] = state[w]
        PROVE  Num(checkpoints'[a], created'[a])
    <3>1. Num(state[w], created[a]) /\ state[w] \in GraphState
      BY <2>1, <2>3 DEF Calm, NumberedRun, WorkerTypes
    <3>2. PICK s \in GraphState : s = state[w] /\ Num(s, created[a])
      BY <3>1
    <3>3. Num(s, created'[a])
      BY <1>1, <3>2, NumKept
    <3>4. checkpoints'[a] = s
      BY <2>3, <3>2
    <3> QED
      BY <3>3, <3>4 DEF Num
  <2> QED
    BY <1>1, <2>1, <2>2, <2>3, CheckpointKinds DEF Saved
<1> QED
  BY <1>2, <1>3, <1>4, <1>5 DEF NumberedCase

\* The number of the checkpoint a node returns is one more than its rows.
LEMMA CompletedNumbered ==
  ASSUME Sound, Calm, CalmStep, NEW w \in Workers, Completes(w),
         NEW a \in Assessments, a = Case(w)
  PROVE  /\ Num(state'[w], created'[a]) /\ pc'[w] = "node"
         /\ state'[w].event_seq = Rows(a)'
<1>1. EngineInv /\ ReplayInv /\ [Next]_vars /\ NumberedCase(a) /\ Working(w) /\ OpenInv(w)
      /\ NumberedRun(w)
  BY DEF Sound, CalmStep, Calm, ReplayInv
<1>2. PICK n, m, k : /\ n = Rows(a) /\ m = Rows(a)' /\ k = created[a]
                     /\ n \in Nat /\ m \in Nat /\ k \in Nat /\ Recorded(a) = 1..n
  BY <1>1, NumbersGrow
<1>3. PICK s \in GraphState : s = state[w]
  BY <1>1, PartsLemma DEF WorkerTypes
<1>4. s.id = s.event_seq + 1 /\ s.id <= k /\ k <= n + 1
  BY <1>1, <1>2, <1>3, CompletesNode DEF NumberedRun, Num, NumberedCase
<1>5. /\ created'[a] = k + 1 /\ pc'[w] = "node"
      /\ state'[w].id = k + 1 /\ state'[w].event_seq = s.event_seq + 1
  BY <1>1, <1>2, <1>3, Completed, PartsLemma DEF CheckpointsInv
<1>6. CASE Logging(w)
  <2>1. s.event_seq = n /\ m = n + 1
    BY <1>1, <1>2, <1>3, <1>6, LogsAtEnd
  <2>2. s.id = n + 1 /\ k = n + 1
    BY <1>2, <1>3, <1>4, <2>1
  <2> QED
    BY <1>2, <1>5, <2>1, <2>2 DEF Num
<1>7. CASE CriticResolves(w)
  <2>1. Open(w) /\ audit_events' = audit_events
    BY <1>7 DEF CriticResolves, Open
  <2>2. m = n
    BY <1>2, <2>1 DEF Rows, Recorded
  <2>3. k = n
    BY <1>1, <1>2, <2>1 DEF NumberedRun
  <2>4. s.event_seq + 1 \in 1..n
    BY <1>1, <1>2, <1>3, <2>1, PartsLemma DEF Held, Open
  <2>5. 1..n = 1..(s.event_seq + 1)
    BY <1>1, <1>2, <1>3, <2>1 DEF OpenInv
  <2>6. s.event_seq + 1 = n
    <3>1. n \in 1..(s.event_seq + 1)
      BY <1>2, <2>4, <2>5
    <3> QED
      BY <1>2, <1>3, <2>4, <3>1 DEF GraphState
  <2> QED
    BY <1>2, <1>5, <2>2, <2>3, <2>6 DEF Num
<1> QED
  BY <1>6, <1>7 DEF Completes

\* Nobody creates a checkpoint of a case, or writes a row, while another run is
\* between the row of its rejection and its resolution.
LEMMA OpenStays ==
  ASSUME Sound, Calm, CalmStep, NEW w \in Workers, Open(w), Still(w), NEW a \in Assessments,
         a = Case(w)
  PROVE  created'[a] = created[a] /\ Rows(a)' = Rows(a)
<1>1. EngineInv /\ ReplayInv /\ [Next]_vars /\ OpenInv(w)
  BY DEF Sound, CalmStep, ReplayInv
<1>2. audit_events'[a] = audit_events[a]
  BY <1>1, OpenKept
<1>3. Rows(a)' = Rows(a) /\ Rows(a) \in Nat
  BY <1>1, <1>2, RowsLemma DEF Rows, Recorded
<1>4. ASSUME NEW v \in Workers, On(v, a), InvokeStart(v) PROVE FALSE
  BY <1>4, FirstRun, RunCreated DEF On, Open, InRun, InNode
<1>5. ASSUME NEW v \in Workers, On(v, a), Logging(v) PROVE FALSE
  BY <1>1, <1>3, <1>5, LogsAtEnd DEF On
<1>6. ASSUME NEW v \in Workers, On(v, a), CriticResolves(v) PROVE FALSE
  <2>1. Open(v) /\ pc'[v] = "node"
    BY <1>1, <1>6, PartsLemma DEF Open, CriticResolves, CompleteNode, WorkerTypes
  <2>2. v = w
    BY <1>1, <1>6, <2>1 DEF OpenInv, On
  <2> QED
    BY <2>1, <2>2 DEF Still, Open
<1> QED
  BY <1>1, <1>3, <1>4, <1>5, <1>6, CreatedKinds DEF Completes

\* A worker's state carries the number of its last row, and no later one exists
\* while its rejection is open.
LEMMA NumberedRunStep ==
  ASSUME Sound, Calm, CalmStep, NEW w \in Workers
  PROVE  NumberedRun(w)'
<1>1. EngineInv /\ ReplayInv /\ [Next]_vars /\ NumberedRun(w) /\ WorkerTypes /\ QueueGrows
  BY PartsLemma, QueueStep DEF Sound, CalmStep, Calm, EngineInv
<1> SUFFICES ASSUME pc'[w] \in InRun PROVE NumberedRun(w)'
  BY DEF NumberedRun, Open, InRun, InNode
<1>2. pc[w] # "poll" /\ job'[w] = job[w]
  <2>1. pc'[w] # "poll" /\ pc'[w] # "invoke"
    BY DEF InRun, InNode
  <2>2. CASE Still(w)
    BY <2>1, <2>2 DEF Still
  <2>3. CASE InvokeStart(w) \/ InvokeResume(w)
    BY <2>3 DEF InvokeStart, InvokeResume
  <2>4. CASE Completes(w)
    BY <1>1, <2>4, CompletesNode DEF CompleteNode, InRun, InNode
  <2>5. CASE Moves(w)
    BY <1>1, <2>5, Moved
  <2> QED
    BY <1>1, <2>1, <2>2, <2>3, <2>4, <2>5, OwnKinds
<1>3. PICK a \in Assessments : a = Case(w) /\ a = Case(w)'
  BY <1>1, <1>2, CaseLemma, CaseKept
<1> SUFFICES /\ Num(state'[w], created'[a])
             /\ Open(w)' => created'[a] = Rows(a)'
  BY <1>3 DEF NumberedRun, Rows, Recorded
<1>4. ASSUME pc[w] \in InRun, state'[w] = state[w] PROVE Num(state'[w], created'[a])
  <2>1. PICK s \in GraphState : s = state[w] /\ Num(s, created[a])
    BY <1>1, <1>3, <1>4 DEF WorkerTypes, NumberedRun
  <2> QED
    BY <1>1, <1>4, <2>1, NumKept
<1>5. CASE Still(w)
  <2>1. pc[w] \in InRun /\ state'[w] = state[w]
    BY <1>5 DEF Still
  <2>2. Open(w)' => created'[a] = Rows(a)'
    BY <1>1, <1>3, <1>5, OpenStays DEF Still, Open, NumberedRun
  <2> QED
    BY <1>4, <2>1, <2>2
<1>6. CASE InvokeStart(w)
  <2>1. PICK s \in GraphState : s = checkpoints[a]
    BY <1>1, PartsLemma DEF CheckpointsInv
  <2>2. created[a] = 0
    BY <1>3, <1>6, FirstRun
  <2>3. state'[w].id = 1 /\ state'[w].event_seq = 0 /\ created'[a] = 1 /\ pc'[w] = "node"
    <3>1. created \in [Assessments -> Nat]
      BY <1>1, PartsLemma DEF CheckpointsInv
    <3>2. PICK n \in Nat : n = created[a] + 1 /\ n = 1
      BY <2>2
    <3>3. /\ state' = [state EXCEPT ![w] = [s EXCEPT !.id = n, !.next = "supervisor",
                                                   !.event_seq = 0, !.conflict_round = 0]]
          /\ created' = [created EXCEPT ![a] = n] /\ pc' = [pc EXCEPT ![w] = "node"]
      BY <1>3, <1>6, <2>1, <3>2 DEF InvokeStart
    <3>4. state'[w].id = n /\ state'[w].event_seq = 0
      BY <1>1, <3>3 DEF WorkerTypes, GraphState
    <3> QED
      BY <1>1, <3>1, <3>2, <3>3, <3>4 DEF WorkerTypes
  <2> QED
    BY <2>3 DEF Num, Open
<1>7. CASE InvokeResume(w)
  <2>1. checkpoints[a] # NoCheckpoint /\ state'[w] = checkpoints[a] /\ pc'[w] \in {"done", "node"}
    BY <1>1, <1>3, <1>7 DEF InvokeResume, WorkerTypes, InRun, InNode
  <2>2. PICK s \in GraphState : s = checkpoints[a] /\ Num(s, created[a])
    BY <1>1, <2>1, PartsLemma DEF CheckpointsInv, Calm, NumberedCase
  <2>3. Num(s, created'[a])
    BY <1>1, <2>2, NumKept
  <2> QED
    BY <2>1, <2>2, <2>3 DEF Open
<1>8. CASE Completes(w)
  BY <1>3, <1>8, CompletedNumbered DEF Open
<1>9. CASE Moves(w)
  <2>1. pc[w] \in InRun /\ state'[w] = state[w]
    BY <1>1, <1>9, Moved
  <2>2. CASE CriticRejects(w)
    <3>1. PICK n \in Nat, k \in Nat : n = Rows(a) /\ k = created[a]
      BY <1>1, NumbersGrow
    <3>2. state[w].event_seq = n /\ Rows(a)' = n + 1
      BY <1>1, <1>3, <2>2, <3>1, LogsAtEnd DEF Logging
    <3>3. k = n + 1
      BY <1>1, <1>3, <2>1, <3>1, <3>2 DEF NumberedRun, Num, Calm, NumberedCase, WorkerTypes,
                                          GraphState
    <3>4. created' = created
      BY <2>2 DEF CriticRejects
    <3> QED
      BY <1>4, <2>1, <3>1, <3>2, <3>3, <3>4
  <2>3. CASE CriticOpensConflict(w)
    <3>1. Open(w) /\ created' = created /\ audit_events' = audit_events
      BY <2>3 DEF CriticOpensConflict, Open
    <3>2. Rows(a)' = Rows(a)
      BY <3>1 DEF Rows, Recorded
    <3> QED
      BY <1>1, <1>3, <1>4, <2>1, <3>1, <3>2 DEF NumberedRun
  <2> QED
    BY <1>1, <1>4, <1>9, <2>1, <2>2, <2>3, Moved
<1> QED
  BY <1>1, <1>2, <1>5, <1>6, <1>7, <1>8, <1>9, OwnKinds DEF InRun, InNode

-----------------------------------------------------------------------------
(* The human has been reached.                                              *)

\* The run of a start job has no answer to go on with once it is at interrupt().
LEMMA StartRunEnds ==
  ASSUME Sound, Calm, CalmStep, NEW w \in Workers,
         pc[w] \in {"interrupt", "done", "failed", "case"}, run_queue[job[w]].kind = "start"
  PROVE  /\ pc'[w] \in {"interrupt", "done", "failed", "case", "poll"}
         /\ pc'[w] # "poll" => job'[w] = job[w]
         /\ pc'[w] = "poll" => job'[w] = 0
<1>1. EngineInv /\ [Next]_vars /\ WorkerTypes /\ answer[w] = "none"
  BY PartsLemma DEF Sound, CalmStep, Calm, AnswerHeld
<1>2. CASE Still(w)
  BY <1>2 DEF Still
<1>3. CASE EscalationPauses(w) \/ NodeRaises(w) \/ JobRaises(w) \/ MarkJobFailed(w)
  BY <1>1, <1>3 DEF WorkerTypes, EscalationPauses, NodeRaises, JobRaises, MarkJobFailed, EndRun
<1>4. CASE MarkDone(w) \/ MarkCaseFailed(w)
  BY <1>1, <1>4 DEF WorkerTypes, MarkDone, MarkCaseFailed, Idle
<1>5. ~ \/ InvokeStart(w) \/ InvokeResume(w) \/ ClaimOneJob(w) \/ Reclaim(w) \/ Crash(w)
        \/ SupervisorStarts(w) \/ SupervisorLogs(w)
        \/ data_engineer_node(w) \/ financial_analyst_node(w) \/ CriticPasses(w)
        \/ CriticRejects(w) \/ CriticOpensConflict(w) \/ CriticResolves(w)
        \/ EscalationStarts(w) \/ EscalationResumes(w) \/ EscalationLogs(w)
        \/ finalize_decision_node(w) \/ GraphEnds(w) \/ SeqTaken(w)
  BY <1>1
  DEF CalmStep, InvokeStart, InvokeResume, ClaimOneJob, SupervisorStarts, SupervisorLogs,
      data_engineer_node, financial_analyst_node, CriticPasses, CriticRejects,
      CriticOpensConflict, CriticResolves, EscalationStarts, EscalationResumes, EscalationLogs,
      finalize_decision_node, GraphEnds, SeqTaken, AtInsert, At
<1> QED
  BY <1>1, <1>2, <1>3, <1>4, <1>5, OwnStep DEF WorkerStep, RunStep

\* What has been reached stays reached: the ledger keeps its rows, and the start
\* job is neither repeated nor put back.
LEMMA ReachedStep ==
  ASSUME Sound, Calm, CalmStep, NEW a \in Assessments, Reached(a)
  PROVE  Reached(a)'
<1>1. EngineInv /\ ReplayInv /\ [Next]_vars /\ QueueGrows
  BY QueueStep DEF Sound, CalmStep, EngineInv
<1>2. Sent(a)'
  BY <1>1, SentKept DEF Reached
<1>3. ~create_assessment(a)
  BY NothingBefore DEF create_assessment, InsertAssessment, Reached
<1>4. ASSUME NEW j \in Jobs', Starts(j, a)'
      PROVE  /\ run_queue'[j].status # "queued"
             /\ \A w \in Workers : job'[w] = j => pc'[w] \in {"interrupt", "done", "failed", "case"}
  <2>1. run_queue'[j].kind = "start" /\ run_queue'[j].assessment = a
    BY <1>4 DEF Starts
  <2>2. SameJob(j) /\ (run_queue'[j] = run_queue[j] \/ Claimed(j) \/ Settled(j))
    BY <1>1, <1>3, <2>1, JobKinds DEF CalmStep, Reclaimed
  <2>3. Starts(j, a)
    BY <2>1, <2>2 DEF SameJob, Starts
  <2>4. /\ run_queue[j].status # "queued"
        /\ \A w \in Workers : job[w] = j => pc[w] \in {"interrupt", "done", "failed", "case"}
    BY <2>2, <2>3 DEF Reached, StartOver, SameJob
  <2>5. run_queue'[j].status # "queued"
    BY <2>2, <2>4 DEF Claimed, Settled
  <2>6. ASSUME NEW w \in Workers, job'[w] = j
        PROVE  pc'[w] \in {"interrupt", "done", "failed", "case"}
    <3>1. j # 0 /\ WorkerTypes
      BY <1>1, <2>3, PartsLemma DEF EngineInv, TypeOK, RunQueueTypeOK, Starts, Jobs
    <3>2. CASE job[w] = j
      <4>1. pc[w] \in {"interrupt", "done", "failed", "case"} /\ run_queue[job[w]].kind = "start"
        BY <2>3, <2>4, <3>2 DEF Starts
      <4> QED
        BY <2>6, <3>1, <4>1, StartRunEnds
    <3>3. CASE job[w] # j
      <4>1. ClaimOneJob(w)
        BY <1>1, <2>6, <3>1, <3>3, JobMoves DEF MarkDone, MarkCaseFailed, Idle, WorkerTypes
      <4> QED
        BY <2>4, <2>6, <3>1, <4>1 DEF ClaimOneJob, Claim, WorkerTypes
    <3> QED
      BY <3>2, <3>3
  <2> QED
    BY <2>5, <2>6
<1> QED
  BY <1>2, <1>4 DEF Reached, StartOver, Starts

\* Where human_escalation_node writes "escalated", it has.
LEMMA EscalationReaches ==
  ASSUME Sound, Calm, CalmStep, NEW w \in Workers, EscalationStarts(w),
         NEW a \in Assessments, On(w, a)
  PROVE  Reached(a)'
<1>1. EngineInv /\ ReplayInv /\ [Next]_vars /\ WorkerTypes /\ job[w] \in Jobs /\ job[w] # 0
  BY PartsLemma, CaseLemma
  DEF Sound, CalmStep, EngineInv, TypeOK, RunQueueTypeOK, On, Jobs
<1>2. run_queue[job[w]] \in Job
  BY <1>1, ElementOfSeq DEF EngineInv, TypeOK, RunQueueTypeOK, Jobs
<1>3. run_queue[job[w]].assessment = a /\ run_queue[job[w]].kind \in {"start", "resume"}
  BY <1>2 DEF On, Case, Job
<1>4. CASE run_queue[job[w]].kind = "resume"
  BY <1>1, <1>3, <1>4, ReachedStep DEF Calm, ResumesReached
<1>5. CASE run_queue[job[w]].kind = "start"
  <2>1. pc[w] = "node" /\ state[w].next = "human_escalation" /\ Replays(state[w], a)
    BY <1>1 DEF EscalationStarts, At, ReplayInv, Working, On, InRun
  <2>2. PICK s : s = state[w] /\ Replays(s, a) /\ s.next = "human_escalation"
    BY <2>1
  <2>3. s.event_seq \in Recorded(a) /\ Audit!Expected(Prefix(a, s.event_seq)) = "human_escalation"
    BY <1>1, <2>2, PastSupervisor
  <2>4. Sent(a)'
    BY <1>1, <2>3, SentKept DEF Sent
  <2>5. run_queue' = run_queue /\ job' = job /\ pc' = [pc EXCEPT ![w] = "interrupt"]
    BY DEF EscalationStarts
  <2>6. ASSUME NEW j \in Jobs, Starts(j, a)
        PROVE  /\ run_queue[j].status # "queued"
               /\ \A v \in Workers : job[v] = j => pc'[v] \in {"interrupt", "done", "failed", "case"}
    <3>1. j = job[w]
      BY <1>1, <1>3, <1>5, <2>6 DEF Calm, StartsOnce, Starts
    <3>2. run_queue[j].status = "claimed"
      BY <2>1, <3>1 DEF Sound, RunnerInv
    <3>3. \A v \in Workers : job[v] = j => v = w
      BY <1>1, <3>1 DEF Sound, RunnerInv, JobHasOneRunner
    <3>4. pc'[w] = "interrupt"
      BY <1>1, <2>5 DEF WorkerTypes
    <3> QED
      BY <3>2, <3>3, <3>4
  <2>7. StartOver(a)'
    BY <2>5, <2>6 DEF StartOver, Starts, Jobs
  <2> QED
    BY <2>4, <2>7 DEF Reached
<1> QED
  BY <1>3, <1>4, <1>5

\* Requests are the business of resume_assessment.
LEMMA RequestMoves ==
  ASSUME [Next]_vars
  PROVE  UNCHANGED request \/ \E q \in Requests : RequestResume(q) \/ AcceptResume(q)
BY DEF Next, vars, create_assessment, WorkerStep, Persist, Crash, JobAges, Reclaim,
       ClaimOneJob, InvokeStart, InvokeResume, MarkDone, JobRaises, MarkJobFailed,
       MarkCaseFailed, RunStep, SupervisorStarts, SupervisorLogs, data_engineer_node,
       financial_analyst_node, CriticPasses, CriticRejects, CriticOpensConflict, CriticResolves,
       EscalationStarts, EscalationPauses, EscalationResumes, EscalationLogs,
       finalize_decision_node, GraphEnds, SeqTaken, NodeRaises

\* A resume that is checked, queued or running is for a case that has reached the
\* human, and brings an answer.
LEMMA ResumesReachedStep ==
  ASSUME Sound, Calm, CalmStep
  PROVE  ResumesReached'
<1>1. EngineInv /\ [Next]_vars /\ Jobs \subseteq Jobs' /\ request' \in [Requests -> Request]
      /\ RequestInv'
  BY QueueStep, RequestStep DEF Sound, EngineInv, CalmStep, QueueGrows
<1>2. \A a \in Assessments : Reached(a) => Reached(a)'
  BY ReachedStep
<1>3. ASSUME NEW a \in Assessments, status'[a] = "escalated" PROVE Reached(a)'
  <2>1. CASE status[a] = "escalated"
    BY <1>2, <2>1 DEF Calm, ResumesReached
  <2>2. CASE status[a] # "escalated"
    <3>1. PICK w \in Workers : On(w, a) /\ EscalationStarts(w)
      BY <1>1, <1>3, <2>2, StatusKinds, StatusWritten DEF On
    <3> QED
      BY <3>1, EscalationReaches
  <2> QED
    BY <2>1, <2>2
<1>4. ASSUME NEW q \in Requests, request[q].stage # "idle", NEW c, c = request[q].assessment
      PROVE  request[q].decision \in Answers /\ Reached(c)'
  <2>1. c \in Assessments /\ Reached(c) /\ request[q].decision \in Answers
    BY <1>1, <1>4 DEF Calm, ResumesReached, EngineInv, RequestInv
  <2> QED
    BY <1>2, <2>1
<1>5. ASSUME NEW j \in Jobs', run_queue'[j].kind = "resume", NEW c, c = run_queue'[j].assessment
      PROVE  run_queue'[j].payload \in Answers /\ Reached(c)'
  <2>1. CASE SameJob(j)
    <3>1. run_queue[j] \in Job
      BY <1>1, <2>1, ElementOfSeq DEF SameJob, EngineInv, TypeOK, RunQueueTypeOK, Jobs
    <3>2. c \in Assessments /\ Reached(c) /\ run_queue[j].payload \in Answers
      BY <1>5, <2>1, <3>1 DEF SameJob, Job, Calm, ResumesReached
    <3> QED
      BY <1>2, <2>1, <3>2 DEF SameJob
  <2>2. CASE ~SameJob(j)
    <3>1. PICK q \in Requests : /\ AcceptResume(q)
                                /\ run_queue'[j].assessment = request[q].assessment
                                /\ run_queue'[j].payload = request[q].decision
      BY <1>1, <1>5, <2>2, JobKinds
    <3>2. request[q].stage # "idle"
      BY <3>1 DEF AcceptResume
    <3> QED
      BY <1>4, <1>5, <3>1, <3>2
  <2> QED
    BY <2>1, <2>2
<1>6. ASSUME NEW q \in Requests, request'[q].stage # "idle", NEW c, c = request'[q].assessment
      PROVE  request'[q].decision \in Answers /\ Reached(c)'
  <2>1. request \in [Requests -> Request]
    BY <1>1 DEF EngineInv, TypeOK, Request
  <2>2. CASE request'[q] = request[q]
    BY <1>4, <1>6, <2>2
  <2>3. ASSUME NEW p \in Requests, RequestResume(p), request'[q] # request[q]
        PROVE  request'[q].decision \in Answers /\ Reached(c)'
    <3>1. PICK a \in Assessments, decision \in Answers :
            /\ status[a] = "escalated"
            /\ request' = [request EXCEPT ![p] =
                 [stage |-> "checked", assessment |-> a, decision |-> decision]]
      BY <2>3 DEF RequestResume
    <3>2. request'[q] = [stage |-> "checked", assessment |-> a, decision |-> decision]
      BY <2>1, <2>3, <3>1
    <3> QED
      BY <1>2, <1>6, <3>1, <3>2 DEF Calm, ResumesReached
  <2>4. ASSUME NEW p \in Requests, AcceptResume(p), request'[q] # request[q]
        PROVE  request'[q].decision \in Answers /\ Reached(c)'
    <3>1. PICK r \in Request : r = request[p] /\ r.stage = "checked" /\ p = q
      BY <2>1, <2>4 DEF AcceptResume
    <3>2. request'[q] = [r EXCEPT !.stage = "accepted"]
      BY <2>1, <2>4, <3>1 DEF AcceptResume
    <3>3. request'[q].decision = r.decision /\ request'[q].assessment = r.assessment
      BY <3>2 DEF Request
    <3> QED
      BY <1>4, <1>6, <3>1, <3>3
  <2> QED
    BY <1>1, <2>2, <2>3, <2>4, RequestMoves
<1>7. \A j \in Jobs' : run_queue'[j].kind = "resume" =>
        run_queue'[j].payload \in Answers /\ Reached(run_queue[j].assessment)'
  BY <1>5
<1>8. \A q \in Requests : request'[q].stage # "idle" =>
        request'[q].decision \in Answers /\ Reached(request[q].assessment)'
  BY <1>6
<1> QED
  BY <1>3, <1>7, <1>8 DEF ResumesReached

-----------------------------------------------------------------------------
(* The runs.                                                                *)

\* A worker that keeps its job keeps what it is asked to do.
LEMMA JobKept ==
  ASSUME EngineInv, [Next]_vars, NEW w \in Workers, pc[w] # "poll", job'[w] = job[w]
  PROVE  /\ run_queue'[job'[w]].kind = run_queue[job[w]].kind
         /\ run_queue[job[w]].kind \in {"start", "resume"}
         /\ Case(w) \in Assessments /\ Case(w)' = Case(w)
<1>1. job[w] \in Jobs /\ job[w] \in Jobs' /\ Case(w) \in Assessments
  BY CaseLemma, QueueStep DEF EngineInv, QueueGrows
<1>2. SameJob(job[w])
  BY <1>1, JobKinds
<1>3. run_queue[job[w]] \in Job
  BY <1>1, ElementOfSeq DEF EngineInv, TypeOK, RunQueueTypeOK, Jobs
<1> QED
  BY <1>1, <1>2, <1>3 DEF SameJob, Job, Case

\* Only who runs a resume job has an answer in hand.
LEMMA AnswerHeldStep ==
  ASSUME EngineInv, [Next]_vars, NEW w \in Workers, AnswerHeld(w)
  PROVE  AnswerHeld(w)'
BY AnswerKinds, JobKept DEF AnswerHeld, InvokeResume

\* A worker inside a run after the step was inside it before, or has invoked it.
LEMMA RunKinds ==
  ASSUME EngineInv, [Next]_vars, NEW w \in Workers, pc'[w] \in InRun
  PROVE  /\ pc[w] # "poll" /\ job'[w] = job[w]
         /\ \/ pc[w] \in InRun /\ (Still(w) \/ Completes(w) \/ Moves(w))
            \/ InvokeStart(w) \/ InvokeResume(w)
<1>1. WorkerTypes /\ pc'[w] # "poll" /\ pc'[w] # "invoke"
  BY PartsLemma DEF InRun, InNode
<1>2. CASE Still(w)
  BY <1>1, <1>2 DEF Still
<1>3. CASE InvokeStart(w) \/ InvokeResume(w)
  BY <1>3 DEF InvokeStart, InvokeResume
<1>4. CASE Completes(w)
  BY <1>1, <1>4, CompletesNode DEF CompleteNode, InRun, InNode
<1>5. CASE Moves(w)
  BY <1>1, <1>5, Moved
<1> QED
  BY <1>1, <1>2, <1>3, <1>4, <1>5, OwnKinds

\* As long as the start job's run has not come to the human, nobody else is on
\* its case: there is no second start job, and nobody yet has been told to resume.
LEMMA StartRunAlone ==
  ASSUME Sound, Calm, NEW w \in Workers, pc[w] \in {"node", "log"},
         run_queue[job[w]].kind = "start", NEW a \in Assessments, a = Case(w),
         NEW v \in Workers, On(v, a)
  PROVE  v = w
<1>1. On(w, a) /\ job[w] \in Jobs /\ job[v] \in Jobs /\ EngineInv
  BY CaseLemma DEF Sound, On
<1>2. run_queue[job[v]] \in Job
  BY <1>1, ElementOfSeq DEF EngineInv, TypeOK, RunQueueTypeOK, Jobs
<1>3. CASE run_queue[job[v]].kind = "start"
  BY <1>1, <1>3, StartAlone
<1>4. CASE run_queue[job[v]].kind = "resume"
  <2>1. Reached(a)
    BY <1>1, <1>4 DEF On, Case, Calm, ResumesReached
  <2>2. Starts(job[w], a)
    BY <1>1 DEF Starts, Case
  <2> QED
    BY <1>1, <2>1, <2>2 DEF Reached, StartOver
<1> QED
  BY <1>2, <1>3, <1>4 DEF Job

\* The start job's run keeps the whole ledger before it.
LEMMA StartRunStep ==
  ASSUME Sound, Calm, CalmStep, NEW w \in Workers
  PROVE  StartRun(w)'
<1> SUFFICES ASSUME pc'[w] \in {"node", "log"}, run_queue'[job'[w]].kind = "start"
             PROVE  StartRun(w)'
  BY DEF StartRun
<1>1. /\ EngineInv /\ ReplayInv /\ [Next]_vars /\ WorkerTypes /\ StartRun(w) /\ AnswerHeld(w)
      /\ pc'[w] \in InRun
  BY PartsLemma DEF Sound, CalmStep, Calm, InRun, InNode
<1>2. PICK a \in Assessments : a = Case(w) /\ a = Case(w)'
  BY <1>1, RunKinds, JobKept
<1>3. run_queue[job[w]].kind = "start" /\ pc[w] # "poll"
  BY <1>1, RunKinds, JobKept
<1> SUFFICES state'[w].event_seq = Rows(a)'
  BY <1>2 DEF StartRun, Rows, Recorded
<1>4. CASE InvokeStart(w)
  <2>1. Rows(a) = 0 /\ audit_events' = audit_events
    BY <1>2, <1>4, FirstRun DEF InvokeStart, ledger
  <2>2. Rows(a)' = 0
    BY <2>1 DEF Rows, Recorded
  <2>3. PICK s \in GraphState : s = checkpoints[a]
    BY <1>1, PartsLemma DEF CheckpointsInv
  <2>4. PICK u : u = state'[w] /\ u = [s EXCEPT !.id = created[a] + 1, !.next = "supervisor",
                                                !.event_seq = 0, !.conflict_round = 0]
    BY <1>1, <1>2, <1>4, <2>3 DEF InvokeStart, WorkerTypes
  <2>5. u.event_seq = 0
    BY <2>4 DEF GraphState
  <2> QED
    BY <2>2, <2>4, <2>5
<1>5. CASE Completes(w)
  BY <1>2, <1>5, CompletedNumbered
<1>6. ~InvokeResume(w)
  BY <1>3 DEF InvokeResume
<1>7. ASSUME Still(w) \/ Moves(w), pc[w] \in InRun
      PROVE  state'[w].event_seq = Rows(a)'
  <2>1. pc[w] \in {"node", "log"} /\ state'[w] = state[w]
    <3>1. CASE Still(w)
      BY <3>1 DEF Still
    <3>2. CASE Moves(w)
      <4>1. pc'[w] = "log" /\ state'[w] = state[w]
        BY <1>1, <3>2, Moved
      <4>2. SupervisorStarts(w) \/ EscalationResumes(w)
        BY <1>1, <3>2, <4>1, Moved
      <4>3. ~EscalationResumes(w)
        BY <1>1, <1>3 DEF EscalationResumes, AnswerHeld
      <4> QED
        BY <4>1, <4>2, <4>3 DEF SupervisorStarts, At
    <3> QED
      BY <1>7, <3>1, <3>2
  <2>2. state[w].event_seq = Rows(a)
    BY <1>1, <1>2, <1>3, <2>1 DEF StartRun
  <2>3. Rows(a)' = Rows(a)
    <3>1. ASSUME NEW v \in Workers, On(v, a), Logging(v) PROVE FALSE
      <4>1. v = w
        BY <1>2, <1>3, <2>1, <3>1, StartRunAlone
      <4>2. Rows(a)' = Rows(a) + 1 /\ Rows(a) \in Nat
        BY <1>1, <1>2, <3>1, <4>1, LogsAtEnd, RowsLemma
      <4>3. CASE CriticRejects(w)
        BY <1>1, <4>3 DEF CriticRejects, WorkerTypes
      <4>4. CASE ~CriticRejects(w)
        <5>1. Completes(w)
          BY <3>1, <4>1, <4>4 DEF Completes
        <5>2. state'[w].event_seq = state[w].event_seq + 1
          BY <1>1, <1>2, <5>1, Completed DEF ReplayInv
        <5> QED
          BY <2>1, <2>2, <4>2, <5>2
      <4> QED
        BY <4>3, <4>4
    <3> QED
      BY <1>1, <3>1, RowsKinds
  <2> QED
    BY <2>1, <2>2, <2>3
<1> QED
  BY <1>1, <1>4, <1>5, <1>6, <1>7, RunKinds

\* The checkpoint a resume goes on from is at the human, behind it, or old.
LEMMA ResumedFrom ==
  ASSUME Sound, NEW a \in Assessments, Sent(a),
         NEW c, c = checkpoints[a], c.next \notin {"human_escalation", "finalize_decision", "end"}
  PROVE  c.event_seq < Rows(a)
<1>1. EngineInv /\ Walk(a) /\ Replays(c, a)
  BY DEF Sound, ReplayInv
<1>2. PICK n \in Nat : n = Rows(a) /\ Recorded(a) = 1..n
  BY <1>1, RowsLemma
<1>3. PICK k \in 1..n : Audit!Expected(Prefix(a, k)) = "human_escalation"
  BY <1>2 DEF Sent
<1>4. c.event_seq \in {0} \cup 1..n
  BY <1>1, <1>2 DEF Replays, Carried
<1>5. CASE c.event_seq = 0
  BY <1>2, <1>3, <1>5
<1>6. CASE c.event_seq # 0
  <2>1. PICK m \in 1..n : m = c.event_seq /\ c.next = Audit!Expected(Prefix(a, m))
    BY <1>1, <1>4, <1>6 DEF Replays, Summary
  <2>2. ~(k <= m)
    BY <1>1, <1>2, <1>3, <2>1, HumanBehind
  <2> QED
    BY <1>2, <1>3, <2>1, <2>2
<1> QED
  BY <1>5, <1>6

\* A resume job's run is at the human with its answer, behind it, or will not get
\* a row in.
LEMMA ResumeRunStep ==
  ASSUME Sound, Calm, CalmStep, NEW w \in Workers
  PROVE  ResumeRun(w)'
<1> SUFFICES ASSUME pc'[w] \in InRun, run_queue'[job'[w]].kind = "resume"
             PROVE  ResumeRun(w)'
  BY DEF ResumeRun, InRun, InNode
<1>1. /\ EngineInv /\ ReplayInv /\ [Next]_vars /\ WorkerTypes /\ ResumeRun(w)
      /\ Working(w) /\ OpenInv(w)
  BY PartsLemma DEF Sound, CalmStep, Calm, ReplayInv
<1>2. PICK a \in Assessments : a = Case(w) /\ a = Case(w)'
  BY <1>1, RunKinds, JobKept
<1>3. run_queue[job[w]].kind = "resume" /\ pc[w] # "poll"
  BY <1>1, RunKinds, JobKept
<1> SUFFICES \/ state'[w].next = "human_escalation" /\ answer'[w] # "none"
             \/ state'[w].next \in {"finalize_decision", "end"}
             \/ /\ state'[w].next # "human_escalation" /\ ~Open(w)'
                /\ state'[w].event_seq < Rows(a)'
  BY <1>2 DEF ResumeRun, Rows, Recorded
<1>4. PICK n, m, k : /\ n = Rows(a) /\ m = Rows(a)' /\ n \in Nat /\ m \in Nat /\ n <= m
                     /\ k = state[w].event_seq /\ k \in Nat
  BY <1>1, NumbersGrow DEF WorkerTypes, GraphState
<1>5. Logging(w) => k = n
  BY <1>1, <1>2, <1>4, LogsAtEnd
<1>6. ~InvokeStart(w)
  BY <1>3 DEF InvokeStart
<1>7. CASE InvokeResume(w)
  <2>1. job[w] \in Jobs /\ "none" \notin Answers
    BY <1>1, <1>3, CaseLemma DEF Answers
  <2>2. run_queue[job[w]].payload # "none" /\ Sent(a)
    BY <1>2, <1>3, <2>1 DEF Calm, ResumesReached, Reached, Case
  <2>3. /\ state'[w] = checkpoints[a] /\ answer'[w] # "none" /\ audit_events' = audit_events
        /\ pc'[w] \in {"failed", "done", "node"}
    BY <1>1, <1>2, <1>7, <2>2 DEF InvokeResume, WorkerTypes, ledger
  <2>4. m = n /\ ~Open(w)'
    BY <1>4, <2>3 DEF Rows, Recorded, Open
  <2>5. PICK c : c = checkpoints[a]
    OBVIOUS
  <2>6. \/ c.next \in {"human_escalation", "finalize_decision", "end"}
        \/ c.event_seq < n
    BY <1>4, <2>2, <2>5, ResumedFrom
  <2> QED
    BY <1>4, <2>3, <2>4, <2>5, <2>6
<1>8. ASSUME pc[w] \in InRun, Still(w) \/ Moves(w)
      PROVE  \/ state'[w].next = "human_escalation" /\ answer'[w] # "none"
             \/ state'[w].next \in {"finalize_decision", "end"}
             \/ /\ state'[w].next # "human_escalation" /\ ~Open(w)'
                /\ state'[w].event_seq < Rows(a)'
  <2>1. state'[w] = state[w] /\ answer'[w] = answer[w]
    BY <1>1, <1>8, Moved DEF Still
  <2>2. ASSUME k < n, ~Open(w) PROVE ~Open(w)' /\ k < m
    <3>1. ~CriticRejects(w)
      BY <1>5, <1>4, <2>2 DEF Logging
    <3>2. ~CriticOpensConflict(w)
      BY <2>2 DEF CriticOpensConflict, Open
    <3>3. ~Open(w)'
      BY <1>1, <1>8, <2>2, <3>1, <3>2, Moved DEF Still, Open
    <3> QED
      BY <1>4, <2>2, <3>3
  <2> QED
    BY <1>1, <1>2, <1>3, <1>4, <1>8, <2>1, <2>2 DEF ResumeRun
<1>9. CASE Completes(w) /\ pc[w] \in InRun
  <2>1. CASE state[w].next = "human_escalation" \/ state[w].next = "finalize_decision"
    BY <1>1, <1>2, <1>9, <2>1, Completed
  <2>2. state[w].next # "end"
    <3>1. CASE Logging(w) /\ ~CriticRejects(w)
      <4>1. state[w].next \in Nodes
        BY <1>1, <3>1, NodeFollows
      <4> QED
        BY <4>1 DEF Nodes
    <3>2. CASE CriticResolves(w)
      BY <1>1, <3>2 DEF OpenInv, Open, CriticResolves
    <3> QED
      BY <1>9, <3>1, <3>2 DEF Completes
  <2>3. ASSUME k < n, ~Open(w) PROVE FALSE
    <3>1. ~Logging(w)
      BY <1>5, <1>4, <2>3
    <3>2. ~CriticResolves(w)
      BY <2>3 DEF CriticResolves, Open
    <3> QED
      BY <1>9, <3>1, <3>2 DEF Completes
  <2> QED
    BY <1>1, <1>2, <1>3, <1>4, <1>9, <2>1, <2>2, <2>3 DEF ResumeRun
<1> QED
  BY <1>1, <1>6, <1>7, <1>8, <1>9, RunKinds

-----------------------------------------------------------------------------
(* The cases at rest.                                                       *)

\* The walk is at the human, and the checkpoint says so or is about to.
AtInterrupt(w) == pc[w] = "interrupt" /\ answer[w] = "none"

Awaits(a) ==
  /\ Audit!Expected(Trail(a)) = "human_escalation"
  /\ \/ checkpoints[a].next = "human_escalation"
     \/ \E w \in Workers : On(w, a) /\ AtInterrupt(w)

\* The walk is over, and the checkpoint says so or is about to.
Ended(a) ==
  \/ checkpoints[a].next = "end"
  \/ \E w \in Workers : On(w, a) /\ At(w, "end")

StatusInv(a) ==
  /\ status[a] = "pending" => Due(a)
  /\ status[a] = "in_progress" => Owed(a)
  /\ status[a] = "escalated" => Owed(a) \/ Awaits(a)
  /\ status[a] = "completed" => Owed(a) \/ Ended(a)

\* A checkpoint past the supervisor is numbered, and of a row.
LEMMA NumberedCheckpoint ==
  ASSUME Sound, Calm, NEW a \in Assessments, NEW c, c = checkpoints[a], c.next # "supervisor"
  PROVE  /\ Num(checkpoints[a], created[a])
         /\ c.event_seq \in Recorded(a)
         /\ c.next = Audit!Expected(Prefix(a, c.event_seq))
<1>1. EngineInv /\ Replays(c, a)
  BY DEF Sound, ReplayInv
<1>2. c # NoCheckpoint
  BY DEF NoCheckpoint
<1>3. Num(checkpoints[a], created[a])
  BY <1>2 DEF Calm, NumberedCase
<1> QED
  BY <1>1, <1>3, PastSupervisor

\* A run that pauses, or ends, leaves a checkpoint that says so, its own or a
\* later one.
LEMMA LastSave ==
  ASSUME Sound, Calm, NEW w \in Workers, pc[w] \in InRun, NEW a \in Assessments, On(w, a),
         checkpoints' = Saved(w), state[w].next # "supervisor",
         state[w].event_seq = Rows(a)
  PROVE  checkpoints'[a].next = state[w].next
<1>1. PICK s : s = state[w] /\ Replays(s, a) /\ Num(s, created[a])
  BY DEF Sound, ReplayInv, Working, On, Calm, NumberedRun
<1>2. /\ EngineInv /\ Replays(checkpoints[a], a) /\ checkpoints \in [Assessments -> GraphState]
      /\ checkpoints[a] = NoCheckpoint \/ Num(checkpoints[a], created[a])
  BY PartsLemma DEF Sound, ReplayInv, Calm, NumberedCase, CheckpointsInv
<1>3. CASE s.id > checkpoints[a].id
  BY <1>1, <1>2, <1>3 DEF Saved, On
<1>4. CASE ~(s.id > checkpoints[a].id)
  <2>1. checkpoints[a].next = s.next
    BY <1>1, <1>2, <1>4, NewerCheckpoint
  <2> QED
    BY <1>1, <1>4, <2>1 DEF Saved, On
<1> QED
  BY <1>3, <1>4

\* human_escalation_node writes "escalated" without an answer in hand only at the
\* end of the ledger.
LEMMA AwaitsBegins ==
  ASSUME Sound, Calm, CalmStep, NEW a \in Assessments, NEW w \in Workers, On(w, a),
         EscalationStarts(w), answer[w] = "none"
  PROVE  Awaits(a)'
<1>1. EngineInv /\ [Next]_vars /\ WorkerTypes
  BY PartsLemma DEF Sound, CalmStep
<1>2. PICK s : /\ s = state[w] /\ s.next = "human_escalation" /\ Replays(s, a)
               /\ pc[w] = "node" /\ pc[w] \in InRun
  BY DEF EscalationStarts, At, Sound, ReplayInv, Working, On, InRun
<1>3. /\ pc'[w] = "interrupt" /\ job'[w] = job[w] /\ answer'[w] = "none"
      /\ audit_events' = audit_events
  BY <1>1 DEF EscalationStarts, WorkerTypes, ledger
<1>4. Case(w)' = a /\ run_queue[job[w]].kind \in {"start", "resume"}
  BY <1>1, <1>2, <1>3, JobKept DEF On
<1>5. run_queue[job[w]].kind # "resume"
  BY <1>2 DEF Calm, ResumeRun
<1>6. s.event_seq = Rows(a)
  BY <1>2, <1>4, <1>5 DEF Calm, StartRun, On
<1>7. Audit!Expected(Trail(a)) = "human_escalation"
  BY <1>1, <1>2, <1>6, PastSupervisor, RowsLemma
<1>8. Trail(a)' = Trail(a)
  BY <1>3 DEF Trail, Recorded
<1> QED
  BY <1>3, <1>4, <1>7, <1>8 DEF Awaits, On, AtInterrupt

\* A worker that is at interrupt() without an answer pauses or raises.
LEMMA AtInterruptKinds ==
  ASSUME EngineInv, CalmStep, NEW w \in Workers, AtInterrupt(w)
  PROVE  Still(w) \/ EscalationPauses(w) \/ NodeRaises(w) \/ JobRaises(w)
<1>1. [Next]_vars
  BY DEF CalmStep
<1>2. ~ \/ InvokeStart(w) \/ InvokeResume(w) \/ ClaimOneJob(w) \/ Reclaim(w) \/ Crash(w)
        \/ MarkDone(w) \/ MarkJobFailed(w) \/ MarkCaseFailed(w)
        \/ SupervisorStarts(w) \/ SupervisorLogs(w)
        \/ data_engineer_node(w) \/ financial_analyst_node(w) \/ CriticPasses(w)
        \/ CriticRejects(w) \/ CriticOpensConflict(w) \/ CriticResolves(w)
        \/ EscalationStarts(w) \/ EscalationResumes(w) \/ EscalationLogs(w)
        \/ finalize_decision_node(w) \/ GraphEnds(w) \/ SeqTaken(w)
  BY DEF AtInterrupt, CalmStep, InvokeStart, InvokeResume, ClaimOneJob, MarkDone,
         MarkJobFailed, MarkCaseFailed, SupervisorStarts, SupervisorLogs,
         data_engineer_node, financial_analyst_node, CriticPasses, CriticRejects,
         CriticOpensConflict, CriticResolves, EscalationStarts, EscalationResumes,
         EscalationLogs, finalize_decision_node, GraphEnds, SeqTaken, AtInsert, At
<1> QED
  BY <1>1, <1>2, OwnStep DEF WorkerStep, RunStep

\* A case that waits for a reviewer waits on, until a run that has the answer
\* takes it over or a failed one its status.
LEMMA AwaitsStep ==
  ASSUME Sound, Calm, CalmStep, NEW a \in Assessments, Awaits(a), Sent(a)
  PROVE  Owed(a)' \/ Awaits(a)'
<1>1. /\ EngineInv /\ ReplayInv /\ [Next]_vars /\ WorkerTypes /\ Walk(a)
      /\ \A w \in Workers : NumberedRun(w)
  BY PartsLemma DEF Sound, CalmStep, Calm
<1>2. PICK n \in Nat : n = Rows(a) /\ Recorded(a) = 1..n /\ Trail(a) = Prefix(a, n)
  BY <1>1, RowsLemma
<1>3. n # 0 /\ Audit!Expected(Prefix(a, n)) = "human_escalation"
  BY <1>2 DEF Sent, Awaits
<1>4. ASSUME NEW w \in Workers, Logging(w), On(w, a), pc[w] \in InRun, state[w].event_seq = n
      PROVE  Owed(a)'
  <2>1. PICK s : s = state[w] /\ Replays(s, a)
    BY <1>1, <1>4 DEF ReplayInv, Working, On
  <2>2. s.next = "human_escalation"
    BY <1>3, <1>4, <2>1 DEF Replays, Summary
  <2>3. Completes(w)
    BY <1>4, <2>1, <2>2 DEF Completes, CriticRejects, At
  <2>4. pc'[w] = "node" /\ job'[w] = job[w] /\ state'[w].next = "finalize_decision"
    BY <1>1, <1>4, <2>1, <2>2, <2>3, Completed DEF ReplayInv, On
  <2>5. On(w, a)' /\ Owes(w)'
    BY <1>1, <1>4, <2>4, JobKept DEF On, Owes
  <2> QED
    BY <2>5 DEF Owed
<1>5. CASE audit_events'[a] = audit_events[a]
  <2>1. Trail(a)' = Trail(a)
    BY <1>5 DEF Trail, Recorded
  <2>2. CASE checkpoints[a].next = "human_escalation"
    <3>1. PICK c : c = checkpoints[a] /\ c.next = "human_escalation"
      BY <2>2
    <3>2. /\ Num(checkpoints[a], created[a]) /\ c.event_seq \in Recorded(a)
          /\ Audit!Expected(Prefix(a, c.event_seq)) = "human_escalation"
      BY <3>1, NumberedCheckpoint
    <3>3. c.event_seq = Rows(a)
      BY <1>1, <3>2, AfterHuman DEF Awaits
    <3>4. checkpoints'[a] = c
      BY <1>1, <3>1, <3>2, <3>3, LastCheckpointStays
    <3> QED
      BY <2>1, <3>1, <3>4 DEF Awaits
  <2>3. ASSUME NEW w \in Workers, On(w, a), AtInterrupt(w)
        PROVE  Owed(a)' \/ Awaits(a)'
    <3>1. CASE Still(w)
      <4>1. On(w, a)' /\ AtInterrupt(w)'
        BY <1>1, <2>3, <3>1, JobKept DEF Still, On, AtInterrupt
      <4> QED
        BY <2>1, <4>1 DEF Awaits
    <3>2. CASE NodeRaises(w) \/ JobRaises(w)
      <4>1. pc'[w] = "failed" /\ job'[w] = job[w]
        BY <1>1, <3>2 DEF NodeRaises, JobRaises, EndRun, WorkerTypes
      <4>2. On(w, a)' /\ Owes(w)'
        BY <1>1, <2>3, <4>1, JobKept DEF On, Owes
      <4> QED
        BY <4>2 DEF Owed
    <3>3. CASE EscalationPauses(w)
      <4>1. pc[w] \in InRun /\ checkpoints' = Saved(w)
        BY <2>3, <3>3 DEF EscalationPauses, EndRun, InRun, InNode
      <4>2. PICK s : s = state[w] /\ Replays(s, a) /\ s.next = "human_escalation"
        BY <1>1, <2>3, <4>1 DEF ReplayInv, Working, On, AtInterrupt
      <4>3. /\ s.event_seq \in Recorded(a)
            /\ Audit!Expected(Prefix(a, s.event_seq)) = "human_escalation"
        BY <1>1, <4>2, PastSupervisor
      <4>4. s.event_seq = Rows(a)
        BY <1>1, <4>3, AfterHuman DEF Awaits
      <4>5. checkpoints'[a].next = "human_escalation"
        BY <2>3, <4>1, <4>2, <4>4, LastSave
      <4> QED
        BY <2>1, <4>5 DEF Awaits
    <3> QED
      BY <1>1, <2>3, <3>1, <3>2, <3>3, AtInterruptKinds
  <2> QED
    BY <2>2, <2>3 DEF Awaits
<1> QED
  BY <1>1, <1>2, <1>4, <1>5, RowsKinds

\* "escalated" is the status of a case that a run or a reviewer will go on with.
LEMMA EscalatedStep ==
  ASSUME Sound, Calm, CalmStep, NEW a \in Assessments,
         status[a] = "escalated" => Owed(a) \/ Awaits(a),
         status'[a] = "escalated"
  PROVE  Owed(a)' \/ Awaits(a)'
<1>1. EngineInv /\ ReplayInv /\ [Next]_vars
  BY DEF Sound, CalmStep
<1>2. CASE status[a] = "escalated"
  <2>1. CASE Owed(a)
    <3>1. ASSUME NEW w \in Workers, On(w, a), Rests(w) PROVE Awaits(a)'
      BY <1>1, <3>1, RestStatus, AwaitsBegins
    <3> QED
      BY <1>1, <2>1, <3>1, OwedStep
  <2>2. CASE Awaits(a)
    BY <1>2, <2>2, AwaitsStep DEF Calm, ResumesReached, Reached
  <2> QED
    BY <1>2, <2>1, <2>2
<1>3. CASE status[a] # "escalated"
  <2>1. PICK w \in Workers : On(w, a) /\ EscalationStarts(w)
    BY <1>1, <1>3, StatusKinds, StatusWritten DEF On
  <2> QED
    BY <1>1, <2>1, AwaitsBegins, StartsOwe
<1> QED
  BY <1>2, <1>3

\* A worker at the end of the graph has but to return, or raises instead.
LEMMA EndingKinds ==
  ASSUME EngineInv, CalmStep, NEW w \in Workers, At(w, "end")
  PROVE  Still(w) \/ GraphEnds(w) \/ JobRaises(w)
<1>1. [Next]_vars
  BY DEF CalmStep
<1>2. ~ \/ InvokeStart(w) \/ InvokeResume(w) \/ ClaimOneJob(w) \/ Reclaim(w) \/ Crash(w)
        \/ MarkDone(w) \/ MarkJobFailed(w) \/ MarkCaseFailed(w)
        \/ SupervisorStarts(w) \/ SupervisorLogs(w)
        \/ data_engineer_node(w) \/ financial_analyst_node(w) \/ CriticPasses(w)
        \/ CriticRejects(w) \/ CriticOpensConflict(w) \/ CriticResolves(w)
        \/ EscalationStarts(w) \/ EscalationPauses(w) \/ EscalationResumes(w)
        \/ EscalationLogs(w) \/ finalize_decision_node(w) \/ SeqTaken(w) \/ NodeRaises(w)
  BY DEF CalmStep, InvokeStart, InvokeResume, ClaimOneJob, MarkDone,
         MarkJobFailed, MarkCaseFailed, SupervisorStarts, SupervisorLogs,
         data_engineer_node, financial_analyst_node, CriticPasses, CriticRejects,
         CriticOpensConflict, CriticResolves, EscalationStarts, EscalationPauses,
         EscalationResumes, EscalationLogs, finalize_decision_node, SeqTaken, NodeRaises,
         AtInsert, At
<1> QED
  BY <1>1, <1>2, OwnStep DEF WorkerStep, RunStep

\* The end of the walk is not left, and its checkpoint not replaced; if it is lost,
\* the run that has lost it owes its case the status "failed".
LEMMA EndedStep ==
  ASSUME Sound, Calm, CalmStep, NEW a \in Assessments, Ended(a)
  PROVE  Owed(a)' \/ Ended(a)'
<1>1. /\ EngineInv /\ ReplayInv /\ [Next]_vars /\ WorkerTypes /\ Walk(a)
      /\ \A w \in Workers : NumberedRun(w)
  BY PartsLemma DEF Sound, CalmStep, Calm
<1>2. CASE checkpoints[a].next = "end"
  <2>1. PICK c : c = checkpoints[a] /\ c.next = "end"
    BY <1>2
  <2>2. /\ Num(checkpoints[a], created[a]) /\ c.event_seq \in Recorded(a)
        /\ Audit!Expected(Prefix(a, c.event_seq)) = "end"
    BY <2>1, NumberedCheckpoint
  <2>3. c.event_seq = Rows(a)
    BY <1>1, <2>2, EndIsLast
  <2>4. checkpoints'[a] = c
    BY <1>1, <2>1, <2>2, <2>3, LastCheckpointStays
  <2> QED
    BY <2>1, <2>4 DEF Ended
<1>3. ASSUME NEW w \in Workers, On(w, a), At(w, "end")
      PROVE  Owed(a)' \/ Ended(a)'
  <2>1. CASE Still(w)
    <3>1. On(w, a)' /\ At(w, "end")'
      BY <1>1, <1>3, <2>1, JobKept DEF Still, On, At
    <3> QED
      BY <3>1 DEF Ended
  <2>2. CASE GraphEnds(w)
    <3>1. pc[w] \in InRun /\ checkpoints' = Saved(w)
      BY <1>3, <2>2 DEF GraphEnds, EndRun, InRun, At
    <3>2. PICK s : s = state[w] /\ Replays(s, a) /\ s.next = "end"
      BY <1>1, <1>3, <3>1 DEF ReplayInv, Working, On, At
    <3>3. s.event_seq \in Recorded(a) /\ Audit!Expected(Prefix(a, s.event_seq)) = "end"
      BY <1>1, <3>2, PastSupervisor
    <3>4. s.event_seq = Rows(a)
      BY <1>1, <3>3, EndIsLast
    <3>5. checkpoints'[a].next = "end"
      BY <1>3, <3>1, <3>2, <3>4, LastSave
    <3> QED
      BY <3>5 DEF Ended
  <2>3. CASE JobRaises(w)
    <3>1. pc'[w] = "failed" /\ job'[w] = job[w]
      BY <1>1, <2>3 DEF JobRaises, WorkerTypes
    <3>2. On(w, a)' /\ Owes(w)'
      BY <1>1, <1>3, <3>1, JobKept DEF On, Owes
    <3> QED
      BY <3>2 DEF Owed
  <2> QED
    BY <1>1, <1>3, <2>1, <2>2, <2>3, EndingKinds
<1> QED
  BY <1>2, <1>3 DEF Ended

\* finalize_decision_node leaves its run at the end of the graph.
LEMMA FinalizeEnds ==
  ASSUME Sound, CalmStep, NEW a \in Assessments, NEW w \in Workers, On(w, a),
         finalize_decision_node(w)
  PROVE  Ended(a)'
<1>1. EngineInv /\ [Next]_vars /\ Working(w) /\ OpenInv(w)
  BY DEF Sound, CalmStep, ReplayInv
<1>2. Completes(w) /\ state[w].next = "finalize_decision"
  BY DEF Completes, Logging, finalize_decision_node, CriticRejects, At
<1>3. pc'[w] = "node" /\ job'[w] = job[w] /\ state'[w].next = "end"
  BY <1>1, <1>2, Completed DEF On
<1>4. On(w, a)' /\ At(w, "end")'
  BY <1>1, <1>3, JobKept DEF On, At
<1> QED
  BY <1>4 DEF Ended

\* "completed" is the status of a case whose walk is over, or of one that another
\* run has still to write the status of.
LEMMA CompletedStep ==
  ASSUME Sound, Calm, CalmStep, NEW a \in Assessments,
         status[a] = "completed" => Owed(a) \/ Ended(a),
         status'[a] = "completed"
  PROVE  Owed(a)' \/ Ended(a)'
<1>1. EngineInv /\ ReplayInv /\ [Next]_vars
  BY DEF Sound, CalmStep
<1>2. CASE status[a] = "completed"
  <2>1. CASE Owed(a)
    <3>1. ASSUME NEW w \in Workers, On(w, a), Rests(w) PROVE Ended(a)'
      BY <1>1, <3>1, RestStatus, FinalizeEnds
    <3> QED
      BY <1>1, <2>1, <3>1, OwedStep
  <2> QED
    BY <1>2, <2>1, EndedStep
<1>3. CASE status[a] # "completed"
  <2>1. PICK w \in Workers : On(w, a) /\ finalize_decision_node(w)
    BY <1>1, <1>3, StatusKinds, StatusWritten DEF On
  <2> QED
    BY <2>1, FinalizeEnds
<1> QED
  BY <1>2, <1>3

-----------------------------------------------------------------------------
(* The invariant.                                                           *)

CalmInv == crashes = 0 => Calm /\ \A a \in Assessments : StatusInv(a)

\* Nothing is queued, nothing runs, and no case has a status.
LEMMA InitCalmInv == Init => CalmInv
<1> SUFFICES ASSUME Init PROVE Calm /\ \A a \in Assessments : StatusInv(a)
  BY DEF CalmInv
<1>1. Jobs = {}
  BY DEF Init, Jobs
<1>2. ASSUME NEW a \in Assessments
      PROVE  Recorded(a) = {} /\ Rows(a) = 0 /\ created[a] = 0
             /\ checkpoints[a] = NoCheckpoint /\ status[a] = "none"
  BY <1>2, FS_EmptySet DEF Init, LedgerInit, CaseFileInit, Recorded, Rows
<1>3. ASSUME NEW w \in Workers PROVE pc[w] = "poll" /\ answer[w] = "none"
  BY <1>3 DEF Init
<1>4. \A q \in Requests : request[q].stage = "idle"
  BY DEF Init, NoRequest
<1>5. ClaimsHeld /\ ResumesReached
  BY <1>1, <1>2, <1>4 DEF ClaimsHeld, ResumesReached
<1>6. \A a \in Assessments : NumberedCase(a) /\ StartsOnce(a) /\ Unstarted(a) /\ StatusInv(a)
  BY <1>1, <1>2 DEF NumberedCase, StartsOnce, Starts, Unstarted, StatusInv
<1>7. \A w \in Workers : NumberedRun(w) /\ AnswerHeld(w) /\ StartRun(w) /\ ResumeRun(w)
  BY <1>3 DEF NumberedRun, Open, AnswerHeld, StartRun, ResumeRun, InRun, InNode
<1> QED
  BY <1>5, <1>6, <1>7 DEF Calm

\* As long as no run is slow and none has crashed, every step of the service
\* keeps it.
LEMMA StepCalmInv ==
  ASSUME ~SlowRuns, Sound, CalmInv, [Next]_vars
  PROVE  CalmInv'
<1> SUFFICES ASSUME crashes' = 0
             PROVE  Calm' /\ \A a \in Assessments : StatusInv(a)'
  BY DEF CalmInv
<1>1. crashes = 0 /\ \A w \in Workers : ~Crash(w)
  BY CrashesCount DEF Sound
<1>2. Calm /\ \A a \in Assessments : StatusInv(a)
  BY <1>1 DEF CalmInv
<1>3. CalmStep
  BY <1>1, <1>2, NothingAges DEF CalmStep, Calm
<1>4. EngineInv /\ ReplayInv /\ RunnerInv
  BY DEF Sound
<1>5. ClaimsHeld' /\ ResumesReached'
  BY <1>2, <1>3, <1>4, ClaimsStep, ResumesReachedStep DEF Calm
<1>6. \A a \in Assessments : NumberedCase(a)' /\ StartsOnce(a)' /\ Unstarted(a)'
  BY <1>2, <1>3, NumberedCaseStep, StartsOnceStep, UnstartedStep
<1>7. \A w \in Workers : NumberedRun(w)' /\ AnswerHeld(w)' /\ StartRun(w)' /\ ResumeRun(w)'
  BY <1>2, <1>3, <1>4, NumberedRunStep, AnswerHeldStep, StartRunStep, ResumeRunStep DEF Calm
<1>8. ASSUME NEW a \in Assessments PROVE StatusInv(a)'
  <2>1. StatusInv(a)
    BY <1>2
  <2> QED
    BY <1>2, <1>3, <1>4, <2>1, PendingStep, InProgressStep, EscalatedStep, CompletedStep
    DEF StatusInv
<1> QED
  BY <1>5, <1>6, <1>7, <1>8 DEF Calm

\* Provided every run is faster than run_queue_stale_after_seconds, in every
\* state before the first crash: each claim has its worker, each case under way a
\* run that owes it a status, and the checkpoints of a case are numbered as its
\* rows are.
THEOREM CalmInvariant == ~SlowRuns /\ Spec => []CalmInv
<1> SUFFICES ASSUME ~SlowRuns PROVE Spec => []CalmInv
  OBVIOUS
<1>1. Sound /\ CalmInv /\ [Next]_vars => CalmInv'
  BY StepCalmInv
<1>2. EngineInv /\ ReplayInv /\ RunnerInv /\ (\A a \in Assessments : Walk(a)) => Sound
  BY DEF Sound
<1> QED
  BY <1>1, <1>2, InitCalmInv, EngineInvariant, ReplayInvariant, RunnerInvariant, LedgerWalks,
     PTL DEF Spec

\* Of a case at rest nobody has a status still to write.
LEMMA QuietStatus ==
  ASSUME Sound, Calm, NEW a \in Assessments, StatusInv(a), Quiet(a)
  PROVE  /\ status[a] \notin {"pending", "in_progress"}
         /\ status[a] = "escalated" => /\ checkpoints[a].next = "human_escalation"
                                       /\ Audit!Expected(Trail(a)) = "human_escalation"
         /\ status[a] = "completed" => checkpoints[a].next = "end"
<1>1. \A w \in Workers : ~On(w, a)
  BY CaseLemma DEF Quiet, On, Sound, EngineInv, TypeOK, RunQueueTypeOK, Jobs
<1>2. ~Owed(a) /\ ~Due(a)
  BY <1>1 DEF Owed, Due, Quiet, Starts
<1> QED
  BY <1>1, <1>2 DEF StatusInv, Awaits, Ended

\* As long as no worker has crashed and no run is slow, a case for which nothing
\* is queued or running shows a status its caller can act on: not "pending" or
\* "in_progress"; and an escalated one waits in interrupt(), a completed one is at
\* its end.
THEOREM QuietCasesAreSettled == ~SlowRuns /\ Spec => []QuietCaseIsSettled
<1>1. Sound /\ CalmInv => QuietCaseIsSettled
  BY QuietStatus DEF CalmInv, QuietCaseIsSettled
<1>2. EngineInv /\ ReplayInv /\ RunnerInv /\ (\A a \in Assessments : Walk(a)) => Sound
  BY DEF Sound
<1> QED
  BY <1>1, <1>2, EngineInvariant, ReplayInvariant, RunnerInvariant, LedgerWalks, CalmInvariant, PTL

\* The checkpoint of a case that waits for a reviewer, or has been completed, is of
\* its last row, and nobody makes a checkpoint of a rejection that is not indexed.
LEMMA LastCheckpointIndexes ==
  ASSUME Sound, Calm, NEW a \in Assessments,
         \/ checkpoints[a].next = "end"
         \/ /\ checkpoints[a].next = "human_escalation"
            /\ Audit!Expected(Trail(a)) = "human_escalation"
  PROVE  \A k \in Recorded(a) : Rejected(a, k) => Indexed(a, k)
<1>1. PICK c : c = checkpoints[a] /\ Replays(c, a)
  BY DEF Sound, ReplayInv
<1>2. /\ c.event_seq \in Recorded(a)
      /\ c.next = Audit!Expected(Prefix(a, c.event_seq))
  BY <1>1, NumberedCheckpoint
<1>3. EngineInv /\ Walk(a)
  BY DEF Sound
<1>4. c.event_seq = Rows(a)
  <2>1. CASE c.next = "end"
    BY <1>2, <1>3, <2>1, EndIsLast
  <2>2. CASE c.next = "human_escalation" /\ Audit!Expected(Trail(a)) = "human_escalation"
    BY <1>2, <1>3, <2>2, AfterHuman
  <2> QED
    BY <1>1, <2>1, <2>2
<1>5. Recorded(a) = 1..Rows(a)
  BY <1>3, RowsLemma
<1> QED
  BY <1>1, <1>4, <1>5 DEF Replays

\* As long as no worker has crashed and no run is slow, a case at rest with a
\* rejection that the conflicts table lacks, or has as pending, is shown as failed:
\* the three statements of a rejection may be cut short by an error, but not
\* without a trace.
THEOREM UnindexedDisputesFail == ~SlowRuns /\ Spec => []UnindexedDisputeFailsCase
<1>1. Sound /\ CalmInv => UnindexedDisputeFailsCase
  <2> SUFFICES ASSUME Sound, CalmInv, crashes = 0, NEW a \in Assessments, Quiet(a),
                      NEW k \in Disputes(a), ~Indexed(a, k)
               PROVE  status[a] = "failed"
    BY DEF UnindexedDisputeFailsCase
  <2>1. Calm /\ StatusInv(a)
    BY DEF CalmInv
  <2>2. k \in Recorded(a) /\ Rejected(a, k)
    BY DEF Disputes, Rejected, Row
  <2>3. status[a] \notin {"escalated", "completed"}
    BY <2>1, <2>2, QuietStatus, LastCheckpointIndexes
  <2>4. status[a] # "none"
    <3>1. status[a] = "none" => Recorded(a) = {}
      BY <2>1 DEF Calm, Unstarted, NumberedCase
    <3> QED
      BY <2>2, <3>1
  <2>5. status[a] \in Statuses \cup {"none"}
    BY DEF Sound, EngineInv, TypeOK, CaseFileTypeOK
  <2> QED
    BY <2>1, <2>3, <2>4, <2>5, QuietStatus DEF Statuses
<1>2. EngineInv /\ ReplayInv /\ RunnerInv /\ (\A a \in Assessments : Walk(a)) => Sound
  BY DEF Sound
<1> QED
  BY <1>1, <1>2, EngineInvariant, ReplayInvariant, RunnerInvariant, LedgerWalks, CalmInvariant, PTL
=============================================================================
