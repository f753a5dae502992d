------------------------------ MODULE RunQueue ------------------------------
(***************************************************************************)
(* The run_queue table of app/db/schema.sql and the statements that touch  *)
(* it: the API's inserts, the worker's claim (UPDATE ... FOR UPDATE SKIP   *)
(* LOCKED), its closing updates, and reclaim_stale_run_queue_jobs.  A row's *)
(* index is its place in created_at order.  Rows are never deleted.        *)
(***************************************************************************)
EXTENDS CaseFile, Sequences

VARIABLE run_queue

JobStatuses == {"queued", "claimed", "done", "failed"}

\* payload is the reviewer's answer of a resume job, "none" for a start job
\* (whose payload, the initial state, is the same for all).  stale stands for
\* claimed_at < now() - run_queue_stale_after_seconds.
Job == [assessment : Assessments,
        kind       : {"start", "resume"},
        payload    : {"none", "approve", "reject"},
        status     : JobStatuses,
        stale      : BOOLEAN]

Jobs == DOMAIN run_queue

RunQueueTypeOK == run_queue \in Seq(Job)

Enqueue(assessment, kind, payload) ==
  run_queue' = Append(run_queue, [assessment |-> assessment, kind |-> kind,
                                  payload |-> payload, status |-> "queued",
                                  stale |-> FALSE])

\* A mutated claim that forgets the condition on status: a job another worker
\* has claimed is taken again.
ClaimIgnoringStatus(j) ==
  /\ run_queue[j].status \in {"queued", "claimed"}
  /\ run_queue' = [run_queue EXCEPT ![j].status = "claimed", ![j].stale = FALSE]

\* _claim_one_job: the oldest queued row, locked and claimed in one statement.
Claim(j) ==
  /\ run_queue[j].status = "queued"
  /\ \A i \in Jobs : run_queue[i].status = "queued" => j <= i
  /\ run_queue' = [run_queue EXCEPT ![j].status = "claimed", ![j].stale = FALSE]

\* run_once's closing updates go by id alone: whoever holds the row by now.
Settle(j, outcome) == run_queue' = [run_queue EXCEPT ![j].status = outcome]

\* run_queue_stale_after_seconds have passed since the claim.
ClaimAges(j) ==
  /\ run_queue[j].status = "claimed" /\ ~run_queue[j].stale
  /\ run_queue' = [run_queue EXCEPT ![j].stale = TRUE]

\* A mutated reclaim: the claim is cleared but the row is not queued again.
ReclaimToFailed ==
  /\ \E j \in Jobs : run_queue[j].status = "claimed" /\ run_queue[j].stale
  /\ run_queue' = [j \in Jobs |-> [run_queue[j] EXCEPT !.stale = FALSE]]

\* reclaim_stale_run_queue_jobs: one UPDATE for all of them.
ReclaimStale ==
  /\ \E j \in Jobs : run_queue[j].status = "claimed" /\ run_queue[j].stale
  /\ run_queue' = [j \in Jobs |->
       IF run_queue[j].status = "claimed" /\ run_queue[j].stale
       THEN [run_queue[j] EXCEPT !.status = "queued", !.stale = FALSE]
       ELSE run_queue[j]]
=============================================================================
