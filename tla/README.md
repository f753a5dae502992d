# Verification of the multi-agent decision engine

TLA+ models, model-checking runs and machine-checked proofs for the service in `app/`:
an HTTP API that accepts assessments of a company's disclosures, a Postgres queue,
worker replicas that drive each case through a LangGraph graph of agents, and an
append-only audit ledger.

Contents: the system (1), the modules and their correspondence to the code (2), the runs,
their bounds and fairness (3), what the runs found (4), the proofs (5), what is not
modelled (6), the plan (7).

## 1. The system

### Components, state, operations

| Component | Code | State it keeps | Operations that change state |
|---|---|---|---|
| HTTP API | `api/routes.py` | none of its own | `create_assessment` (case and start job, one transaction); `resume_assessment` (reads the status, then inserts a resume job in a second statement); GET reads status, decision and pending review one after the other, GET trace the ledger |
| Case file | `assessments`, `db/ledger.py` | `status` per case | `create_assessment`, `update_assessment_status` |
| Run queue | `run_queue`, `reclaim_stale_run_queue_jobs` in `db/schema.sql` | jobs: queued, claimed, done, failed; `claimed_at` | insert, claim (`FOR UPDATE SKIP LOCKED`), close, reclaim |
| Worker loop | `worker.py` | the job it holds, a running graph | reclaim, claim, `graph.ainvoke`, mark done, mark failed |
| Agent graph | `agents/graph.py`, `agents/nodes.py` | `AssessmentState` (merged after every node) | six nodes, one router |
| Checkpointer | LangGraph, `db/pool.py` | checkpoints per thread | written after each node, read at each invocation |
| Audit ledger | `db/ledger.py`, triggers in `db/schema.sql` | `audit_events`, `conflicts`, `decisions` | `record_event`, `record_conflict`, `resolve_conflict`, `record_decision` |
| Warehouse tool | `tools/data_warehouse.py` | none (reads another database) | none |
| Formulas | `tools/formulas.py` | none | none |
| Authentication, schemas | `api/auth.py`, `api/schemas.py` | a constant key table | none |
| Pools, start-up, migrations | `db/pool.py`, `main.py`, `db/migrate.py` | connections | none on the case data |

### How they interact

`POST /assessments` commits the case and a `start` job together. A worker claims the oldest
queued job and invokes the graph with the initial state the job carries. The nodes run in
the order supervisor, Data Engineer, Financial Analyst, Risk/Critic; the router sends a
rejection back to the Data Engineer `max_conflict_retries` times, anything it may not retry
to the human escalation, and an approval to Finalize. The human node writes status
`escalated` and calls `interrupt()`, which ends the invocation; the job is done, the case
waits. `POST /resume` inserts a `resume` job; the worker that claims it invokes the graph
with `Command(resume=...)`, which re-runs the waiting node from its top with the answer.
Every node writes its ledger row through `_log` with the number `event_seq + 1`, where
`event_seq` comes from the checkpointed state and not from the table; the table's UNIQUE
constraint on (assessment, seq) is the only guard against two runs of one case, and the
trigger that chains the hashes reads the last row of the table. An exception anywhere in
`ainvoke`, or in the update that marks the job done, makes `run_once` mark the job failed
and then, in a second commit, the case failed.

### What is hard here

* Two invocations of one case may be alive at once: two accepted resume calls, or a job
  reclaimed while its first worker is still busy. Both carry their own copy of `event_seq`.
* Most nodes commit several statements one by one. A crash, or another worker, can come
  between any two of them, and between a node's last commit and its checkpoint.
* A reclaimed start job starts the graph over; a reclaimed resume job continues it.
* The escalation node runs twice by design, and its first statement overwrites the status.
* The retry loop has three separate comparisons against `max_conflict_retries` (router,
  conflict resolution, recursion limit), which must agree.
* The Data Engineer and the Financial Analyst each replace a part of the state; on a retry
  a part computed from older data must not survive.
* A score's level is fixed before the score is rounded, twice; the gates test words and a
  reader sees numbers. Some divisions by zero give infinity, which compares like a number.
* A client's GET is two or three reads without a snapshot, of two stores.

### What makes it correct

* Ledger: the rows of a case, by number, are one legal walk through the graph, chained
  without a gap, only ever extended; decision, conflicts table and checkpoints agree with it.
* Graph: no case is cleared against the policy gates; each dispute ends retried or with a
  human, as its row says; scores belong to the data on file; every run comes to rest.
* Queue: one worker per job, and every job is closed in the end.
* Case file: the status a caller polls is true of the case once nothing is running.
* Scores: a published number, the level beside it and the review it called for agree; no
  level rests on a ratio that does not exist; worse figures earn no credit.
* Reader: a completed case is shown with its decision, a shown decision is final and the
  trace accounts for it, a shown review is not bypassed, answers come from reviewers.

## 2. Modules

| Module | Models | Uses |
|---|---|---|
| `Workflow` | wiring of the graph, router, limits (constant level) | |
| `DecisionGraph` | one run of the graph: node bodies, policy gates, data, human answer | `Workflow` |
| `CaseFile` | the `assessments` table | `Workflow` |
| `RunQueue` | the `run_queue` table and its statements | `CaseFile` |
| `Ledger` | `audit_events`, `conflicts`, `decisions` with their constraints | `CaseFile` |
| `Engine` | API, workers, checkpointer and nodes as sequences of committed statements | `RunQueue`, `Ledger`, `AuditTrail` |
| `AuditTrail` | abstract: what the ledger promises an auditor | |
| `Scoring` | the formulas and their results' way to the published row | |
| `Reader` | API keys, the stored interrupt, a polling client | `Engine` |
| `MCDecisionGraph`, `MCEngine`, `MCScoring`, `MCReader` | the instances model-checked | |
| `DecisionGraphProofs`, `ScoringProofs` | theorems and proofs about one run and its figures | |
| `EngineProofs`, `LedgerProofs`, `SettlingProofs` | theorems and proofs about `Engine`: types, chain, queue; what the ledger says; where cases come to rest | |
| `ReaderProofs`, `ReviewProofs` | theorems and proofs about `Reader`: what is shown; the human in the loop | |

The system is cut in three. `DecisionGraph` has the data and takes one action per node;
`Engine` has the processes and takes one action per committed statement; `Scoring` has the
numbers, in one round of analyst, critic and Finalize. The first two share the
router, the wiring and the verdict rules through `Workflow`. What `DecisionGraph` shows about
verdicts and data needs no interleaving, since a run's graph state is private to it; what
`Engine` shows about tables and processes must hold whatever the agents compute, so its
critic may reach any verdict and any node may raise. `DecisionGraph` lets a score fall in any
band, so what it shows holds of the bands `Scoring` computes.

### DecisionGraph

Variables are the keys of `AssessmentState` the control or a property depends on, with the
case's status, conflicts and decisions. Each node function is the action of its name and
includes the merge of its return value, the event it logs and the edge taken:

* `data_engineer_node`: the plan is any set of years, to which the code adds the target year
  and the one before it; `get_financial_statements` returns any subset (rows may be missing,
  and the content may change between two rounds), `get_esg_disclosures` a row or none.
  `Validated` is the check in `run_query`; `FetchPlanRefused` is the validation of
  `FinancialStatementsQueryParams`, reached when the union exceeds five years.
* `financial_analyst_node`: which scores exist follows from what was asked and what was found;
  which band a score falls in is free. `FormulaRaises` stands for the arithmetic and
  encoding exceptions.
* `risk_critic_node`: the completeness gate, then the two mandatory escalations, and only then
  the language model, whose verdict is free.
* `human_escalation_node` pauses; `ReviewerAnswers` is the second pass through it.
* `finalize_decision_node`, and `DecisionRowRefused` for a score its column cannot hold.
* `ProviderOutage`: the language model's call raises. Any exception ends in `RunFails`, the
  effect of `run_once`'s handler when no other run interferes.

### Engine

| State in the model | In the code |
|---|---|
| `run_queue[j]` | row j in `created_at` order; `stale` is `claimed_at < now() - run_queue_stale_after_seconds` |
| `audit_events[a][k]` | row with seq k; `prev` names the row whose hash its `prev_hash` repeats, `event_type` is the type its node passes to `_log` (`EventTypeOf`) |
| `conflicts[a]` | rows of the conflicts table; `event` is the seq of the row `audit_event_id` refers to |
| `checkpoints[a]` | the thread's latest stored checkpoint; `id` orders checkpoints as LangGraph's time-ordered ids do |
| `pc`, `job`, `state`, `answer` | a worker's place in `run_once` and in the node it runs, its claimed row, its graph state, the value `interrupt()` would return |
| `request` | a resume handler between its status check and its insert |

A node with one transaction, or one statement, is one action (`data_engineer_node`,
`financial_analyst_node`, `CriticPasses`, `finalize_decision_node`). The others are split at
each commit: `SupervisorStarts`/`SupervisorLogs`,
`CriticRejects`/`CriticOpensConflict`/`CriticResolves`,
`EscalationStarts`/`EscalationPauses` or `EscalationResumes`/`EscalationLogs`. `SeqTaken` is
the UNIQUE violation, `NodeRaises` any other exception. `run_once` is `ClaimOneJob`,
`InvokeStart` or `InvokeResume`, the nodes, then `MarkDone`, or `MarkJobFailed` and
`MarkCaseFailed`. A run that raises in a node (`NodeRaises`, `SeqTaken`) still has its last
checkpoint written. `JobRaises` is the exception that comes from elsewhere: the checkpointer
cannot read or write, wherever the run is, and saves no more of it; or the closing update
fails inside the `try`. `Crash` may come wherever a worker holds a job.

LangGraph is not in the repository and is modelled from how the code uses it: a node's update
becomes a new checkpoint that is written in the background (`Persist`) and is surely written
when the invocation ends, unless that write is what fails; `ainvoke` with an input restarts at
the entry point and overwrites only the channels that input has; `ainvoke` with a resume
command continues at the latest checkpoint's next node, returns at once on a finished thread,
and raises on a thread without checkpoint. Its stored writes of a single interrupted task, by
which an answer given to an earlier, failed resume could be used again, are left out.

### AuditTrail

The abstract specification: per case a sequence of (node, outcome), extended by one row at a
time, each the one the walk so far calls for. It states the routing rule from the
rejections in the trail itself, not from a counter in some state, so the refinement
`Audit!Spec` checks the router, the counter and the numbering of rows together. The refinement
mapping (`Trail`) reads the rows of `audit_events` in seq order.

### Scoring

Numbers are fixed point. Indices, ratios and scores of a rubric line are integers in
hundredths; coefficients have at most three decimals, so a weighted sum is exact, in 10^-5
(M, Z) or 10^-3 (composite). The code adds floats: `Computed` puts the sum a tenth of that
unit below, on, or above the exact value, a nondeterministic choice that matters only on a
boundary. `Nearest` leaves both neighbours open at a half, since the binary number may be on
either side. A score may also be infinite or NaN (`Score`), and `Exceeds` compares as Python
does.

* `financial_analyst_node` takes level and rounded score from the formulas (`FraudResults`,
  `DistressResults`, `EsgResults`); `FormulaRaises` is a row the input models refuse or one of
  the unguarded divisions by zero; `LogRefused` is a result without a JSON form, whose insert
  Postgres refuses.
* `risk_critic_node` applies the two gates to the levels; otherwise the verdict is free.
* `finalize_decision_node` rounds again, to the decimals of the column; `DecisionRowRefused`
  is a score with too many digits for it.

A state has all the data its request needs and goes through one round: later rounds replace
the analysis (`AnalysisMatchesEvidence` in `DecisionGraph`). Ratios are given, not computed
from statements, so every combination is covered, including those no balance sheet gives.

### Reader

`Engine` with three additions. A call needs a key with its scope (`Authorised`), and an
accepted resume remembers whose it was. A run that pauses stores its interrupt beside the
checkpoint (`StoreInterrupt` while it runs, `InterruptKept` when it returns), and
`aget_state` shows it while that checkpoint is the latest. One client polls: `GetFirstRow`,
`GetSecondRow` and `GetReview` are the reads of `get_assessment` in its order, at any moments
of the worker's progress; `GetTrace` is the single SELECT of the trace. A refused call
changes nothing and is no step.

## 3. Runs

### Bounds

* `MaxConflictRetries` is 2 in `graph` (the repository's default) and 0 or 1 elsewhere: 1
  already has a retried round, an exhausted one and the escalation after it.
* Years 3 to 8 around target year 6: later and earlier years than the target, and plans of
  five years (accepted) and six (refused). `MaxFiscalYears` is the code's 5.
* One case. Cases share no row but the order of the queue, which decides when a job runs and
  not what it does; a job of another case would only delay.
* Two workers and two resume calls (but see `reader`): the least that gives two runs of one
  case, concurrent or one after the other. Workers and calls are symmetric in `engine`.
* `MaxCrashes` is 1 in `engine`, 2 in `engine_jobs`. It bounds crashes in the guard of
  `Crash`. `SlowRuns` says whether a live run can outlast the staleness limit, `NodeFaults`
  whether nodes raise; runs that show a defect switch off everything the defect does not need.

* `scoring`: index vectors whose M-score lies on -2.5, -1.78, -1.0 or 999.99, and within half a
  unit of either rounding of them, found by search among plausible ratios; the same for 2.6,
  1.1 and 999.999 of the Z-score, crossed with each other; every set of infinite indices and
  each other flaw; a grid of 7,000 disclosures through every segment, knee and clamp of the
  rubric.
* `reader`: one worker, one crash, one resume call, no retry (a rejection still opens a
  round and escalates), node faults: one crash already has a job delivered twice and a
  finished case taken up again. A second runner or a second answer is `engine`'s question,
  and the reader's reads see only tables. `Keys` holds a caller, a reviewer and an
  unregistered key.

`Engine`, `Reader` and `Scoring` runs disable the deadlock check: a service with no callers
left has nothing to do, and a scored case is at its end. `DecisionGraph` states its rest
explicitly (`Terminating`), so its deadlock check is on.

### Fairness

`DecisionGraph`: `WF(RunStep)`. The worker awaits the graph it invoked until it returns or
raises. The reviewer's answer is not fair. `Engine` (`FairSpec`): weak fairness of each
worker's steps, because `run_worker_loop` polls for ever and a crashed process is replaced,
and of the passing of time over a claim. Nothing obliges callers, reviewers or a background
checkpoint write. A worker never waits for another (`SKIP LOCKED`), so weak fairness
suffices.

### What each run shows

| Run | Config | Result |
|---|---|---|
| `graph` | `DecisionGraph.cfg` | holds: `NoUnilateralClearance`, `ConflictsAreSettled`, `AnalysisMatchesEvidence`, `WithinRecursionLimit`, and `RunSettles` (liveness), with every fault |
| `graph_outage` | `DecisionGraphOutage.cfg` | `OnlyNarrativeDegrades` violated, finding 1 |
| `graph_years` | `DecisionGraphYears.cfg` | `FraudScoreIsAboutTargetYear` violated, finding 2 |
| `engine` | `EngineSafety.cfg` | holds, with two concurrent resumes, a crash and faults: the refinement `LedgerIsLegalWalk`; `ChainUnbroken`, `CheckpointsReplayLedger`, `DecisionMatchesLedger`, `ConflictsIndexRejections`, `CompletedHasDecision`, `JobHasOneRunner`, `QuietCaseIsSettled`, `UnindexedDisputeFailsCase` |
| `engine_jobs` | `EngineLiveness.cfg` | holds: `JobsSettle` (liveness), two crashes anywhere |
| `engine_crash` | `EngineCrash.cfg` | `CrashIsRecovered` violated, finding 3 |
| `engine_slow_run` | `EngineSlowRun.cfg` | `JobHasOneRunner` violated, finding 4 |
| `engine_duplicate_resume` | `EngineDuplicateResume.cfg` | `DecisionImpliesCompleted` violated, finding 5 |
| `engine_stuck_case` | `EngineStuckCase.cfg` | `NoSilentlyStuckCase` violated, finding 6 |
| `engine_conflict_event` | `EngineConflictEvent.cfg` | `ConflictHasItsEvent` violated, finding 7 |
| `scoring` | `Scoring.cfg` | holds: `NoLevelFromUndefinedRatio`, `PublishedAlarmWasReviewed`, `LevelsTellPublishedScores`, `NoCreditForWorseFigures`, `EveryDisclosureIsRated` |
| `reader` | `Reader.cfg` | holds: `CompletedShowsDecision`, `ShownDecisionIsFinal`, `TraceExplainsDecision`, `ShownReviewIsHonoured`, `WaitingCaseShowsReview`, `AnswersComeFromReviewers` |

The passing engine run shows where the design is strong: whatever runs twice, the ledger, the
decision and the checkpoints stay consistent, because the number of a row comes from the
state and the table refuses a second row of that number. What the failing runs show is the
price: the run refused that way is reported as a failure of the case.

A rejection is three commits: its event, its row in the conflicts table, the row's
resolution. Run `engine` says what the table is worth. What it holds is right
(`ConflictsIndexRejections`: each row refers to a rejection of its round, no two rows to the
same). What it lacks, or has as pending, is the last event of its case, which goes no
further; and unless a worker has crashed, that case is shown as failed once it is at rest
(`UnindexedDisputeFailsCase`), so the gaps can be found by status. But they are there, and
nothing fills them (section 4).

Run `scoring` shows that two safeguards carry more than they say. Without liabilities the
Z-score is infinite and its zone "safe", and with an infinite leverage index the M-score is
minus infinity, or not a number, and falls through to "low"; only the JSON column, which has no
form for such numbers, keeps the levels from the critic. And the thresholds survive two
roundings only because each is a multiple of the column's last digit. Run `reader` shows that
GET needs its order of reads: with the decision read first, a client is told "completed" and
shown none.

Every property of a passing run is paired in `PROJECT.json` with a small mutation of the
modelled code (kept as an operator before the definition it mutates) under which TLC finds
it violated.

## 4. Where the code and its comments differ

1. A provider failure during the Financial Analyst's narrative fails the whole case; the
   comment in `financial_analyst_node` says only the narrative degrades.
2. The Beneish score compares the two most recent rows found. With a row missing, or a later
   year in the plan, these are not the target year and the year before.
3. A worker crash during a start job, after the supervisor's event, fails the case on
   recovery: the graph starts over at number 1, which is taken. `worker.py` says the run
   resumes from its last checkpoint. (A crash in a resume job is recovered if the checkpoint
   of the last completed node had been written.)
4. Nothing renews a claim, so a run longer than the staleness limit gets a second runner.
5. Two resume calls accepted for one escalation can leave the case `failed` with its decision
   published.
6. A crash between the two updates of the failure handler leaves a case in progress for ever.
7. `schema.sql` says that each conflicts row has a matching `event_type = 'conflict'` row in
   `audit_events`. The critic logs a rejection as `agent_call`, like an approval, and the
   conflicts row refers to that; no code writes an event of type `conflict`.

Outside the runs, since one step shows the difference, or since they are no property of the
behaviour modelled:

* `ledger.py` says that the supervisor's status update and event are one transaction. They
  are two commits: `SupervisorStarts`, `SupervisorLogs`.
* `schema.sql` calls the conflicts table a view of every disagreement. A failure, or a crash,
  after the event of a rejection and before its conflicts row leaves one out for good
  (`UnindexedDisputeFailsCase` says what is left as a trace of it).
* `settings.max_supervisor_steps` is described as a hard ceiling and is read nowhere. The
  bound that exists is the recursion limit, and `WithinRecursionLimit` shows that it is never
  reached.
* `formulas.py` says of `FORMULA_REGISTRY` that it is "the ONLY surface agents call through";
  the analyst calls the three functions directly.
* The comment above `human_escalation_node` says that code before `interrupt()` "must be
  side-effect-free"; the status is written there, as the comment inside the function admits.
* `schema.sql` annotates `fraud_risk_score` with "0-100"; it holds an M-score, usually
  negative.

## 5. Proofs

TLAPS proves the following for every value of the constants, under the constants'
assumptions (`RetriesAssumption`: the retry limit is a natural number; `YearsAssumption`:
years are integers; `EngineAssumption`: the switches are Boolean, the crash bound is natural,
"none" is not a case; `ScopesAssumption`: the registry maps keys to scopes, and "none" is not
a key).

`DecisionGraphProofs`, from the inductive invariant
`GraphInv == TypeOK /\ LoopInv /\ CountInv /\ VerdictInv`:

* `TypeCorrect`, `UnilateralClearance`, `ConflictAccounting`, `EvidenceIsCurrent`,
  `RecursionLimitSuffices`: the five invariants of run `graph`.
* `ConflictsAreSettled` is not inductive: it does not say what the resolutions are while the
  loop runs, nor that the loop cannot be past its limit. `LoopInv` adds that every row carries
  the resolution its round calls for, that the round never exceeds the limit by more than
  one, and that a rejected run is in the loop exactly while its round is within it.
  `CountInv` ties the event number to the position and the round (three events per round);
  the recursion limit follows by arithmetic. `VerdictInv` carries the critic's verdict, or
  the reviewer's answer, from the router to the decision row.

`EngineProofs`, from `EngineInv == TypeOK /\ RequestInv /\ SeqInv`:

* `EngineTypeCorrect` and `LedgerChain` (`ChainUnbroken`): the chain has neither gap nor
  fork for any number of cases, workers, resume calls and crashes, slow runs included.
  `ChainUnbroken` alone is not inductive, because a row's number comes from a worker's copy
  of `event_seq`. `SeqInv` says that each such copy, in a worker or a checkpoint, is 0 or the
  number of a recorded row; a new row is numbered one more and not yet recorded, so it is
  the successor of the last.
* `CompletedCarriesDecision` (`CompletedHasDecision`): only Finalize writes `completed`, in
  the transaction of the decision, and no step removes a decision.
* `RunnerInvariant` and `OneRunnerPerJob`: `~SlowRuns /\ Spec => []JobHasOneRunner`. The
  strengthening `RunnerInv` says that a held job is claimed and its claim fresh, or failed in
  the last step of the handler. The hypothesis is needed: run `engine_slow_run` is the
  counterexample without it.

`LedgerProofs`, from `EngineInv` and `ReplayInv`. What a run does next comes from its copy of
the graph's state, of which a case may have many, old ones among them: in workers, in the
checkpointer, in the run a crash left behind. So none of the properties about the ledger is
inductive, and `ReplayInv` speaks of all copies at once:

* `Replays`: every copy, in a worker or saved, is the summary of the first `event_seq` rows of
  the case (next node, rejections, the reviewer's answer), and each rejection among them is
  indexed and resolved (`Indexed`). A new row is numbered `event_seq + 1` and must be free, so
  whoever gets a row in has a summary of the whole ledger.
* `OpenInv`: between the row of a rejection and the resolution of its conflict the run is
  alone: the row is the last of the case and no other copy can be at the end of the ledger,
  because it would have the rejection indexed (`NobodyAtTheEnd`).
* `ConflictTable` and `DecisionTable`: the other two tables against the rows. The first
  needs `OpenInv` to know that the row just inserted is the one row of its event, and
  `Replays` of the writer to know that a new row comes after indexed rejections only.

From it: `LedgerImplementsAuditTrail` (the refinement `LedgerIsLegalWalk`: each step of the
service records the row the walk calls for, or none), `CheckpointsAreSummaries`
(`CheckpointsReplayLedger`), `DecisionIsTheLedgers` (`DecisionMatchesLedger`) and
`ConflictsAreAnIndex` (`ConflictsIndexRejections`), with crashes, reclaims, slow runs and
repeated resumes in any number. `LedgerWalks` reads the same backwards: every row is the one
its predecessors call for.

`SettlingProofs`, where cases come to rest: `~SlowRuns /\ Spec => []QuietCaseIsSettled`
(`QuietCasesAreSettled`). The property speaks of the states before the first crash; then
nothing is delivered twice, and `CalmInv` says of such states:

* `ClaimsHeld`: no claim is old, and behind every claim there is a worker.
* `StartsOnce`: a case has one start job, which is invoked once. So a case's checkpoints are
  numbered as its rows are (`NumberedCase`, `NumberedRun`: a checkpoint's id is its
  `event_seq` plus one), and the checkpointer's "newer wins" keeps the one that has seen more
  of the ledger.
* `ResumesReached`: who resumes a case read it as escalated, so its walk has been at the human
  and its start job's run has nothing more to write. `StartRun` and `ResumeRun` say where a
  run of either kind can be: the first has the whole ledger before it; the second has the
  answer the human's node asks for, is behind that node, or comes from an old checkpoint and
  gets no row in.
* `StatusInv`, one part per status: a pending case is due (`Due`: its start job waits, or the
  job's run is yet to reach the supervisor's statement); one in progress is owed a status by a
  run that has not come to its end or has failed (`Owed`); an escalated one is owed one too,
  or waits (`Awaits`), a completed one is owed one, or is at its end (`Ended`).

From the same invariant follows `UnindexedDisputesFail`
(`~SlowRuns /\ Spec => []UnindexedDisputeFailsCase`): the checkpoint of a case that waits, or
is at its end, is of its last row (`LastCheckpointIndexes`), and by `Replays` every rejection
before it is indexed; a case without a status has no rows.

The hypothesis is needed for both. With slow runs TLC finds the case whose live start job is
reclaimed and invoked again: the second invocation saves a newer checkpoint, at the
supervisor, and what the first run saves when it pauses is ignored.

`ReaderProofs`. A step of `Reader` is one of `Engine` or leaves its variables alone
(`ReaderKeepsEngine`), so all of the above holds there too. What is shown was read earlier:
`ReaderInv` says that what a GET has read so far is not overtaken (`ViewInv`: a row read as
completed has its decision already) and that a response still agrees with the tables
(`ShownInv`), since decisions are never replaced and the ledger of a decided case does not
grow. From it: `ReaderTypeCorrect` (`ReaderTypeOK`), `CompletedIsShownDecided`
(`CompletedShowsDecision`), `TraceExplains` (`TraceExplainsDecision`) and the action property
`DecisionStaysShown` (`ShownDecisionIsFinal`).

`ReviewProofs`, the human in the loop:

* `ReviewersAnswer` (`AnswersComeFromReviewers`) from `AnswersInv`: an answer is checked once,
  at the API, and copied into the queue, a run and the ledger; each copy is that of an accepted
  call of a reviewer about that case.
* `ReviewIsHonoured` (`ShownReviewIsHonoured`) from `AskedInv`: a stored or shown review is a
  dispute the walk has come to, after as many rejections as it says, and from there a walk
  gets to a decision through the reviewer's row only (`AfterHuman`).
* `WaitingCasesShowReviews`: `~SlowRuns /\ ReaderSpec => []WaitingCaseShowsReview`, from
  `CalmInv` and `KeptInv`: the stored interrupt carries the number of the one checkpoint that
  has the case at the human (`Kept`; a walk is there once, `HumanBehind`), and an escalated
  case has one stored, or a run that will store it or write another status (`Promised`).

`ScoringProofs`, for every content of the warehouse (`EvidenceAssumption` says only what type
it has), from the inductive invariant `Inv`:

* `Typing`, `UndefinedRatios`, `LevelsTell`, `AlarmsReviewed`, `NoCredit`, `AlwaysRated`: the
  six invariants of run `scoring`.
* `LevelsTellPublishedScores` is not inductive: the row is rounded from an analysis that was
  rounded from a float. `Inv` says of the logged analysis that each finite score is on its
  level's side (`Judged`) and of a row the same (`Faithful`). The lemmas `FraudSidesKept`,
  `DistressSidesKept` and `EsgSidesKept` say that rounding to a unit all boundaries are
  multiples of keeps the sides; they are used once per rounding.
* `AlarmsReviewed` adds that a case with an alarm reaches Finalize only reviewed.
* `CompositeMonotone`, on which `NoCredit` rests: each rubric line is written out as a formula
  per segment (`EmissionsLine`, `InjuriesLine`, `IndependenceLine`), each is monotone, and
  penalty, floor and weights keep the direction. It holds for all figures, not only for
  neighbours.
* `RatingSound`: the first band a composite clears is the one it lies in, so the choice in
  `Rating` is defined for every composite the rubric can give.

Every invariant and action property of a passing run is proved. Only model-checked is what
the installed provers cannot express: liveness under fairness (`RunSettles`, `JobsSettle`),
and induction over data (what a recursive definition computes for every input); for the
latter's sake no module proved about declares a RECURSIVE operator.

## 6. Not modelled

* How the eight indices and four ratios follow from a pair of statements: divisions of
  reals. Their effect on a score, and where they are undefined, is modelled.
* Field-level validation of pydantic, beyond which values get through; 401, 403 and 404 are
  calls without effect.
* Connection pools: asyncpg's. No code path holds two connections of one pool, so exhaustion
  delays and cannot deadlock. The checkpointer's single connection, once lost, makes every
  invocation of that worker fail; each such failure is `JobRaises`, which loses the
  checkpoint, but how many cases of a backlog one such worker spoils is not counted.
* `main.py`, `db/migrate.py`, `db/roles.sql`: start-up and deployment.
* Prompts, wording, HTML, logging, hash values (equal hashes are equal rows), token counts.
* `attempts`, `claimed_by`, `last_error` of the queue: written, and read by no code.
* LangGraph's stored writes of an interrupted task (section 2).

## 7. Plan

The graph and its policies, the ledger under concurrency, the scores and the reader's view
are modelled. What is left:

1. The stored resume value of an interrupted task in the checkpointer's model.
2. What a crash leaves of `QuietCaseIsSettled`: which of its parts a case keeps that no
   crashed worker was at work on.
