SPECIFICATION Spec
CONSTANTS
  a1 = a1
  w1 = w1
  w2 = w2
  q1 = q1
  q2 = q2
  Assessments <- OneCase
  Workers <- TwoWorkers
  Requests <- TwoRequests
  MaxConflictRetries = 1
  MaxCrashes = 1
  SlowRuns = FALSE
  NodeFaults = TRUE
SYMMETRY Interchangeable
INVARIANTS
  TypeOK
  ChainUnbroken
  CheckpointsReplayLedger
  DecisionMatchesLedger
  ConflictsIndexRejections
  CompletedHasDecision
  JobHasOneRunner
  QuietCaseIsSettled
  UnindexedDisputeFailsCase
PROPERTIES
  LedgerIsLegalWalk
CHECK_DEADLOCK FALSE
