SPECIFICATION Spec
CONSTANTS
  a1 = a1
  w1 = w1
  w2 = w2
  q1 = q1
  q2 = q2
  Assessments <- OneCase
  Workers <- TwoWorkers
  Requests <- NoRequests
  MaxConflictRetries = 0
  MaxCrashes = 0
  SlowRuns = TRUE
  NodeFaults = FALSE
INVARIANTS
  JobHasOneRunner
CHECK_DEADLOCK FALSE
