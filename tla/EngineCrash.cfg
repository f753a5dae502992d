SPECIFICATION Spec
CONSTANTS
  a1 = a1
  w1 = w1
  w2 = w2
  q1 = q1
  q2 = q2
  Assessments <- OneCase
  Workers <- OneWorker
  Requests <- NoRequests
  MaxConflictRetries = 0
  MaxCrashes = 1
  SlowRuns = FALSE
  NodeFaults = FALSE
INVARIANTS
  CrashIsRecovered
CHECK_DEADLOCK FALSE
