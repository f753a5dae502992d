SPECIFICATION FairSpec
CONSTANTS
  a1 = a1
  w1 = w1
  w2 = w2
  q1 = q1
  q2 = q2
  Assessments <- OneCase
  Workers <- TwoWorkers
  Requests <- OneRequest
  MaxConflictRetries = 1
  MaxCrashes = 2
  SlowRuns = FALSE
  NodeFaults = TRUE
PROPERTIES
  JobsSettle
CHECK_DEADLOCK FALSE
