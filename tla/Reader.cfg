SPECIFICATION ReaderSpec
CONSTANTS
  a1 = a1
  w1 = w1
  q1 = q1
  Assessments <- OneCase
  Workers <- OneWorker
  Requests <- OneRequest
  MaxConflictRetries = 0
  MaxCrashes = 1
  SlowRuns = FALSE
  NodeFaults = TRUE
  Keys <- MCKeys
  Scopes <- MCScopes
INVARIANTS
  ReaderTypeOK
  CompletedShowsDecision
  TraceExplainsDecision
  ShownReviewIsHonoured
  WaitingCaseShowsReview
  AnswersComeFromReviewers
PROPERTIES
  ShownDecisionIsFinal
CHECK_DEADLOCK FALSE
