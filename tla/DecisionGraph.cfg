SPECIFICATION Spec
CONSTANTS
  MaxConflictRetries = 2
  FiscalYears <- MCFiscalYears
  TargetYear <- MCTargetYear
  MaxFiscalYears = 5
  Faults <- MCAllFaults
INVARIANTS
  TypeOK
  NoUnilateralClearance
  ConflictsAreSettled
  AnalysisMatchesEvidence
  WithinRecursionLimit
PROPERTY
  RunSettles
