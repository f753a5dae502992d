SPECIFICATION Spec
CONSTANTS
  MaxConflictRetries = 1
  FiscalYears <- MCFiscalYears
  TargetYear <- MCTargetYear
  MaxFiscalYears = 5
  Faults <- MCNoFaults
INVARIANT
  FraudScoreIsAboutTargetYear
