SPECIFICATION Spec
CONSTANTS
  MaxConflictRetries = 1
  FiscalYears <- MCTargetYears
  TargetYear <- MCTargetYear
  MaxFiscalYears = 5
  Faults <- MCProvider
PROPERTY
  OnlyNarrativeDegrades
