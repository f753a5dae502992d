SPECIFICATION Spec
CONSTANTS
  Evidence <- MCEvidence
INVARIANTS
  TypeOK
  NoLevelFromUndefinedRatio
  PublishedAlarmWasReviewed
  LevelsTellPublishedScores
  NoCreditForWorseFigures
  EveryDisclosureIsRated
CHECK_DEADLOCK FALSE
