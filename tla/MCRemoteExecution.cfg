CONSTANTS
  Mode = "guarded"
  PreviewSensitiveReads = FALSE
  PreviewReversibleWrites = FALSE
  Runs <- MCRuns
  ReadAttempts = 3
  None = None
SPECIFICATION FairSpec
INVARIANTS
  ExecutionTypeOK
  WriteTakesEffectAtMostOnce
  OutcomeIsTrue
PROPERTIES
  ExecutionEnds
CHECK_DEADLOCK FALSE
