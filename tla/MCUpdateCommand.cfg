CONSTANTS
  Process = {p1, p2, p3}
  MaxVersion = 3
  LockLife = 0
  CacheLife = 2
  MaxTime = 2
  Original = original
  None = None
SPECIFICATION Spec
CONSTRAINT Apart
SYMMETRY Symmetry
INVARIANTS
  OneCheckAtATime
  AnswersAreRecent
  ExecutableOrBackup
  PreviousRetained
  NeverDowngrades
PROPERTIES
  FailureKeepsExecutable
CHECK_DEADLOCK FALSE
