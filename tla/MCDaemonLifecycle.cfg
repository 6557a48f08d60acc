CONSTANTS
  Process = {p1, p2}
  Client = {c1}
  Version = {v1, v2}
  Confirmations = 2
  None = None
SPECIFICATION FairSpecInOrder
INVARIANTS
  LifecycleTypeOK
  BrowsersUnderLock
  NoForeignCredential
  StopsWhatItSaw
PROPERTIES
  ClosingReleases
  EveryOpenReturns
  ImplementsOwnership
CHECK_DEADLOCK FALSE
