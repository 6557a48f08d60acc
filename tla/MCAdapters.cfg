CONSTANTS
  p1 = p1  p2 = p2
  cli = cli  mcp = mcp
  command = command  call1 = call1  call2 = call2
  None = None
  Process = {p1, p2}
  Adapter = {cli, mcp}
  Job = {command, call1, call2}
  AdapterOf <- MCAdapterOf
  Surface <- MCSurface
  Rules <- MCRules
  Setups <- MCSetups
  Used <- MCUsed
  Slots = 1
  Connections = 1
  JobBound = 2
SPECIFICATION FairSpec
INVARIANTS
  AdaptersTypeOK
  ReportIsTrue
  ReviewedBeforeRun
  BoundedConcurrency
PROPERTIES
  EveryCommandEnds
CHECK_DEADLOCK FALSE
