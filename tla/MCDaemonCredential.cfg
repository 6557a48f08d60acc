CONSTANTS
  Process = {p1, p2}
  Client = {c1}
  Version = {v1, v2}
  Confirmations = 2
  None = None
SPECIFICATION Spec
INVARIANTS
  OwnerReachable
CHECK_DEADLOCK FALSE
