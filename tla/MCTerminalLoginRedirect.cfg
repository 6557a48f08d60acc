CONSTANTS
  RequestID = {q1, q2}
  MaxHops = 2
  MaxEarly = 1
  None = None
  Command = {c1, c2}
  Visible = visible
  Element = {field, button}
  Input = {field}
  MaxLaunches = 2
SPECIFICATION Spec
CONSTRAINT Narrow
INVARIANTS
  IdentityProviderIgnored
CHECK_DEADLOCK FALSE
