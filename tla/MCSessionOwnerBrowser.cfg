CONSTANTS
  t1 = t1  t2 = t2
  alice = alice  bob = bob
  sendOp = sendOp  moveOp = moveOp  bodyOp = bodyOp  listOp = listOp
  r1 = r1  r2 = r2  r3 = r3
  work = work  home = home
  Token = {t1}
  Caller = {alice}
  Operation = {moveOp}
  Kind <- MCKindOf
  AnyKind = AnyKind
  Thread = {r1, r2}
  Request = {r1, r2}
  Account = {work, home}
  AccountOf <- MCAccountOf
  Mode = "guarded"
  PreviewSensitiveReads = FALSE
  PreviewReversibleWrites = FALSE
  None = None
  TTL = 1
  MaxPending = 1
  MaxTime = 1
  MaxSerial = 1
  LoginTimeout = 0
SPECIFICATION OwnerSpec
INVARIANTS
  KeepsBrowser
CHECK_DEADLOCK FALSE
