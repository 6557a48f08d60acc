CONSTANTS
  t1 = t1  t2 = t2
  alice = alice  bob = bob
  sendOp = sendOp  moveOp = moveOp
  sendKind = sendKind  moveKind = moveKind
  th1 = th1  th2 = th2
  Token = {t1, t2}
  Caller = {alice, bob}
  Operation = {sendOp, moveOp}
  Kind <- MCKind
  AnyKind = AnyKind
  Thread = {th1, th2}
  None = None
  TTL = 2
  MaxPending = 1
  MaxTime = 2
  MaxSerial = 1
SPECIFICATION StoreSpec
SYMMETRY Symmetry
INVARIANTS
  StoreTypeOK
  RedeemedAsGranted
PROPERTIES
  ImplementsPromise
CHECK_DEADLOCK FALSE
