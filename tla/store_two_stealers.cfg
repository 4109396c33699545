\* A holder dies; the two survivors both find its lock file stale.
CONSTANTS
  p1 = p1  p2 = p2  p3 = p3  a1 = a1  a2 = a2
  Procs = {p1, p2, p3}
  Invocations = {p1, p2, p3}
  PaymentIds = {p1, p2, p3}
  NoLock = NoLock
  None = None
  MaxEntries = 2
  MayCrash = TRUE
  MayStall = FALSE
  MayRefuse = FALSE
  Deposits <- MCDepositsOne
  OrderFields <- MCFields
  TxOf <- MCTxOf
SPECIFICATION Spec
INVARIANT SendOnce
SYMMETRY Symmetry3
CHECK_DEADLOCK FALSE
