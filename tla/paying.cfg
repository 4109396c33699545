\* Two pay commands on one link, whose order the backend may move or replace; two
\* invocations on the state file, either of which may die at any point; a native
\* order created and confirmed by one invocation, and a Bitrefill order by two, paid
\* while it is re-priced, used up or funded by others, and the clock runs.
CONSTANTS
  p1 = p1  p2 = p2  p3 = p3  c1 = c1  c2 = c2  a1 = a1  a2 = a2
  None = None
  NoLock = NoLock
  PaymentIds = {p1, p2, c1, c2}
  Commands = {c1, c2}
  Addresses = {a1, a2}
  Life = 4
  Margin = 2
  MaxGap = 1
  Lag = 1
  MaxOrders = 2
  MaxTime = 6
  Procs = {p1, p2}
  Invocations = {p1, p2}
  MaxEntries = 2
  MayCrash = TRUE
  MayStall = FALSE
  MayRefuse = FALSE
  Deposits <- MCDeposits
  OrderFields <- MCFields
  TxOf <- MCTxOf
SPECIFICATION SpecPaying
INVARIANTS TypeOK SendOnce
INVARIANTS TypeOKPay LinkPaidOnce PaysReleasedOrder
INVARIANTS SentInTime NotAfterAnotherPayer
PROPERTIES SendRecordKept ImplementsOrderStore DeadlinesKept CallsAsAtomic
SYMMETRY PayingSymmetry
CHECK_DEADLOCK FALSE
