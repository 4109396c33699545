\* The same two commands: does the confirm run confirm the order that was shown?
CONSTANTS
  c1 = c1  c2 = c2  a1 = a1  a2 = a2
  None = None
  PaymentIds = {c1, c2}
  Commands = {c1, c2}
  Addresses = {a1, a2}
  Life = 4
  Margin = 2
  MaxGap = 1
  Lag = 1
  MaxOrders = 2
  MaxTime = 6
SPECIFICATION SpecPay
INVARIANT ConfirmsSameOrder
SYMMETRY CommandSymmetry
CHECK_DEADLOCK FALSE
