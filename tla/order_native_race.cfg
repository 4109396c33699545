\* Two concurrent invocations create, re-create and confirm a native order
\* while the backend re-prices it.
CONSTANTS
  c1 = c1  c2 = c2  a1 = a1  a2 = a2
  None = None
  PaymentIds = {a1}
  Creators = {c1, c2}
  Kind = "native"
  Addresses = {a1}
  Amounts = {5}
  Others = {1}
  Blacklisted = {}
  InvoiceUsd = {1100}
  Deadline = 5
  Margin = 1
  NewMargin = 1
  Locks = {3, 5}
  MaxTime = 5
SPECIFICATION SpecOrder
PROPERTY PriceLockOnlyEarlier
CHECK_DEADLOCK FALSE
