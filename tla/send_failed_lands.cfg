\* One payment of a stablecoin order whose broadcast may go unanswered.
CONSTANTS
  c1 = c1  c2 = c2  s1 = s1  s2 = s2  a1 = a1  a2 = a2
  None = None
  PaymentIds = {s1, s2}
  Creators = {c1}
  Senders = {s1}
  TxOf <- MCTxOf
  Kind = "stable"
  Addresses = {a1, a2}
  Amounts = {5}
  Others = {1, 2}
  Blacklisted = {a2}
  InvoiceUsd = {1100, 1101}
  Deadline = 2
  Margin = 1
  NewMargin = 1
  Locks = {}
  MaxTime = 0
  MaxGap = 0
SPECIFICATION SpecFlow
INVARIANT FailedMovedNothing
CHECK_DEADLOCK FALSE
