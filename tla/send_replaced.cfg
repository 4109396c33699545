\* Two orders paid from one wallet.
CONSTANTS
  c1 = c1  c2 = c2  s1 = s1  s2 = s2  a1 = a1  a2 = a2
  None = None
  PaymentIds = {s1, s2}
  Creators = {c1}
  Senders = {s1, s2}
  TxOf <- MCTxOf
  Kind = "stable"
  Addresses = {a1, a2}
  Amounts = {5}
  Others = {1, 2}
  Blacklisted = {a2}
  InvoiceUsd = {1100, 1101}
  Deadline = 2
  Margin = 1
  NewMargin = 1
  Locks = {}
  MaxTime = 0
  MaxGap = 0
  kinds = {"wallet"}
  Orders = {o1, o2}
  o1 = o1  o2 = o2
  Forms <- MCForms
  Coins = {15, 46, 92}
  Tokens = {10}
  Prices = {5, 6}
  Gas = 5  DataFees = {5, 12}  BufferPct = 20
  SolFee = 5  RentMin = 12
  MaxWorld = 2
  Digits = {0, 9}
  MaxDigits = 2
  Scales = {0, 1, 3}
SPECIFICATION SpecSending
INVARIANT ConfirmedLanded
SYMMETRY SendingSymmetry
CHECK_DEADLOCK FALSE
