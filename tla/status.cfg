\* A query, watch or resume of an order of every kind, which changes twice while the
\* command reads it.
CONSTANTS
  None = None  Absent = Absent
  Margin = 1  Bolt11Validity = 1  DefaultWatch = 1  WatchCap = 2
  Orders <- MCOrders
  Timeouts = {None}
  Locks = {1, 3}
  Receipts = {"underpaid", "exact", "overpaid", "unreadable"}
  Statuses = {"started", "payin_completed", "bridging", "payout_started",
              "payout_completed", "completed", "bounced", "refunded", "other"}
  MaxTime = 3
  MaxStart = 0
  MaxMoves = 2
SPECIFICATION SafeSpecStatus
INVARIANTS TypeOKStatus SettledIsReal ResumableIffPayable
PROPERTIES NeverPayAgain InvitedInTime
CHECK_DEADLOCK FALSE
