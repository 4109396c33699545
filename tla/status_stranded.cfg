\* An order whose pay-in was seen while someone else settled its link.
CONSTANTS
  None = None  Absent = Absent
  Margin = 1  Bolt11Validity = 1  DefaultWatch = 1  WatchCap = 2
  Orders <- MCOrders
  Timeouts = {None}
  Locks = {1, 3}
  Receipts = {"underpaid", "exact", "overpaid", "unreadable"}
  Statuses = {"started", "payin_completed", "bridging", "payout_started",
              "payout_completed", "completed", "bounced", "refunded", "other"}
  MaxTime = 3
  MaxStart = 0
  MaxMoves = 3
SPECIFICATION SafeSpecStatus
INVARIANT StrandedNotSettled
CHECK_DEADLOCK FALSE
