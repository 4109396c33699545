\* Three invocations, any of which may die at any point, or stall past LOCK_STALE_MS
\* while holding the lock, and be refused the removal of a lock file; two x402
\* payments, one of which may rerun the other, or two topups; or one rate-limited
\* call with every mix of hints; or a watched order of any kind, which changes once
\* meanwhile; or three commands that save a wallet, a coin or an install id in the
\* preferences file, any of which may die or stall, or be refused as above.
CONSTANTS
  p1 = p1  p2 = p2  p3 = p3
  i1 = i1  i2 = i2  k1 = k1  k2 = k2
  None = None  Absent = Absent  Nothing = Nothing  NoHint = NoHint
  Procs = {p1, p2, p3}
  NoLock = NoLock
  MaxEntries = 1
  MayCrash = TRUE
  MayStall = TRUE
  MayRefuse = TRUE
  Payers = {p1, p2}
  Topups = {p1, p2}
  IdemKeys = {i1, i2}
  AgentKeys = {k1, k2}
  EnvKeys = {}
  Challenges <- MCChallenges
  Budget <- MCBudget
  SignRetries = 1
  Listed = {"thief"}
  Timeout = 2  MaxRetries = 3  MaxTotalWait = 6  ReceiptWait = 3
  Backoff <- MCBackoff
  Hints = {0, 1, 5}
  Margin = 1  Bolt11Validity = 1  DefaultWatch = 1  WatchCap = 2
  Orders <- MCWatched
  Timeouts = {None}
  Locks = {1, 3}
  Receipts = {"unreadable"}
  Statuses = {"started", "completed"}
  MaxTime = 3  MaxStart = 0  MaxMoves = 1
  Savers = {p1, p2}  Former = p3
  Blank = Blank
  Wallets = {k1}
  Presets = {i1}
SPECIFICATION SpecClient
INVARIANTS TypeOKX402 ChargedOnce ChargedWithinBudget KeyHandedBack DepositForKeptKey
INVARIANTS LockTypeOK ExclusionUnlessRaced CallBounded NeverEarly 
PROPERTIES LiveLockKept WaitEnds CommandsEnd 
CHECK_DEADLOCK FALSE
