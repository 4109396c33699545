\* One x402 payment whose first /sign answer may be lost.
CONSTANTS
  p1 = p1  p2 = p2
  i1 = i1  i2 = i2  k1 = k1  k2 = k2
  Nothing = Nothing
  Payers = {p1}
  Topups = {}
  IdemKeys = {i1}
  AgentKeys = {k1}
  EnvKeys = {}
  Challenges <- MCChallenges
  Budget <- MCBudget
  SignRetries = 2
  Listed = {"thief"}
SPECIFICATION SafeSpecX402
INVARIANT NothingWasCharged
CHECK_DEADLOCK FALSE
