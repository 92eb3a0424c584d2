SPECIFICATION FairSpec
CONSTANTS
  Ticks = {t1}
  Pairs = {1}
  Target = 1
  Addrs = {a1}
  MaxEpoch = 2
  MaxTime = 2
  MaxCrashes = 1
  MaxSwitches = 0
  Skew = 1
  Window = 1
  Delays = {1}
  BudgetWait = 1
  RetryWaits = {1}
  SpendCap = 3
  Costs = {2}
  Legacy <- MCLegacy
  NoPair = NoPair
  NoSession = NoSession
INVARIANTS
  AttemptsAccounted
PROPERTIES
  SessionGetsOutcome
CHECK_DEADLOCK FALSE
