SPECIFICATION Spec
CONSTANTS
  Ticks = {t1, t2}
  Pairs = {1}
  Target = 1
  Addrs = {a1, a2}
  MaxEpoch = 1
  MaxTime = 2
  MaxCrashes = 1
  MaxSwitches = 2
  Skew = 0
  Window = 1
  Delays = {1}
  BudgetWait = 1
  RetryWaits = {1}
  SpendCap = 3
  Costs = {2}
  Legacy = {}
  NoPair = NoPair
  NoSession = NoSession
INVARIANTS
  InterruptedMeansCutOff
PROPERTIES
  DraftStillWanted
SYMMETRY TickSymmetry
CHECK_DEADLOCK FALSE
