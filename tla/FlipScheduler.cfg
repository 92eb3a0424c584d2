SPECIFICATION Spec
CONSTANTS
  Ticks = {t1, t2}
  Pairs = {1, 2}
  Target = 2
  Addrs = {a1}
  MaxEpoch = 2
  MaxTime = 2
  MaxCrashes = 1
  MaxSwitches = 0
  Skew = 0
  Window = 1
  Delays = {1}
  BudgetWait = 1
  RetryWaits = {1}
  SpendCap = 3
  Costs = {2, 3}
  Legacy = {}
  NoPair = NoPair
  NoSession = NoSession
INVARIANTS
  TypeOK
  OnePaidRunPerSession
  ClaimIsDurable
  InterruptedMeansCutOff
  SpendBounded
PROPERTIES
  JournalNeverReopens
  DraftStillWanted
SYMMETRY TickSymmetry
CHECK_DEADLOCK FALSE
