SPECIFICATION Spec
CONSTANTS
  PeerLoss = 1
  Samples = 2
  OnlineLoss = 1
  Grace = 1
  Cooldown = 2
  Window = 4
  Budget = 2
  Tolerance = 0
  Jumps <- MCJumps
  MaxTime = 5
  MaxStarts = 5
  MaxFaults = 2
  None = None
INVARIANTS
  TypeOK
  RestartsSpaced
  OneRestartPerOutage
PROPERTIES
  OutageProven
CHECK_DEADLOCK FALSE
