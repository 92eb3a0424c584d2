SPECIFICATION FairSpec
CONSTANTS
  Setups <- MCSetups
  MaxNonce = 4
  MaxEpoch = 2
  MaxFees = 2
  MaxAborts = 2
  Batch = Batch
  None = None
INVARIANTS
  TypeOK
  StakedOnce
PROPERTIES
  ArchivedStaysOut
  EveryTransferDecided
CHECK_DEADLOCK FALSE
