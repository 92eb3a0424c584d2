SPECIFICATION FairSpec
CONSTANTS
  Drafts = {1, 2, 3}
  Handled = {1}
  Ticks = {t1, t2}
  InitialStores <- MCInitialStores
  MaxEpoch = 2
  MaxCrashes = 1
  MaxEdits = 1
  MaxRewrites = 1
  None = None
INVARIANTS
  TypeOK
  OnlyViewedSubmitted
  PublishedIsAccepted
  AcceptedLeavesTrace
PROPERTIES
  PublishesOnce
  QueueDrains
CHECK_DEADLOCK FALSE
