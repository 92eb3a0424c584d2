SPECIFICATION Spec
CONSTANTS
  Drafts = {1, 2, 3}
  Handled = {1}
  Ticks = {t1, t2}
  InitialStores <- MCInitialStores
  MaxEpoch = 2
  MaxCrashes = 1
  MaxEdits = 1
  MaxRewrites = 1
  None = None
INVARIANT AutoSubmitsOnce
CHECK_DEADLOCK FALSE
