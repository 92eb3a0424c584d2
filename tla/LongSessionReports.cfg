SPECIFICATION Spec
CONSTANTS
  Flips = {f1, f2, f3, f4, f5, f6}
  Late = {}
  Outcomes = {"image"}
  Timers = {}
  MaxRefetches = 1
  MaxRestarts = 0
INVARIANT ReportsWithinQuota
SYMMETRY FlipSymmetry
CHECK_DEADLOCK FALSE
