SPECIFICATION FairSpec
CONSTANTS
  Flips = {f1, f2}
  Late = {f2}
  Outcomes = {"image", "error"}
  Timers = {"grace", "finalize", "finalizeAll"}
  MaxRefetches = 0
  MaxRestarts = 0
INVARIANTS
  TypeOK
PROPERTIES
  FetchEnds
  SubmissionConcludes
CHECK_DEADLOCK FALSE
