SPECIFICATION Spec
CONSTANTS
  Flips = {f1, f2, f3}
  Late = {}
  Outcomes = {"image"}
  Timers = {"check"}
  MaxRefetches = 1
  MaxRestarts = 1
INVARIANTS
  ApprovedNotReported
  AttemptsKeepAnswers
PROPERTIES
  AnswersSurvive
SYMMETRY FlipSymmetry
CHECK_DEADLOCK FALSE
