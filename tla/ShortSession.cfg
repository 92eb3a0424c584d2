SPECIFICATION Spec
CONSTANTS
  r1 = r1
  r2 = r2
  x1 = x1
  Regular = {r1, r2}
  Extra = {x1}
  Late = {r2}
  Outcomes <- MCOutcomes
  Answered = {r1}
  Choices = {"left"}
  Odd = {r1, x1}
  Timers = {"bump", "finalize", "auto"}
  MaxRefetches = 1
  MaxRestarts = 1
  MaxBreaks = 1
INVARIANTS
  TypeOK
  RegularsKept
  ChosenIsSent
  FailedMeansTooFew
PROPERTIES
  DecodedStaysRegular
CHECK_DEADLOCK FALSE
