SPECIFICATION Spec
CONSTANTS
  r1 = r1
  r2 = r2
  Runs <- TwoRuns
  MaxEdits = 1
  MaxResets = 1
  MaxFaults = 0
INVARIANTS
  ResetHonoured
CHECK_DEADLOCK FALSE
