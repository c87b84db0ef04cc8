SPECIFICATION FairSpec
CHECK_DEADLOCK FALSE
CONSTANTS
  r1 = r1
  r2 = r2
  Runs <- TwoRuns
  MaxEdits = 2
  MaxResets = 2
  MaxFaults = 2
INVARIANTS
  OneCycle
  ScheduleLives
  TriggersKept
PROPERTIES
  EveryEditPushed
