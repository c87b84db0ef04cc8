SPECIFICATION Spec
CONSTANTS
  l1 = l1
  l2 = l2
  main = main
  Locals = {l1}
  MAIN = main
  Deleters = {l1}
  SlowDeleters = {}
  Recreates = TRUE
  PlanBoard = FALSE
  Overlap = 1
  Tolerance = 1
  Faults = {}
  MaxEdits = 0
  MaxDeletes = 1
  MaxFaults = 0
PROPERTIES
  TombstonesRespected
