SPECIFICATION FairSpec
CONSTANTS
  l1 = l1
  l2 = l2
  main = main
  Locals = {l1}
  MAIN = main
  Deleters = {l1, main}
  SlowDeleters = {}
  Recreates = FALSE
  PlanBoard = TRUE
  Overlap = 1
  Tolerance = 1
  Faults <- NetworkFaults
  MaxEdits = 2
  MaxDeletes = 1
  MaxFaults = 2
INVARIANTS
  DeletesTakeEffect
PROPERTIES
  TombstonesRespected
  DeletesConverge
