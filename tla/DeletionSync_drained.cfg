SPECIFICATION Spec
CONSTANTS
  l1 = l1
  l2 = l2
  main = main
  Locals = {l1}
  MAIN = main
  Deleters = {l1}
  SlowDeleters = {}
  Recreates = FALSE
  PlanBoard = FALSE
  Overlap = 0
  Tolerance = 1
  Faults = {"rows_refused"}
  MaxEdits = 1
  MaxDeletes = 1
  MaxFaults = 1
INVARIANTS
  DeletesTakeEffect
