SPECIFICATION Spec
CONSTANTS
  l1 = l1
  l2 = l2
  main = main
  Locals = {l1, l2}
  MAIN = main
  Deleters = {}
  SlowDeleters = {l1, main}
  Recreates = FALSE
  PlanBoard = FALSE
  Overlap = 1
  Tolerance = 1
  Faults = {"skipped", "tombs_refused"}
  MaxEdits = 0
  MaxDeletes = 2
  MaxFaults = 1
INVARIANTS
  DeletionsReachMain
  DeletionsReachLocals
