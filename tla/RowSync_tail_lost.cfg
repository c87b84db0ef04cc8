SPECIFICATION Spec
CONSTANTS
  l1 = l1
  l2 = l2
  main = main
  Locals = {l1}
  MAIN = main
  Keys = {1, 2}
  Scope <- OneFactory
  BatchSize = 1
  Overlap = 1
  Faults = {"refused"}
  SlowServers = {}
  MaxEdits = 2
  MaxFaults = 1
INVARIANTS
  NothingLost
