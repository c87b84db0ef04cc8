SPECIFICATION Spec
CONSTANTS
  l1 = l1
  l2 = l2
  main = main
  Locals = {l1}
  MAIN = main
  Keys = {1}
  Scope <- OneFactory
  BatchSize = 2
  Overlap = 1
  Faults = {"safety_net"}
  SlowServers = {}
  MaxEdits = 1
  MaxFaults = 1
INVARIANTS
  NothingLost
