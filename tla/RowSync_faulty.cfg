SPECIFICATION Spec
CONSTANTS
  l1 = l1
  l2 = l2
  main = main
  Locals = {l1}
  MAIN = main
  Keys = {1, 2}
  Scope <- OneFactory
  BatchSize = 3
  Overlap = 1
  Faults <- FaultKinds
  SlowServers = {main}
  MaxEdits = 3
  MaxFaults = 2
INVARIANTS
  PullCoversMain
PROPERTIES
  NoEcho
