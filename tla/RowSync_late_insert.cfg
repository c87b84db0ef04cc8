SPECIFICATION Spec
CONSTANTS
  l1 = l1
  l2 = l2
  main = main
  Locals = {l1, l2}
  MAIN = main
  Keys = {1}
  Scope <- GlobalRow
  BatchSize = 2
  Overlap = 1
  Faults <- NoFaults
  SlowServers = {}
  MaxEdits = 2
  MaxFaults = 0
INVARIANTS
  PullCoversMain
