SPECIFICATION FairSpec
CONSTANTS
  l1 = l1
  l2 = l2
  main = main
  Locals = {l1}
  MAIN = main
  Keys = {1, 2}
  Scope <- OneFactory
  BatchSize = 1
  Overlap = 1
  Faults = {"row_error", "crash", "reset"}
  SlowServers = {main}
  MaxEdits = 3
  MaxFaults = 2
INVARIANTS
  NothingLost
PROPERTIES
  Converges
