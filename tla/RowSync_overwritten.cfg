SPECIFICATION Spec
CONSTANTS
  l1 = l1
  l2 = l2
  main = main
  Locals = {l1}
  MAIN = main
  Keys = {1}
  Scope <- OneFactory
  BatchSize = 2
  Overlap = 1
  Faults <- NoFaults
  SlowServers = {}
  MaxEdits = 3
  MaxFaults = 0
PROPERTIES
  LaterEditWins
