SPECIFICATION ChatSpec
CONSTANTS
  l1 = l1
  l2 = l2
  main = main
  Locals = {l1}
  MAIN = main
  Keys = {1, 2}
  Rule = "later"
  Ahead <- OneClock
  SlowServers = {l1, main}
  Overlap = 3
  OpenFor = 2
  Prompt = FALSE
  Batch = 1
  MaxWrites = 2
  MaxFailures = 0
  MaxHistory = 2
INVARIANTS
  PushCovers
