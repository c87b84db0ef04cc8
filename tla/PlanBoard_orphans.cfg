SPECIFICATION BoardSpec
CONSTANTS
  p1 = p1
  p2 = p2
  h1 = h1
  h2 = h2
  NoPlan = NoPlan
  Plans = {p1, p2}
  Judged = {}
  Moulded = {p2}
  Handlers = {h1, h2}
  MaxRecoveries = 1
INVARIANT
  NoOrphans
