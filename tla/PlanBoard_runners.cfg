SPECIFICATION FairBoardSpec
CONSTANTS
  p1 = p1
  p2 = p2
  h1 = h1
  h2 = h2
  NoPlan = NoPlan
  Plans = {p1, p2}
  Judged = {}
  Moulded = {}
  Handlers = {h1, h2}
  MaxRecoveries = 0
PROPERTIES
  OneRunnerAgain
