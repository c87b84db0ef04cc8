SPECIFICATION BoardSpec
CONSTANTS
  p1 = p1
  p2 = p2
  h1 = h1
  h2 = h2
  NoPlan = NoPlan
  Plans = {p1, p2}
  Judged = {p1}
  Moulded = {p2}
  Handlers = {h1, h2}
  MaxRecoveries = 1
SYMMETRY Same
INVARIANTS
  OneVerdictPerStage
  StageIsTold
PROPERTIES
  RejectionStands
  RunsApproved
