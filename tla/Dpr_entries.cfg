SPECIFICATION DprSpec
CONSTANTS
  h1 = h1
  h2 = h2
  Requests = {h1, h2}
  Slots = {1, 2, 3}
  Entries <- StopAndGo
  Corrected = {0}
  PlanCap = 1
  Extras = {1}
  MaxRows = 3
  MaxGrants = 1
  MaxFailures = 1
SYMMETRY Same
INVARIANTS
  TwinsBounded
  CapBounded
  GenuineSupersedes
