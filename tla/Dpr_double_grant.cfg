SPECIFICATION DprSpec
CONSTANTS
  h1 = h1
  h2 = h2
  Requests = {h1, h2}
  Slots = {1, 2, 3}
  Entries <- StopAndGo
  Corrected = {0, 1}
  PlanCap = 2
  Extras = {1}
  MaxRows = 1
  MaxGrants = 2
  MaxFailures = 0
SYMMETRY Same
INVARIANT
  GrantedOnce
