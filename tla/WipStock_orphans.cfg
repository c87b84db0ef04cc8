SPECIFICATION Spec
CONSTANTS
  h1 = h1
  h2 = h2
  r1 = r1
  r2 = r2
  i1 = i1
  i2 = i2
  Handlers = {h1, h2}
  Records = {r1, r2}
  Placed = {r1}
  Items = {i1, i2}
  Amounts <- Signed
  MaxQty = 2
  NoRecord = NoRecord
  NoItem = NoItem
INVARIANT
  NoOrphans
