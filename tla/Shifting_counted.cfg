SPECIFICATION Spec
CONSTANTS
  h1 = h1
  h2 = h2
  i1 = i1
  i2 = i2
  a = a
  b = b
  Manual = manual
  Handlers = {h1, h2}
  Rows = {i1}
  Goods = {1, 2}
  Labels = {a}
  LabelQty <- TwoEach
  Amounts = {1}
  PoolSize = 3
  MaxOthers = 1
INVARIANT
  OnlyCountedLeaves
