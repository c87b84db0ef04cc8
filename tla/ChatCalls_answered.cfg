SPECIFICATION Spec
CONSTANTS
  u1 = u1
  u2 = u2
  u3 = u3
  c1 = c1
  c2 = c2
  h1 = h1
  h2 = h2
  NoCall = NoCall
  Users = {u1, u2}
  Calls = {c1}
  Handlers = {h1, h2}
  MaxFaults = 0
INVARIANTS
  AnsweredIsNotMissed
