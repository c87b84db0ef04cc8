SPECIFICATION GroupSpec
CONSTANTS
  u1 = u1
  u2 = u2
  u3 = u3
  r1 = r1
  r2 = r2
  h1 = h1
  h2 = h2
  w1 = w1
  w2 = w2
  NoRoom = NoRoom
  NoUser = NoUser
  Users = {u1, u2, u3}
  Rooms = {r1}
  Handlers = {h1, h2}
  Workers = {w1, w2}
  WorkerOf <- OneEach
  MaxPeople = 1
  MaxFaults = 1
INVARIANT
  EndedIsEmpty
