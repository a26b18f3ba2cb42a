SPECIFICATION FairSpec
CONSTANTS
  k1 = k1
  k2 = k2
  r1 = r1
  r2 = r2
  u1 = u1
  q1 = q1
  q2 = q2
  None = None
  Codes = {k1, k2}
  Rooms = {r1, r2}
  Users = {u1}
  Reqs = {q1, q2}
INVARIANTS
  TypeOK
  ClosedIsUnlisted
PROPERTIES
  UnusedIsCollected
