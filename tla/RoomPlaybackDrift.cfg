SPECIFICATION Spec
CONSTANTS
  a = a
  b = b
  q1 = q1
  q2 = q2
  Tracks = {a}
  Reqs = {q1, q2}
  Positions <- MCPositions
  MaxQueue = 1
  MaxTime = 2
INVARIANT ListenersInStep
