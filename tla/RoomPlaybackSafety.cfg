SPECIFICATION MCSpec
CONSTANTS
  a = a
  b = b
  q1 = q1
  q2 = q2
  m1 = m1
  m2 = m2
  m3 = m3
  x1 = x1
  Zero = Zero
  None = None
  Tracks = {a, b}
  Reqs = {q1, q2}
  Positions <- MCPositions
  MaxQueue = 3
  MaxTime = 2
  Arrays = {m1, m2, m3}
  Readers = {x1}
SYMMETRY Interchangeable
INVARIANTS
  TypeOK
  IndexInRange
  AnchorNotFuture
  NeverBehindListeners
  ChangesAreAnnounced
PROPERTIES
  CurrentTrackGoesOn
  SnapshotsAreKept
