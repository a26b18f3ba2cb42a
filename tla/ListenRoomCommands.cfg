SPECIFICATION Spec
CONSTANTS
  host = host
  guest = guest
  c1 = c1
  c2 = c2
  q1 = q1
  q2 = q2
  None = None
  Users = {host, guest}
  Host = host
  UserOf <- GuestTwice
  Conns = {c1}
  Reqs = {q1, q2}
  Cap = 2
  MaxVersion = 2
SYMMETRY Interchangeable
CHECK_DEADLOCK FALSE
INVARIANTS
  FeedIsCurrent
  KickedIsLast
PROPERTIES
  StreamSkipsNoVersion
  FeedRefined
