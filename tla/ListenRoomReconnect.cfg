SPECIFICATION Spec
CONSTANTS
  host = host
  guest = guest
  c1 = c1
  c2 = c2
  q1 = q1
  q2 = q2
  None = None
  Users = {host, guest}
  Host = host
  UserOf <- GuestTwice
  Conns = {c1, c2}
  Reqs = {q1}
  Cap = 2
  MaxVersion = 1
SYMMETRY Interchangeable
CHECK_DEADLOCK FALSE
INVARIANTS
  TypeOK
  ChannelDiscipline
  RosterCoversMembers
PROPERTIES
  CutOnlyForCause
