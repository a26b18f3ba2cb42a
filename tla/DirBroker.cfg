SPECIFICATION FairSpec
CONSTANTS
  default = default
  colon = colon
  left = left
  right = right
  transcode = transcode
  vol1 = vol1
  c1 = c1
  s1 = s1
  s2 = s2
  s3 = s3
  None = None
  Dirs = {default, colon}
  Others = {transcode}
  Default = default
  Vol = vol1
  Pieces <- MCPieces
  Conns = {c1}
  Slots = {s1, s2, s3}
  MaxFaults = 2
INVARIANTS
  TypeOK
  TablesAgree
  VolLeadsToMedia
PROPERTIES
  AnswerNotTorn
  RestartSucceeds
  ListingCatchesUp
