SPECIFICATION FairSpec
CONSTANTS
  c1 = c1
  c2 = c2
  e1 = e1
  e2 = e2
  e3 = e3
  Call = {c1, c2}
  Event = {e1, e2, e3}
  MaxReleases = 2
  None = None
INVARIANTS
  TypeOK
  NothingDangles
  NothingLeftOpen
PROPERTIES
  ReleaseEnds
  IsChannel
CHECK_DEADLOCK FALSE
