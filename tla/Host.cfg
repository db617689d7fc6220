SPECIFICATION FairSpec
CONSTANTS
  s1 = s1
  s2 = s2
  s3 = s3
  System = {s1, s2, s3}
  NotLoadedMark = 10
  UnloadTime = 3
  CheckTime = 1
  None = None
INVARIANTS
  TypeOK
  CountMatches
PROPERTIES
  UnloadedOnlyUnused
  UnusedIsUnloaded
  DeadSystemsReleased
