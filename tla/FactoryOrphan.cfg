SPECIFICATION Spec
CONSTANTS
  p1 = p1
  p2 = p2
  clearplay = clearplay
  other = other
  s1 = s1
  s2 = s2
  s3 = s3
  Pid = {p1, p2}
  Plugin = {clearplay, other}
  System = {s1, s2, s3}
  MaxSystems = 1
  MaxListeners = 2
  None = None
INVARIANTS NoOrphanedSystem
\* The ability may stop, which ends every handler.
CHECK_DEADLOCK FALSE
