SPECIFICATION FairSpec
CONSTANTS
  t1 = t1
  t2 = t2
  t3 = t3
  t4 = t4
  t5 = t5
  s1 = s1
  s2 = s2
  Thread = {t1, t2, t3, t4, t5}
  Session = {s1, s2}
  MaxSessions = 1
  None = None
INVARIANTS
  TypeOK
  UsedIsThere
  SessionsAccountedFor
PROPERTIES
  IsQuota
  EveryCallReturns
CHECK_DEADLOCK TRUE
