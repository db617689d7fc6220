SPECIFICATION FairSpec
CONSTANTS
  t1 = t1
  t2 = t2
  r1 = r1
  r2 = r2
  r3 = r3
  r4 = r4
  Call = {t1, t2}
  Recipient = {r1, r2, r3, r4}
  RETRY_TIMES = 2
  MaxDeaths = 2
  MaxRefusals = 1
  None = None
INVARIANTS
  TypeOK
  ProxyIsWatched
PROPERTIES
  WorkingProxyKept
  StaysConnected
