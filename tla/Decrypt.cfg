SPECIFICATION ModuleSpec
CONSTANTS
  c1 = c1
  c2 = c2
  Caller = {c1, c2}
  Duration = {0, 1, 2, 3}
  INT32_MAX = 2
  UINT32_MAX = 3
  MIN_DECRYPTION_TIMES = 2
  MaxDecrypts = 5
  MaxRefused = 1
  Nobody = Nobody
INVARIANTS
  StatisticsAreTrue
  DecryptionIsSafe
\* A released module with no call under way, and the bounds, end a behaviour.
CHECK_DEADLOCK FALSE
