SPECIFICATION FairSpec
CONSTANTS
  system = system
  session = session
  c1 = c1
  c2 = c2
  r1 = r1
  r2 = r2
  System = {system}
  Session = {session}
  Call = {c1, c2}
  Held = {c1}
  Ref = {r1, r2}
  MaxTasks = 1
  MaxArgs = 4
  None = None
INVARIANTS
  TypeOK
  LivesWhileUsed
  ListenersKept
  AnswersTellTheCause
PROPERTIES
  IsPromise
CHECK_DEADLOCK FALSE
