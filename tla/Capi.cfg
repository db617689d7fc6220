SPECIFICATION FairSpec
CONSTANTS
  s1 = s1
  s2 = s2
  Setter = {s1, s2}
  MaxEvents = 2
  MaxDestroys = 2
  None = None
INVARIANTS
  TypeOK
  CallbacksAreCurrent
  AnswersTellTheCause
PROPERTIES
  CallsReturn
CHECK_DEADLOCK FALSE
