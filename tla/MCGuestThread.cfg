SPECIFICATION Spec
CONSTANTS
  Controller = {c1, c2}
  MaxLives = 2
  MaxSuspend = 2
INVARIANTS
  TypeOK
  JoinAnswersOwn
  SoleUser
PROPERTIES
  ResumedStarts
CHECK_DEADLOCK FALSE
