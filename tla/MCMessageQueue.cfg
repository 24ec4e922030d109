SPECIFICATION Spec
CONSTANTS
  Thread = {t1, t2, t3}
  Msg = {a, b}
  NoMsg = NoMsg
  MaxSize = 3
INVARIANTS
  TypeOK
  WakeupsCover
PROPERTIES
  ImplementsQueue
  NobodySleepsOn
CHECK_DEADLOCK FALSE
