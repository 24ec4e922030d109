SPECIFICATION Spec
CONSTANTS
  Thread = {t1}
  Alarm = {a1}
  Scheduler = {s1}
  MaxDelay = 1
  MaxSets = 1
PROPERTIES
  CancelledNeverFires
CHECK_DEADLOCK FALSE
