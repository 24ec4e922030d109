SPECIFICATION Spec
CONSTANTS
  Thread = {t1}
  Alarm = {a1, a2}
  Scheduler = {s1, s2}
  MaxDelay = 1
  MaxSets = 2
INVARIANTS
  SleepsLightly
  OneShotOnce
PROPERTIES
  ArmedFires
  ShutdownReturns
CHECK_DEADLOCK FALSE
