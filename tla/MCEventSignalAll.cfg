SPECIFICATION Spec
CONSTANTS
  Thread = {t1, t2, t3}
  NoThread = NoThread
  MaxCount = 2
  Pair = {t1, t2}
  Key = {k1, k2}
  Host = {h1, h2, h3}
  NoHost = NoHost
  NoKey = NoKey
INVARIANTS
  SignalAllReleasesAll
CHECK_DEADLOCK FALSE
