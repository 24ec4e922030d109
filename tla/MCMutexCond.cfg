SPECIFICATION FairSpec
CONSTANTS
  Thread = {t1, t2, t3}
  Mutex = {m1}
  Cond = {c1}
  NoThread = NoThread
  NoMutex = NoMutex
  NoCond = NoCond
  MaxDepth = 2
INVARIANTS
  TypeOK
  MutualExclusion
  DepthExact
PROPERTIES
  CountOnlyByOwner
  ImplementsMonitor
  SignalledReturns
CHECK_DEADLOCK FALSE
