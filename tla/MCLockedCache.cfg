SPECIFICATION Spec
CONSTANTS
  Word = 16
  CacheSize = 4
  HostMemory = 10
  Address = {p1, p2, p3}
  Sizes = {1, 2, 4, 5, 15}
  CacheThread = {t1, t2}
  NoOne = NoOne
  Primed = FALSE
INVARIANT BudgetKept
CHECK_DEADLOCK FALSE
