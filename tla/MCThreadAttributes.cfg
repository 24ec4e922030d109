SPECIFICATION Spec
CONSTANTS
  Thread = {t1, t2, t3}
  Main = Main
  Priorities <- MCPriorities
  Cores <- MCCores
  StackSizes = {1, 9}
  ProcessPriority = 44
  Lowest = 63
  MinHostStack = 4
  PageSize = 4
INVARIANT RelativeOrderKept
CHECK_DEADLOCK FALSE
