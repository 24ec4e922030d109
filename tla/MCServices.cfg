SPECIFICATION Spec
CONSTANTS
  Thread = {t1, t2, t3}
  Pair = {t1, t2}
  NoThread = NoThread
  Stream = {s1, s2}
  NoStream = NoStream
  FileSize = 2
  Client = {c1, c2}
  NoClient = NoClient
  MaxAdded = 1
  Directory <- MCDirectory
  Prefix <- MCPrefix
  Root <- MCRoot
  MaxMappings = 2
  FlockMax = 3
  DriverId = {d1, d2}
  MaxDrivers = 2
  Datum = {x}
  Blank = Blank
  MaxRegistrations = 4
  Word = 16
  CacheSize = 4
  HostMemory = 10
  Address = {p1, p2, p3}
  Sizes = {1, 2, 4, 5, 15}
  Region = {r1, r2}
  NoRegion = NoRegion
  GuestHeap = GuestHeap
  Block = {b1}
  Library = {coreinit, gx2, other}
  Registered = {coreinit, gx2}
  NoLibrary = NoLibrary
  MaxModules = 2
  MaxHeld = 2
  Anchors <- MCAnchors
  Days = 146097
  Hours = 2
  Minutes = 2
  Seconds = 2
  TimerHz = 7
  Micros = 4
  PerMilli = 2
  Instants <- MCInstants
SYMMETRY Alike
INVARIANTS
  HeldStaysGood
  CursorsKept
  SessionsKept
  EndsOnce
  BudgetKept
  DatesRight
  RoundTrip
CHECK_DEADLOCK FALSE
