CONSTANTS
  W = 30
  M = 5
  LayoutKeys <- PeriodicKeys
  Paths = {p1, p2}
  PoolSize = 192
  Sizes = {1, 64, 100}
  MaxPools = 2
  MaxBlocks = 4
  MaxInits = 2
  Clients = {c1, c2, c3}
  a = 0
  b = 1
  c = 2
  SubKeys = {0, 1, 2}
  Keys <- UpperABCOnce
  Values = {v1, v2}
  None = None
SPECIFICATION MCSpec
INVARIANTS SlotReached VersionTestsExact ArithmeticIsSlicing Disjoint InsidePool WordExact Exclusion 
PROPERTIES ImplementsLock WriterEnters
CHECK_DEADLOCK FALSE
