CONSTANTS
  W = 5
  M = 2
  Slots = 1
  Chunk = 1
  v1 = v1
  v2 = v2
  Values = {v1}
  None = None
  Keys <- CrowdedKeys
SPECIFICATION MCSpec
CONSTRAINT WideBounded
INVARIANTS TypeOK DepthBounded DirectoryAligned NoRevival Routed NoGhost WideLivePrefix ScanAllExact ScanMissesKnown
PROPERTIES ImplementsMap WideImplementsMap InsertReturns
