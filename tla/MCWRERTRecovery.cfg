CONSTANTS
  W = 5
  M = 2
  Slots = 1
  Chunk = 1
  v1 = v1
  v2 = v2
  Values = {v1, v2}
  None = None
  Keys <- CrowdedKeys
  Failures = {"kill", "power"}
  IsRoot = TRUE
  LineSlots = 4
  MaxCrashes = 2
SPECIFICATION RecSpec
CONSTRAINT Bounded
INVARIANTS LossConfined NeverWrong PointersRight
CHECK_DEADLOCK FALSE
