CONSTANTS
  W = 4
  M = 2
  Slots = 1
  Chunk = 1
  v1 = v1
  v2 = v2
  Values = {v1}
  None = None
  Keys <- FewKeys
  Failures = {"power"}
  IsRoot = TRUE
  LineSlots = 4
  MaxCrashes = 1
SPECIFICATION RecSpec
INVARIANTS AckedSurvive
CHECK_DEADLOCK FALSE
