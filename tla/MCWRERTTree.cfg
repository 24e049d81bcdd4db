CONSTANTS
  a = 0
  b = 1
  c = 2
  SubKeys = {0, 1, 2}
  Keys <- UpperABC
  Values = {v1, v2}
  None = None
SPECIFICATION Spec
INVARIANTS HeaderTellsPlace SlotsMatchLevel 
PROPERTIES ImplementsMap
