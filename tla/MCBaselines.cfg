CONSTANTS
  None = None
  Exit = Exit
  v1 = v1
  v2 = v2
  MaxCrashes = 2
SPECIFICATION Spec
CONSTRAINTS DurablesBounded ROARTBounded
INVARIANTS HeadersTell FindsOrExits DepthsTellBlocks AnswersRight
PROPERTIES  PutReturns
CHECK_DEADLOCK FALSE
