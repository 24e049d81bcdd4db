CONSTANTS
  Uppers = {a, b}
  Lowers = {x, y}
  Threads = {t1, t2}
  MaxCalls = 3
  None = None
SPECIFICATION Spec
INVARIANT NoLostInsert
CHECK_DEADLOCK FALSE
