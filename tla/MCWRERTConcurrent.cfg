CONSTANTS
  W = 6
  M = 2
  Slots = 1
  Chunk = 1
  Keys <- SubKeys
  None = None
  Threads = {t1, t2}
  MaxCalls = 10
CONSTRAINT LoadedFirst
SPECIFICATION Spec
INVARIANTS NoneLost NoTwins SnapshotCurrent SearchCurrent
PROPERTY CallsReturn
