SPECIFICATION HostSpec
CONSTANTS
  Thread = {t1, t2, t3}
  Word = 8
  N = 1
  AppThread = {a1, a2}
  S = 2
  UserMem = 32
  MinMem = 8
  Unit = 8
  Chunk = 8
  Line = 4
  Sizes = {3, 8}
  LineSize = 4
  MaxAddr = 7
  MaxSize = 17
INVARIANTS Exclusive WordCounts MemorySound SlabsSound
PROPERTY SomebodyGetsIn
CHECK_DEADLOCK FALSE
