CONSTANTS
  N = 2
  SysNum = 1
  Readers = {0, 1}
  Writers = {0, 1}
  Evictors = {}
SPECIFICATION Spec
INVARIANT NoLostUpdate
CHECK_DEADLOCK FALSE
