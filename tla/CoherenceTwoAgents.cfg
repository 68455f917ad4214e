CONSTANTS
  N = 2
  SysNum = 3
  Readers = {0, 1}
  Writers = {0, 1}
  Evictors = {}
SPECIFICATION Spec
INVARIANT Agreement
CHECK_DEADLOCK FALSE
