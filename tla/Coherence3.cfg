CONSTANTS
  N = 3
  SysNum = 1
  Readers = {2}
  Writers = {0, 1}
  Evictors = {2}
SPECIFICATION Spec
INVARIANTS Agreement NoOrphan SingleWriter
CHECK_DEADLOCK FALSE
VIEW ControlView
