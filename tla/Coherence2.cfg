CONSTANTS
  N = 2
  SysNum = 1
  Readers = {0, 1}
  Writers = {0, 1}
  Evictors = {0, 1}
SPECIFICATION Spec
INVARIANTS NoAssert Agreement SpinIsAnswered
PROPERTIES ImplementsDirectory
CHECK_DEADLOCK FALSE
