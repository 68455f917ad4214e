SPECIFICATION Spec
CONSTANTS
  Thread = {t1, t2}
  Block = {b1, b2}
  Ways = 1
  Share = 2
  Ops = {"read", "write"}
  Losable = {b1}
  None = None
INVARIANTS OneOwner OneLine EvictedAlone
VIEW ControlView
SYMMETRY Names
CHECK_DEADLOCK FALSE
