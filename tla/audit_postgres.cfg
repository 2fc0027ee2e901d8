SPECIFICATION Spec
CONSTANTS
  Matter = {m1}
  Proc = {p1, p2}
  Slot = {s1}
  Serializable = FALSE
  Attempts = 3
  MaxCall = 3
  MaxCrash = 1
SYMMETRY Symmetry
INVARIANTS
  ChainVerifies
  RowsWithEvent
PROPERTIES
  IsLog
CHECK_DEADLOCK FALSE
