SPECIFICATION FairSpec
CONSTANTS
  Matter = {m1}
  Proc = {p1, p2}
  Slot = {s1, s2}
  Serializable = TRUE
  Attempts = 3
  MaxCall = 1
  MaxCrash = 0
PROPERTIES
  AppendEnds
CHECK_DEADLOCK FALSE
