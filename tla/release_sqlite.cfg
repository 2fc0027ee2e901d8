SPECIFICATION Spec
CONSTANTS
  Job = {j1, j2}
  Proc = {p1}
  Request = {r1, r2}
  Wrapped = TRUE
  Serializable = TRUE
  MaxConcurrent = 2
  MaxCrash = 1
  FaultKind <- TransientFaults
  MaxFault = 1
SYMMETRY Symmetry
INVARIANTS
  ChildrenAccountedFor
PROPERTIES
  TerminalIsFinal
  HealedBeforeServing
