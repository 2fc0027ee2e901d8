SPECIFICATION Spec
CONSTANTS
  Job = {j1, j2}
  Proc = {p1, p2}
  Request = {}
  Wrapped = FALSE
  Serializable = FALSE
  MaxConcurrent = 2
  MaxCrash = 1
  FaultKind <- LostCalls
  MaxFault = 1
SYMMETRY Symmetry
INVARIANTS
  JobRunsAtMostOnce
  AnnouncedAtMostOnce
