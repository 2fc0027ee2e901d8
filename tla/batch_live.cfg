SPECIFICATION FairSpec
CONSTANTS
  Job = {j1, j2}
  Proc = {p1}
  Request = {r1}
  Wrapped = FALSE
  Serializable = FALSE
  MaxConcurrent = 1
  MaxCrash = 1
  FaultKind <- CheckFaults
  MaxFault = 1
INVARIANTS
  CountsAreTrue
PROPERTIES
  CancelSparesClaimed
  BatchEnds
