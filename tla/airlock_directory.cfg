SPECIFICATION Spec
CONSTANTS
  j1 = j1  j2 = j2  d1 = d1  d2 = d2  k1 = k1  k2 = k2  digicert = digicert  other = other
  Job = {j1, j2}
  Wrapped = {j1}
  Download = {d1, d2}
  Requester = d1
  Key = {k1, k2}
  Stranger = Stranger
  Cert = {digicert, other}
  DefaultPins = {digicert}
  Sites <- MCSites
INVARIANTS AirlockVerifies
CHECK_DEADLOCK FALSE
