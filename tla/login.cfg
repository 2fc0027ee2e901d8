SPECIFICATION Spec
CONSTANTS
  t1 = t1  t2 = t2  t3 = t3  t4 = t4  p1 = p1  p2 = p2  k1 = k1  k2 = k2
  Missing = Missing  Torn = Torn
  Proc = {p1, p2}
  Peer = {k1, k2}
  Thread <- MCThread
  ProcOf <- MCProcOf
  PeerOf <- MCPeerOf
  Person <- MCPerson
  Invited <- MCInvited
  Sites <- MCSites
  MaxFailures = 2
  Window = 3
  Lockout = 2
  Ttl = 1
  MaxSecrets = 4
  MaxRestarts = 2
SYMMETRY MCSymmetry
INVARIANTS TypeOK GuessesAreCapped LockoutsAreExact SessionsLastAsPromised OneSigningKey
CHECK_DEADLOCK FALSE
