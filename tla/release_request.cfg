SPECIFICATION FairSpec
CONSTANTS
  Request = {r1, r2}
  Token = {t1}
  Asked <- AskedForToken
  Serializable = FALSE
  MaxCrash = 2
  MaxFault = 1
INVARIANTS
  TokenSpentOnce
  ReleasesAreSettled
PROPERTIES
  AlteringRunIsAuthorized
  ReleaseSettles
CHECK_DEADLOCK FALSE
