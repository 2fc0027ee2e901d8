SPECIFICATION Spec
CONSTANTS
  alice = alice
  bob = bob
  User = {alice, bob}
  Request = {r1, r2, r3, r4}
  Unknown = {"owner"}
  Asked <- Requests
  Serializable = TRUE
  MaxCrash = 1
  MaxFault = 1
SYMMETRY Symmetry
INVARIANTS
  LastAdminStays
  ActsAreLogged
PROPERTIES
  ActsWithPermission
CHECK_DEADLOCK FALSE
