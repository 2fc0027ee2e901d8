SPECIFICATION FairSpec
CONSTANTS
  p1 = p1  p2 = p2  p3 = p3  c1 = c1  c2 = c2  c3 = c3
  u1 = u1  u2 = u2  u3 = u3  u4 = u4  b1 = b1  b2 = b2  b3 = b3  r1 = r1
  NoKek = NoKek  Cmk = Cmk
  d1 = d1  d2 = d2  k1 = k1  k2 = k2  k3 = k3  k4 = k4  k5 = k5
  Proc <- MCProc
  Writer <- MCWriter
  Key <- MCKey
  Content <- MCContent
  ProcOf <- MCProcOf
  KeyOf <- MCKeyOf
  DataOf <- MCDataOf
  CommandLine <- MCCommandLine
  Deployments <- MCDeployments
  MaxCrash = 1
  MaxFault = 1
  Reader <- MCReader
  ReaderProc <- MCReaderProc
  Databases = {"sqlite", "postgres"}
  Bodies <- MCBodies
INVARIANTS TypeOK RowsNameOriginals RefusalsAreTrue
PROPERTIES IsWriteOnce IntakeGoesOn
CHECK_DEADLOCK FALSE
