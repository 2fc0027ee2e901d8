SPECIFICATION FairSpec
CONSTANTS
  Documents <- AllDocuments
  Requests <- RequestsFor
  Tools <- ToolsFor
  Deployments <- DeploymentsFor
INVARIANTS
  LinkedIsComplete
  NothingTargetedIsLeft
  SurvivorsDisclosed
  KeptStays
  CleanIsStable
PROPERTIES
  JobIsSettled
CHECK_DEADLOCK FALSE
