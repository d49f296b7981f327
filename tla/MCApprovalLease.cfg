SPECIFICATION FairApprovalSpec
CONSTANTS
  Executions = {e1}
  Intents = {i1}
  Workers = {w1, w2, w3}
  None = None
  Op = Op
  Operations <- MCOperations
  OperationOf <- MCOperationOf
  ClaimIdOf <- MCClaimIdOf
  TTL = None
  MaxTime = 0
  MaxCrashes = 1
PROPERTIES
  ImplementsLease
  ClaimResolved
CHECK_DEADLOCK FALSE
