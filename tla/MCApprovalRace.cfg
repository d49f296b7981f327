SPECIFICATION ApprovalSpec
CONSTANTS
  Executions = {e1}
  Intents = {i1, i2}
  Workers = {w1, w2}
  None = None
  Op = Op
  Operations <- MCOperations
  OperationOf <- MCOperationOf
  ClaimIdOf <- MCClaimIdOf
  TTL = 1
  MaxTime = 1
  MaxCrashes = 1
SYMMETRY Symmetry
INVARIANTS
  ApprovalTypeOK
  AtMostOneResume
  ExclusiveClaim
  ApprovedAsDecided
  SavedBeforePublished
  NoLeakedClaim
CHECK_DEADLOCK FALSE
