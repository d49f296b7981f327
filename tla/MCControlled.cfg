SPECIFICATION ControlledSpec
CONSTANTS
  Executions = {e1, e2}
  Intents = {i1, i2}
  Workers = {w1}
  None = None
  Op = Op
  Operations <- MCOperations
  OperationOf <- MCOperationOf
  ClaimIdOf <- MCClaimIdOf
  TTL = None
  MaxTime = 1
  MaxDecisions = 2
  MaxCrashes = 1
  Guarantees <- MCGuarantees
  GuardInputs <- MCGuardInputs
  Recovery = 1
  MaxWriteFaults = 1
CONSTRAINT FewDecisions
SYMMETRY Symmetry
INVARIANT WriteImpliesDecision
PROPERTY ImplementsWrite
CHECK_DEADLOCK FALSE
