SPECIFICATION WriteSpec
CONSTANTS
  Executions = {e1, e2}
  Intents = {i1, i2}
  None = None
  Op = Op
  Operations <- MCOperations
  OperationOf <- MCOperationOf
  Guarantees <- MCGuarantees
  GuardInputs <- MCGuardInputs
  Recovery = 1
  MaxTime = 2
  MaxWriteFaults = 2
INVARIANTS
  InvokedUnderControls
  OneEffectPerOperation
  NeverDenied
  ReportedCommitIsReal
  VerificationKeepsCommit
  OutcomeOnRecord
CHECK_DEADLOCK FALSE
