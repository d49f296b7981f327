SPECIFICATION MCSpec
CONSTANTS
  None = None
  Principals <- MCPrincipals
  Plans <- MCPlans
  Answers <- MCAnswers
  Classes = {"INTERNAL", "CONFIDENTIAL"}
  Tenant = "t"
  Retention = 1
  MaxNow = 1
  MaxSnapshots = 5
  Approvals <- MCApprovals
  Attempts <- MCAttempts
  Outcomes <- MCOutcomes
  Verifications <- MCVerifications
  Requests <- MCRequests
  Identities <- MCIdentities
  Protection = "CONFIDENTIAL"
  MaxBundles = 2
  Responses <- MCResponses
  MaxPayload = 1
  Nothing = Nothing
INVARIANT PortableReplayIsEqual
CHECK_DEADLOCK FALSE
