SPECIFICATION FairMCSpec
CONSTANTS
  None = None
  Principals <- MCPrincipals
  Plans <- MCPlans
  Answers <- MCAnswers
  Classes = {"INTERNAL", "CONFIDENTIAL"}
  Tenant = "t"
  Retention = 1
  MaxNow = 1
  MaxSnapshots = 5
  Approvals <- MCApprovals
  Attempts <- MCAttempts
  Outcomes <- MCOutcomes
  Verifications <- MCVerifications
  Requests <- MCRequests
  Identities <- MCIdentities
  Protection = "CONFIDENTIAL"
  MaxBundles = 2
  Responses <- MCResponses
  MaxPayload = 1
  Nothing = Nothing
INVARIANTS
  ReplayUsesRecorded
  MatchMeansSameCalls
  ReplayReproduces
  EvidenceIsOneOperation
  CompleteReplayIsRecorded
  IsolatedAnswerIsTrue
PROPERTY IsolationEnds
CHECK_DEADLOCK FALSE
