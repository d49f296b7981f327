SPECIFICATION MCSpec
CONSTANTS
  None = None
  Absent = Absent
  Artifacts <- MCArtifacts
  Signers <- MCSigners
  TrustStores <- MCStores
  Policies <- MCPolicies
  Profiles <- MCProfiles
  Contexts <- MCContexts
  Publisher = "acme"
  TrustPolicy = "tp"
  Limits <- MCLimits
  Bytes <- MCBytes
  MaxClock = 1
  MaxBuilds = 2
  RootPath <- MCRootPath
  RootContents <- MCRoots
  ContentsAt <- MCContentsAt
  IncludeRoot <- MCIncludeRoot
  MaxDepth = 2
  MaxFiles = 3
  MaxBytes = 4
  MaxEdits = 1
INVARIANTS
  BuiltVerifies
  VerifiedIsBuilt
  TrustedWriteIsSigned
  BundleIsClosure
  RefusedForCause
CHECK_DEADLOCK FALSE
