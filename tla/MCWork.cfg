SPECIFICATION WorkSpec
SYMMETRY WorkerSymmetry
CONSTANTS
  Configs <- MCConfigs
  Execs = {"e1", "e2"}
  HostExec = "e2"
  Retention <- MCRetention
  None = None
  Workers = {w1, w2}
  Payloads <- MCPayloads
  Catalogue <- MCCatalogue
  Answers = {"a"}
  Verifications = {"FAILED"}
  WriteEvents = {"WRITE_VERIFICATION_FAILED"}
  Identities <- MCIdentities
  MaxNow = 1
  MaxDamage = 1
  MaxDepth = 1
  MaxNodes = 1
  MaxWrites = 1
  MaxSubmits = 1
  MaxFaults = 1
INVARIANTS
  ConfirmedIsKept
  RunsOnce
  ProgressTellsTruth
  AnswersAreOnRecord
CONSTRAINT Focus
CHECK_DEADLOCK FALSE
