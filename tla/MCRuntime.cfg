SPECIFICATION FairRuntimeSpec
CONSTANTS
  Skills <- AllSkills
  Inputs = {"year"}
  NestingMax = 2
  Timeout = 1
  Results <- Answers
  NoResult = NoResult
  MaxClock = 2
  MaxFaults = 2
INVARIANTS
  ResultMatchesTrace
  EvidenceOnTrail
  CompletenessIsHonest
  WithinLimits
PROPERTIES
  LateRunStartsNothing
  RunEnds
CHECK_DEADLOCK FALSE
