SPECIFICATION RuntimeSpec
CONSTANTS
  Skills <- LoopedCheck
  Inputs = {"year"}
  NestingMax = 4
  Timeout = 1
  Results <- CompleteAnswers
  NoResult = NoResult
  MaxClock = 1
  MaxFaults = 0
INVARIANT ErrorsAreResults
CHECK_DEADLOCK FALSE
