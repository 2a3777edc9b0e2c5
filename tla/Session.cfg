CONSTANTS
  KillAfter = 3
  PrepareLimit = 10
  StepSeconds = 1
  BufferSize = 1
  MaxOutput = 2
  MaxInput = 1
SPECIFICATION FairSpec
INVARIANTS
  DoneIsComplete
  ServedAfterShortWait
  NothingLeftInJob
PROPERTIES
  AbandonedJobEnds
  ClientReturns
CHECK_DEADLOCK FALSE
