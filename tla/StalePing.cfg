CONSTANTS
  KillAfter = 3
  PrepareLimit = 10
  StepSeconds = 1
  BufferSize = 1
  MaxOutput = 0
  MaxInput = 0
SPECIFICATION Spec
INVARIANT
  LiveClientServed
CHECK_DEADLOCK FALSE
