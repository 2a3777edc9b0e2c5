CONSTANTS
  BufferSize = 1
  MaxInput = 2
  MaxOutput = 1
SPECIFICATION FairSpec
INVARIANTS
  DataInOrder
  EndsAfterLastOutput
PROPERTIES
  DataArrives
  ReturnsOrHangs
CHECK_DEADLOCK FALSE
