CONSTANTS
  BufferSize = 1
  MaxInput = 0
  MaxOutput = 1
SPECIFICATION Spec
INVARIANT
  AllOutputShown
CHECK_DEADLOCK FALSE
