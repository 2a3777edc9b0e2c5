CONSTANTS
  Arguments <- Few
  Environments <- OneAndTwo
  Launches = 2
SPECIFICATION Spec
INVARIANTS
  ProcessAsRequested
  InheritsOwnEnds
  HandlesAccounted
  NothingLeft
CHECK_DEADLOCK FALSE
