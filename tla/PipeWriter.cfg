CONSTANTS
  MaxBytes = 6
  MaxBuffer = 3
  Capacity = 2
SPECIFICATION FairSpec
INVARIANTS
  WaitsOnlyWhenEmpty
PROPERTIES
  Delivered
  DestructorReturnsOrHangs
  ImplementsChannel
CHECK_DEADLOCK FALSE
