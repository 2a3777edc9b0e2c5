CONSTANTS
  a = a  b = b
  Clients = {a, b}
  Events = {C, BREAK}
  None = None
  MaxPresses <- TwiceAndOnce
SPECIFICATION FairSpec
INVARIANTS
  OrdersFollowPresses
  OrdersDelivered
PROPERTY
  OrdersExecuted
CHECK_DEADLOCK FALSE
