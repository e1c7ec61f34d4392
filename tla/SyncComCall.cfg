CONSTANTS
  MaxRequests = 3
  MaxStalls = 0
  MaxDelay = 3
  Patience = 4
  Silence = 5
  Radix = 4
  Flag = 4
  Lengths = {1, 2, 5}
  Capacity = 5
CHECK_DEADLOCK FALSE
SPECIFICATION Spec
PROPERTY ImplementsCall
INVARIANT EveryRequestAnswered
