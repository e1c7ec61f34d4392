CONSTANTS
  MaxRequests = 3
  MaxStalls = 1
  MaxDelay = 16
  Patience = 2
  Silence = 5
  Radix = 4
  Flag = 4
  Lengths = {2, 3}
  Capacity = 2
CHECK_DEADLOCK FALSE
SPECIFICATION FairSpec
INVARIANTS
  UndisturbedIsTrue
  ExecutedWithinBounds
PROPERTY ExchangesEnd
