CONSTANTS
  MaxRequests = 2
  MaxStalls = 0
  MaxDelay = 16
  Patience = 2
  Silence = 5
  Radix = 4
  Flag = 4
  Lengths = {2}
  Capacity = 5
CHECK_DEADLOCK FALSE
SPECIFICATION Spec
INVARIANT AnswerIsToTheRequest
