CONSTANTS
  MaxSessions = 1
  MaxReads = 8
  MaxFaults = 0
  MaxResets = 0
  QueueCapacity = 3
  PopLimit = 1
  InvalidCount = 0
  BurstSizes = {0, 3}
  HoldBacks = {0}
  HandlerStops = FALSE
SPECIFICATION Spec
INVARIANT GapsAreMarked
