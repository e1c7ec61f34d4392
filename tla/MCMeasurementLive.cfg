CONSTANTS
  MaxSessions = 1
  MaxReads = 4
  MaxFaults = 1
  MaxResets = 1
  QueueCapacity = 2
  PopLimit = 1
  InvalidCount = 1
  BurstSizes = {0, 2}
  HoldBacks = {0, 1}
  HandlerStops = TRUE
SPECIFICATION FairSpec
PROPERTIES
  CallsReturn
  BuffersFlushed
