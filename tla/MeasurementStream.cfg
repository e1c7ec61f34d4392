CONSTANTS
  MaxSessions = 2
  MaxReads = 5
  MaxFaults = 2
  MaxResets = 0
  QueueCapacity = 2
  PopLimit = 2
  InvalidCount = 1
  BurstSizes = {0, 2}
  HoldBacks = {0, 1}
  HandlerStops = FALSE
SPECIFICATION Spec
INVARIANTS
  TypeOK
  SingleProducerSingleConsumer
  DeliveredInOrder
  NothingVanishes
  SessionsStandAlone
PROPERTY BlocksReachBurstSize
INVARIANT MarkersNotInvented
PROPERTY ImplementsStream
