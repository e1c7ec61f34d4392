CONSTANTS
  MinRate = 2
  FullRate = 8
  DriftRows = 4
  Rates = {4}
  BurstSizes = {}
  Frequencies = {}
  Channels = 2
  MaxLevel = 1
  MaxFaults = 2
  MaxKills = 1
  MaxResets = 1
SPECIFICATION Spec
INVARIANTS
  DriftDataHold
PROPERTIES
  CollectsUnderDriftSettings
  HandlersEndOrAreReported
  DeltasStableWhileProcessed
