CONSTANTS
  MinRate = 2
  FullRate = 8
  DriftRows = 4
  Rates = {1, 4}
  BurstSizes = {2}
  Frequencies = {2, 3}
  Channels = 2
  MaxLevel = 1
  MaxFaults = 0
  MaxKills = 0
  MaxResets = 0
SPECIFICATION Spec
INVARIANT CalculationSurvives
