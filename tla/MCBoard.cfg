SPECIFICATION Spec
CONSTANTS
  Channels = {1, 2}
  MaxGain = 1
  Offsets = {0, 1}
  MaxWrites = 1
INVARIANTS
  CalibrationInEffect
  MeasurementConfigured
  CacheMatchesEeprom
  EntriesSurvive
PROPERTIES
  FrozenOnDms
