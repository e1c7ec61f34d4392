CONSTANTS
  RsHalfLength = 10
  RsMaxRate = 48000
  RsRates = {1000, 24000}
  RsUps = {}
  RsDowns = {}
  RsModes = {}
  RsChunks = {30}
  RsMaxFed = 90
INIT RsInit
NEXT RsNext
CHECK_DEADLOCK FALSE
INVARIANT FlushSurvives
