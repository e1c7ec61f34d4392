CONSTANTS
  Procs = {a, b}
  MaxPidCrashes = 2
  RsHalfLength = 2
  RsMaxRate = 4
  RsRates = {1, 2, 3}
  RsUps = {1, 2, 3}
  RsDowns = {1, 2, 3}
  RsModes <- McModes
  RsChunks = {1, 2, 7}
  RsMaxFed = 14
  BusSets <- McBusSets
  BusInvalid = 2
  BusBankSizes = {1, 2}
  BusMaxBanks = 3
  SetLineLength = 4
  SetObjectLength = 2
  PnlMenus = 4
  PnlOffsets = 2
  LedColours = {1, 2}
  HatCapacity = 20
  HatValues = {1}
  HatAddresses = {0, 3}
  AmpChips = {1, 2}
  AmpGains = {0, 3}
  AmpPins = {8}
  FanTemps = {40, 46, 50, 70}
  FanTops = {3, 6}
  FanReach = 8
  AtRadix = 32
  AtShape <- McShape
  AtForeign <- McForeign
  AtStrings <- McStrings
  DocNames = {"channel1Mode", "fanDutyCycle"}
  DocModeNames = {"channel1Mode"}
  DocMinRate = 3
  DocMaxRate = 6
  DocChannels = 4
  DocTried = {2, 5, 7}
  FifoSize = 2
  FifoMaxFrame = 3
  FifoSinks = {s1, s2}
  VoAsked = {0, 5, 20, 60}
  VoRawAsked = {0, 2047, 5000}
  VoFactors <- McFactors
  VoMaxLost = 2
INIT PartsInit
NEXT PartsNext
CHECK_DEADLOCK FALSE
INVARIANTS
  PidExclusive
  StreamIsWhole
  BanksArriveWhole
  LinesAnswered
  PanelInStep
  LedTruthful
  ImageReadable
  WritesReachTheirChip
  FanObeys
  DocumentsHold
  FramesHandedOver
  OutputIsValue
PROPERTY AtomsReadBack
