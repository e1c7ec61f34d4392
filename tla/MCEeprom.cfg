CONSTANTS
  Size = 3
  PageSize = 2
  Retries = 3
  MaxFaults = 2
  MaxLates = 1
SPECIFICATION FairSpec
INVARIANTS
  SentIsStored
  GivesUpForAReason
PROPERTY SendEnds
