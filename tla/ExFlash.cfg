SPECIFICATION FairSpec
CONSTANTS
  PageSize = 2
  PagesPerSector = 2
  MaxAddr = 11
  BlockSize = 4
  BlockNum = 3
  MaxBytes = 11
  MaxCalls = 2
INVARIANTS TypeOK PrefixWritten WrittenWhole
PROPERTIES OwnBytesOnly WriteReturns
