SPECIFICATION PairSpec
CONSTANTS
  MaxOutput = 5
  MaxBlock = 2
  MaxWindow = 2
  Windows <- MCWindows
  Sizes <- MCSizes
  DictLens <- MCDictLens
  MaxRead = 2
  MaxItems = 8
  MaxResets = 1
INVARIANTS
  TypeOK
  EndMeansComplete
  WithinLimit
  HistorySuffices
  HistoryBounded
  SameVerdict
PROPERTIES
  ReadsReturn
CHECK_DEADLOCK FALSE
