SPECIFICATION Spec
CONSTANTS
  Word = 32
  Windows = {3}
  MaxBlock = 2
  MaxWindow = 7
  DictLens <- MCDictLens
  PlainHistory <- MCPlainHistory
  DictHistories <- MCDictHistories
  MaxFrame = 9
INVARIANTS
  TypeOK
  OffsetsReach
  DistanceWithinWindow
CHECK_DEADLOCK TRUE
