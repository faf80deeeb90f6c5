SPECIFICATION Spec
CONSTANTS
  Word = 16
  Tables = {t1, t2}
  DictTable = dictTable
  Predefined = predefined
  NoTable = noTable
  PlainHistory <- MCPlainHistory
  DictHistory <- MCDictHistory
  MatchOffsets <- MCMatchOffsets
  MaxSeqs = 2
INVARIANTS
  TypeOK
  InStep
  SameTables
  OffsetsSurvive
  NeverRejected
CHECK_DEADLOCK TRUE
