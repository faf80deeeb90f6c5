SPECIFICATION Spec
CONSTANTS
  of = of ml = ml
  raw1 = raw1 fse1 = fse1 raw2 = raw2 raw3 = raw3 raw4 = raw4
  w1 = w1 w2 = w2 w3 = w3
  d1 = d1 d2 = d2 dictof = dictof
  TableKinds = {of, ml}
  HufHeaders = {raw1, fse1, raw2, raw3, raw4}
  WeightsOf <- MCWeightsOf
  BadWeights = w3
  Descs = {d1, d2}
  BadDesc = BadDesc
  Predefined = Predefined
  Repeat = Repeat
  Treeless = Treeless
  DictHuf = DictHuf
  DictSeq <- MCDictSeq
  NoTable = NoTable
  NoHeader = NoHeader
INVARIANTS TypeOK CachesAgree
PROPERTIES ImplementsFreshTables
