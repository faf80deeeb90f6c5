SPECIFICATION Spec
CONSTANTS
  Window = 3
  MaxBlock = 2
  SkipMin = 2
  DictLens <- MCDictLens
  TableNames = {hash_table, hash_long, ldm}
  LongTables = {ldm}
  MaxWrite = 3
  MaxFrameBytes = 4
  MaxFrames = 2
INVARIANTS
  EntriesBehindSearch
CHECK_DEADLOCK FALSE
