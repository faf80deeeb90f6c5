SPECIFICATION Spec
CONSTANTS
  Window = 3
  MaxBlock = 2
  SkipMin = 2
  DictLens <- MCDictLens
  TableNames = {hash_table, hash_long, ldm}
  LongTables = {ldm}
  MaxWrite = 3
  MaxFrameBytes = 8
  MaxFrames = 2
INVARIANTS
  TypeOK
  EntriesTrackWindow
  WindowCoversHistory
PROPERTIES
  ImplementsFrameWriter
  FlushDelivers
CHECK_DEADLOCK FALSE
