SPECIFICATION Spec
CONSTANTS
  Len = 4
  Retry = 5
  Loads <- MCLoads
INVARIANTS
  TypeOK
PROPERTIES
  RetriesAreSpaced
  WalksEnd
CHECK_DEADLOCK TRUE
