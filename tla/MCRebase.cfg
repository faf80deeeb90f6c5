SPECIFICATION LongSpec
CONSTANTS
  MaxSpan = 6
  MaxBlock = 2
  Windows <- MCWindows
  Prefixes <- MCPrefixes
  Slots = {s1, s2}
  LongSlots = {l1}
  MaxInput = 20
INVARIANTS
  TypeOK
  PositionsFit
  NoneLost
  NoneGained
  LongEntriesMove
