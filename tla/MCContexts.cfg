SPECIFICATION Spec
CONSTANTS
  Levels <- MCLevels
  Dicts = {"full", "other", "short"}
  DictLen <- MCDictLen
  InputLens <- MCInputLens
  ExpectedLens <- MCExpectedLens
  Unbounded = 1000
  MinLog = 1
  MaxBlock = 16
  AttachThreshold = 8
  HashRead = 2
INVARIANTS
  TypeOK
  TablesFit
  OwnPositionsOnly
  DictionaryFound
CHECK_DEADLOCK TRUE
