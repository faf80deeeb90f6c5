SPECIFICATION Spec
CONSTANTS
  Levels <- MCLevelsRaw
  Dicts = {"full", "short"}
  DictLen <- MCDictLen
  InputLens <- MCInputLens
  ExpectedLens <- MCExpectedLens
  Unbounded = 1000
  MinLog = 1
  MaxBlock = 16
  AttachThreshold = 8
  HashRead = 2
INVARIANT DictionaryFound
CHECK_DEADLOCK TRUE
