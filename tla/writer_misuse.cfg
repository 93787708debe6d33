SPECIFICATION LiveSpec
CONSTANTS
  MaxBlock = 3
  MinWindow = 2
  FcsMin = 2
  Levels = {0, 3}
  LevelWindow <- LevelWindowDef
  Windows = {2}
  DefaultLevel = 3
  DefaultWindow = 8
  Dicts = {0}
  ContentSizes <- NoSizesDef
  MaxInput = 4
  MaxChunk = 3
  LateConfig = TRUE
  UseAfterClose = TRUE
  EncoderFaults = TRUE
INVARIANTS
  NothingLost
PROPERTIES
  CallsReturn
CHECK_DEADLOCK FALSE
