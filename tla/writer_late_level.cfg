SPECIFICATION Spec
CONSTANTS
  MaxBlock = 3
  MinWindow = 2
  FcsMin = 2
  Levels = {0, 3}
  LevelWindow <- LevelWindowDef
  Windows = {2}
  DefaultLevel = 3
  DefaultWindow = 8
  Dicts = {0, 1}
  ContentSizes <- NoSizesDef
  MaxInput = 4
  MaxChunk = 4
  LateConfig = TRUE
  UseAfterClose = FALSE
  EncoderFaults = FALSE
INVARIANTS
  BlocksFitWindow
CHECK_DEADLOCK FALSE
