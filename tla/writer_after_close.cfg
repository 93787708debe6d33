SPECIFICATION Spec
CONSTANTS
  MaxBlock = 3
  MinWindow = 2
  FcsMin = 2
  Levels = {0, 3}
  LevelWindow <- LevelWindowDef
  Windows = {2}
  DefaultLevel = 3
  DefaultWindow = 8
  Dicts = {0, 1}
  ContentSizes <- NoSizesDef
  MaxInput = 3
  MaxChunk = 4
  LateConfig = FALSE
  UseAfterClose = TRUE
  EncoderFaults = FALSE
INVARIANTS
  RefusedAfterClose
CHECK_DEADLOCK FALSE
