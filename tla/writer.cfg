SPECIFICATION Spec
CONSTANTS
  MaxBlock = 3
  MinWindow = 2
  FcsMin = 2
  Levels = {0, 3}
  LevelWindow <- LevelWindowDef
  Windows = {2}
  DefaultLevel = 3
  DefaultWindow = 8
  Dicts = {0, 1}
  ContentSizes <- ContentSizesDef
  MaxInput = 7
  MaxChunk = 4
  LateConfig = FALSE
  UseAfterClose = FALSE
  EncoderFaults = FALSE
INVARIANTS
  TypeOK
  ClosedFrameIsWhole
  NothingLost
  FlushDelivers
  NoPanic
PROPERTIES
  SilentAfterError
  ImplementsSink
CHECK_DEADLOCK FALSE
