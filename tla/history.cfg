SPECIFICATION MCSpec
CONSTANTS
  IntMax = 31
  MaxBlock = 2
  MinAlloc = 5
  Windows = {2, 3}
  Dicts = {0, 2, 5}
  Family = "fast"
  Slots = {h1}
INVARIANTS
  CandidatesSound
  OutOfReach
  PositionsFit
  NoPanic
PROPERTIES
  WindowKept
CHECK_DEADLOCK FALSE
