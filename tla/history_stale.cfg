SPECIFICATION Spec
CONSTANTS
  IntMax = 63
  MaxBlock = 1
  MinAlloc = 5
  Windows = {4, 8}
  Dicts = {0}
  Family = "fast"
  Slots = {h1}
INVARIANTS
  OutOfReach
CHECK_DEADLOCK FALSE
