SPECIFICATION Spec
CONSTANTS
  IntMax = 31
  MaxBlock = 2
  MinAlloc = 5
  Windows = {8}
  Dicts = {0}
  Family = "fast"
  Slots = {h1}
INVARIANTS
  OutOfReach
CHECK_DEADLOCK FALSE
