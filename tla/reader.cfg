SPECIFICATION LiveSpec
CONSTANTS
  Streams <- AllInputs
  MaxCompressed = 2
  MaxBlockSize = 5
  MinWindow = 1
  DefaultLimit = 5
  Limits = {5}
  DictIds = {0, 1}
  MaxRead = 3
INVARIANTS
  TypeOK
  InOrder
  CleanEnd
  RefusedForCause
  Bounded
PROPERTIES
  ReadAfterChecks
  Sticky
  BlockFits
  ImplementsSource
  CallsReturn
