SPECIFICATION Spec
CONSTANTS
  Streams <- FewInputs
  MaxCompressed = 2
  MaxBlockSize = 5
  MinWindow = 1
  DefaultLimit = 5
  Limits = {2, 5}
  DictIds = {}
  MaxRead = 1
INVARIANTS
  ConfigurationKept
