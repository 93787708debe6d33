SPECIFICATION MCSpec
CONSTANTS
  Kinds = {offsets, matchLengths}
  Built = {t1, t2}
  DictTable = dictTable
  PredefTable = predef
  NoTable = noTable
  LitSizes <- Around
  OutSizes <- CoderSizes
  MaxMatch = 5
  Distances = {1, 3}
  DictOffsets <- DictOffsetsDef
SYMMETRY Alike
INVARIANTS
  InStep
  TablesKept
  OffsetsInStep
PROPERTIES
  CountsAddUp
  FseReadBack
  WeightsReadBack
  CodesComplete
  LiteralsReadBack
  SequencesReadBack
  HeadersReadBack
  CopiesBytewise
