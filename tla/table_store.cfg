SPECIFICATION MCSpec
CONSTANTS
  offsets = offsets
  lengths = lengths
  dictOf = dictOf
  dictMl = dictMl
  predefOf = predefOf
  predefMl = predefMl
  Kinds <- BothKinds
  Built = {t1, t2}
  DictTable = dictTable
  PredefTable = predef
  NoTable = noTable
  Junk = junk
  HuffPool = {h1, h2}
  FsePool = {f1, f2, f3}
  DictHuff = dictHuff
  DictFse <- DictDecoders
  PredefFse <- PredefDecoders
  Nil = nil
  Users = {u1, u2}
  Decoders = {d1, d2, d3}
  Nobody = nobody
  Calls <- CallsDef
  StreamInputs <- StreamInputsDef
  Dictionaries <- DictionariesDef
  Limit = 4
  ZeroValue = FALSE
  MaxMatch = 5
SYMMETRY Alike
INVARIANTS
  Owned
  SharedIntact
  WholeTables
  OneShotExact
PROPERTIES
  ImplementsTables
