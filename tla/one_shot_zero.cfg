SPECIFICATION OneShotSpec
CONSTANTS
  Users = {u1, u2}
  Decoders = {d1, d2, d3}
  Nobody = nobody
  Calls <- OneCall
  StreamInputs <- StreamInputsDef
  Dictionaries <- DictionariesDef
  Limit = 4
  ZeroValue = TRUE
  MaxMatch = 5
SYMMETRY AlikeDecoders
INVARIANTS
  InitialisedFirst
