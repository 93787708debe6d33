----------------------------- MODULE TableStore -----------------------------
(***************************************************************************)
(* Where one decoder (history, sequenceDecs, blockDec) keeps its entropy   *)
(* tables.  A table is memory: a huff0.Scratch or an fseDecoder.  It comes *)
(* from a pool all goroutines share, is overwritten in place by the next   *)
(* table of the frame, and goes back when a predefined table replaces it   *)
(* or the next frame starts.  The memory of a dictionary and of the        *)
(* predefined tables is shared too, and must never be written or pooled.   *)
(*                                                                         *)
(* Blocks come from any encoder, or from nobody: every section may hold    *)
(* any mode, and may turn out to be damaged while it is read.  Under the   *)
(* mapping at the end the decoder implements BlockTables.                  *)
(***************************************************************************)
EXTENDS Naturals

CONSTANTS Kinds, Built, DictTable, PredefTable, NoTable,
          Junk,         \* what a half-read or a foreign table leaves in memory
          HuffPool,     \* the Huffman scratches that pools hand out
          FsePool,      \* the FSE decoders that pools hand out
          DictHuff,     \* dict.litEnc
          DictFse,      \* kind -> the dictionary's decoder
          PredefFse,    \* kind -> fsePredef
          Nil

Tables == Built \cup {DictTable, PredefTable}

SharedFse == {DictFse[k] : k \in Kinds} \cup {PredefFse[k] : k \in Kinds}

ASSUME StoreAssumption ==
    /\ NoTable \notin Tables /\ Junk \notin Tables \cup {NoTable}
    /\ DictHuff \notin HuffPool
    /\ SharedFse \cap FsePool = {}
    /\ \A k, j \in Kinds : DictFse[k] # PredefFse[j]
    /\ Nil \notin HuffPool \cup {DictHuff} \cup FsePool \cup SharedFse

VARIABLES at,           \* "closed", "frame" (between blocks), "tables", "execute"
          dict,         \* hist.dict is set (a raw dictionary has no tables and counts as none)
          huffTree,     \* hist.huffTree
          huffMem,      \* the tables in the Huffman scratches
          huffPool,     \* scratches no decoder refers to
          fse,          \* kind -> sequenceDec.fse
          fseMem,       \* the tables in the FSE decoders
          fsePool,      \* FSE decoders no decoder refers to
          loaded        \* kinds whose part of the sequence header was read

huffVars == <<huffTree, huffMem, huffPool>>
fseVars == <<fse, fseMem, fsePool>>
vars == <<at, dict, huffVars, fseVars, loaded>>

LiteralsModes == {"Raw", "RLE", "Compressed", "Treeless"}

preDefined(o) == o \in SharedFse

Init ==
    /\ at = "closed"
    /\ dict = FALSE
    /\ huffTree = Nil
    /\ huffMem = [o \in HuffPool \cup {DictHuff} |-> IF o = DictHuff THEN DictTable ELSE Junk]
    /\ huffPool = HuffPool
    /\ fse = [k \in Kinds |-> Nil]
    /\ fseMem = [o \in FsePool \cup SharedFse |->
                   IF o \in FsePool THEN Junk
                   ELSE IF \E k \in Kinds : o = DictFse[k] THEN DictTable ELSE PredefTable]
    /\ fsePool = FsePool
    /\ loaded = {}

------------------------------------------------------------------------------
\* freeHuffDecoder and freeDecoders: what goes back to the pools.
FreedHuff == IF huffTree # Nil /\ ~(dict /\ huffTree = DictHuff) THEN {huffTree} ELSE {}

FreedFse == {fse[k] : k \in {j \in Kinds : fse[j] # Nil /\ ~preDefined(fse[j])}}

\* history.reset, and setDict for a frame with a dictionary d; for a frame in progress,
\* damaged or finished.
StartFrame(d) ==
    /\ at' = "frame"
    /\ dict' = d
    /\ huffPool' = huffPool \cup FreedHuff
    /\ huffTree' = IF d THEN DictHuff ELSE Nil
    /\ fsePool' = fsePool \cup FreedFse
    /\ fse' = [k \in Kinds |-> IF d THEN DictFse[k] ELSE Nil]
    /\ loaded' = {}
    /\ UNCHANGED <<huffMem, fseMem>>

\* Anything in a block can be wrong and is then refused; nothing more of the frame is
\* read.  Raw and RLE blocks that are not refused leave the tables alone: no action.
Refused ==
    /\ at # "closed"
    /\ at' = "closed"
    /\ UNCHANGED <<dict, huffVars, fseVars, loaded>>

------------------------------------------------------------------------------
\* decodeLiterals, for a section that brings no table.
PlainLiterals(mode) ==
    /\ mode \in {"Raw", "RLE"} \/ (mode = "Treeless" /\ huffTree # Nil)
    /\ UNCHANGED huffVars

\* Mutated: a scratch of the dictionary is taken for one of the frame.
HuffTargetsAny == IF huffTree = Nil THEN huffPool ELSE {huffTree}

\* The scratch the next Huffman table is read into.
HuffTargets ==
    IF huffTree = Nil \/ (dict /\ huffTree = DictHuff) THEN huffPool ELSE {huffTree}

\* decodeLiterals, for a section with the table t.
NewHuffman(t) ==
    \E o \in HuffTargets :
        /\ huffTree' = o
        /\ huffMem' = [huffMem EXCEPT ![o] = t]
        /\ huffPool' = huffPool \ {o}

Literals(mode, t) ==
    /\ at = "frame"
    /\ IF mode = "Compressed" THEN NewHuffman(t) ELSE PlainLiterals(mode)
    /\ at' = "tables"
    /\ loaded' = {}
    /\ UNCHANGED <<dict, fseVars>>

\* ReadTable fails half way: the scratch is spoilt; one that was taken from the pool is
\* dropped (and stands for any other unused one).
LiteralsSpoilt ==
    /\ at = "frame"
    /\ \E o \in HuffTargets : huffMem' = [huffMem EXCEPT ![o] = Junk]
    /\ at' = "closed"
    /\ UNCHANGED <<dict, huffTree, huffPool, fseVars, loaded>>

------------------------------------------------------------------------------
\* A block without sequences.
NoSequences ==
    /\ at = "tables"
    /\ loaded = {}
    /\ at' = "frame"
    /\ UNCHANGED <<dict, huffVars, fseVars, loaded>>

\* Mutated: the old decoder is freed and used on.
PredefinedKept(k) ==
    /\ fsePool' = IF fse[k] # Nil /\ ~preDefined(fse[k]) THEN fsePool \cup {fse[k]} ELSE fsePool
    /\ fse' = IF fse[k] = Nil THEN [fse EXCEPT ![k] = PredefFse[k]] ELSE fse
    /\ UNCHANGED fseMem

\* prepareSequences, for one kind: compModePredefined, compModeRepeat.
Predefined(k) ==
    /\ fsePool' = IF fse[k] # Nil /\ ~preDefined(fse[k]) THEN fsePool \cup {fse[k]} ELSE fsePool
    /\ fse' = [fse EXCEPT ![k] = PredefFse[k]]
    /\ UNCHANGED fseMem

Repeat == UNCHANGED fseVars

\* Mutated: shared tables are written in place.
FseTargetsAny(k) == IF fse[k] = Nil THEN fsePool ELSE {fse[k]}

\* The decoder the next table of kind k is read into.
FseTargets(k) ==
    IF fse[k] = Nil \/ preDefined(fse[k]) THEN fsePool ELSE {fse[k]}

\* compModeRLE, compModeFSE: the table t, or Junk if it is damaged.
NewFse(k, t) ==
    \E o \in FseTargets(k) :
        /\ fse' = [fse EXCEPT ![k] = o]
        /\ fseMem' = [fseMem EXCEPT ![o] = t]
        /\ fsePool' = fsePool \ {o}

Sequence(k, mode, t) ==
    /\ at = "tables"
    /\ k \notin loaded
    /\ CASE mode = "Predefined"     -> Predefined(k)
         [] mode \in {"RLE", "FSE"} -> NewFse(k, t)
         [] mode = "Repeat"         -> Repeat
    /\ loaded' = loaded \cup {k}
    /\ UNCHANGED <<at, dict, huffVars>>

SequenceSpoilt(k) ==
    /\ at = "tables"
    /\ k \notin loaded
    /\ NewFse(k, Junk)
    /\ at' = "closed"
    /\ UNCHANGED <<dict, huffVars, loaded>>

\* Mutated: the kinds the block names are enough.
InitializeUnchecked ==
    /\ at = "tables"
    /\ loaded = Kinds
    /\ at' = "execute"
    /\ UNCHANGED <<dict, huffVars, fseVars, loaded>>

\* sequenceDecs.initialize: every kind must have a table.
Initialize ==
    /\ at = "tables"
    /\ loaded = Kinds
    /\ at' = IF \A k \in Kinds : fse[k] # Nil THEN "execute" ELSE "closed"
    /\ UNCHANGED <<dict, huffVars, fseVars, loaded>>

\* decodeSync: the sequences are executed.
Execute ==
    /\ at = "execute"
    /\ at' = "frame"
    /\ UNCHANGED <<dict, huffVars, fseVars, loaded>>

\* Another goroutine takes a table out of a pool, reads its own into it and frees it.
OthersWrite ==
    /\ \/ /\ \E o \in huffPool : huffMem' = [huffMem EXCEPT ![o] = Junk]
          /\ UNCHANGED fseMem
       \/ /\ \E o \in fsePool : fseMem' = [fseMem EXCEPT ![o] = Junk]
          /\ UNCHANGED huffMem
    /\ UNCHANGED <<at, dict, huffTree, huffPool, fse, fsePool, loaded>>

Next ==
    \/ \E d \in BOOLEAN : StartFrame(d)
    \/ Refused
    \/ \E mode \in LiteralsModes, t \in Built : Literals(mode, t)
    \/ LiteralsSpoilt
    \/ NoSequences
    \/ \E k \in Kinds, mode \in {"Predefined", "RLE", "FSE", "Repeat"}, t \in Built :
          Sequence(k, mode, t)
    \/ \E k \in Kinds : SequenceSpoilt(k)
    \/ Initialize
    \/ Execute
    \/ OthersWrite

Spec == Init /\ [][Next]_vars

------------------------------------------------------------------------------
\* Properties.

\* The values of the decoder's state; a pool never holds the memory of a dictionary or
\* of the predefined tables, and every kind has a decoder of its own sort.
TypeOK ==
    /\ at \in {"closed", "frame", "tables", "execute"}
    /\ dict \in BOOLEAN
    /\ huffTree \in HuffPool \cup {DictHuff, Nil}
    /\ huffMem \in [HuffPool \cup {DictHuff} -> Tables \cup {Junk}]
    /\ huffPool \subseteq HuffPool
    /\ fse \in [Kinds -> FsePool \cup SharedFse \cup {Nil}]
    /\ fseMem \in [FsePool \cup SharedFse -> Tables \cup {Junk}]
    /\ fsePool \subseteq FsePool
    /\ loaded \subseteq Kinds

\* Memory has one owner: what a decoder refers to is not in a pool, where the next
\* goroutine would take it, and two kinds never share a table that can be written
\* (huffDecoderPool and fseDecoderPool, blockdec.go); the dictionary's scratch is only
\* referred to while the history names the dictionary, by which it is recognised.
Owned ==
    /\ huffTree \notin huffPool
    /\ huffTree = DictHuff => dict
    /\ \A k \in Kinds : fse[k] \notin fsePool
    /\ \A k, j \in Kinds : k # j /\ fse[k] = fse[j] => fse[k] \notin FsePool

\* The tables of a dictionary, which concurrent decoders and encoders share, and the
\* predefined tables keep their contents for ever.
SharedIntact ==
    /\ huffMem[DictHuff] = DictTable
    /\ \A k \in Kinds : fseMem[DictFse[k]] = DictTable /\ fseMem[PredefFse[k]] = PredefTable

\* As long as a frame is being decoded every table it refers to is whole, and of this
\* frame's blocks, of its dictionary or predefined; never a damaged one or one of another
\* goroutine.  When sequences are executed every kind has one.
WholeTables ==
    at # "closed" =>
        /\ huffTree # Nil => huffMem[huffTree] \in Tables
        /\ \A k \in Kinds : fse[k] # Nil => fseMem[fse[k]] \in Tables
        /\ at = "execute" => \A k \in Kinds : fse[k] # Nil

\* The tables in force.
LiteralsTable ==
    IF at = "closed" \/ huffTree = Nil THEN NoTable ELSE huffMem[huffTree]

SequenceTable(k) ==
    IF at = "closed" \/ fse[k] = Nil THEN NoTable ELSE fseMem[fse[k]]

Format == INSTANCE BlockTables
              WITH literals <- LiteralsTable,
                   sequences <- [k \in Kinds |-> SequenceTable(k)]

\* Memory, pools and dictionaries are invisible: the tables in force are exactly those
\* the format defines from the sections of the frame, whatever other goroutines do.
ImplementsTables == Format!TablesSpec
==============================================================================
