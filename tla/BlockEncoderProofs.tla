------------------------- MODULE BlockEncoderProofs -------------------------
(***************************************************************************)
(* That the block encoder only refers to tables the decoder has, for every *)
(* choice of tables, kinds, literals and sizes.                            *)
(*                                                                         *)
(* The invariant is TablesKept.  Its delicate case is a section of         *)
(* literals that huff0 coded with a new table, which it keeps for the next *)
(* block, and that encode then sends raw after all because of its header.  *)
(* NewTableIsSent shows that this never happens: the sixteenth huff0 has   *)
(* to save is more than the header can cost.                               *)
(***************************************************************************)
EXTENDS BlockEncoder, TLAPS

HuffEncoders == [prev : Tables \cup {NoTable}, reuse : {"None", "Allow"}]

\* A coded section that huff0 accepts is smaller than the raw one, headers included:
\* the second look of blockEnc.encode never refuses it.
THEOREM NewTableIsSent ==
    ASSUME NEW n \in Nat, n > 16,
           NEW m \in Nat, m < WantSize(n)
    PROVE  ~TooBig(m, n)
<1> DEFINE q == n \div 16
<1>1. q \in Nat /\ q >= 1 /\ 16 * q <= n /\ n < 16 * q + 16
  OBVIOUS
<1>2. m < n - q
  BY DEF WantSize
<1>3. CASE n < 1024
  <2>1. CompressedHeader(m, n) = 3
    BY <1>1, <1>2, <1>3 DEF CompressedHeader
  <2>2. RawHeader(n) = 2
    BY <1>3 DEF RawHeader
  <2> QED
    BY <1>1, <1>2, <2>1, <2>2 DEF TooBig
<1>4. CASE n >= 1024
  <2>1. CompressedHeader(m, n) \in {3, 4, 5}
    BY DEF CompressedHeader
  <2>2. RawHeader(n) \in {2, 3}
    BY <1>4 DEF RawHeader
  <2>3. q >= 64
    BY <1>1, <1>4
  <2> QED
    BY <1>1, <1>2, <2>1, <2>2, <2>3 DEF TooBig
<1> QED
  BY <1>3, <1>4

------------------------------------------------------------------------------
\* What huff0 leaves behind, with e the coder it was given and t the table in force.
LEMMA CodedResult ==
    ASSUME NEW e \in HuffEncoders, NEW n \in LitSizes, NEW r \in Coded(e, n)
    PROVE  /\ r.as \in {"Incompressible", "RLE", "Reused", "New"}
           /\ r.prev \in Tables \cup {NoTable}
           /\ r.size \in Nat
           /\ r.as \in {"Incompressible", "RLE"} /\ e.reuse = "Allow" => r.prev = e.prev
           /\ r.as = "Reused" => e.reuse = "Allow" /\ r.prev = e.prev /\ r.prev # NoTable
           /\ r.as = "New" => r.prev \in Built
           /\ r.as \in {"Reused", "New"} => n > 16 /\ r.size < WantSize(n)
<1> USE SizesAssumption
<1>1. CASE n > 16
  <2> DEFINE kept  == IF e.reuse = "None" THEN NoTable ELSE e.prev
             sizes == {m \in OutSizes : m < WantSize(n)}
  <2>0. kept \in Tables \cup {NoTable} /\ (e.reuse = "Allow" => kept = e.prev)
    BY DEF HuffEncoders
  <2>1. r \in Compress(e, n)
    BY <1>1 DEF Coded
  <2>2. CASE r = [as |-> "Incompressible", prev |-> kept, size |-> 0]
    BY <2>0, <2>2
  <2>3. CASE r = [as |-> "RLE", prev |-> kept, size |-> 0]
    BY <2>0, <2>3
  <2>4. CASE r \in [as : {"New"}, prev : Built, size : sizes]
    BY <1>1, <2>4 DEF Tables
  <2>5. CASE r \in [as : {"Reused"}, prev : {kept} \ {NoTable}, size : sizes] /\ e.reuse = "Allow"
    BY <1>1, <2>0, <2>5
  <2> HIDE DEF kept, sizes
  <2>6. \/ r = [as |-> "Incompressible", prev |-> kept, size |-> 0]
        \/ r = [as |-> "RLE", prev |-> kept, size |-> 0]
        \/ r \in [as : {"New"}, prev : Built, size : sizes]
        \/ r \in [as : {"Reused"}, prev : {kept} \ {NoTable}, size : sizes] /\ e.reuse = "Allow"
    BY <2>1 DEF Compress, kept, sizes
  <2> QED
    BY <2>2, <2>3, <2>4, <2>5, <2>6
<1>2. CASE ~(n > 16)
  <2>1. r = [as |-> "Incompressible", prev |-> e.prev, size |-> 0]
    BY <1>2 DEF Coded
  <2> QED
    BY <2>1 DEF HuffEncoders
<1> QED
  BY <1>1, <1>2

\* The section that is sent refers to no table but the one in force, and the coder that
\* is left holds the table that will be in force.
LEMMA SectionInStep ==
    ASSUME NEW t \in Tables \cup {NoTable},
           NEW e \in HuffEncoders, e.reuse = "Allow" => e.prev = t /\ t # NoTable,
           NEW l \in LiteralsChoices(e)
    PROVE  /\ l.section \in LiteralsSections
           /\ l.enc \in HuffEncoders
           /\ l.section.mode = "Treeless" => l.section.table = t
           /\ l.enc.reuse = "Allow" => /\ l.enc.prev = LiteralsAfter(t, l.section)
                                       /\ l.enc.prev # NoTable
<1>0. PICK n \in LitSizes : \E r \in Coded(e, n) : l = Section(e, n, r)
  BY DEF LiteralsChoices
<1>1. PICK r \in Coded(e, n) : l = Section(e, n, r)
  BY <1>0
<1>2. /\ r.as \in {"Incompressible", "RLE", "Reused", "New"}
      /\ r.prev \in Tables \cup {NoTable}
      /\ r.size \in Nat
      /\ r.as \in {"Incompressible", "RLE"} /\ e.reuse = "Allow" => r.prev = e.prev
      /\ r.as = "Reused" => e.reuse = "Allow" /\ r.prev = e.prev /\ r.prev # NoTable
      /\ r.as = "New" => r.prev \in Built
      /\ r.as \in {"Reused", "New"} => n > 16 /\ r.size < WantSize(n)
  BY <1>1, CodedResult
<1>3. r.as \in {"Reused", "New"} => ~TooBig(r.size, n)
  BY <1>1, <1>2, NewTableIsSent, SizesAssumption
<1>4. CASE r.as \in {"Incompressible", "RLE"}
  <2>1. l.enc = [e EXCEPT !.prev = r.prev]
    BY <1>1, <1>4 DEF Section
  <2>2. l.section \in [mode : {"Raw", "RLE"}, table : {NoTable}]
    BY <1>1, <1>4 DEF Section
  <2>3. l.enc \in HuffEncoders /\ l.enc.reuse = e.reuse /\ l.enc.prev = r.prev
    BY <1>2, <2>1 DEF HuffEncoders
  <2> QED
    BY <1>2, <1>4, <2>2, <2>3 DEF LiteralsSections, LiteralsAfter
<1>5. CASE r.as \in {"Reused", "New"}
  <2>1. l = [section |-> [mode |-> IF r.as = "Reused" THEN "Treeless" ELSE "Compressed",
                          table |-> r.prev],
             enc |-> [prev |-> r.prev, reuse |-> "Allow"]]
    BY <1>1, <1>3, <1>5 DEF Section
  <2>2. r.prev \in Tables /\ r.prev # NoTable
    BY <1>2, <1>5, TablesAssumption DEF Tables
  <2> QED
    BY <1>2, <1>5, <2>1, <2>2 DEF LiteralsSections, HuffEncoders, LiteralsAfter
<1> QED
  BY <1>2, <1>4, <1>5

\* The same for the FSE table of one kind.
LEMMA ChoiceInStep ==
    ASSUME NEW t \in Tables \cup {NoTable},
           NEW prev \in FseEncoders, CanRepeat(prev) => prev.table = t,
           NEW c \in CodeChoices(prev)
    PROVE  /\ c \in SequenceSections
           /\ SetPrev(prev, c) \in FseEncoders
           /\ c.mode = "Repeat" => c.table = t
           /\ SequenceAfter(t, c) \in Tables \cup {NoTable}
           /\ CanRepeat(SetPrev(prev, c)) => SetPrev(prev, c).table = SequenceAfter(t, c)
<1>1. CASE c \in [mode : {"RLE", "FSE"}, table : Built]
  <2>1. SetPrev(prev, c) = [table |-> c.table, symbolLen |-> TRUE, useRLE |-> c.mode = "RLE"]
    BY <1>1 DEF SetPrev
  <2>2. SequenceAfter(t, c) = c.table
    BY <1>1 DEF SequenceAfter
  <2> QED
    BY <1>1, <2>1, <2>2 DEF SequenceSections, SequenceModes, FseEncoders, Tables
<1>2. CASE c \in [mode : {"Predefined"}, table : {PredefTable}]
  <2>1. SetPrev(prev, c) = [prev EXCEPT !.symbolLen = FALSE]
    BY <1>2 DEF SetPrev
  <2>2. SequenceAfter(t, c) = PredefTable
    BY <1>2 DEF SequenceAfter
  <2> QED
    BY <1>2, <2>1, <2>2 DEF SequenceSections, SequenceModes, FseEncoders, Tables, CanRepeat
<1>3. CASE c \in [mode : {"Repeat"}, table : {prev.table}] /\ CanRepeat(prev)
  <2>1. SetPrev(prev, c) = prev /\ SequenceAfter(t, c) = t
    BY <1>3 DEF SetPrev, SequenceAfter
  <2> QED
    BY <1>3, <2>1 DEF SequenceSections, SequenceModes, FseEncoders, Tables
<1> QED
  BY <1>1, <1>2, <1>3 DEF CodeChoices

------------------------------------------------------------------------------
Inv == TypeOK /\ TablesKept /\ InStep

\* The coder handed to huff0 in an open frame: the kept one or the dictionary's.
LEMMA CoderInStep ==
    ASSUME Inv, Open
    PROVE  LET e == Transferred(DictLiterals)
           IN  /\ e \in HuffEncoders
               /\ e.reuse = "Allow" => e.prev = literals /\ e.prev # NoTable
<1> USE DEF Inv, TypeOK, Open
<1>1. ComingLiterals = literals
  BY DEF ComingLiterals, NoBlock
<1>2. litEnc \in HuffEncoders /\ (litEnc.reuse = "Allow" => litEnc.prev = literals /\ litEnc.prev # NoTable)
  BY <1>1 DEF TablesKept, HuffEncoders
<1>3. CASE DictLiterals = NoTable
  BY <1>2, <1>3 DEF Transferred
<1>4. CASE DictLiterals # NoTable
  <2>1. DictLiterals = dictLitEnc /\ dictLitEnc = DictTable
    BY <1>4 DEF DictLiterals
  <2>2. dictLitEnc = literals
    BY <1>1, <1>4, <2>1 DEF TablesKept
  <2> QED
    BY <1>4, <2>1, <2>2, TablesAssumption DEF Transferred, HuffEncoders, Tables
<1> QED
  BY <1>3, <1>4

LEMMA PrevInStep ==
    ASSUME Inv, Open, NEW k \in Kinds
    PROVE  /\ prevCoder[k] \in FseEncoders
           /\ sequences[k] \in Tables \cup {NoTable}
           /\ CanRepeat(prevCoder[k]) => prevCoder[k].table = sequences[k]
<1>1. ComingSequence(k) = sequences[k]
  BY DEF Open, ComingSequence, NoBlock
<1> QED
  BY <1>1 DEF Inv, TypeOK, TablesKept, Open

LEMMA Initially == Init => Inv
<1> SUFFICES ASSUME Init PROVE Inv
  OBVIOUS
<1> USE DEF Init, TablesInit
<1>1. TypeOK
  BY DEF TypeOK, FseEncoders, Blocks
<1>2. TablesKept /\ InStep
  BY DEF TablesKept, InStep, NoBlock
<1> QED
  BY <1>1, <1>2 DEF Inv

LEMMA StartFrameKeeps ==
    ASSUME Inv, NEW mode \in {"stream", "oneshot"}, NEW d \in BOOLEAN, StartFrame(mode, d)
    PROVE  Inv'
<1> USE DEF StartFrame, FrameTables
<1>1. TypeOK'
  <2>1. literals' \in Tables \cup {NoTable} /\ sequences' \in [Kinds -> Tables \cup {NoTable}]
    BY DEF Tables
  <2>2. litEnc' \in [prev : Tables \cup {NoTable}, reuse : {"None", "Allow"}]
    BY DEF Inv, TypeOK
  <2>3. prevCoder' \in [Kinds -> FseEncoders]
    BY DEF Inv, TypeOK, FseEncoders
  <2> QED
    BY <2>1, <2>2, <2>3 DEF Inv, TypeOK
<1>2. TablesKept'
  <2>1. litEnc'.reuse = "None"
    BY DEF Inv, TypeOK
  <2>2. ASSUME NEW k \in Kinds PROVE ~CanRepeat(prevCoder'[k])
    BY DEF Inv, TypeOK, FseEncoders, CanRepeat
  <2>3. ComingLiterals' = literals'
    BY DEF ComingLiterals, NoBlock
  <2>4. dictLitEnc' # NoTable => literals' = dictLitEnc'
    OBVIOUS
  <2> QED
    BY <2>1, <2>2, <2>3, <2>4 DEF TablesKept
<1>3. InStep'
  BY DEF InStep, NoBlock
<1> QED
  BY <1>1, <1>2, <1>3 DEF Inv

\* Raw and RLE blocks, coded or not: the tables in force stay, and nothing is kept that
\* was not kept before.
LEMMA PlainBlockKeeps ==
    ASSUME Inv, Open, UNCHANGED <<literals, sequences, frame, prevCoder>>,
           block' \in {RawBlock, RLEBlock}, dictLitEnc' = NoTable,
           litEnc' \in HuffEncoders,
           litEnc' = litEnc \/ litEnc'.reuse = "None"
    PROVE  Inv'
<1>1. TypeOK'
  BY DEF Inv, TypeOK, HuffEncoders, Blocks
<1>2. ComingLiterals' = literals /\ ComingLiterals = literals
  BY DEF ComingLiterals, RawBlock, RLEBlock, NoBlock, Open
<1>3. \A k \in Kinds : ComingSequence(k)' = sequences[k] /\ ComingSequence(k) = sequences[k]
  BY DEF ComingSequence, RawBlock, RLEBlock, NoBlock, Open
<1>4. TablesKept'
  BY <1>2, <1>3 DEF Inv, TablesKept, Open
<1>5. InStep'
  BY DEF InStep, RawBlock, RLEBlock
<1> QED
  BY <1>1, <1>4, <1>5 DEF Inv

LEMMA EncodeCompressedKeeps == ASSUME Inv, EncodeCompressed PROVE Inv'
<1> DEFINE e == Transferred(DictLiterals)
<1>0. Open /\ dictLitEnc' = NoTable /\ UNCHANGED <<literals, sequences, frame>>
  BY DEF EncodeCompressed
<1>1. PICK l \in LiteralsChoices(e), c \in [Kinds -> SequenceSections] :
        /\ \A k \in Kinds : c[k] \in CodeChoices(prevCoder[k])
        /\ litEnc' = l.enc
        /\ prevCoder' = [k \in Kinds |-> SetPrev(prevCoder[k], c[k])]
        /\ block' = [type |-> "Compressed", lit |-> l.section, seqs |-> c]
  BY DEF EncodeCompressed
<1>2. e \in HuffEncoders /\ (e.reuse = "Allow" => e.prev = literals /\ e.prev # NoTable)
  BY <1>0, CoderInStep
<1>3. literals \in Tables \cup {NoTable}
  BY DEF Inv, TypeOK
<1> HIDE DEF e
<1>4. /\ l.section \in LiteralsSections
      /\ l.enc \in HuffEncoders
      /\ l.section.mode = "Treeless" => l.section.table = literals
      /\ l.enc.reuse = "Allow" => /\ l.enc.prev = LiteralsAfter(literals, l.section)
                                  /\ l.enc.prev # NoTable
  BY <1>1, <1>2, <1>3, SectionInStep
<1>5. ASSUME NEW k \in Kinds
      PROVE  /\ SetPrev(prevCoder[k], c[k]) \in FseEncoders
             /\ c[k].mode = "Repeat" => c[k].table = sequences[k]
             /\ CanRepeat(SetPrev(prevCoder[k], c[k])) =>
                  SetPrev(prevCoder[k], c[k]).table = SequenceAfter(sequences[k], c[k])
  <2>1. /\ prevCoder[k] \in FseEncoders
        /\ sequences[k] \in Tables \cup {NoTable}
        /\ CanRepeat(prevCoder[k]) => prevCoder[k].table = sequences[k]
    BY <1>0, PrevInStep
  <2>2. c[k] \in CodeChoices(prevCoder[k])
    BY <1>1
  <2> QED
    BY <2>1, <2>2, ChoiceInStep, ZenonT(30)
<1>6. block'.type = "Compressed" /\ block'.lit = l.section /\ block'.seqs = c
  BY <1>1
<1>7. TypeOK'
  <2>1. block' \in Blocks
    BY <1>1, <1>4 DEF Blocks
  <2>2. prevCoder' \in [Kinds -> FseEncoders]
    BY <1>1, <1>5
  <2>3. litEnc' \in [prev : Tables \cup {NoTable}, reuse : {"None", "Allow"}]
    BY <1>1, <1>4 DEF HuffEncoders
  <2> QED
    BY <1>0, <2>1, <2>2, <2>3 DEF Inv, TypeOK
<1>8. TablesKept'
  <2>1. ComingLiterals' = LiteralsAfter(literals, l.section)
    BY <1>0, <1>6 DEF ComingLiterals
  <2>2. \A k \in Kinds : ComingSequence(k)' = SequenceAfter(sequences[k], c[k])
    BY <1>0, <1>6 DEF ComingSequence
  <2>3. \A k \in Kinds : prevCoder'[k] = SetPrev(prevCoder[k], c[k])
    BY <1>1
  <2> QED
    BY <1>0, <1>1, <1>4, <1>5, <2>1, <2>2, <2>3 DEF TablesKept
<1>9. InStep'
  BY <1>0, <1>4, <1>5, <1>6 DEF InStep
<1> QED
  BY <1>7, <1>8, <1>9 DEF Inv

LEMMA EncodeFallsBackKeeps == ASSUME Inv, EncodeFallsBack PROVE Inv'
<1> DEFINE e == Transferred(DictLiterals)
<1>0. Open
  BY DEF EncodeFallsBack
<1>1. PICK l \in LiteralsChoices(e) : litEnc' = [l.enc EXCEPT !.reuse = "None"]
  BY DEF EncodeFallsBack
<1>2. e \in HuffEncoders /\ (e.reuse = "Allow" => e.prev = literals /\ e.prev # NoTable)
  BY <1>0, CoderInStep
<1>3. literals \in Tables \cup {NoTable}
  BY DEF Inv, TypeOK
<1> HIDE DEF e
<1>4. l.enc \in HuffEncoders
  BY <1>2, <1>3, SectionInStep
<1>5. litEnc' \in HuffEncoders /\ litEnc'.reuse = "None"
  BY <1>1, <1>4 DEF HuffEncoders
<1> QED
  BY <1>0, <1>5, PlainBlockKeeps DEF EncodeFallsBack

LEMMA EncodeFailsKeeps == ASSUME Inv, EncodeFails PROVE Inv'
<1> DEFINE e == Transferred(DictLiterals)
<1>0. Open
  BY DEF EncodeFails
<1>1. PICK l \in LiteralsChoices(e) : litEnc' = l.enc
  BY DEF EncodeFails
<1>2. e \in HuffEncoders /\ (e.reuse = "Allow" => e.prev = literals /\ e.prev # NoTable)
  BY <1>0, CoderInStep
<1>3. literals \in Tables \cup {NoTable}
  BY DEF Inv, TypeOK
<1> HIDE DEF e
<1>4. litEnc' \in HuffEncoders
  BY <1>1, <1>2, <1>3, SectionInStep
<1>5. TypeOK'
  BY <1>4 DEF EncodeFails, Inv, TypeOK, HuffEncoders
<1>6. TablesKept' /\ InStep'
  BY <1>0 DEF EncodeFails, TablesKept, InStep, Open, NoBlock
<1> QED
  BY <1>5, <1>6 DEF Inv

LEMMA DeliverKeeps == ASSUME Inv, Deliver PROVE Inv'
<1>0. block' = NoBlock /\ UNCHANGED <<frame, litEnc, dictLitEnc, prevCoder>>
  BY DEF Deliver
<1>1. literals' = ComingLiterals /\ \A k \in Kinds : sequences'[k] = ComingSequence(k)
  BY DEF Deliver, ComingLiterals, ComingSequence, formatVars
<1>2. TypeOK'
  <2>1. CASE block.type = "Compressed"
    <3>1. block \in [type : {"Compressed"}, lit : LiteralsSections, seqs : [Kinds -> SequenceSections]]
      BY <2>1 DEF Inv, TypeOK, Blocks, NoBlock, RawBlock, RLEBlock
    <3>2. literals' \in Tables \cup {NoTable}
      BY <2>1, <3>1 DEF Deliver, Inv, TypeOK, LiteralsAfter, LiteralsSections
    <3>3. ASSUME NEW k \in Kinds PROVE SequenceAfter(sequences[k], block.seqs[k]) \in Tables \cup {NoTable}
      <4>1. block.seqs[k] \in SequenceSections /\ sequences[k] \in Tables \cup {NoTable}
        BY <3>1 DEF Inv, TypeOK
      <4> QED
        BY <4>1 DEF SequenceAfter, SequenceSections, SequenceModes, Tables
    <3>4. sequences' \in [Kinds -> Tables \cup {NoTable}]
      BY <2>1, <3>3 DEF Deliver
    <3> QED
      BY <1>0, <3>2, <3>4 DEF Inv, TypeOK, Blocks
  <2>2. CASE block.type # "Compressed"
    BY <1>0, <2>2 DEF Deliver, formatVars, Inv, TypeOK, Blocks
  <2> QED
    BY <2>1, <2>2
<1>3. ComingLiterals' = literals' /\ \A k \in Kinds : ComingSequence(k)' = sequences'[k]
  BY <1>0 DEF ComingLiterals, ComingSequence, NoBlock
<1>4. TablesKept'
  BY <1>0, <1>1, <1>3 DEF Inv, TablesKept
<1>5. InStep'
  BY <1>0 DEF InStep, NoBlock
<1> QED
  BY <1>2, <1>4, <1>5 DEF Inv

LEMMA StepKeeps == Inv /\ [Next]_vars => Inv'
<1> SUFFICES ASSUME Inv, [Next]_vars PROVE Inv'
  OBVIOUS
<1>1. ASSUME NEW mode \in {"stream", "oneshot"}, NEW d \in BOOLEAN, StartFrame(mode, d) PROVE Inv'
  BY <1>1, StartFrameKeeps
<1>2. litEnc \in HuffEncoders
  BY DEF Inv, TypeOK, HuffEncoders
<1>3. CASE EncodeRaw
  BY <1>2, <1>3, PlainBlockKeeps DEF EncodeRaw
<1>4. CASE EncodeRLE
  BY <1>2, <1>4, PlainBlockKeeps DEF EncodeRLE
<1>5. CASE EncodeCompressed
  BY <1>5, EncodeCompressedKeeps
<1>6. CASE EncodeFallsBack
  BY <1>6, EncodeFallsBackKeeps
<1>7. CASE EncodeFails
  BY <1>7, EncodeFailsKeeps
<1>8. CASE Deliver
  BY <1>8, DeliverKeeps
<1>9. CASE UNCHANGED vars
  BY <1>9 DEF vars, Inv, TypeOK, TablesKept, InStep, ComingLiterals, ComingSequence
<1> QED
  BY <1>1, <1>3, <1>4, <1>5, <1>6, <1>7, <1>8, <1>9 DEF Next

\* All of it holds in every behaviour.
THEOREM EncoderHolds == Spec => []Inv
<1> QED
  BY Initially, StepKeeps, PTL DEF Spec

\* The types of the encoder's state hold in every behaviour.
THEOREM EncoderTyped == Spec => []TypeOK
<1>1. Inv => TypeOK
  BY DEF Inv
<1> QED
  BY <1>1, EncoderHolds, PTL

\* The tables the encoder is ready to use again are those the decoder will have
\* (litEnc.Reuse, seqCoders.setPrev, dictLitEnc).
THEOREM EncoderTablesKept == Spec => []TablesKept
<1>1. Inv => TablesKept
  BY DEF Inv
<1> QED
  BY <1>1, EncoderHolds, PTL

\* Treeless literals and repeated sequence tables are coded with the tables the decoder
\* has in force (blockEnc.encode).
THEOREM EncoderInStep == Spec => []InStep
<1>1. Inv => InStep
  BY DEF Inv
<1> QED
  BY <1>1, EncoderHolds, PTL
==============================================================================
