---------------------------- MODULE BlockEncoder ----------------------------
(***************************************************************************)
(* The entropy tables of the block encoder (blockenc.go, seqenc.go, the    *)
(* reuse logic of internal/huff0/compress.go) against the tables a decoder *)
(* of the frame has in force.                                              *)
(*                                                                         *)
(* The encoder keeps the Huffman table of an earlier block (litEnc) and,   *)
(* for every kind of sequence code, the previous FSE encoder.  It decides  *)
(* block by block whether a table is sent, repeated or replaced, may find  *)
(* at the very end that the block is larger than its input and send it     *)
(* raw, and may fail half way.  A table the decoder never saw, or has      *)
(* since replaced, must not be referred to.                                *)
(*                                                                         *)
(* literals and sequences of BlockTables are the decoder's view; a block   *)
(* on its way is in `block`.  A table is a value; costs are abstracted to  *)
(* the choices they can lead to, except the sizes of the literals section, *)
(* because a table can be built and then not sent for a byte of size.      *)
(***************************************************************************)
EXTENDS BlockTables

CONSTANTS LitSizes,     \* literals of a block
          OutSizes      \* sizes the Huffman coder may arrive at

ASSUME SizesAssumption == LitSizes \subseteq Nat /\ OutSizes \subseteq Nat

VARIABLES frame,        \* "none", "stream", "oneshot" or "broken"
          litEnc,       \* [prev, reuse]: prevTable and Reuse of the huff0.Scratch
          dictLitEnc,   \* the dictionary's literals table, if still to be tried
          prevCoder,    \* kind -> the previous FSE encoder (llPrev, ofPrev, mlPrev)
          block         \* the block on its way to the decoder

vars == <<literals, sequences, frame, litEnc, dictLitEnc, prevCoder, block>>

\* symbolLen is FALSE when it is zero, which makes approxSize refuse the table.
FseEncoders == [table : Built, symbolLen : BOOLEAN, useRLE : BOOLEAN]

NoBlock == [type |-> "none"]

RawBlock == [type |-> "Raw"]

RLEBlock == [type |-> "RLE"]

Blocks ==
    {NoBlock, RawBlock, RLEBlock} \cup
    [type : {"Compressed"}, lit : LiteralsSections, seqs : [Kinds -> SequenceSections]]

Init ==
    /\ TablesInit
    /\ frame = "none"
    /\ litEnc = [prev |-> NoTable, reuse |-> "Allow"]
    /\ dictLitEnc = NoTable
    /\ prevCoder \in [Kinds -> [table : Built, symbolLen : {FALSE}, useRLE : {FALSE}]]
    /\ block = NoBlock

------------------------------------------------------------------------------
\* The FSE encoders.  genCodes and normalizeCount build the table of the block in the
\* current encoder each time (setPrev clears the mark reUsed of the encoder that
\* becomes the current one), so between blocks only the previous encoder matters.

\* Mutated: a predefined table leaves the previous one alone.
SetPrevUnless(prev, choice) ==
    IF choice.mode \in {"RLE", "FSE"}
    THEN [table |-> choice.table, symbolLen |-> TRUE, useRLE |-> choice.mode = "RLE"]
    ELSE prev

\* seqCoders.setPrev for one kind: the encoder just used becomes the previous one; a
\* repeated one stays; a predefined one makes the previous one unusable.
SetPrev(prev, choice) ==
    CASE choice.mode \in {"RLE", "FSE"} ->
           [table |-> choice.table, symbolLen |-> TRUE, useRLE |-> choice.mode = "RLE"]
      [] choice.mode = "Repeat"     -> prev
      [] choice.mode = "Predefined" -> [prev EXCEPT !.symbolLen = FALSE]

\* What approxSize can give a size for.
CanRepeat(e) == e.symbolLen /\ ~e.useRLE

\* normalizeCount and chooseComp: a single code is RLE, else any of the three may be
\* the cheapest.
CodeChoices(prev) ==
    [mode : {"RLE", "FSE"}, table : Built] \cup
    [mode : {"Predefined"}, table : {PredefTable}] \cup
    {s \in [mode : {"Repeat"}, table : {prev.table}] : CanRepeat(prev)}

------------------------------------------------------------------------------
\* The literals.

\* Scratch.Reuse with WantLogLess = 4: the output must save a sixteenth.
WantSize(n) == n - (n \div 16)

\* literalsHeader.setSize and setSizes.
\* Mutated: one byte for as long as the format would allow.
RawHeaderShort(n) ==
    IF n < 32 THEN 1 ELSE IF n < 2048 THEN 2 ELSE 3

RawHeader(n) ==
    IF n < 16 THEN 1 ELSE IF n < 2048 THEN 2 ELSE 3

CompressedHeader(m, n) ==
    IF m < 1024 /\ n < 1024 THEN 3
    ELSE IF m < 16384 /\ n < 16384 THEN 4
    ELSE 5

\* The second look of encode at a coded literals section.
TooBig(m, n) ==
    /\ m + 5 > n
    /\ m + CompressedHeader(m, n) >= n + RawHeader(n)

\* Mutated: an empty table can be used again.
CompressEmpty(e, n) ==
    LET sizes == {m \in OutSizes : m < WantSize(n)}
    IN  [as : {"Reused"}, prev : {e.prev}, size : sizes]

\* huff0.compress: as is the outcome, prev the table kept for the next call, size
\* the bytes written.  Only the policies None and Allow reach it.
Compress(e, n) ==
    LET kept  == IF e.reuse = "None" THEN NoTable ELSE e.prev
        sizes == {m \in OutSizes : m < WantSize(n)}
        plain == {[as |-> "Incompressible", prev |-> kept, size |-> 0],
                  [as |-> "RLE", prev |-> kept, size |-> 0]}
        again == [as : {"Reused"}, prev : {kept} \ {NoTable}, size : sizes]
        fresh == [as : {"New"}, prev : Built, size : sizes]
    IN  plain \cup fresh \cup (IF e.reuse = "Allow" THEN again ELSE {})

\* Compress1X and Compress4X are called for more than 16 literals.
Coded(e, n) ==
    IF n > 16
    THEN Compress(e, n)
    ELSE {[as |-> "Incompressible", prev |-> e.prev, size |-> 0]}

\* The section that is sent and the Huffman coder that is left.
Section(e, n, r) ==
    IF r.as = "RLE"
    THEN [section |-> [mode |-> "RLE", table |-> NoTable], enc |-> [e EXCEPT !.prev = r.prev]]
    ELSE IF r.as = "Incompressible" \/ TooBig(r.size, n)
    THEN [section |-> [mode |-> "Raw", table |-> NoTable], enc |-> [e EXCEPT !.prev = r.prev]]
    ELSE [section |-> [mode |-> IF r.as = "Reused" THEN "Treeless" ELSE "Compressed",
                       table |-> r.prev],
          enc |-> [prev |-> r.prev, reuse |-> "Allow"]]

LiteralsChoices(e) ==
    UNION {{Section(e, n, r) : r \in Coded(e, n)} : n \in LitSizes}

\* The dictionary's table is transferred for the first block that needs it.
Transferred(d) ==
    IF d # NoTable THEN [prev |-> d, reuse |-> "Allow"] ELSE litEnc

------------------------------------------------------------------------------
\* Writer.Reset, or a call of encodeAll: resetBase and initNewEncode.  d: with a
\* dictionary that has tables (a raw one has none).
StartFrame(mode, d) ==
    /\ block = NoBlock
    /\ frame' = mode
    /\ litEnc' = [litEnc EXCEPT !.reuse = "None"]
    /\ prevCoder' = [k \in Kinds |-> [prevCoder[k] EXCEPT !.symbolLen = FALSE]]
    /\ dictLitEnc' = IF d THEN DictTable ELSE NoTable
    /\ FrameTables(d)
    /\ UNCHANGED block

Open == frame \in {"stream", "oneshot"} /\ block = NoBlock

\* A stream clears dictLitEnc (blockEnc.reset) before each block, encodeAll after it.
DictLiterals == IF frame = "stream" THEN NoTable ELSE dictLitEnc

\* No sequences, or too little saved: the block is sent as it is.
EncodeRaw ==
    /\ Open
    /\ block' = RawBlock
    /\ dictLitEnc' = NoTable
    /\ UNCHANGED <<literals, sequences, frame, litEnc, prevCoder>>

\* One sequence that repeats one byte.
EncodeRLE ==
    /\ Open
    /\ block' = RLEBlock
    /\ dictLitEnc' = NoTable
    /\ UNCHANGED <<literals, sequences, frame, litEnc, prevCoder>>

\* The block is coded and sent.
EncodeCompressed ==
    /\ Open
    /\ \E l \in LiteralsChoices(Transferred(DictLiterals)),
          c \in [Kinds -> SequenceSections] :
         /\ \A k \in Kinds : c[k] \in CodeChoices(prevCoder[k])
         /\ litEnc' = l.enc
         /\ prevCoder' = [k \in Kinds |-> SetPrev(prevCoder[k], c[k])]
         /\ block' = [type |-> "Compressed", lit |-> l.section, seqs |-> c]
    /\ dictLitEnc' = NoTable
    /\ UNCHANGED <<literals, sequences, frame>>

\* The block is coded, is no smaller than the input, and goes out raw: setPrev is not
\* called, Reuse is taken back.
EncodeFallsBack ==
    /\ Open
    /\ \E l \in LiteralsChoices(Transferred(DictLiterals)) :
         litEnc' = [l.enc EXCEPT !.reuse = "None"]
    /\ block' = RawBlock
    /\ dictLitEnc' = NoTable
    /\ UNCHANGED <<literals, sequences, frame, prevCoder>>

\* An internal error of an entropy coder: the literals are done, nothing is sent, the
\* frame is over.
EncodeFails ==
    /\ Open
    /\ \E l \in LiteralsChoices(Transferred(DictLiterals)) : litEnc' = l.enc
    /\ frame' = "broken"
    /\ dictLitEnc' = NoTable
    /\ UNCHANGED <<literals, sequences, prevCoder, block>>

\* The decoder takes the block.
Deliver ==
    /\ block # NoBlock
    /\ IF block.type = "Compressed"
       THEN /\ literals' = LiteralsAfter(literals, block.lit)
            /\ sequences' = [k \in Kinds |-> SequenceAfter(sequences[k], block.seqs[k])]
       ELSE UNCHANGED formatVars
    /\ block' = NoBlock
    /\ UNCHANGED <<frame, litEnc, dictLitEnc, prevCoder>>

Next ==
    \/ \E mode \in {"stream", "oneshot"}, d \in BOOLEAN : StartFrame(mode, d)
    \/ EncodeRaw
    \/ EncodeRLE
    \/ EncodeCompressed
    \/ EncodeFallsBack
    \/ EncodeFails
    \/ Deliver

Spec == Init /\ [][Next]_vars

------------------------------------------------------------------------------
\* Properties.

\* The values of the encoder's state; a compressed or treeless literals section
\* has a table.
TypeOK ==
    /\ literals \in Tables \cup {NoTable}
    /\ sequences \in [Kinds -> Tables \cup {NoTable}]
    /\ frame \in {"none", "stream", "oneshot", "broken"}
    /\ litEnc \in [prev : Tables \cup {NoTable}, reuse : {"None", "Allow"}]
    /\ dictLitEnc \in {DictTable, NoTable}
    /\ prevCoder \in [Kinds -> FseEncoders]
    /\ block \in Blocks

\* A block that refers to a table in force, of literals (treeless) or of sequence
\* codes (repeat), was coded with exactly the table that the decoder has: tables that
\* were built for a block that went out raw, that a later predefined table or single
\* code replaced, or that belong to an earlier frame are never referred to
\* (blockEnc.encode, seqCoders.setPrev, huff0.compress).
InStep ==
    block.type = "Compressed" =>
        /\ block.lit.mode = "Treeless" => block.lit.table = literals
        /\ \A k \in Kinds : block.seqs[k].mode = "Repeat" => block.seqs[k].table = sequences[k]

\* The tables in force once the block on its way has arrived.
ComingLiterals ==
    IF block.type = "Compressed" THEN LiteralsAfter(literals, block.lit) ELSE literals

ComingSequence(k) ==
    IF block.type = "Compressed" THEN SequenceAfter(sequences[k], block.seqs[k]) ELSE sequences[k]

\* Inside a frame, every table the encoder would be ready to use again is the one the
\* decoder will have: litEnc.prevTable when Reuse allows it, the previous FSE encoder
\* unless its symbolLen is zero or it holds a single code, the dictionary's table as
\* long as it waits to be tried.
TablesKept ==
    frame \in {"stream", "oneshot"} =>
        /\ litEnc.reuse = "Allow" => litEnc.prev = ComingLiterals /\ litEnc.prev # NoTable
        /\ dictLitEnc # NoTable => ComingLiterals = dictLitEnc
        /\ \A k \in Kinds : CanRepeat(prevCoder[k]) => prevCoder[k].table = ComingSequence(k)
==============================================================================
