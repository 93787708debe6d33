------------------------------ MODULE MCCodecs ------------------------------
(***************************************************************************)
(* The coders of a block's sections on samples: a sample is taken, and     *)
(* when it is put back every property looks at the kind it is about.  What *)
(* each property asks of a sample is stated in the modules of the coders.  *)
(***************************************************************************)
EXTENDS HuffStreams, SequenceBits, Headers, SequenceExec

VARIABLE sample

Nothing == [kind |-> "none"]

Times(n, a) == [i \in 1..n |-> a]

Histo(s) == [i \in 0..(Len(s) - 1) |-> s[i + 1]]

------------------------------------------------------------------------------
\* Histograms of sequence codes: a rare symbol, a dominant one, runs of absent symbols at
\* the lengths where their description changes, more symbols than the smallest table
\* has cells for.
Histograms ==
    LET some == {<<1, 1, 1, 1, 0, 1, 1, 0, 1>>, Times(43, 1), <<1, 30>>, <<40, 1, 0, 0, 0, 3, 500, 2>>}
                \cup {<<a, b, d>> : a \in {0, 1, 7, 60}, b \in {0, 1, 33}, d \in {1, 2, 300}}
                \cup {<<5>> \o Times(n, 0) \o <<9>> : n \in {2, 3, 24, 25, 27, 48}}
    IN  {Histo(s) : s \in {t \in some : \E i \in 1..(Len(t) - 1) : t[i] > 0}}

\* Weights of a Huffman table, with long runs that read no bits at the end.
WeightLists ==
    {Times(20, 0) \o <<1>> \o Times(20, 0) \o <<2, 2>>,
     <<4, 4, 4, 4, 3, 3, 3, 2, 2, 1, 1>> \o Times(30, 0) \o <<5>> \o Times(20, 1),
     Times(40, 1) \o <<2>>, Times(60, 3) \o <<1>>, Times(61, 3) \o <<1>>,
     Times(100, 0) \o <<1, 1>>, Times(100, 0) \o <<11, 1>>, <<1, 1>> \o Times(7, 0) \o <<1, 1, 2, 2>>}
    \cup {Times(n, 0) \o <<a>> \o Times(m, b) : n \in {8, 9, 30}, m \in {5, 20, 21}, a \in {1, 3}, b \in {1, 2}}

\* Histograms of literals: optimal codes within eleven bits and beyond, of which some
\* cannot be repaired by giving the saved cells to the next length; tables whose weights
\* are coded and tables whose weights are not.
LiteralHistograms ==
    {Histo(s) : s \in
       {<<1, 1, 2, 5, 8, 18, 32, 42, 79, 197, 161>>, <<1, 1, 1, 1, 2, 5, 4, 7, 7, 19, 24, 40, 71, 135>>,
        <<1, 1, 1, 1, 1, 3, 4, 9, 9, 20, 43, 53, 97>>, <<1, 1, 1, 1, 1, 1, 2, 2, 2, 2, 3, 9, 13, 20>>,
        <<1, 1, 2, 3, 5, 8, 13>>, <<1, 1, 2, 3, 5, 8, 13, 21, 34, 55, 89, 144, 233>>,
        [i \in 1..15 |-> 2^Max({0, i - 2})], <<20, 1>>, Times(20, 1) \o <<7>>,
        Times(60, 0) \o <<3, 2>> \o Times(40, 1) \o <<9, 200>>, Times(129, 1) \o <<40>>,
        Times(60, 1) \o <<9>> \o Times(60, 0) \o <<9, 3>>, Times(18, 1) \o <<300>>,
        <<1, 1, 1, 3, 3, 3, 8, 8, 8, 20, 20, 20, 55, 55, 55, 150, 150, 400, 1000>>}
       \cup {<<a, b, d, e, 100>> : a \in {0, 1, 9}, b \in {0, 1, 4}, d \in {1, 2, 30}, e \in {1, 60}}}

\* Literals for one stream and for four, and the table of earlier ones.
Streams ==
    LET Lits(n, m, k) == [i \in 1..n |-> (i * i * k + i \div 3) % m] \o <<0, 0, 0, 0>>
    IN  [kind : {"stream"},
         lits : {Lits(n, m, k) : n \in 13..17, m \in {2, 5, 11, 16}, k \in {1, 3}},
         earlier : {Histo(s) : s \in {<<1, 1, 2, 3, 5, 8, 13>>, <<1, 1, 2, 5, 8, 18, 32, 42, 79, 197, 161>>,
                                       [i \in 1..15 |-> 2^Max({0, i - 2})]}}]

\* Sequences with lengths and offsets at the boundaries of their codes.
SequenceLists ==
    LET S(l, m, o) == [ll |-> l, ml |-> m, of |-> o]
    IN  {<<S(0, 0, 1)>>, <<S(5, 130, 7), S(5, 130, 7), S(5, 130, 7)>>,
         <<S(131071, 0, 4), S(0, 131071, 2^29 + 3), S(63, 127, 3), S(64, 128, 2), S(15, 31, 8), S(16, 32, 7)>>,
         <<S(0, 0, 1), S(1, 2, 2), S(1, 3, 3), S(1, 3, 3), S(0, 34, 2^29 + 2), S(3, 35, 17),
           S(65535, 65535, 65535), S(65536, 65536, 65536)>>,
         <<S(1, 1, 4), S(1, 1, 5), S(1, 126, 4)>>, <<S(1, 1, 4), S(2, 127, 100)>>,
         <<S(17, 33, 4), S(18, 34, 5), S(24, 63, 6), S(32, 64, 7), S(48, 96, 9), S(47, 127, 1)>>}

\* Frame headers with sizes and dictionary identifiers at the boundaries of their widths.
FrameHeaders ==
    LET word(n) == [hi |-> n \div 65536, lo |-> n % 65536]
    IN  [size   : {word(n) : n \in {0, 1, 255, 256, 65535, 65536, 65791, 65792, 2147483647}}
                  \cup [hi : {65535}, lo : {65534, 65535}] \cup [hi : {65536, 2^24}, lo : {0}],
         window : {1024, 1025, 2048, 2^20, 2^29}, single : BOOLEAN, crc : BOOLEAN,
         dict   : {word(n) : n \in {0, 1, 255, 256, 65535, 65536}} \cup [hi : {32768}, lo : {5}]]

BlockHeaders == [last : BOOLEAN, type : 0..2, size : {0, 1, 131071, 131072, 2^21 - 1}]

LiteralsHeaders ==
    [type : {0, 1}, comp : {0}, single : {TRUE}, regen : {0, 1, 15, 16, 17, 31, 32, 2047, 2048, 131072}]
    \cup {h \in [type : {2, 3}, comp : {6, 900, 1023, 1024, 16383, 16384, 120000}, single : BOOLEAN,
                 regen : {17, 1022, 1023, 1024, 16383, 16384, 131072}] :
            h.comp <= h.regen /\ (h.single <=> h.regen < 1024)}

\* Matches that begin in the dictionary, the history, the output, or too far back.
Copies ==
    LET Run(from, n) == [i \in 1..n |-> from + i]
        envs == {[dict |-> Run(10, d), hist |-> Run(20, h), window |-> w, maxBlock |-> Min({b, w}), start |-> s] :
                   d \in 0..3, h \in 0..2, w \in {2, 4, 20}, b \in {2, 5, 10}, s \in 0..1}
    IN  {[kind |-> "copy", env |-> e, seq |-> q,
          acc |-> [ok |-> TRUE, out |-> Run(30, n), lits |-> Run(40, 1), room |-> n]] :
           e \in envs, n \in {2}, q \in [ll : 0..1, mo : {0, 1, 2, 3, 5, 6, 8}, ml : {0, 1, 4, 5, 6}]}

------------------------------------------------------------------------------
SampleInit == sample = Nothing

Of(kind, inputs) == [kind : {kind}, in : inputs]

Take ==
    /\ sample = Nothing
    /\ \/ sample' \in Of("histogram", Histograms)
       \/ sample' \in Of("weights", WeightLists)
       \/ sample' \in Of("literals", LiteralHistograms)
       \/ sample' \in Streams
       \/ sample' \in [kind : {"sequences"}, in : SequenceLists, mode : [CodeKinds -> {"Predefined", "Own"}]]
       \/ sample' \in Of("frame header", FrameHeaders)
       \/ sample' \in Of("block header", BlockHeaders)
       \/ sample' \in Of("literals header", LiteralsHeaders)
       \/ sample' \in Of("count", {1, 127, 128, 255, 256, 32511, 32512, 32513, 65535})
       \/ sample' \in Copies

PutBack == sample # Nothing /\ sample' = Nothing

SampleNext == Take \/ PutBack

------------------------------------------------------------------------------
\* The table size that chooseComp takes for a histogram of codes.
LogOf(count) ==
    TableLog(Total(count), Log2(Total(count)) + 1, Cardinality(DOMAIN count), 8)

\* Normalised counts fill the table and leave every code that occurs a cell.
CountsAddUp ==
    [][sample.kind = "histogram" => SharesAddUp(sample.in, LogOf(sample.in))]_sample

\* A decoder finds the normalised counts where they are described, and its table undoes
\* every step of the encoder's.
FseReadBack ==
    [][sample.kind = "histogram" =>
           LET log  == LogOf(sample.in)
               norm == Normalized(sample.in, log)
           IN  /\ DescriptionReads(norm, log, Bits(37888, 16))
               /\ TablesInvert(norm, log)]_sample

\* Coded Huffman weights read back, to the last one.
WeightsReadBack == [][sample.kind = "weights" => WeightsRead(sample.in)]_sample

\* Code lengths are complete and within the limit, and a table reads back.
CodesComplete ==
    [][sample.kind = "literals" => HuffComplete(sample.in) /\ HuffReads(sample.in)]_sample

\* Literals read back from one stream and from four, with a table of theirs or of
\* earlier literals.
LiteralsReadBack ==
    [][sample.kind = "stream" => LiteralsRead(sample.lits, buildHuffTable(sample.earlier))]_sample

\* Sequences read back with every choice of coders.
SequencesReadBack ==
    [][sample.kind = "sequences" => SequencesRead(sample.in, sample.mode)]_sample

\* All headers read back as they were meant.
HeadersReadBack ==
    [][/\ sample.kind = "frame header" => FrameHeaderReads(sample.in)
       /\ sample.kind = "block header" => BlockHeaderReads(sample.in)
       /\ sample.kind = "literals header" => LiteralsHeaderReads(sample.in)
       /\ sample.kind = "count" => CountReads(sample.in)]_sample

\* Matches are copied byte by byte wherever they lie.
CopiesBytewise ==
    [][sample.kind = "copy" => CopyIsBytewise(sample.env, sample.seq, 1, sample.acc)]_sample
==============================================================================
