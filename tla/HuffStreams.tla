----------------------------- MODULE HuffStreams -----------------------------
(***************************************************************************)
(* Huffman coded literals (internal/huff0): one stream or four, written    *)
(* from the last symbol to the first and read back from the end mark.      *)
(*                                                                         *)
(* A table of the encoder is one of buildHuffTable, a table of the decoder *)
(* one of ReadTable.  Bits are put out of the same string in a unit of 32  *)
(* or 64 at a time by the code; a position in the string stands for the    *)
(* register and its fill.                                                  *)
(***************************************************************************)
EXTENDS HuffTable

\* countSimple.
Occurrences(lits) ==
    [s \in 0..Max(Range(lits)) |-> Cardinality({i \in DOMAIN lits : lits[i] = s})]

\* canUseTable.
canUseTable(table, lits) ==
    \A s \in Range(lits) : s \in DOMAIN table.bits /\ table.bits[s] > 0

\* Mutated: the first symbols come first.
compressForward(lits, table) ==
    Pad(Joined([i \in 1..Len(lits) |->
                      Bits(table.val[lits[i]], table.bits[lits[i]])])
        \o <<1>>)

\* compress1xDo: the last symbol first, the end mark, zeros up to the byte.
compress1xDo(lits, table) ==
    Pad(Joined([i \in 1..Len(lits) |->
                      LET s == lits[Len(lits) + 1 - i] IN Bits(table.val[s], table.bits[s])])
        \o <<1>>)

\* compress4X: four parts of a quarter, rounded up; the lengths of the first three go
\* in front.
compress4X(lits, table) ==
    LET segment == (Len(lits) + 3) \div 4
        part(i) == compress1xDo(SubSeq(lits, (i - 1) * segment + 1, Min({i * segment, Len(lits)})), table)
    IN  [jump |-> [i \in 1..3 |-> Bytes(part(i))] \o <<>>,
         body |-> part(1) \o part(2) \o part(3) \o part(4)]

\* The symbol of a cell of the decoding table.
Symbol(table, cell) ==
    CHOOSE s \in DOMAIN table.bits :
        /\ table.bits[s] > 0
        /\ cell \in table.cell[s]..(table.cell[s] + 2^(table.log - table.bits[s]) - 1)

\* Symbols are read from position p down to the first bit; no more than limit are
\* accepted, and the last one must end on the first bit.
RECURSIVE Drained(_, _, _, _, _)
Drained(bits, table, limit, p, out) ==
    LET s == Symbol(table, Below(bits, p, table.log))
    IN  IF p <= 0
        THEN [ok |-> p = 0, out |-> out]
        ELSE IF Len(out) >= limit
        THEN [ok |-> FALSE, out |-> out]
        ELSE Drained(bits, table, limit, p - table.bits[s], Append(out, s))

\* Decoder.Decompress1X; limit is the capacity of dst.
Decompress1X(bits, table, limit) ==
    IF Len(bits) = 0 \/ EndMark(bits) <= Len(bits) - 8
    THEN [ok |-> FALSE, out |-> <<>>]
    ELSE Drained(bits, table, limit, EndMark(bits) - 1, <<>>)

\* The loops for tables of at most 8 bits take a byte, of which only the part in front
\* of the table's log is looked up.
RECURSIVE Drained8(_, _, _, _, _)
Drained8(bits, table, limit, p, out) ==
    LET s == Symbol(table, Below(bits, p, 8) \div 2^(8 - table.log))
    IN  IF p <= 0
        THEN [ok |-> p = 0, out |-> out]
        ELSE IF Len(out) >= limit
        THEN [ok |-> FALSE, out |-> out]
        ELSE Drained8(bits, table, limit, p - table.bits[s], Append(out, s))

decompress1X8Bit(bits, table, limit) ==
    IF Len(bits) = 0 \/ EndMark(bits) <= Len(bits) - 8
    THEN [ok |-> FALSE, out |-> <<>>]
    ELSE Drained8(bits, table, limit, EndMark(bits) - 1, <<>>)

\* The four parts of the input; each of the first three leaves something for the next.
Parts(text) ==
    LET from(i) == SumUpTo([k \in 0..2 |-> text.jump[k + 1]], i - 1)
    IN  [ok   |-> Bytes(text.body) >= 4 /\ \A i \in 1..3 : from(i + 1) < Bytes(text.body),
         bits |-> [i \in 1..4 |-> SubSeq(text.body, 8 * from(i) + 1,
                                         IF i = 4 THEN Len(text.body) ELSE 8 * from(i + 1))] \o <<>>]

\* Every part must fill its share of the output exactly.
FourParts(text, dstSize, One(_, _)) ==
    LET every   == (dstSize + 3) \div 4
        want(i) == Min({every, dstSize - (i - 1) * every})
        part(i) == One(Parts(text).bits[i], want(i))
    IN  [ok  |-> Parts(text).ok /\ \A i \in 1..4 : part(i).ok /\ Len(part(i).out) = want(i),
         out |-> part(1).out \o part(2).out \o part(3).out \o part(4).out]

decompress4X8bit(text, table, dstSize) ==
    FourParts(text, dstSize, LAMBDA bits, want : decompress1X8Bit(bits, table, want))

Decompress4X(text, table, dstSize) ==
    IF table.log <= 8
    THEN decompress4X8bit(text, table, dstSize)
    ELSE FourParts(text, dstSize, LAMBDA bits, want : Decompress1X(bits, table, want))

\* Literals come back as they were, from one stream and from four, through a table of
\* their own and through one of earlier literals that has codes for them.
LiteralsRead(lits, earlier) ==
    LET own   == buildHuffTable(Occurrences(lits))
        enc   == IF canUseTable(earlier, lits) THEN earlier ELSE own
        dec   == ReadTable(writeTable(enc))
        bits  == compress1xDo(lits, enc)
        whole == [ok |-> TRUE, out |-> lits]
    IN  /\ Decompress1X(bits, dec, Len(lits)) = whole
        /\ dec.log <= 8 => decompress1X8Bit(bits, dec, Len(lits)) = whole
        /\ Len(lits) >= 12 => Decompress4X(compress4X(lits, enc), dec, Len(lits)) = whole
==============================================================================
