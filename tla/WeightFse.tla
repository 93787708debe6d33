------------------------------ MODULE WeightFse ------------------------------
(***************************************************************************)
(* The coder of Huffman weights (internal/fse): two states take turns, and *)
(* the decoder knows that it is done when the bits are used up and the     *)
(* next step would need some.                                              *)
(***************************************************************************)
EXTENDS FseTables

MaxWeightLog == 6                 \* maxFSETableLog, set by cTable.write

DecompressLimit == 255            \* set by ReadTable

Histogram(in) ==
    [w \in 0..Max(Range(in)) |-> Cardinality({i \in DOMAIN in : in[i] = w})]

\* The package has its own copies of the functions on counts and tables.
optimalTableLog(count) ==
    TableLog(Total(count), Log2(Total(count) - 1) + 1, Cardinality(DOMAIN count), MaxWeightLog)

normalizeCount(count, log) == Normalized(count, log)

writeWeightCount(norm, log) == Pad(writeCount(norm, log))

readWeightCount(bits) == readNCount(bits, 255)

encodingTable(norm, log) == buildCTable(norm, log)

decodingTable(norm, log) == buildDtable(norm, log)

\* Mutated: the two states are flushed in the order of their use.
compressSwapped(in, ct) ==
    LET Put(acc, i) ==
            LET k == (Len(in) - i) % 2
                w == in[Len(in) - i + 1]
            IN  IF i <= 2
                THEN [acc EXCEPT !.x[k] = initState(ct, w)]
                ELSE [bits |-> acc.bits \o encode(ct, w, acc.x[k]).bits,
                      x |-> [acc.x EXCEPT ![k] = encode(ct, w, @).state]]
        end == Loop(Put, [bits |-> <<>>, x |-> [k \in {0, 1} |-> 0]], Len(in))
    IN  Pad(end.bits \o flush(ct, end.x[0]) \o flush(ct, end.x[1]) \o <<1>>)

\* compress: the last weight first, those of even index by the first state, those of odd
\* index by the second; a mark ends the bits.
compress(in, ct) ==
    LET Put(acc, i) ==
            LET k == (Len(in) - i) % 2
                w == in[Len(in) - i + 1]
            IN  IF i <= 2
                THEN [acc EXCEPT !.x[k] = initState(ct, w)]
                ELSE [bits |-> acc.bits \o encode(ct, w, acc.x[k]).bits,
                      x |-> [acc.x EXCEPT ![k] = encode(ct, w, @).state]]
        end == Loop(Put, [bits |-> <<>>, x |-> [k \in {0, 1} |-> 0]], Len(in))
    IN  Pad(end.bits \o flush(ct, end.x[1]) \o flush(ct, end.x[0]) \o <<1>>)

\* Compress: the bits of a description and of the weights, or none if they are not worth
\* it.
CompressWeights(in) ==
    LET count == Histogram(in)
        most  == Max({count[w] : w \in DOMAIN count})
        log   == optimalTableLog(count)
        norm  == normalizeCount(count, log)
        out   == writeWeightCount(norm, log) \o compress(in, encodingTable(norm, log))
    IN  IF \/ Len(in) <= 2
           \/ most \in {Len(in), 1} \/ most < Len(in) \div 128
           \/ Bytes(out) >= Len(in)
        THEN <<>>
        ELSE out

\* The states take turns until no bit is left and the state whose turn it is needs one;
\* then both have a last weight.
Turn(bits, dt, acc) ==
    LET mine == dt.cell[acc.x[1] + 1]
    IN  CASE acc.done -> acc
          [] ~acc.done /\ acc.left <= 0 /\ mine.nbBits > 0 ->
               [acc EXCEPT !.done = TRUE, !.out = @ \o <<mine.symbol, dt.cell[acc.x[2] + 1].symbol>>]
          [] OTHER ->
               [x    |-> <<acc.x[2], mine.newState + Below(bits, acc.left, mine.nbBits)>>,
                left |-> acc.left - mine.nbBits,
                out  |-> Append(acc.out, mine.symbol), done |-> FALSE]

\* More weights than DecompressLimit are an error.
decompress(bits, dt) ==
    LET top == EndMark(bits) - 1
        end == Loop(LAMBDA acc, i : Turn(bits, dt, acc),
                    [x    |-> <<Below(bits, top, dt.log), Below(bits, top - dt.log, dt.log)>>,
                     left |-> top - 2 * dt.log,
                     out  |-> <<>>, done |-> FALSE], DecompressLimit)
    IN  [ok |-> end.done /\ end.left = 0, out |-> end.out]

\* Decompress.
DecompressWeights(bits) ==
    LET read == readWeightCount(bits)
    IN  IF ~read.ok
        THEN [ok |-> FALSE, out |-> <<>>]
        ELSE decompress(SubSeq(bits, 8 * read.bytes + 1, Len(bits)),
                        decodingTable(read.norm, read.log))

\* Coded weights read back as they were: the description is found to end where it does,
\* the four bytes the decoder asks for are there, and it stops after the last weight
\* though steps that read no bits may precede it.
WeightsRead(in) ==
    LET bits == CompressWeights(in)
    IN  bits # <<>> => DecompressWeights(bits) = [ok |-> TRUE, out |-> in]
==============================================================================
