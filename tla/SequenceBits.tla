---------------------------- MODULE SequenceBits ----------------------------
(***************************************************************************)
(* The sequences section of a block: lengths and offsets become codes and  *)
(* extra bits, the codes go through three FSE coders, and everything is    *)
(* one bit string that is written from the last sequence to the first      *)
(* (seqenc.go, blockenc.go) and read from its end (fse.go, seqdec.go).     *)
(*                                                                         *)
(* A sequence is [ll, ml, of] as the encoder keeps it: a match length less *)
(* three, and as offset a repeat code 1..3 or the distance plus three.     *)
(***************************************************************************)
EXTENDS FseTables

CodeKinds == {"ll", "ml", "of"}

Each(f(_)) == [ll |-> f("ll"), ml |-> f("ml"), of |-> f("of")]

\* llBitsTable, mlBitsTable: the extra bits of codes 0, 1, ...
llBits == Repeated(<<0>>, 16) \o <<1, 1, 1, 1, 2, 2, 3, 3, 4>> \o [i \in 1..11 |-> i + 5]

mlBits == Repeated(<<0>>, 32) \o <<1, 1, 1, 1, 2, 2, 3, 3, 4, 4, 5>> \o [i \in 1..10 |-> i + 6]

extraBits(kind, code) ==
    CASE kind = "ll" -> llBits[code + 1] [] kind = "ml" -> mlBits[code + 1] [] kind = "of" -> code

\* llCodeTable, mlCodeTable: n[k] lengths share code first + k - 1.
Codes(first, n) == Joined([k \in 1..Len(n) |-> Repeated(<<first + k - 1>>, n[k])])

llCodeTable == Codes(0, Repeated(<<1>>, 16) \o <<2, 2, 2, 2, 4, 4, 8, 8, 16>>)

mlCodeTable == Codes(0, Repeated(<<1>>, 32) \o <<2, 2, 2, 2, 4, 4, 8, 8, 16, 16, 32>>)

llCode(n) == IF n <= 63 THEN llCodeTable[n + 1] ELSE Log2(n) + 19

\* Mutated: the table, which wraps, is left one length too late.
mlCodeWrapped(n) == IF n <= 128 THEN mlCodeTable[(n % 128) + 1] ELSE Log2(n) + 36

mlCode(n) == IF n <= 127 THEN mlCodeTable[n + 1] ELSE Log2(n) + 36

ofCode(n) == Log2(n)

Code(kind, seq) ==
    CASE kind = "ll" -> llCode(seq.ll) [] kind = "ml" -> mlCode(seq.ml) [] kind = "of" -> ofCode(seq.of)

\* fillBase and symbolTableX: the value a code stands for when its extra bits are zero.
fillBase(base, bits, k) == base + SumUpTo([i \in 0..(Len(bits) - 1) |-> 2^bits[i + 1]], k)

baseLine(kind, code) ==
    CASE kind = "ll" /\ code < 16 -> code
      [] kind = "ll" /\ code >= 16 -> fillBase(16, SubSeq(llBits, 17, Len(llBits)), code - 16)
      [] kind = "ml" /\ code < 32 -> code + 3
      [] kind = "ml" /\ code >= 32 -> fillBase(35, SubSeq(mlBits, 33, Len(mlBits)), code - 32)
      [] kind = "of" /\ code < 2 -> code
      [] kind = "of" /\ code >= 2 -> fillBase(1, [i \in 1..28 |-> i + 1], code - 2)

\* maxTableSymbol.
maxSymbol == [k \in CodeKinds |-> CASE k = "ll" -> 35 [] k = "ml" -> 52 [] k = "of" -> 30]

\* initPredefined.
predefLog == [k \in CodeKinds |-> IF k = "of" THEN 5 ELSE 6]

predefNorm ==
    LET from(s) == [c \in 0..(Len(s) - 1) |-> s[c + 1]]
    IN  [k \in CodeKinds |->
           CASE k = "ll" -> from(<<4, 3>> \o Repeated(<<2>>, 11) \o <<1, 1, 1>> \o Repeated(<<2>>, 9)
                                 \o <<3, 2>> \o Repeated(<<1>>, 5) \o Repeated(<<-1>>, 4))
             [] k = "of" -> from(Repeated(<<1>>, 6) \o <<2, 2, 2>> \o Repeated(<<1>>, 15)
                                 \o Repeated(<<-1>>, 5))
             [] k = "ml" -> from(<<1, 4, 3>> \o Repeated(<<2>>, 6) \o Repeated(<<1>>, 37)
                                 \o Repeated(<<-1>>, 7))]

------------------------------------------------------------------------------
\* genCodes: the histogram of a kind.
CodeCount(kind, seqs) ==
    LET codes == [i \in DOMAIN seqs |-> Code(kind, seqs[i])] \o <<>>
    IN  [c \in 0..Max(Range(codes)) |-> Cardinality({i \in DOMAIN codes : codes[i] = c})]

\* approxSize gives no size when a code has no cell; what chooseComp may take then.
Usable(kind, seqs, mode) ==
    mode = "Predefined" => Max(DOMAIN CodeCount(kind, seqs)) \in DOMAIN predefNorm[kind]

\* chooseComp, writeCount and, on the other side, prepareSequences: the encoding table,
\* and the decoding table after the description was read.
Coder(kind, seqs, mode) ==
    LET count == CodeCount(kind, seqs)
        one   == Max(DOMAIN count)
        log   == TableLog(Len(seqs), Log2(Len(seqs)) + 1, Cardinality(DOMAIN count), 8)
        norm  == Normalized(count, log)
        read  == readNCount(Pad(writeCount(norm, log)) \o Repeated(<<1>>, 24), maxSymbol[kind])
    IN  CASE mode = "Predefined" ->
               [ct |-> buildCTable(predefNorm[kind], predefLog[kind]),
                dt |-> buildDtable(predefNorm[kind], predefLog[kind])]
          [] mode # "Predefined" /\ count[one] = Len(seqs) -> [ct |-> rleCTable(one), dt |-> rleDtable(one)]
          [] OTHER -> [ct |-> buildCTable(norm, log), dt |-> buildDtable(read.norm, read.log)]

------------------------------------------------------------------------------
\* The extra bits of a sequence, in the order of writing.
Extra(s) ==
    Bits(s.ll, extraBits("ll", llCode(s.ll))) \o Bits(s.ml, extraBits("ml", mlCode(s.ml)))
    \o Bits(s.of, extraBits("of", ofCode(s.of)))

\* blockEnc.encode: the last sequence sets up the coders; for each one before, the
\* coders put out the states they leave, then come the extra bits.
WriteSequences(seqs, coder) ==
    LET n == Len(seqs)
        Out(acc, s, k) == encode(coder[k].ct, Code(k, s), acc.x[k])
        Put(acc, i) ==
            LET s == seqs[n - i]
            IN  [bits |-> acc.bits \o Out(acc, s, "of").bits \o Out(acc, s, "ml").bits
                                   \o Out(acc, s, "ll").bits \o Extra(s),
                 x |-> Each(LAMBDA k : Out(acc, s, k).state)]
        end == Loop(Put, [bits |-> Extra(seqs[n]),
                          x |-> Each(LAMBDA k : initState(coder[k].ct, Code(k, seqs[n])))], n - 1)
    IN  Pad(end.bits \o flush(coder["ml"].ct, end.x["ml"]) \o flush(coder["of"].ct, end.x["of"])
                     \o flush(coder["ll"].ct, end.x["ll"]) \o <<1>>)

\* decodeSync and next, without what they do to the output: n sequences are read down
\* from position p.  The states are read in one piece after the extra bits, of the
\* last sequence there are none.
RECURSIVE ReadSequences(_, _, _, _)
ReadSequences(bits, coder, n, acc) ==
    LET cell(k)  == coder[k].dt.cell[acc.x[k] + 1]
        value(k, p) == baseLine(k, cell(k).symbol) + Below(bits, p, extraBits(k, cell(k).symbol))
        wide(k)  == extraBits(k, cell(k).symbol)
        next(k, p)  == cell(k).newState + Below(bits, p, cell(k).nbBits)
        pml == acc.p - wide("of")
        pll == pml - wide("ml")
        pl  == pll - wide("ll")
        pm  == pl - cell("ll").nbBits
        po  == pm - cell("ml").nbBits
        out == Append(acc.out, [ll |-> value("ll", pll), ml |-> value("ml", pml), of |-> value("of", acc.p)])
    IN  CASE acc.p < 0 -> [ok |-> FALSE, out |-> acc.out]
          [] acc.p >= 0 /\ n = 1 -> [ok |-> pl <= 0, out |-> out]
          [] OTHER -> ReadSequences(bits, coder, n - 1,
                        [p |-> po - cell("of").nbBits, out |-> out,
                         x |-> [ll |-> next("ll", pl), ml |-> next("ml", pm), of |-> next("of", po)]])

\* sequenceDecs.initialize.
StartStates(bits, coder) ==
    LET log(k) == coder[k].dt.log
        top == EndMark(bits) - 1
    IN  [p |-> top - log("ll") - log("of") - log("ml"), out |-> <<>>,
         x |-> [ll |-> Below(bits, top, log("ll")),
               of |-> Below(bits, top - log("ll"), log("of")),
               ml |-> Below(bits, top - log("ll") - log("of"), log("ml"))]]

\* What adjustOffset is given for an offset of the encoder: 0..2 for a repeat code.
Meant(s) == [ll |-> s.ll, ml |-> s.ml + 3, of |-> IF s.of <= 3 THEN s.of - 1 ELSE s.of - 3]

\* A decoder reads the sequences that were written, whatever coders are chosen, and
\* reads all bits and no more.
SequencesRead(seqs, mode) ==
    (\A k \in CodeKinds : Usable(k, seqs, mode[k])) =>
        LET coder == Each(LAMBDA k : Coder(k, seqs, mode[k]))
            bits  == WriteSequences(seqs, coder)
        IN  ReadSequences(bits, coder, Len(seqs), StartStates(bits, coder)) =
              [ok |-> TRUE, out |-> [i \in DOMAIN seqs |-> Meant(seqs[i])]]
==============================================================================
