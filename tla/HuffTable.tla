------------------------------ MODULE HuffTable ------------------------------
(***************************************************************************)
(* Huffman tables of literals (internal/huff0): code lengths from a        *)
(* histogram, the limit on their length, code values, the description of a *)
(* table as weights, and what the decoder makes of it.                     *)
(*                                                                         *)
(* A histogram is a function on the symbols 0..n-1, the last of which      *)
(* occurs; at least two occur.  A table is [log, bits, val], bits = 0 for  *)
(* a symbol that does not occur.                                           *)
(***************************************************************************)
EXTENDS WeightFse, TLC

tableLogMax == 11                 \* also TableLog, the default of prepare

minTablelog == 5

\* optimalTableLog: the longest code wanted; minTableLog is the minimum inside.
WantedLog(count) ==
    LET srcLen     == Total(count)
        minBits    == Min({Log2(srcLen) + 1, Log2(Cardinality(DOMAIN count) - 1) + 2})
        maxBitsSrc == (Log2(srcLen - 1) - 1) % 256
    IN  Between(minTablelog, Max({minBits, Min({maxBitsSrc, tableLogMax})}), tableLogMax)

\* huffSort: the symbols that occur, the most frequent first.
huffSort(count) ==
    SortSeq(SelectSeq([i \in 1..Cardinality(DOMAIN count) |-> i - 1], LAMBDA s : count[s] > 0),
            LAMBDA s, t : count[s] > count[t] \/ (count[s] = count[t] /\ s < t))

\* The tree: the two lightest nodes become one until a single one is left.  leaf holds
\* what is left of the symbols, the lightest last, inner the nodes made so far, the
\* lightest first; a leaf is taken only if it is lighter.  bits counts the nodes above
\* a symbol.
Merged(t) ==
    LET Leaf(u)  == u.inner = <<>> \/ (u.leaf # <<>> /\ Last(u.leaf).count < Head(u.inner).count)
        Pick(u)  == IF Leaf(u) THEN Last(u.leaf) ELSE Head(u.inner)
        Rest(u)  == IF Leaf(u) THEN [u EXCEPT !.leaf = Front(@)] ELSE [u EXCEPT !.inner = Tail(@)]
        one == Pick(t)
        two == Pick(Rest(t))
        under == one.symbols \cup two.symbols
    IN  [leaf  |-> Rest(Rest(t)).leaf,
         inner |-> Append(Rest(Rest(t)).inner, [count |-> one.count + two.count, symbols |-> under]),
         bits  |-> [s \in DOMAIN t.bits |-> t.bits[s] + (IF s \in under THEN 1 ELSE 0)] \o <<>>]

\* The length of the code at every place of the order.  The first merge takes two leaves.
Depths(count, order) ==
    LET leaves == [p \in DOMAIN order |-> [count |-> count[order[p]], symbols |-> {p}]] \o <<>>
        start  == [leaf |-> leaves, inner |-> <<>>, bits |-> [p \in DOMAIN order |-> 0]]
    IN  Loop(LAMBDA t, i : Merged(t), start, Len(order) - 1).bits

------------------------------------------------------------------------------
\* setMaxHeight.  After the codes that are too long were cut, cost is what the others
\* must give back, in codes of length max.  last[k] is the last place whose code is k
\* shorter than max, or NoPlace.

NoPlace == 0

\* Mutated: what the cut codes owe is forgotten.
ShortenNothing(order, count, max, t) == [t EXCEPT !.cost = 0]

\* One code becomes longer: the place that costs least among those that give enough,
\* or, if there is none, the next that gives more.
RECURSIVE Shorten(_, _, _, _)
Shorten(order, count, max, t) ==
    LET Of(p)  == count[order[p]]
        down   == Max({k \in 1..(Log2(t.cost) + 1) :
                         \/ k = 1
                         \/ /\ t.last[k] # NoPlace
                            /\ t.last[k - 1] # NoPlace => Of(t.last[k]) <= 2 * Of(t.last[k - 1])})
        k      == Min({j \in down..(tableLogMax + 1) : j = tableLogMax + 1 \/ t.last[j] # NoPlace})
        place  == t.last[k]
        before == IF place > 1 /\ t.bits[place - 1] = max - k THEN place - 1 ELSE NoPlace
        moved  == IF k > 1 /\ t.last[k - 1] = NoPlace
                  THEN [t.last EXCEPT ![k - 1] = place, ![k] = before]
                  ELSE [t.last EXCEPT ![k] = before]
    IN  IF t.cost <= 0
        THEN t
        ELSE Shorten(order, count, max,
                     [cost |-> t.cost - 2^(k - 1), last |-> moved,
                      bits |-> [t.bits EXCEPT ![place] = @ + 1]])

\* Too much was given back: the first codes of length max become shorter.
RECURSIVE Lengthen(_, _)
Lengthen(max, t) ==
    LET place == IF t.last[1] = NoPlace
                 THEN Max({p \in DOMAIN t.bits : t.bits[p] # max}) + 1
                 ELSE t.last[1] + 1
    IN  IF t.cost >= 0
        THEN t.bits
        ELSE Lengthen(max, [cost |-> t.cost + 1, last |-> [t.last EXCEPT ![1] = place],
                            bits |-> [t.bits EXCEPT ![place] = @ - 1]])

setMaxHeight(order, count, bits, max) ==
    LET largest == Last(bits)
        over    == {p \in DOMAIN bits : bits[p] > max}
        cost    == MapThenSumSet(LAMBDA p : 2^(largest - max) - 2^(largest - bits[p]), over)
        cut     == [p \in DOMAIN bits |-> Min({bits[p], max})] \o <<>>
        last    == [k \in 1..(tableLogMax + 1) |->
                      Max({NoPlace} \cup {p \in DOMAIN cut : cut[p] = max - k})] \o <<>>
    IN  IF largest <= max
        THEN [log |-> largest, bits |-> bits]
        ELSE [log |-> max,
              bits |-> Lengthen(max, Shorten(order, count, max,
                         [cost |-> cost \div 2^(largest - max), last |-> last, bits |-> cut]))]

\* buildCTable: codes of one length get ascending values in the order of the symbols,
\* the longest codes the lowest ones.
buildHuffTable(count) ==
    LET order == huffSort(count)
        t     == setMaxHeight(order, count, Depths(count, order), WantedLog(count))
        bits  == [s \in DOMAIN count |->
                    IF count[s] = 0 THEN 0
                    ELSE t.bits[CHOOSE p \in DOMAIN order : order[p] = s]]
        first[n \in 1..t.log] ==
            IF n = t.log THEN 0
            ELSE (first[n + 1] + Cardinality({p \in DOMAIN t.bits : t.bits[p] = n + 1})) \div 2
    IN  [log |-> t.log, bits |-> bits,
         val |-> [s \in DOMAIN count |->
                    IF bits[s] = 0 THEN 0
                    ELSE first[bits[s]] + Cardinality({u \in 0..(s - 1) : bits[u] = bits[s]})]]

------------------------------------------------------------------------------
\* The description.

Weight(table, s) == IF table.bits[s] = 0 THEN 0 ELSE table.log + 1 - table.bits[s]

\* cTable.write: the weight of the last symbol follows from the others.  Coded weights
\* are taken if they need less than half a byte each, up to 128 weights are written in
\* half bytes otherwise; more are too many.
writeTable(table) ==
    LET n       == Cardinality(DOMAIN table.bits) - 1
        weights == [s \in 1..n |-> Weight(table, s - 1)] \o <<>>
        coded   == IF n >= 2 THEN CompressWeights(weights) ELSE <<>>
    IN  CASE coded # <<>> /\ Bytes(coded) < (n + 1) \div 2 -> [first |-> Bytes(coded), body |-> coded]
          [] ~(coded # <<>> /\ Bytes(coded) < (n + 1) \div 2) /\ n <= 128 ->
                 [first |-> 127 + n, body |-> weights]
          [] OTHER -> [first |-> 0, body |-> <<>>]

\* ReadTable: the weights, the implied last one, the checks, and for every symbol the
\* code and the first cell of the decoding table; a symbol fills the cells of a weight.
ReadTable(text) ==
    LET read    == IF text.first >= 128
                   THEN [ok |-> Len(text.body) >= text.first - 127,
                         out |-> SubSeq(text.body, 1, text.first - 127)]
                   ELSE DecompressWeights(text.body)
        size(w) == (2^w) \div 2
        sum     == Loop(LAMBDA acc, i : acc + size(read.out[i]), 0, Len(read.out))
        log     == Log2(sum) + 1
        rest    == 2^log - sum
        all     == Append(read.out, Log2(rest) + 1)
        Count(w) == Cardinality({i \in DOMAIN all : all[i] = w})
        start[w \in 1..(log + 1)] == IF w = 1 THEN 0 ELSE start[w - 1] + Count(w - 1) * size(w - 1)
        cell(i) == start[all[i]] + size(all[i]) * Cardinality({j \in 1..(i - 1) : all[j] = all[i]})
    IN  IF /\ read.ok /\ Len(read.out) <= 255
           /\ \A i \in DOMAIN read.out : read.out[i] <= tableLogMax
           /\ sum > 0
           /\ log <= tableLogMax
           /\ 2^Log2(rest) = rest
           /\ Count(1) >= 2 /\ Count(1) % 2 = 0
        THEN [ok |-> TRUE, log |-> log,
              bits |-> [s \in 0..(Len(all) - 1) |-> IF all[s + 1] = 0 THEN 0 ELSE log + 1 - all[s + 1]],
              val |-> [s \in 0..(Len(all) - 1) |->
                         IF all[s + 1] = 0 THEN 0 ELSE cell(s + 1) \div size(all[s + 1])],
              cell |-> [s \in 0..(Len(all) - 1) |-> IF all[s + 1] = 0 THEN 0 ELSE cell(s + 1)]]
        ELSE [ok |-> FALSE]

------------------------------------------------------------------------------
\* What must hold for every histogram of literals.

\* The codes are complete: exactly the symbols that occur have one, none is longer than
\* the table's log, and together they use up the code space.
HuffComplete(count) ==
    LET t == buildHuffTable(count)
    IN  /\ t.log <= tableLogMax
        /\ \A s \in DOMAIN count : t.bits[s] \in 0..t.log /\ (t.bits[s] = 0) = (count[s] = 0)
        /\ Total([s \in DOMAIN count |-> IF count[s] = 0 THEN 0 ELSE 2^(t.log - t.bits[s])]) = 2^t.log

\* The decoder reads a description as the table it describes, with the same lengths and
\* the same values, so that the encoder may use a table that was read.
HuffReads(count) ==
    LET t == buildHuffTable(count)
        r == ReadTable(writeTable(t))
    IN  writeTable(t).first # 0 =>
          r.ok /\ r.log = t.log /\ r.bits = t.bits /\ r.val = t.val
==============================================================================
