------------------------------ MODULE FseTables ------------------------------
(***************************************************************************)
(* Finite state entropy: from a histogram to normalised counts, their      *)
(* description in the block, and the coding tables of both sides           *)
(* (fse_encoder.go, fse_decoder.go; internal/fse has the same functions    *)
(* with other limits).                                                     *)
(*                                                                         *)
(* A histogram, or a vector of normalised counts, is a function on the     *)
(* symbols 0..n-1; the last one occurs.  -1 is the count of a symbol that  *)
(* is rarer than one cell.  A bit string is a sequence of 0 and 1 in the   *)
(* order of writing, least significant bit of a value first.               *)
(*                                                                         *)
(* normalizeCount works with 62-bit fixed point numbers; the same          *)
(* decisions are written with exact fractions here.                        *)
(***************************************************************************)
EXTENDS Integers, FiniteSetsExt, SequencesExt

MinLog == 5                        \* minEncTablelog, minTablelog

\* The value of a loop over 1..n, the second half after the first.
Loop(step(_, _), start, n) ==
    LET RECURSIVE run(_, _, _)
        run(acc, low, high) ==
            LET mid == (low + high) \div 2
            IN  CASE low > high -> acc
                  [] low = high -> step(acc, low)
                  [] low < high -> CHOOSE end \in {run(half, mid + 1, high) : half \in {run(acc, low, mid)}} : TRUE
    IN  run(start, 1, n)

Joined(seqs) == Loop(LAMBDA acc, i : acc \o seqs[i], <<>>, Len(seqs))

SumUpTo(f, n) == Loop(LAMBDA acc, i : acc + f[i - 1], 0, n)

Total(f) == SumUpTo(f, Cardinality(DOMAIN f))

Cells(norm) == [s \in DOMAIN norm |-> IF norm[s] = -1 THEN 1 ELSE norm[s]]

\* highBit.
Log2(n) == CHOOSE k \in 0..29 : 2^k <= n /\ n < 2^(k + 1)

Between(low, n, high) == Max({low, Min({n, high})})

\* optimalTableLog, for minBitsSrc as the coder computes it; the subtraction is one of
\* uint8.
TableLog(length, minBitsSrc, symbolLen, maxLog) ==
    LET minBits    == Min({minBitsSrc, Log2(symbolLen - 1) + 2})
        maxBitsSrc == (Log2(length - 1) - 2) % 256
    IN  Between(MinLog, Max({minBits, Min({maxBitsSrc, maxLog})}), maxLog)

------------------------------------------------------------------------------
\* Normalisation.

\* rtbTable, in 2^20ths of a cell.
RestToBeat == <<0, 473195, 504333, 520860, 550000, 700000, 750000, 830000>>

\* step is rounded down unless the length is a power of two, and then an exact share is
\* one too small.
Share(cnt, length, log) ==
    (2^log * cnt - (IF 2^Log2(length) = length THEN 0 ELSE 1)) \div length

\* A share below 8 is rounded up when its fraction is large enough.
Rounded(cnt, length, log) ==
    LET share == Share(cnt, length, log)
        rest  == 2^log * cnt - share * length
    IN  IF share < 8 /\ rest * 2^20 > RestToBeat[share + 1] * length THEN share + 1 ELSE share

FirstTry(count, log) ==
    LET length == Total(count)
        low    == length \div 2^log
    IN  [s \in DOMAIN count |->
            IF count[s] = 0 THEN 0
            ELSE IF count[s] <= low THEN -1
            ELSE Rounded(count[s], length, log)]

NotYet == -2

\* normalizeCount2: rare symbols get one cell, the others share the rest in proportion,
\* cut at rounded positions.  A weight of zero is an error.
Proportional(count, norm, log) ==
    LET later == {s \in DOMAIN norm : norm[s] = NotYet}
        total == MapThenSumSet(LAMBDA s : count[s], later)
        room  == 2^log - Cardinality({s \in DOMAIN norm : norm[s] \in {-1, 1}})
        Before(s) == MapThenSumSet(LAMBDA t : count[t], {t \in later : t < s})
        Cut(c)    == (total + c * (2 * room + 1) - 1) \div (2 * total)
    IN  [s \in DOMAIN norm |->
            IF s \in later THEN Cut(Before(s) + count[s]) - Cut(Before(s)) ELSE norm[s]]

\* Nothing is left to share out: the symbols with a cell take turns.
InTurns(norm, log) ==
    LET some  == {s \in DOMAIN norm : norm[s] > 0}
        room  == 2^log - Cardinality({s \in DOMAIN norm : norm[s] # 0})
        Rank(s) == Cardinality({t \in some : t < s})
        Extra(s) == room \div Cardinality(some)
                    + (IF Rank(s) < room % Cardinality(some) THEN 1 ELSE 0)
    IN  [s \in DOMAIN norm |-> IF s \in some THEN norm[s] + Extra(s) ELSE norm[s]]

SecondTry(count, log) ==
    LET length == Total(count)
        low    == length \div 2^log
        one    == (3 * length) \div 2^(log + 1)
        first  == [s \in DOMAIN count |->
                     CASE count[s] = 0    -> 0
                       [] count[s] \in 1..low -> -1
                       [] count[s] \in (low + 1)..one -> 1
                       [] OTHER -> NotYet]
        total  == MapThenSumSet(LAMBDA s : count[s], {s \in DOMAIN count : first[s] = NotYet})
        room   == 2^log - Cardinality({s \in DOMAIN count : first[s] \in {-1, 1}})
        more   == (3 * total) \div (2 * room)
        second == IF total \div room > one
                  THEN [s \in DOMAIN count |->
                          IF first[s] = NotYet /\ count[s] <= more THEN 1 ELSE first[s]]
                  ELSE first
    IN  IF \E s \in DOMAIN count : second[s] = NotYet
        THEN Proportional(count, second, log)
        ELSE InTurns(second, log)

\* Mutated: the remainder is never taken from the largest symbol.
NormalizedShort(count, log) == FirstTry(count, log)

\* normalizeCount: the largest symbol takes the difference, unless that is more than
\* half of it.
Normalized(count, log) ==
    LET first   == FirstTry(count, log)
        still   == 2^log - Total(Cells(first))
        largest == CHOOSE s \in DOMAIN first :
                     /\ \A t \in DOMAIN first : first[t] <= first[s]
                     /\ \A t \in DOMAIN first : first[t] = first[s] => s <= t
    IN  IF -still >= first[largest] \div 2
        THEN SecondTry(count, log)
        ELSE [first EXCEPT ![largest] = @ + still]

------------------------------------------------------------------------------
\* Bit strings.

Bits(v, n) == [i \in 1..n |-> (v \div 2^(i - 1)) % 2]

\* n bits from position p on; behind the end there are zeros.
Peek(bits, p, n) ==
    Loop(LAMBDA acc, i : acc + (IF p + i - 1 <= Len(bits) THEN bits[p + i - 1] * 2^(i - 1) ELSE 0),
         0, n)

\* bitReader.init: the mark is the last one bit.
EndMark(bits) == Max({0} \cup {i \in DOMAIN bits : bits[i] = 1})

\* The n bits below position p, as getBits returns them; there are zeros in front of
\* the first one.
Below(bits, p, n) ==
    IF n <= p THEN Peek(bits, p - n + 1, n) ELSE Peek(bits, 1, Max({0, p})) * 2^(n - p)

Bytes(bits) == (Len(bits) + 7) \div 8

Pad(bits) == bits \o [i \in 1..(8 * Bytes(bits) - Len(bits)) |-> 0]

Repeated(bits, n) == [i \in 1..(n * Len(bits)) |-> bits[1 + ((i - 1) % Len(bits))]] \o <<>>

------------------------------------------------------------------------------
\* The description of normalised counts.

\* After a symbol without cells: how many more follow.
ZeroRun(n) ==
    Repeated(Bits(65535, 16), n \div 24) \o Repeated(<<1, 1>>, (n % 24) \div 3) \o Bits(n % 3, 2)

\* One count when rest - 1 cells are left; the lower values take one bit less.
\* Mutated: one value too many is written with the short code.
CountBitsShort(n, rest) ==
    LET threshold == 2^Log2(rest)
        max == 2 * threshold - 1 - rest
        v   == IF n + 1 >= threshold THEN n + 1 + max ELSE n + 1
    IN  Bits(v, Log2(rest) + (IF v <= max THEN 0 ELSE 1))

CountBits(n, rest) ==
    LET threshold == 2^Log2(rest)
        max == 2 * threshold - 1 - rest
        v   == IF n + 1 >= threshold THEN n + 1 + max ELSE n + 1
    IN  Bits(v, Log2(rest) + (IF v < max THEN 0 ELSE 1))

\* writeCount.  rest: the cells left, plus one; run: symbols without cells after the
\* first of them.
writeCount(norm, log) ==
    LET Put(acc, i) ==
            LET s == i - 1 IN
            IF acc.rest = 1 THEN acc
            ELSE IF acc.zero /\ norm[s] = 0 THEN [acc EXCEPT !.run = @ + 1]
            ELSE [bits |-> acc.bits \o (IF acc.zero THEN ZeroRun(acc.run) ELSE <<>>)
                                    \o CountBits(norm[s], acc.rest),
                  rest |-> acc.rest - Cells(norm)[s],
                  zero |-> norm[s] = 0, run |-> 0]
        start == [bits |-> Bits(log - MinLog, 4), rest |-> 2^log + 1, zero |-> FALSE, run |-> 0]
    IN  Loop(Put, start, Cardinality(DOMAIN norm)).bits

\* Where a run of symbols without cells ends, and its length.
RunAt(bits, p) ==
    LET long  == CHOOSE k \in 0..11 : /\ Peek(bits, p + 16 * k, 16) # 65535
                                      /\ \A j \in 0..(k - 1) : Peek(bits, p + 16 * j, 16) = 65535
        q     == p + 16 * long
        short == CHOOSE k \in 0..8 : /\ Peek(bits, q + 2 * k, 2) # 3
                                     /\ \A j \in 0..(k - 1) : Peek(bits, q + 2 * j, 2) = 3
    IN  [run |-> 24 * long + 3 * short + Peek(bits, q + 2 * short, 2),
         next |-> q + 2 * short + 2]

\* One count at p, and the bits it takes.
CountAt(bits, p, rest) ==
    LET wide == Log2(rest) + 1
        max  == 2 * 2^Log2(rest) - 1 - rest
        v    == Peek(bits, p, wide)
    IN  IF (v % 2^(wide - 1)) < max
        THEN [count |-> (v % 2^(wide - 1)) - 1, next |-> p + wide - 1]
        ELSE [count |-> (IF v >= 2^(wide - 1) THEN v - max ELSE v) - 1, next |-> p + wide]

RECURSIVE Counts(_, _, _)
Counts(bits, maxSymbol, acc) ==
    LET z == IF acc.zero THEN RunAt(bits, acc.next) ELSE [run |-> 0, next |-> acc.next]
        c == CountAt(bits, z.next, acc.rest)
    IN  IF acc.rest <= 1 \/ Len(acc.norm) > maxSymbol
        THEN acc
        ELSE Counts(bits, maxSymbol,
                    [norm |-> acc.norm \o Repeated(<<0>>, z.run) \o <<c.count>>,
                     next |-> c.next,
                     rest |-> acc.rest - (IF c.count = -1 THEN 1 ELSE c.count),
                     zero |-> c.count = 0])

\* readNCount: the counts, the table log and the bytes taken.  Fewer than four bytes of
\* input are refused whatever they hold, and so are counts that do not add up.
readNCount(bits, maxSymbol) ==
    LET log == Peek(bits, 1, 4) + MinLog
        end == Counts(bits, maxSymbol,
                      [norm |-> <<>>, next |-> 5, rest |-> 2^log + 1, zero |-> FALSE])
    IN  [ok |-> Bytes(bits) >= 4 /\ end.rest = 1 /\ Len(end.norm) > 1,
         log |-> log,
         norm |-> [s \in 0..(Len(end.norm) - 1) |-> end.norm[s + 1]],
         bytes |-> (end.next + 6) \div 8]

------------------------------------------------------------------------------
\* The tables.

tableStep(size) == size \div 2 + size \div 8 + 3

\* The symbol of each cell, from cell 0 on.  Symbols of count -1 fill the table from its
\* end; the cells of the others are visited with a fixed step that passes the end over.
Spread(norm, log) ==
    LET size  == 2^log
        rare  == {s \in DOMAIN norm : norm[s] = -1}
        high  == size - 1 - Cardinality(rare)
        visit == SelectSeq([i \in 1..size |-> ((i - 1) * tableStep(size)) % size],
                           LAMBDA p : p <= high)
        order == Joined([i \in 1..Cardinality(DOMAIN norm) |->
                               [j \in 1..Max({0, norm[i - 1]}) |-> i - 1]])
    IN  [p \in 1..(high + 1) |-> order[CHOOSE k \in DOMAIN visit : visit[k] = p - 1]]
        \o SelectSeq([i \in 1..Cardinality(DOMAIN norm) |-> Cardinality(DOMAIN norm) - i],
                     LAMBDA s : s \in rare)

\* buildCTable: stateTable, and symbolTT for every symbol that has cells.  The cells of a
\* symbol are the states it leads to, in order.
buildCTable(norm, log) ==
    LET size   == 2^log
        symbol == Spread(norm, log)
        Delta(s) ==
            LET v    == norm[s]
                most == log - Log2(v - 1)
                sum  == SumUpTo(Cells(norm), s)
            IN  IF v \in {-1, 1}
                THEN [nbBits |-> log * 65536 - size, findState |-> sum - 1]
                ELSE [nbBits |-> most * 65536 - v * 2^most, findState |-> sum - v]
    IN  [log |-> log,
         state |-> Joined([i \in 1..Cardinality(DOMAIN norm) |->
                     SelectSeq([u \in 1..size |-> size + u - 1],
                               LAMBDA x : symbol[x - size + 1] = i - 1)]),
         tt |-> [s \in {t \in DOMAIN norm : norm[t] # 0} |-> Delta(s)]]

\* buildDtable: symbol, bits to read and base of the next state of every cell, from
\* cell 0 on.  The cells of a symbol are numbered on from their count.
buildDtable(norm, log) ==
    LET size   == 2^log
        symbol == Spread(norm, log)
        Number(p) == Cells(norm)[symbol[p]] + Cardinality({q \in 1..(p - 1) : symbol[q] = symbol[p]})
        n(p)   == log - Log2(Number(p))
    IN  [log |-> log,
         cell |-> [p \in 1..size |-> [symbol |-> symbol[p], nbBits |-> n(p),
                                      newState |-> Number(p) * 2^n(p) - size]] \o <<>>]

\* setRLE, on both sides: one symbol, no bits, one state.
rleCTable(s) ==
    [log |-> 0, state |-> <<0>>, tt |-> [t \in {s} |-> [nbBits |-> 0, findState |-> 0]]]

rleDtable(s) ==
    [log |-> 0, cell |-> <<[symbol |-> s, nbBits |-> 0, newState |-> 0]>>]

\* cState.init: the state for the symbol that is decoded last.
initState(ct, s) ==
    LET bits == (ct.tt[s].nbBits + 32768) \div 65536
        m    == bits * 65536 - ct.tt[s].nbBits
    IN  IF ct.log = 0 THEN 0 ELSE ct.state[1 + m \div 2^bits + ct.tt[s].findState]

\* A symbol is coded in state x: the bits it puts out, how many, and the next state.
encode(ct, s, x) ==
    LET n == (x + ct.tt[s].nbBits) \div 65536
    IN  [n |-> n, bits |-> Bits(x, n), state |-> ct.state[1 + x \div 2^n + ct.tt[s].findState]]

\* cState.flush: the low bits of a state are the cell the decoder starts from.
flush(ct, x) == Bits(x, ct.log)

------------------------------------------------------------------------------
\* What must hold for every histogram a block can have.

\* Every symbol that occurs has cells, no other has, and they add up to the table.
SharesAddUp(count, log) ==
    LET norm == Normalized(count, log)
    IN  /\ Total(Cells(norm)) = 2^log
        /\ \A s \in DOMAIN count : norm[s] >= -1 /\ (norm[s] = 0) = (count[s] = 0)

\* The description reads back as the same counts and ends on the byte it ended on,
\* whatever follows.
DescriptionReads(norm, log, rest) ==
    LET text == writeCount(norm, log)
        read == readNCount(Pad(text) \o rest, Cardinality(DOMAIN norm) - 1)
    IN  read.ok /\ read.norm = norm /\ read.log = log /\ read.bytes = Bytes(text)

\* The decoding table undoes every step of the encoding table: from the state a symbol
\* leads to it finds that symbol, reads the bits that were put out, and returns to the
\* state the encoder was in.
TablesInvert(norm, log) ==
    LET ct   == buildCTable(norm, log)
        dt   == buildDtable(norm, log)
        size == 2^log
    IN  \A s \in {t \in DOMAIN norm : norm[t] # 0} :
          /\ dt.cell[1 + initState(ct, s) - size].symbol = s
          /\ dt.cell[1 + initState(ct, s) - size].nbBits > 0
          /\ \A x \in size..(2 * size - 1) :
               LET e == encode(ct, s, x)
                   d == dt.cell[1 + e.state - size]
               IN  /\ d.symbol = s
                   /\ d.nbBits = e.n
                   /\ d.newState + Peek(e.bits, 1, e.n) = x - size
==============================================================================
