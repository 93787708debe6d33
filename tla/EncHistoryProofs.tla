--------------------------- MODULE EncHistoryProofs ---------------------------
(***************************************************************************)
(* Proofs about EncHistory: for writers whose windows are close, no stale  *)
(* table entry is ever a candidate and no sum of an int32 overflows.       *)
(***************************************************************************)
EXTENDS EncHistory, TLAPS

Inv == TypeOK /\ HistoryInv

(* An entry of a table, and where it is seen from a position q for a given cur. *)
Sane(e) == e \in Entry /\ e.off >= 0
AimedFrom(e, c, q) ==
  IF e.at = Gone THEN e.off - c <= q - maxMatchOff ELSE e.off - c = e.at /\ e.at < q

-----------------------------------------------------------------------------
(* Lemmas: sums, windows and entries. *)

(* A sum within int32 does not wrap. *)
LEMMA Int32Fits ==
  ASSUME NEW n \in Int, -(IntMax + 1) <= n, n <= IntMax
  PROVE  Int32(n) = n
  BY HistoryAssumption DEF Int32

(* What the windows of a pool give for the window in use. *)
LEMMA WindowFacts ==
  ASSUME Inv, CloseWindows
  PROVE  /\ maxMatchOff \in Windows /\ maxMatchOff \in Nat /\ maxMatchOff >= 1
         /\ IntMax \in Nat /\ MaxBlock \in Nat /\ MaxBlock >= 1 /\ MinAlloc \in Nat
         /\ MaxBlock <= 2 * maxMatchOff
         /\ 4 * maxMatchOff + MaxBlock <= IntMax
         /\ bufferReset = IntMax - 2 * maxMatchOff
         /\ \A n \in Windows : /\ n \in Nat /\ n >= 1
                               /\ 3 * n >= 2 * maxMatchOff /\ n + MaxBlock <= 2 * maxMatchOff + 1
                               /\ 3 * maxMatchOff >= 2 * n
                               /\ maxMatchOff + n + room + MaxBlock <= IntMax
<1>1. maxMatchOff \in Windows /\ IntMax \in Nat /\ MaxBlock \in Nat /\ MaxBlock >= 1 /\ MinAlloc \in Nat
  BY HistoryAssumption DEF Inv, TypeOK
<1>2. \A n \in Windows : n \in Nat /\ n >= 1
  BY HistoryAssumption
<1>3. \A n \in Windows : /\ 3 * n >= 2 * maxMatchOff /\ n + MaxBlock <= 2 * maxMatchOff + 1
                         /\ 3 * maxMatchOff >= 2 * n
  BY <1>1, <1>2 DEF CloseWindows
<1>4. \A n \in Windows : maxMatchOff + n + room + MaxBlock <= IntMax
  BY <1>1 DEF Inv, HistoryInv, Buffer
<1>5. maxMatchOff + maxMatchOff + Larger(2 * maxMatchOff, maxMatchOff + MaxBlock) + MaxBlock <= IntMax
  BY <1>1 DEF CloseWindows
<1>6. 4 * maxMatchOff + MaxBlock <= IntMax
  BY <1>1, <1>2, <1>5 DEF Larger
<1> QED
  BY <1>1, <1>2, <1>3, <1>4, <1>6 DEF bufferReset

(* The entries are those of the slots. *)
LEMMA EntriesOfSlots ==
  /\ \A h \in Slots : table[h].offset \in Entries /\ table[h].prev \in Entries
  /\ \A e \in Entries : \E h \in Slots : e = table[h].offset \/ e = table[h].prev
  BY DEF Entries

LEMMA EntriesOfSlotsNext ==
  \A e \in Entries' : \E h \in Slots : e = table'[h].offset \/ e = table'[h].prev
  BY DEF Entries

(* Every entry of a table is sane. *)
LEMMA EntriesSane ==
  ASSUME Inv
  PROVE  /\ \A h \in Slots : Sane(table[h].offset) /\ Sane(table[h].prev)
         /\ \A e \in Entries : Sane(e)
  BY EntriesOfSlots DEF Inv, TypeOK, HistoryInv, Fits, Sane

LEMMA ZeroSane == Sane(Zero) /\ Zero.off = 0 /\ Zero.at = Gone
  BY HistoryAssumption DEF Sane, Zero, Entry, Gone

(* Forgetting or sliding an entry keeps its offset. *)
LEMMA MovedSane ==
  ASSUME NEW e, Sane(e), NEW n \in Nat
  PROVE  /\ Sane(Forget(e)) /\ Forget(e).off = e.off /\ Forget(e).at = Gone
         /\ Sane(Slide(e, n)) /\ Slide(e, n).off = e.off
         /\ Slide(e, n).at = IF e.at < n THEN Gone ELSE e.at - n
  BY DEF Sane, Forget, Slide, Entry, Gone

(* A table is typed when its entries are. *)
LEMMA TableTyped ==
  ASSUME NEW t, t = [h \in Slots |-> [offset |-> t[h].offset, prev |-> t[h].prev]],
         \A h \in Slots : Sane(t[h].offset) /\ Sane(t[h].prev)
  PROVE  t \in [Slots -> [offset : Entry, prev : Entry]]
  BY DEF Sane

-----------------------------------------------------------------------------
(* One lemma per action: it preserves the invariant. *)

LEMMA ConfigureInv ==
  ASSUME Inv, CloseWindows, NEW n \in Windows, NEW low \in BOOLEAN, Configure(n, low)
  PROVE  Inv'
<1>1. TypeOK'
  BY DEF Inv, TypeOK, Configure, Modes
<1>2. Entries' = Entries
  BY DEF Configure, Entries
<1>3. Reach'
  BY <1>2 DEF Inv, HistoryInv, Reach, PurgePending, Configure
<1>4. Fits'
  BY <1>2 DEF Inv, HistoryInv, Fits, PositionsFit, Configure
<1>5. Buffer' /\ NoPanic' /\ Chained'
  BY DEF Inv, HistoryInv, Buffer, NoPanic, Chained, Configure
<1> QED
  BY <1>1, <1>3, <1>4, <1>5 DEF Inv, HistoryInv

LEMMA PutInv ==
  ASSUME Inv, CloseWindows, Put
  PROVE  Inv'
<1>1. TypeOK'
  BY DEF Inv, TypeOK, Put, Modes
<1>2. Entries' = Entries
  BY DEF Put, Entries
<1>3. \A e \in Entries : e.off \in Int /\ e.at \in Int /\ (Aimed(e) => e.off - cur <= s)
  BY EntriesSane, WindowFacts DEF Sane, Entry, Aimed, Gone, Inv, TypeOK
<1>4. PurgePending' \/ \A e \in Entries : e.off - cur <= hist
  <2>1. CASE mode = "done"
    BY <2>1 DEF Inv, HistoryInv, Reach, PurgePending, Put
  <2>2. CASE mode = "fresh"
    <3>1. hist = s
      BY <2>2 DEF Inv, HistoryInv, Buffer
    <3>2. CASE PurgePending
      <4>1. hist = 0 /\ cur >= bufferReset /\ cur \in Int
        BY <2>2, <3>2 DEF PurgePending, Inv, TypeOK
      <4>2. \A n \in Windows : cur + 3 * n >= IntMax
        BY <4>1, WindowFacts
      <4>3. mode' # "fresh" /\ hist' = hist /\ cur' = cur
        BY DEF Put
      <4> QED
        BY <4>1, <4>2, <4>3 DEF PurgePending
    <3> QED
      BY <2>2, <3>1, <3>2, <1>3 DEF Inv, HistoryInv, Reach
  <2>3. CASE mode = "open"
    BY <2>3, <1>3 DEF Inv, HistoryInv, Reach, Buffer
  <2> QED
    BY <2>1, <2>2, <2>3 DEF Put
<1>5. Reach'
  BY <1>2, <1>4 DEF Reach, Put
<1>6. Fits'
  BY <1>2, WindowFacts DEF Inv, TypeOK, HistoryInv, Fits, PositionsFit, Put
<1>7. Buffer' /\ NoPanic' /\ Chained'
  BY DEF Inv, HistoryInv, Buffer, NoPanic, Chained, Put
<1> QED
  BY <1>1, <1>5, <1>6, <1>7 DEF Inv, HistoryInv

(* What ensureHist leaves: at least n, and nothing the windows and           *)
(* dictionaries of the pool do not justify.                                  *)
LEMMA EnsureHistFacts ==
  ASSUME Inv, CloseWindows, NEW have \in Nat, NEW low \in BOOLEAN, NEW d \in Dicts,
         NEW n \in Nat, n = maxMatchOff + MaxBlock \/ n = d + MaxBlock \/ n <= MaxBlock,
         \A v, w \in Windows : v + w + have + MaxBlock <= IntMax
  PROVE  LET c == EnsureHistOf(have, low, n)
         IN  c \in Nat /\ c >= n /\ c >= have
             /\ \A v, w \in Windows : v + w + c + MaxBlock <= IntMax
<1> DEFINE tail == IF low \/ maxMatchOff <= MaxBlock THEN MaxBlock ELSE maxMatchOff
           least == IF low THEN 0 ELSE MinAlloc
           c == EnsureHistOf(have, low, n)
<1>1. d \in Nat /\ maxMatchOff \in Windows /\ maxMatchOff \in Nat /\ MaxBlock \in Nat
      /\ MinAlloc \in Nat /\ IntMax \in Nat /\ \A w \in Windows : w \in Nat
  BY WindowFacts, HistoryAssumption
<1>2. CASE have >= n
  BY <1>2 DEF EnsureHistOf
<1>3. CASE have < n
  <2>1. c = Larger(maxMatchOff + tail, Larger(least, n))
    BY <1>3 DEF EnsureHistOf, AllocSize
  <2>2. /\ c \in Nat /\ c >= n
        /\ \/ c = maxMatchOff + MaxBlock \/ c = 2 * maxMatchOff
           \/ c = MinAlloc \/ c = d + MaxBlock \/ c <= MaxBlock
    BY <1>1, <2>1 DEF Larger
  <2>3. ASSUME NEW v \in Windows, NEW w \in Windows
        PROVE  v + w + c + MaxBlock <= IntMax
    <3>1. /\ v + w + MinAlloc + MaxBlock <= IntMax
          /\ v + w + Larger(2 * maxMatchOff, maxMatchOff + MaxBlock) + MaxBlock <= IntMax
          /\ v + w + (d + MaxBlock) + MaxBlock <= IntMax
      BY <1>1, <2>3 DEF CloseWindows
    <3> QED
      BY <1>1, <2>2, <2>3, <3>1 DEF Larger
  <2> QED
    BY <1>3, <2>2, <2>3
<1> QED
  BY <1>2, <1>3

LEMMA ResetRoomFacts ==
  ASSUME Inv, CloseWindows, NEW d \in Dicts, NEW single \in BOOLEAN
  PROVE  LET c == ResetRoom(d, single)
         IN  c \in Nat /\ c >= maxMatchOff + MaxBlock /\ c >= d
             /\ \A v, w \in Windows : v + w + c + MaxBlock <= IntMax
<1> DEFINE window == EnsureHistOf(room, lowMem, maxMatchOff + MaxBlock)
<1>1. d \in Nat /\ maxMatchOff + MaxBlock \in Nat /\ d + MaxBlock \in Nat /\ room \in Nat
      /\ lowMem \in BOOLEAN /\ \A v, w \in Windows : v + w + room + MaxBlock <= IntMax
  BY WindowFacts, HistoryAssumption DEF Inv, TypeOK, HistoryInv, Buffer
<1>2. window \in Nat /\ window >= maxMatchOff + MaxBlock
      /\ \A v, w \in Windows : v + w + window + MaxBlock <= IntMax
  BY <1>1, EnsureHistFacts
<1> DEFINE dicted == EnsureHistOf(window, lowMem \/ single, d + MaxBlock)
<1>3. dicted \in Nat /\ dicted >= d + MaxBlock /\ dicted >= window
      /\ \A v, w \in Windows : v + w + dicted + MaxBlock <= IntMax
  <2> HIDE DEF window
  <2>1. (lowMem \/ single) \in BOOLEAN
    BY <1>1
  <2> QED
    BY <1>1, <1>2, <2>1, EnsureHistFacts
<1>4. ResetRoom(d, single) = IF d = 0 THEN window ELSE dicted
  BY DEF ResetRoom
<1> HIDE DEF window, dicted
<1> QED
  BY <1>1, <1>2, <1>3, <1>4, WindowFacts

(* reset without a dictionary: one window beyond the old history.            *)
LEMMA ResetPlain ==
  ASSUME Inv, CloseWindows, NEW single \in BOOLEAN, Reset(0, single)
  PROVE  Inv'
<1>1. /\ cur \in Nat /\ hist \in Nat /\ s \in Nat /\ cur + hist <= IntMax
      /\ cur < bufferReset => cur + hist + maxMatchOff <= IntMax
  BY WindowFacts DEF Inv, TypeOK, HistoryInv, Fits, PositionsFit
<1>2. /\ cur' = Bumped /\ table' = Forgotten /\ hist' = 0 /\ s' = 0 /\ end' = 0 /\ mode' = "fresh"
      /\ room' = ResetRoom(0, single) /\ maxMatchOff' = maxMatchOff /\ lowMem' = lowMem
  BY HistoryAssumption DEF Reset
<1>3. cur' = IF cur < bufferReset THEN cur + maxMatchOff + hist ELSE cur
  BY <1>1, <1>2, WindowFacts, Int32Fits DEF Bumped
<1>4. \A h \in Slots : /\ Sane(table'[h].offset) /\ table'[h].offset.at = Gone
                       /\ table'[h].offset.off = table[h].offset.off
                       /\ Sane(table'[h].prev) /\ table'[h].prev.at = Gone
                       /\ table'[h].prev.off = table[h].prev.off
  BY <1>2, EntriesSane, MovedSane DEF Forgotten
<1>5. table' = [h \in Slots |-> [offset |-> table'[h].offset, prev |-> table'[h].prev]]
  BY <1>2 DEF Forgotten
<1>6. \A e \in Entries' : Sane(e) /\ e.at = Gone /\ \E f \in Entries : e.off = f.off
  BY <1>4, EntriesOfSlots, EntriesOfSlotsNext
<1>7. 0 \in Dicts
  BY HistoryAssumption
<1>8. TypeOK'
  <2>1. table' \in [Slots -> [offset : Entry, prev : Entry]]
    BY <1>4, <1>5, TableTyped
  <2>2. cur' \in -(IntMax + 1)..IntMax
    BY <1>1, <1>3, WindowFacts
  <2> QED
    BY <1>2, <1>7, <2>1, <2>2, ResetRoomFacts DEF TypeOK, Inv, Modes
<1>9. PurgePending' \/ \A e \in Entries' : Aimed(e)'
  <2>1. bufferReset' = bufferReset
    BY <1>2 DEF bufferReset
  <2>2. CASE cur >= bufferReset
    BY <1>1, <1>2, <1>3, <2>1, <2>2, WindowFacts DEF PurgePending
  <2>3. CASE cur < bufferReset
    <3>1. CASE mode = "configured" /\ PurgePending
      <4>1. hist = 0 /\ cur + 3 * maxMatchOff >= IntMax
        BY <3>1, WindowFacts DEF PurgePending
      <4>2. cur' >= bufferReset'
        BY <1>1, <1>3, <2>1, <2>3, <4>1, WindowFacts
      <4> QED
        BY <1>2, <4>2 DEF PurgePending
    <3>2. ASSUME \A f \in Entries : f.off - cur <= hist
          PROVE  \A e \in Entries' : Aimed(e)'
      <4> SUFFICES ASSUME NEW e \in Entries' PROVE Aimed(e)'
        OBVIOUS
      <4>1. PICK f \in Entries : e.off = f.off
        BY <1>6
      <4>2. e.at = Gone /\ e.off \in Int /\ e.off - cur <= hist
        BY <1>6, <4>1, <3>2 DEF Sane, Entry
      <4>3. e.off - cur' <= s' - maxMatchOff'
        BY <1>1, <1>2, <1>3, <2>3, <4>2, WindowFacts
      <4> QED
        BY <4>2, <4>3 DEF Aimed
    <3>3. CASE mode = "fresh"
      <4>1. hist = s /\ ~PurgePending
        BY <2>3, <3>3, <1>1, WindowFacts DEF Inv, HistoryInv, Buffer, PurgePending
      <4>2. \A f \in Entries : f.off - cur <= hist
        <5> SUFFICES ASSUME NEW f \in Entries PROVE f.off - cur <= hist
          OBVIOUS
        <5>1. Aimed(f) /\ f.off \in Int /\ f.at \in Int
          BY <3>3, <4>1, EntriesSane DEF Inv, HistoryInv, Reach, Sane, Entry, Gone
        <5> QED
          BY <1>1, <4>1, <5>1, WindowFacts DEF Aimed
      <4> QED
        BY <4>2, <3>2
    <3> QED
      BY <3>1, <3>2, <3>3 DEF Reset, Inv, HistoryInv, Reach
  <2> QED
    BY <1>1, <2>2, <2>3, WindowFacts
<1>10. Reach'
  <2>1. \A e \in Entries' : e.at < hist'
    BY <1>2, <1>6 DEF Gone
  <2> QED
    BY <1>2, <1>9, <2>1 DEF Reach
<1>11. Fits'
  <2>1. PositionsFit'
    BY <1>1, <1>2, <1>3, WindowFacts DEF PositionsFit
  <2>2. \A n \in Windows : cur' < IntMax - 2 * n => cur' + hist' + n <= IntMax
    BY <1>1, <1>2, <1>3, WindowFacts
  <2> QED
    BY <1>2, <1>6, <2>1, <2>2 DEF Fits, Sane
<1>12. Buffer' /\ NoPanic'
  BY <1>2, <1>7, ResetRoomFacts DEF Buffer, NoPanic
<1>13. Chained'
  BY <1>4 DEF Inv, HistoryInv, Chained
<1> QED
  BY <1>8, <1>10, <1>11, <1>12, <1>13 DEF Inv, HistoryInv

(* reset with a dictionary: cur starts over and every entry is of its        *)
(* content or nobody's.                                                      *)
LEMMA ResetDict ==
  ASSUME Inv, CloseWindows, NEW d \in Dicts, d # 0, NEW single \in BOOLEAN, Reset(d, single)
  PROVE  Inv'
<1>1. /\ cur' = maxMatchOff /\ table' \in [Slots -> DictSlots(d)] /\ hist' = d /\ s' = d /\ end' = d
      /\ mode' = "fresh" /\ room' = ResetRoom(d, single)
      /\ maxMatchOff' = maxMatchOff /\ lowMem' = lowMem
  BY DEF Reset
<1>2. d \in Nat /\ \A n \in Windows : maxMatchOff + n + (d + MaxBlock) + MaxBlock <= IntMax
  BY HistoryAssumption, WindowFacts DEF CloseWindows
<1>3. maxMatchOff + d <= IntMax
  BY <1>2, WindowFacts
<1>4. \A e \in DictEntries(d) :
        Sane(e) /\ IF e.at = Gone THEN e.off = 0 ELSE e.off = maxMatchOff + e.at /\ e.at < d
  <2> SUFFICES ASSUME NEW e \in DictEntries(d)
               PROVE  Sane(e) /\ IF e.at = Gone THEN e.off = 0
                                 ELSE e.off = maxMatchOff + e.at /\ e.at < d
    OBVIOUS
  <2>1. CASE e = Zero
    BY <2>1, ZeroSane
  <2>2. CASE e # Zero
    <3>1. PICK i \in 0..(d - 1) : e = [off |-> Int32(maxMatchOff + i), at |-> i]
      BY <2>2 DEF DictEntries
    <3>2. Int32(maxMatchOff + i) = maxMatchOff + i
      BY <1>2, <1>3, Int32Fits, WindowFacts
    <3> QED
      BY <1>2, <1>3, <3>1, <3>2, WindowFacts DEF Sane, Entry, Gone
  <2> QED
    BY <2>1, <2>2
<1>5. \A h \in Slots : /\ table'[h].offset \in DictEntries(d) /\ table'[h].prev \in DictEntries(d)
                       /\ table'[h] = [offset |-> table'[h].offset, prev |-> table'[h].prev]
  BY <1>1 DEF DictSlots
<1>6. \A e \in Entries' : e \in DictEntries(d)
  BY <1>5, EntriesOfSlotsNext
<1>7. \A e \in Entries' : Aimed(e)'
  <2> SUFFICES ASSUME NEW e \in Entries' PROVE Aimed(e)'
    OBVIOUS
  <2>1. Sane(e) /\ IF e.at = Gone THEN e.off = 0 ELSE e.off = maxMatchOff + e.at /\ e.at < d
    BY <1>4, <1>6
  <2> QED
    BY <1>1, <1>2, <2>1, WindowFacts DEF Aimed, Sane, Entry, Gone
<1>8. TypeOK'
  <2>1. table' = [h \in Slots |-> [offset |-> table'[h].offset, prev |-> table'[h].prev]]
    BY <1>1, <1>5
  <2>2. table' \in [Slots -> [offset : Entry, prev : Entry]]
    BY <1>4, <1>5, <2>1, TableTyped
  <2>3. cur' \in -(IntMax + 1)..IntMax
    BY <1>1, <1>3, WindowFacts
  <2>4. room' \in Nat /\ hist' \in 0..room'
    BY <1>1, <1>2, ResetRoomFacts
  <2> QED
    BY <1>1, <1>2, <2>2, <2>3, <2>4 DEF TypeOK, Inv, Modes
<1>9. Fits'
  <2>1. PositionsFit'
    BY <1>1, <1>2, <1>3, WindowFacts DEF PositionsFit
  <2>2. \A n \in Windows : cur' < IntMax - 2 * n => cur' + hist' + n <= IntMax
    BY <1>1, <1>2, WindowFacts
  <2> QED
    BY <1>1, <1>4, <1>6, <2>1, <2>2 DEF Fits, Sane
<1>10. Buffer' /\ NoPanic'
  BY <1>1, ResetRoomFacts DEF Buffer, NoPanic
<1>11. \A e \in Entries' : e.at < hist'
  <2> SUFFICES ASSUME NEW e \in Entries' PROVE e.at < hist'
    OBVIOUS
  <2> QED
    BY <1>1, <1>2, <1>4, <1>6 DEF Gone
<1>12. Chained'
  <2> SUFFICES ASSUME NEW h \in Slots PROVE table'[h].prev.off <= table'[h].offset.off
    BY DEF Chained
  <2>1. table'[h].prev.off < table'[h].offset.off \/ table'[h].prev = Zero
    BY <1>1 DEF DictSlots
  <2>2. Sane(table'[h].prev) /\ Sane(table'[h].offset)
    BY <1>4, <1>5
  <2> QED
    BY <2>1, <2>2, ZeroSane DEF Sane, Entry
<1> QED
  BY <1>1, <1>7, <1>8, <1>9, <1>10, <1>11, <1>12 DEF Inv, HistoryInv, Reach

(* The wraparound protection: every entry is aimed from the end of the       *)
(* history, entries of the window are kept, and a block fits above cur.      *)
ProtectedBounds(c) ==
  /\ c \in Nat
  /\ \A n \in Windows : c + hist + MaxBlock + n <= IntMax
ProtectedEntry(e, f, c) ==
  /\ Sane(f) /\ AimedFrom(f, c, hist)
  /\ e.at # Gone /\ hist - e.at <= maxMatchOff => f.at = e.at

LEMMA ProtectedCurFacts ==
  ASSUME Inv, CloseWindows, mode \in {"fresh", "open"}
  PROVE  ProtectedBounds(ProtectedCur) /\ hist \in Nat /\ hist <= room /\ s = hist /\ cur \in Nat
<1>1. cur \in Nat /\ hist \in Nat /\ hist <= room /\ room \in Nat /\ s = hist
  BY WindowFacts DEF Inv, TypeOK, HistoryInv, Fits, PositionsFit, Buffer
<1>2. CASE AtLimit
  <2>1. ProtectedCur = maxMatchOff
    BY <1>2 DEF ProtectedCur
  <2>2. \A n \in Windows : maxMatchOff + hist + MaxBlock + n <= IntMax
    BY <1>1, WindowFacts
  <2> QED
    BY <1>1, <2>1, <2>2, WindowFacts DEF ProtectedBounds
<1>3. CASE ~AtLimit
  <2>1. ProtectedCur = cur /\ cur + hist < IntMax - 2 * maxMatchOff
    BY <1>1, <1>3, WindowFacts DEF ProtectedCur, AtLimit
  <2>2. \A n \in Windows : cur + hist + MaxBlock + n <= IntMax
    BY <1>1, <2>1, WindowFacts
  <2> QED
    BY <1>1, <2>1, <2>2 DEF ProtectedBounds
<1> QED
  BY <1>1, <1>2, <1>3

(* One entry through Rebase. *)
LEMMA RebaseFacts ==
  ASSUME Inv, CloseWindows, mode \in {"fresh", "open"}, NEW e \in Entries, Aimed(e)
  PROVE  /\ ProtectedEntry(e, Rebase(e), maxMatchOff)
         /\ minOff = cur + hist - maxMatchOff
         /\ e.off < minOff => e.at = Gone \/ hist - e.at > maxMatchOff
         /\ ~(e.off < minOff) => Rebase(e).off = e.off - cur + maxMatchOff
<1>1. cur \in Nat /\ hist \in Nat /\ s = hist /\ cur + hist <= IntMax /\ hist + maxMatchOff <= IntMax
  BY ProtectedCurFacts, WindowFacts DEF Inv, TypeOK, HistoryInv, Fits, PositionsFit
<1>2. Sane(e) /\ e.off \in Nat /\ e.off <= IntMax /\ e.at \in {Gone} \cup Nat
  BY EntriesSane, HistoryAssumption DEF Sane, Entry
<1>3. minOff = cur + hist - maxMatchOff
  <2>1. Int32(cur + hist) = cur + hist
    BY <1>1, Int32Fits, WindowFacts
  <2>2. Int32(cur + hist - maxMatchOff) = cur + hist - maxMatchOff
    BY <1>1, Int32Fits, WindowFacts
  <2>3. minOff = Int32(Int32(cur + hist) - maxMatchOff)
    BY DEF minOff
  <2> QED
    BY <1>1, <2>1, <2>2, <2>3, WindowFacts
<1>4. AimedFrom(e, cur, hist) /\ e.off - cur <= hist
  BY <1>1, <1>2, WindowFacts DEF Aimed, AimedFrom, Gone
<1>5. CASE e.off < minOff
  <2>1. Rebase(e) = Zero
    BY <1>5 DEF Rebase
  <2>2. e.at = Gone \/ hist - e.at > maxMatchOff
    BY <1>1, <1>2, <1>3, <1>4, <1>5, WindowFacts DEF AimedFrom, Gone
  <2>3. AimedFrom(Zero, maxMatchOff, hist)
    BY <1>1, ZeroSane, WindowFacts DEF AimedFrom
  <2>4. ~(e.at # Gone /\ hist - e.at <= maxMatchOff)
    BY <2>2, <1>1, <1>2, WindowFacts DEF Gone
  <2> QED
    BY <1>3, <1>5, <2>1, <2>2, <2>3, <2>4, ZeroSane DEF ProtectedEntry
<1>6. CASE e.off >= minOff
  <2>1. Int32(e.off - cur) = e.off - cur
    BY <1>1, <1>2, Int32Fits, WindowFacts
  <2>2. Int32(e.off - cur + maxMatchOff) = e.off - cur + maxMatchOff
    BY <1>1, <1>2, <1>3, <1>4, <1>6, Int32Fits, WindowFacts
  <2>3. Rebase(e) = [off |-> e.off - cur + maxMatchOff, at |-> e.at]
    BY <1>1, <1>2, <1>3, <1>6, <2>1, <2>2, WindowFacts DEF Rebase
  <2>4. e.off - cur + maxMatchOff >= 0 /\ e.off - cur + maxMatchOff <= IntMax
    BY <1>1, <1>2, <1>3, <1>4, <1>6, WindowFacts
  <2>5. Sane(Rebase(e))
    BY <1>1, <1>2, <2>3, <2>4, WindowFacts DEF Sane, Entry
  <2>6. AimedFrom(Rebase(e), maxMatchOff, hist)
    BY <1>1, <1>2, <1>4, <2>3, WindowFacts DEF AimedFrom
  <2>7. Rebase(e).at = e.at
    BY <2>3
  <2> QED
    BY <1>1, <1>2, <1>3, <1>6, <2>3, <2>5, <2>6, <2>7, WindowFacts DEF ProtectedEntry
<1> QED
  BY <1>1, <1>2, <1>3, <1>5, <1>6, WindowFacts

LEMMA ProtectSound ==
  ASSUME Inv, CloseWindows, mode \in {"fresh", "open"}
  PROVE  /\ ProtectedTable = [h \in Slots |-> [ offset |-> ProtectedTable[h].offset,
                                                prev   |-> ProtectedTable[h].prev ]]
         /\ \A h \in Slots :
              /\ ProtectedEntry(table[h].offset, ProtectedTable[h].offset, ProtectedCur)
              /\ ProtectedEntry(table[h].prev, ProtectedTable[h].prev, ProtectedCur)
              /\ ProtectedTable[h].prev.off <= ProtectedTable[h].offset.off
<1>1. cur \in Nat /\ hist \in Nat /\ s = hist
  BY ProtectedCurFacts
<1>2. table = [h \in Slots |-> [offset |-> table[h].offset, prev |-> table[h].prev]]
  BY DEF Inv, TypeOK
<1>3. \A h \in Slots : table[h].prev.off <= table[h].offset.off
  BY DEF Inv, HistoryInv, Chained
<1>4. CASE AtLimit /\ hist = 0
  <2>1. ProtectedTable = Cleared /\ ProtectedCur = maxMatchOff
    BY <1>4 DEF ProtectedTable, ProtectedCur
  <2>2. AimedFrom(Zero, maxMatchOff, hist) /\ Sane(Zero)
    BY <1>4, ZeroSane, WindowFacts DEF AimedFrom
  <2>3. \A h \in Slots : Cleared[h].offset = Zero /\ Cleared[h].prev = Zero
    BY DEF Cleared
  <2>4. ASSUME NEW e \in Entries PROVE e.at = Gone
    <3>1. e.at < 0
      <4>1. CASE mode = "fresh"
        BY <1>4, <4>1 DEF Inv, HistoryInv, Reach
      <4>2. CASE mode = "open"
        <5>1. Aimed(e)
          BY <4>2 DEF Inv, HistoryInv, Reach
        <5> QED
          BY <1>1, <1>4, <5>1 DEF Aimed, Gone
      <4> QED
        BY <4>1, <4>2
    <3>2. Sane(e)
      BY EntriesSane
    <3> QED
      BY <3>1, <3>2 DEF Sane, Entry, Gone
  <2>5. ASSUME NEW e \in Entries PROVE ProtectedEntry(e, Zero, maxMatchOff)
    BY <2>2, <2>4 DEF ProtectedEntry
  <2> QED
    BY <2>1, <2>3, <2>5, EntriesOfSlots, ZeroSane DEF Cleared
<1>5. CASE ~(AtLimit /\ hist = 0)
  <2>1. ~PurgePending \/ mode = "open"
    BY <1>1, <1>5, WindowFacts DEF PurgePending, AtLimit
  <2>2. \A e \in Entries : Aimed(e)
    BY <2>1 DEF Inv, HistoryInv, Reach
  <2>3. CASE ~AtLimit
    <3>1. ProtectedTable = table /\ ProtectedCur = cur
      BY <2>3 DEF ProtectedTable, ProtectedCur
    <3>2. ASSUME NEW e \in Entries PROVE ProtectedEntry(e, e, cur)
      BY <1>1, <2>2, EntriesSane DEF ProtectedEntry, Aimed, AimedFrom
    <3> QED
      BY <1>2, <1>3, <3>1, <3>2, EntriesOfSlots
  <2>4. CASE AtLimit
    <3>1. ProtectedTable = Rebased /\ ProtectedCur = maxMatchOff
      BY <1>5, <2>4 DEF ProtectedTable, ProtectedCur
    <3>2. Rebased = [h \in Slots |-> [offset |-> Rebased[h].offset, prev |-> Rebased[h].prev]]
      BY DEF Rebased
    <3>3. ASSUME NEW h \in Slots
          PROVE  /\ ProtectedEntry(table[h].offset, Rebased[h].offset, maxMatchOff)
                 /\ ProtectedEntry(table[h].prev, Rebased[h].prev, maxMatchOff)
                 /\ Rebased[h].prev.off <= Rebased[h].offset.off
      <4> DEFINE o == table[h].offset
                 p == table[h].prev
      <4>1. o \in Entries /\ p \in Entries /\ p.off <= o.off
        BY <1>3, EntriesOfSlots
      <4>2. /\ ProtectedEntry(o, Rebase(o), maxMatchOff) /\ ProtectedEntry(p, Rebase(p), maxMatchOff)
            /\ minOff = cur + hist - maxMatchOff
            /\ p.off < minOff => p.at = Gone \/ hist - p.at > maxMatchOff
        BY <2>2, <4>1, RebaseFacts
      <4>3. /\ Rebased[h].offset = Rebase(o)
            /\ Rebased[h].prev = IF o.off < minOff THEN Zero ELSE Rebase(p)
        BY DEF Rebased
      <4>4. Sane(o) /\ Sane(p) /\ minOff \in Int /\ Sane(Rebase(o)) /\ Sane(Rebase(p))
        BY <1>1, <4>1, <4>2, EntriesSane, WindowFacts DEF ProtectedEntry
      <4>5. CASE o.off < minOff
        <5>1. p.off < minOff
          BY <4>1, <4>4, <4>5 DEF Sane, Entry
        <5>2. Rebase(o) = Zero /\ Rebase(p) = Zero
          BY <4>5, <5>1 DEF Rebase
        <5> QED
          BY <4>2, <4>3, <4>5, <5>2, ZeroSane
      <4>6. CASE ~(o.off < minOff)
        <5>1. Rebased[h].prev = Rebase(p) /\ Rebased[h].offset = Rebase(o)
          BY <4>3, <4>6
        <5>2. Rebase(p).off <= Rebase(o).off
          <6>1. CASE p.off < minOff
            BY <4>4, <6>1, ZeroSane DEF Rebase, Sane, Entry
          <6>2. CASE ~(p.off < minOff)
            <7>1. Rebase(o).off = o.off - cur + maxMatchOff
              BY <2>2, <4>1, <4>6, RebaseFacts
            <7>2. Rebase(p).off = p.off - cur + maxMatchOff
              BY <2>2, <4>1, <6>2, RebaseFacts
            <7> QED
              BY <1>1, <4>1, <4>4, <7>1, <7>2, WindowFacts DEF Sane, Entry
          <6> QED
            BY <6>1, <6>2
        <5> QED
          BY <4>2, <5>1, <5>2
      <4> QED
        BY <4>5, <4>6
    <3> QED
      BY <3>1, <3>2, <3>3
  <2> QED
    BY <2>3, <2>4
<1> QED
  BY <1>4, <1>5

(* Appending a block to a buffer that holds a window and a block: the search *)
(* starts with every entry aimed.                                            *)
LEMMA AppendSound ==
  ASSUME Inv, CloseWindows, mode \in {"fresh", "open"},
         NEW n \in 1..MaxBlock, n <= maxMatchOff,
         room' \in Nat, room' >= room, room' >= maxMatchOff + MaxBlock,
         \A v, w \in Windows : v + w + room' + MaxBlock <= IntMax,
         AppendBlock(n)
  PROVE  /\ Inv' /\ mode' = "search"
         /\ \A h \in Slots :
              /\ table[h].offset.at # Gone /\ hist - table[h].offset.at <= maxMatchOff
                   => table'[h].offset.at # Gone /\ table'[h].offset.off - cur' = table'[h].offset.at
              /\ table[h].prev.at # Gone /\ hist - table[h].prev.at <= maxMatchOff
                   => table'[h].prev.at # Gone /\ table'[h].prev.off - cur' = table'[h].prev.at
<1> DEFINE c == ProtectedCur
           t == ProtectedTable
           slid == IF hist + n <= room' THEN 0 ELSE SlidBy
<1>1. /\ c \in Nat /\ \A w \in Windows : c + hist + MaxBlock + w <= IntMax
      /\ hist \in Nat /\ hist <= room /\ room \in Nat /\ n \in Nat /\ n <= MaxBlock
  BY ProtectedCurFacts, WindowFacts DEF ProtectedBounds, Inv, TypeOK
<1>2. /\ t = [h \in Slots |-> [offset |-> t[h].offset, prev |-> t[h].prev]]
      /\ \A h \in Slots : /\ ProtectedEntry(table[h].offset, t[h].offset, c)
                          /\ ProtectedEntry(table[h].prev, t[h].prev, c)
                          /\ t[h].prev.off <= t[h].offset.off
  BY ProtectSound
<1> HIDE DEF c, t
<1>3. /\ slid \in Nat /\ ~(hist + n > room' /\ TooSmall)
      /\ slid = 0 \/ slid = hist - maxMatchOff
      /\ hist' = hist - slid + n /\ hist' <= room' /\ hist' \in Nat
  <2>1. CASE hist + n <= room'
    BY <1>1, <2>1 DEF AppendBlock
  <2>2. CASE hist + n > room'
    <3>1. hist > maxMatchOff
      BY <1>1, <2>2, WindowFacts
    <3> QED
      BY <1>1, <2>2, <3>1, WindowFacts DEF AppendBlock, TooSmall, SlidBy
  <2> QED
    BY <1>1, <2>1, <2>2
<1>4. cur' = c + slid /\ cur' \in Nat
  <2>1. CASE hist + n <= room'
    BY <1>1, <2>1 DEF AppendBlock, c
  <2>2. CASE ~(hist + n <= room')
    <3>1. cur' = Int32(c + slid)
      BY <2>2 DEF AppendBlock, c
    <3>2. c + slid \in Int /\ -(IntMax + 1) <= c + slid /\ c + slid <= IntMax
      BY <1>1, <1>3, WindowFacts
    <3> QED
      BY <1>1, <1>3, <3>1, <3>2, Int32Fits
  <2> QED
    BY <2>1, <2>2
<1>5. /\ mode' = "search" /\ end' = hist' /\ s' \in {hist' - n, hist'}
      /\ maxMatchOff' = maxMatchOff /\ lowMem' = lowMem
  BY <1>3 DEF AppendBlock
<1>6. s' \in Nat /\ s' <= hist' /\ s' >= hist - slid
  BY <1>1, <1>3, <1>5, WindowFacts
<1>7. cur' + hist' = c + hist + n
  BY <1>1, <1>3, <1>4
<1>8. ASSUME NEW e, NEW f, ProtectedEntry(e, f, c)
      PROVE  LET g == IF hist + n <= room' THEN f ELSE Slide(f, SlidBy)
             IN  /\ Sane(g) /\ g.off = f.off
                 /\ IF g.at = Gone THEN g.off - cur' <= s' - maxMatchOff
                    ELSE g.off - cur' = g.at /\ g.at < s'
                 /\ e.at \in Int /\ e.at # Gone /\ hist - e.at <= maxMatchOff => g.at # Gone
  <2> DEFINE g == IF hist + n <= room' THEN f ELSE Slide(f, SlidBy)
  <2>1. /\ Sane(f) /\ f.off \in Nat /\ f.at \in {Gone} \cup Nat
        /\ AimedFrom(f, c, hist)
        /\ e.at # Gone /\ hist - e.at <= maxMatchOff => f.at = e.at
    BY <1>8, HistoryAssumption DEF ProtectedEntry, Sane, Entry
  <2>2. /\ Sane(g) /\ g.off = f.off
        /\ g.at = IF f.at < slid THEN Gone ELSE f.at - slid
    <3>1. CASE hist + n <= room'
      BY <2>1, <3>1 DEF Gone
    <3>2. CASE ~(hist + n <= room')
      <4>1. slid = SlidBy
        BY <3>2
      <4> QED
        BY <1>3, <2>1, <3>2, <4>1, MovedSane
    <3> QED
      BY <3>1, <3>2
  <2> HIDE DEF g
  <2>3. IF g.at = Gone THEN g.off - cur' <= s' - maxMatchOff
        ELSE g.off - cur' = g.at /\ g.at < s'
    <3>1. CASE f.at = Gone
      BY <1>1, <1>3, <1>4, <1>6, <2>1, <2>2, <3>1, WindowFacts DEF AimedFrom, Gone
    <3>2. CASE f.at # Gone /\ f.at < slid
      BY <1>1, <1>3, <1>4, <1>6, <2>1, <2>2, <3>2, WindowFacts DEF AimedFrom, Gone
    <3>3. CASE f.at # Gone /\ ~(f.at < slid)
      BY <1>1, <1>3, <1>4, <1>6, <2>1, <2>2, <3>3, WindowFacts DEF AimedFrom, Gone
    <3> QED
      BY <3>1, <3>2, <3>3
  <2>4. ASSUME e.at \in Int, e.at # Gone, hist - e.at <= maxMatchOff
        PROVE  g.at # Gone
    <3>1. f.at = e.at /\ f.at \in Nat
      BY <2>1, <2>4
    <3>2. ~(f.at < slid)
      BY <1>1, <1>3, <2>4, <3>1, WindowFacts
    <3> QED
      BY <1>3, <2>2, <3>1, <3>2 DEF Gone
  <2> QED
    BY <2>2, <2>3, <2>4 DEF g
<1> DEFINE Moved(f) == IF hist + n <= room' THEN f ELSE Slide(f, SlidBy)
<1>9. table' = [h \in Slots |-> [offset |-> Moved(t[h].offset), prev |-> Moved(t[h].prev)]]
  BY <1>2 DEF AppendBlock, Slid, t
<1>10. ASSUME NEW h \in Slots
       PROVE  /\ table'[h].offset = Moved(t[h].offset) /\ table'[h].prev = Moved(t[h].prev)
              /\ Sane(table'[h].offset) /\ Sane(table'[h].prev)
              /\ table'[h].prev.off <= table'[h].offset.off
  <2>1. table'[h].offset = Moved(t[h].offset) /\ table'[h].prev = Moved(t[h].prev)
    BY <1>9
  <2> QED
    BY <1>2, <1>8, <2>1
<1>11. \A e \in Entries' : Sane(e) /\ Aimed(e)'
  <2> SUFFICES ASSUME NEW e \in Entries' PROVE Sane(e) /\ Aimed(e)'
    OBVIOUS
  <2>1. PICK h \in Slots : e = table'[h].offset \/ e = table'[h].prev
    BY EntriesOfSlotsNext
  <2>2. e = Moved(t[h].offset) \/ e = Moved(t[h].prev)
    BY <1>10, <2>1
  <2> QED
    BY <1>2, <1>5, <1>8, <2>2 DEF Aimed
<1>12. TypeOK'
  <2>1. table' \in [Slots -> [offset : Entry, prev : Entry]]
    <3>1. table' = [h \in Slots |-> [offset |-> table'[h].offset, prev |-> table'[h].prev]]
      BY <1>9
    <3> QED
      BY <1>10, <3>1, TableTyped
  <2>2. cur' \in -(IntMax + 1)..IntMax
    BY <1>1, <1>3, <1>4, <1>7, WindowFacts
  <2> QED
    BY <1>3, <1>5, <1>6, <2>1, <2>2 DEF TypeOK, Inv, Modes
<1>13. Fits'
  <2>1. PositionsFit'
    BY <1>1, <1>3, <1>4, <1>5, <1>7, WindowFacts DEF PositionsFit
  <2>2. \A w \in Windows : cur' < IntMax - 2 * w => cur' + hist' + w <= IntMax
    BY <1>1, <1>3, <1>4, <1>7, WindowFacts
  <2> QED
    BY <1>5, <1>11, <2>1, <2>2 DEF Fits, Sane
<1>14. Buffer' /\ NoPanic'
  BY <1>5 DEF Buffer, NoPanic
<1>15. Reach' /\ Chained'
  BY <1>5, <1>10, <1>11 DEF Reach, Chained
<1>16. ASSUME NEW h \in Slots, NEW e, NEW f,
              \/ e = table[h].offset /\ f = table'[h].offset
              \/ e = table[h].prev /\ f = table'[h].prev,
              e.at # Gone, hist - e.at <= maxMatchOff
       PROVE  f.at # Gone /\ f.off - cur' = f.at
  <2>1. PICK g : ProtectedEntry(e, g, c) /\ f = Moved(g)
    BY <1>2, <1>10, <1>16
  <2>2. e.at \in Int
    BY <1>16, EntriesSane DEF Sane, Entry, Gone
  <2> QED
    BY <1>8, <1>16, <2>1, <2>2
<1> QED
  BY <1>5, <1>12, <1>13, <1>14, <1>15, <1>16 DEF Inv, HistoryInv

LEMMA EncodeSound ==
  ASSUME Inv, CloseWindows, NEW n \in 1..MaxBlock, Encode(n)
  PROVE  /\ Inv' /\ mode' = "search"
         /\ \A h \in Slots :
              /\ table[h].offset.at # Gone /\ hist - table[h].offset.at <= maxMatchOff
                   => table'[h].offset.at # Gone /\ table'[h].offset.off - cur' = table'[h].offset.at
              /\ table[h].prev.at # Gone /\ hist - table[h].prev.at <= maxMatchOff
                   => table'[h].prev.at # Gone /\ table'[h].prev.off - cur' = table'[h].prev.at
<1>1. room' = room /\ mode \in {"fresh", "open"} /\ n <= maxMatchOff /\ AppendBlock(n)
  BY DEF Encode
<1>2. room \in Nat /\ room >= maxMatchOff + MaxBlock /\ \A v, w \in Windows : v + w + room + MaxBlock <= IntMax
  BY <1>1 DEF Inv, TypeOK, HistoryInv, Buffer
<1> QED
  BY <1>1, <1>2, AppendSound

(* Clearing the tables leaves nothing but zero entries.                      *)
LEMMA ClearedEntries ==
  /\ \A h \in Slots : Cleared[h].offset = Zero /\ Cleared[h].prev = Zero
  /\ Cleared = [h \in Slots |-> [offset |-> Cleared[h].offset, prev |-> Cleared[h].prev]]
  BY DEF Cleared

LEMMA EncodeNoHistSound ==
  ASSUME Inv, CloseWindows, NEW n \in 1..MaxBlock, EncodeNoHist(n)
  PROVE  /\ Inv'
         /\ mode' = "search" =>
              \A h \in Slots :
                /\ table[h].offset.at # Gone /\ hist - table[h].offset.at <= maxMatchOff
                     => table'[h].offset.at # Gone /\ table'[h].offset.off - cur' = table'[h].offset.at
                /\ table[h].prev.at # Gone /\ hist - table[h].prev.at <= maxMatchOff
                     => table'[h].prev.at # Gone /\ table'[h].prev.off - cur' = table'[h].prev.at
<1>1. /\ mode = "fresh" /\ hist = 0 /\ n <= maxMatchOff /\ n \in Nat /\ n >= 1
      /\ cur \in Nat /\ s = 0 /\ end \in Nat
      /\ room \in Nat /\ room >= maxMatchOff + MaxBlock
      /\ \A v, w \in Windows : v + w + room + MaxBlock <= IntMax
  BY WindowFacts DEF EncodeNoHist, Inv, TypeOK, HistoryInv, Fits, PositionsFit, Buffer
<1>2. CASE Family # "fast"
  <2>1. room' = EnsureHistOf(room, lowMem, n) /\ AppendBlock(n)
    BY <1>2 DEF EncodeNoHist
  <2>2. /\ room' \in Nat /\ room' >= room
        /\ \A v, w \in Windows : v + w + room' + MaxBlock <= IntMax
    <3>1. 0 \in Dicts /\ lowMem \in BOOLEAN /\ n <= MaxBlock
      BY <1>1, HistoryAssumption, WindowFacts DEF Inv, TypeOK
    <3> QED
      BY <1>1, <2>1, <3>1, EnsureHistFacts
  <2>3. room' >= maxMatchOff + MaxBlock
    BY <1>1, <2>2, WindowFacts
  <2> QED
    BY <1>1, <2>1, <2>2, <2>3, AppendSound
<1>3. CASE Family = "fast"
  <2>1. /\ \/ mode' = "searchAlone" /\ end' = n
           \/ mode' = "done" /\ end' = 0
        /\ maxMatchOff' = maxMatchOff /\ lowMem' = lowMem /\ hist' = 0 /\ room' = room /\ s' = 0
    BY <1>1, <1>3 DEF EncodeNoHist
  <2>2. /\ cur' \in Nat /\ cur' < IntMax - 2 * maxMatchOff
        /\ \A e \in Entries' : Sane(e) /\ Aimed(e)'
        /\ table' = [h \in Slots |-> [offset |-> table'[h].offset, prev |-> table'[h].prev]]
        /\ \A h \in Slots : /\ Sane(table'[h].offset) /\ Sane(table'[h].prev)
                            /\ table'[h].prev.off <= table'[h].offset.off
    <3>1. CASE cur >= bufferReset
      <4>1. cur' = maxMatchOff /\ table' = Cleared
        BY <1>3, <3>1 DEF EncodeNoHist
      <4>2. \A e \in Entries' : e = Zero
        BY <4>1, ClearedEntries, EntriesOfSlotsNext
      <4>3. Aimed(Zero)'
        BY <2>1, <4>1, ZeroSane, WindowFacts DEF Aimed
      <4> QED
        BY <4>1, <4>2, <4>3, ClearedEntries, ZeroSane, WindowFacts
    <3>2. CASE ~(cur >= bufferReset)
      <4>1. cur' = cur /\ table' = table
        BY <1>3, <3>2 DEF EncodeNoHist
      <4>2. \A e \in Entries : Aimed(e)
        BY <1>1, <3>2 DEF Inv, HistoryInv, Reach, PurgePending
      <4>3. Entries' = Entries /\ \A e \in Entries : Aimed(e)'
        BY <1>1, <2>1, <4>1, <4>2 DEF Entries, Aimed
      <4>4. table = [h \in Slots |-> [offset |-> table[h].offset, prev |-> table[h].prev]]
        BY DEF Inv, TypeOK
      <4> QED
        BY <1>1, <3>2, <4>1, <4>3, <4>4, EntriesSane, WindowFacts DEF Inv, HistoryInv, Chained
    <3> QED
      BY <3>1, <3>2
  <2>3. TypeOK'
    <3>1. table' \in [Slots -> [offset : Entry, prev : Entry]]
      BY <2>2, TableTyped
    <3>2. cur' \in -(IntMax + 1)..IntMax
      BY <2>2, WindowFacts
    <3> QED
      BY <1>1, <2>1, <3>1, <3>2 DEF TypeOK, Inv, Modes
  <2>4. Reach'
    <3>1. \A e \in Entries' : e.off - cur' <= 0
      <4> SUFFICES ASSUME NEW e \in Entries' PROVE e.off - cur' <= 0
        OBVIOUS
      <4>1. Sane(e) /\ Aimed(e)'
        BY <2>2
      <4> QED
        BY <2>1, <2>2, <4>1, WindowFacts DEF Aimed, Sane, Entry, Gone
    <3> QED
      BY <2>1, <2>2, <3>1 DEF Reach
  <2>5. Fits'
    <3>1. PositionsFit'
      BY <1>1, <2>1, <2>2, WindowFacts DEF PositionsFit
    <3>2. \A w \in Windows : cur' < IntMax - 2 * w => cur' + hist' + w <= IntMax
      BY <2>1, <2>2, WindowFacts
    <3>3. cur' < bufferReset'
      BY <2>1, <2>2 DEF bufferReset
    <3> QED
      BY <2>2, <3>1, <3>2, <3>3 DEF Fits, Sane
  <2>6. Buffer' /\ NoPanic' /\ Chained'
    BY <1>1, <2>1, <2>2 DEF Buffer, NoPanic, Chained
  <2> QED
    BY <2>1, <2>3, <2>4, <2>5, <2>6 DEF Inv, HistoryInv
<1> QED
  BY <1>2, <1>3

LEMMA ProbeInv ==
  ASSUME Inv, CloseWindows, Probe
  PROVE  Inv'
<1>1. /\ mode \in {"search", "searchAlone"} /\ s < end /\ s' = s + 1
      /\ UNCHANGED << cur, maxMatchOff, lowMem, hist, room, mode, end >>
      /\ s \in Nat /\ end \in Nat /\ cur \in Nat /\ cur + end <= IntMax
  BY WindowFacts DEF Probe, Inv, TypeOK, HistoryInv, Fits, PositionsFit
<1>2. PICK written \in SUBSET Slots :
        table' = [h \in Slots |-> IF h \in written THEN Indexed(h) ELSE table[h]]
  BY DEF Probe
<1>3. Int32(s + cur) = s + cur
  BY <1>1, Int32Fits, WindowFacts
<1> DEFINE new == [off |-> s + cur, at |-> s]
<1>4. Sane(new) /\ new.off = s + cur /\ new.at = s
  BY <1>1, WindowFacts DEF Sane, Entry
<1>5. \A h \in Slots : /\ Indexed(h).offset = new
                       /\ Indexed(h).prev \in {table[h].prev, table[h].offset}
                       /\ Indexed(h) = [offset |-> Indexed(h).offset, prev |-> Indexed(h).prev]
  BY <1>3 DEF Indexed
<1> HIDE DEF new
<1>6. ASSUME NEW e \in Entries
      PROVE  Sane(e) /\ AimedFrom(e, cur, s + 1) /\ e.off <= s + cur
  <2>1. Aimed(e) /\ Sane(e)
    BY <1>1, EntriesSane DEF Inv, HistoryInv, Reach
  <2> QED
    BY <1>1, <2>1, WindowFacts DEF Aimed, AimedFrom, Sane, Entry, Gone
<1>7. AimedFrom(new, cur, s + 1)
  BY <1>1, <1>4, WindowFacts DEF AimedFrom, Gone
<1>8. ASSUME NEW h \in Slots
      PROVE  /\ Sane(table'[h].offset) /\ AimedFrom(table'[h].offset, cur, s + 1)
             /\ Sane(table'[h].prev) /\ AimedFrom(table'[h].prev, cur, s + 1)
             /\ table'[h].prev.off <= table'[h].offset.off
             /\ table'[h] = [offset |-> table'[h].offset, prev |-> table'[h].prev]
  <2>1. /\ table[h].offset \in Entries /\ table[h].prev \in Entries
        /\ table[h].prev.off <= table[h].offset.off
        /\ table[h] = [offset |-> table[h].offset, prev |-> table[h].prev]
    BY EntriesOfSlots DEF Inv, TypeOK, HistoryInv, Chained
  <2>2. CASE h \in written
    <3>1. table'[h] = Indexed(h)
      BY <1>2, <2>2
    <3>2. table'[h].offset = new /\ table'[h].prev \in {table[h].prev, table[h].offset}
      BY <1>5, <3>1
    <3> QED
      BY <1>4, <1>5, <1>6, <1>7, <2>1, <3>1, <3>2
  <2>3. CASE h \notin written
    <3>1. table'[h] = table[h]
      BY <1>2, <2>3
    <3> QED
      BY <1>6, <2>1, <3>1
  <2> QED
    BY <2>2, <2>3
<1>9. \A e \in Entries' : Sane(e) /\ Aimed(e)'
  <2> SUFFICES ASSUME NEW e \in Entries' PROVE Sane(e) /\ Aimed(e)'
    OBVIOUS
  <2>1. PICK h \in Slots : e = table'[h].offset \/ e = table'[h].prev
    BY EntriesOfSlotsNext
  <2>2. Sane(e) /\ AimedFrom(e, cur, s + 1)
    BY <1>8, <2>1
  <2> QED
    BY <1>1, <2>2 DEF Aimed, AimedFrom
<1>10. TypeOK'
  <2>1. table' = [h \in Slots |-> [offset |-> table'[h].offset, prev |-> table'[h].prev]]
    BY <1>2, <1>8
  <2>2. table' \in [Slots -> [offset : Entry, prev : Entry]]
    BY <1>8, <2>1, TableTyped
  <2> QED
    BY <1>1, <2>2 DEF TypeOK, Inv
<1>11. Reach' /\ Chained'
  BY <1>1, <1>8, <1>9 DEF Reach, Chained
<1>12. Fits'
  BY <1>1, <1>9 DEF Fits, PositionsFit, Sane, Inv, HistoryInv, bufferReset
<1>13. Buffer' /\ NoPanic'
  BY <1>1 DEF Inv, HistoryInv, Buffer, NoPanic
<1> QED
  BY <1>10, <1>11, <1>12, <1>13 DEF Inv, HistoryInv

LEMMA EndBlockInv ==
  ASSUME Inv, CloseWindows, EndBlock
  PROVE  Inv'
<1>1. /\ mode = "search" /\ s = end /\ mode' = "open"
      /\ UNCHANGED << cur, maxMatchOff, lowMem, hist, room, table, s, end >>
  BY DEF EndBlock
<1>2. Entries' = Entries /\ \A e \in Entries : Aimed(e)' <=> Aimed(e)
  BY <1>1 DEF Entries, Aimed
<1>3. TypeOK'
  BY <1>1 DEF TypeOK, Inv, Modes
<1>4. Reach' /\ Chained'
  BY <1>1, <1>2 DEF Reach, Chained, Inv, HistoryInv
<1>5. Fits' /\ Buffer' /\ NoPanic'
  BY <1>1, <1>2 DEF Fits, PositionsFit, Buffer, NoPanic, Inv, HistoryInv
<1> QED
  BY <1>3, <1>4, <1>5 DEF Inv, HistoryInv

LEMMA EndAloneInv ==
  ASSUME Inv, CloseWindows, EndAlone
  PROVE  Inv'
<1>1. /\ mode = "searchAlone" /\ s = end /\ hist = 0 /\ cur \in Nat /\ end \in Nat
      /\ cur < bufferReset /\ cur + end <= IntMax /\ \A e \in Entries : Aimed(e)
      /\ room \in Nat
  BY WindowFacts DEF EndAlone, Inv, TypeOK, HistoryInv, Fits, PositionsFit, Buffer, Reach
<1>2. /\ table' = Forgotten /\ mode' = "done" /\ s' = 0 /\ end' = 0
      /\ UNCHANGED << maxMatchOff, lowMem, hist, room >>
  BY DEF EndAlone
<1>3. cur' = cur + end
  BY <1>1, Int32Fits, WindowFacts DEF EndAlone, LeapAlone
<1>4. \A h \in Slots : /\ Sane(table'[h].offset) /\ table'[h].offset.off = table[h].offset.off
                       /\ Sane(table'[h].prev) /\ table'[h].prev.off = table[h].prev.off
  BY <1>2, EntriesSane, MovedSane DEF Forgotten
<1>5. table' = [h \in Slots |-> [offset |-> table'[h].offset, prev |-> table'[h].prev]]
  BY <1>2 DEF Forgotten
<1>6. \A e \in Entries' : Sane(e) /\ e.off - cur' <= hist'
  <2> SUFFICES ASSUME NEW e \in Entries' PROVE Sane(e) /\ e.off - cur' <= hist'
    OBVIOUS
  <2>1. PICK f \in Entries : Sane(e) /\ e.off = f.off
    BY <1>4, EntriesOfSlots, EntriesOfSlotsNext
  <2>2. Aimed(f) /\ Sane(f)
    BY <1>1, EntriesSane
  <2>3. f.off - cur <= s
    BY <1>1, <2>2, WindowFacts DEF Aimed, Sane, Entry, Gone
  <2> QED
    BY <1>1, <1>2, <1>3, <2>1, <2>2, <2>3 DEF Sane, Entry
<1>7. TypeOK'
  <2>1. table' \in [Slots -> [offset : Entry, prev : Entry]]
    BY <1>4, <1>5, TableTyped
  <2>2. cur' \in -(IntMax + 1)..IntMax
    BY <1>1, <1>3, WindowFacts
  <2> QED
    BY <1>1, <1>2, <2>1, <2>2 DEF TypeOK, Inv, Modes
<1>8. Fits'
  <2>1. PositionsFit'
    BY <1>1, <1>2, <1>3, WindowFacts DEF PositionsFit
  <2>2. \A w \in Windows : cur' < IntMax - 2 * w => cur' + hist' + w <= IntMax
    BY <1>1, <1>2, <1>3, WindowFacts
  <2> QED
    BY <1>2, <1>6, <2>1, <2>2 DEF Fits, Sane
<1>9. Reach' /\ Buffer' /\ NoPanic'
  BY <1>1, <1>2, <1>6 DEF Reach, Buffer, NoPanic, Inv, HistoryInv
<1>10. Chained'
  BY <1>4 DEF Chained, Inv, HistoryInv
<1> QED
  BY <1>7, <1>8, <1>9, <1>10 DEF Inv, HistoryInv

-----------------------------------------------------------------------------
LEMMA InitInv ==
  ASSUME Init, CloseWindows
  PROVE  Inv
<1>1. \A e \in Entries : e = Zero
  BY ClearedEntries DEF Init, Entries
<1>2. IntMax \in Nat /\ MaxBlock \in Nat /\ \A w \in Windows : w \in Nat
  BY HistoryAssumption
<1>3. TypeOK
  <2>1. table \in [Slots -> [offset : Entry, prev : Entry]]
    BY ZeroSane DEF Init, Cleared, Sane
  <2> QED
    BY <1>2, <2>1 DEF Init, TypeOK, Modes
<1>4. Reach /\ Chained
  BY <1>1, ZeroSane, ClearedEntries DEF Init, Reach, Chained
<1>5. Fits
  <2>1. \A w \in Windows : 2 * w <= IntMax
    BY HistoryAssumption
  <2> QED
    BY <1>1, <1>2, <2>1, ZeroSane DEF Init, Fits, PositionsFit
<1>6. Buffer /\ NoPanic
  <2>1. \A v, w \in Windows : v + w + MaxBlock <= IntMax
    <3> SUFFICES ASSUME NEW v \in Windows, NEW w \in Windows PROVE v + w + MaxBlock <= IntMax
      OBVIOUS
    <3>1. v + w + MinAlloc + MaxBlock <= IntMax
      BY DEF CloseWindows
    <3> QED
      BY <1>2, <3>1, HistoryAssumption
  <2> QED
    BY <1>2, <2>1 DEF Init, Buffer, NoPanic
<1> QED
  BY <1>3, <1>4, <1>5, <1>6 DEF Inv, HistoryInv

LEMMA NextInv ==
  ASSUME Inv, CloseWindows, [Next]_vars
  PROVE  Inv'
<1>1. CASE \E n \in Windows, low \in BOOLEAN : Configure(n, low)
  BY <1>1, ConfigureInv
<1>2. CASE Put
  BY <1>2, PutInv
<1>3. CASE \E d \in Dicts, single \in BOOLEAN : Reset(d, single)
  BY <1>3, ResetPlain, ResetDict
<1>4. CASE \E n \in 1..MaxBlock : Encode(n) \/ EncodeNoHist(n)
  BY <1>4, EncodeSound, EncodeNoHistSound
<1>5. CASE Probe
  BY <1>5, ProbeInv
<1>6. CASE EndBlock
  BY <1>6, EndBlockInv
<1>7. CASE EndAlone
  BY <1>7, EndAloneInv
<1>8. CASE UNCHANGED vars
  <2>1. Entries' = Entries /\ \A e : Aimed(e)' <=> Aimed(e)
    BY <1>8 DEF vars, Entries, Aimed
  <2>2. TypeOK' /\ Reach' /\ Chained'
    BY <1>8, <2>1 DEF vars, Inv, TypeOK, HistoryInv, Reach, Chained, PurgePending, bufferReset
  <2>3. Fits' /\ Buffer' /\ NoPanic'
    BY <1>8, <2>1 DEF vars, Inv, HistoryInv, Fits, PositionsFit, Buffer, NoPanic, bufferReset
  <2> QED
    BY <2>2, <2>3 DEF Inv, HistoryInv
<1> QED
  BY <1>1, <1>2, <1>3, <1>4, <1>5, <1>6, <1>7, <1>8 DEF Next

(* The bookkeeping holds in every behaviour of encoders shared by writers    *)
(* whose windows are close: cur and the entries stay int32 sums that do not  *)
(* wrap (PositionsFit) and addBlock never panics (NoPanic).                  *)
THEOREM HistoryInvariant ==
  ASSUME CloseWindows
  PROVE  Spec => [](TypeOK /\ HistoryInv)
<1>1. Init => Inv
  BY InitInv
<1>2. Inv /\ [Next]_vars => Inv'
  BY NextInv
<1> QED
  BY <1>1, <1>2, PTL DEF Spec, Inv

(* The test for an aimed entry: it is accepted only when it points at its    *)
(* own bytes.                                                                *)
LEMMA AcceptedAimed ==
  ASSUME Inv, CloseWindows, NEW e \in Entries, Aimed(e), NEW q \in Nat, q >= s,
         cur + q <= IntMax, Accepted(e, q)
  PROVE  e.at # Gone /\ e.at \in 0..(s - 1) /\ Target(e) = e.at
<1>1. /\ cur \in Nat /\ cur <= IntMax /\ s \in Nat
      /\ e.off \in Nat /\ e.off <= IntMax /\ e.at \in {Gone} \cup Nat
  BY EntriesSane, WindowFacts DEF Inv, TypeOK, HistoryInv, Fits, PositionsFit, Sane, Entry
<1>2. Target(e) = e.off - cur
  BY <1>1, Int32Fits, WindowFacts DEF Target
<1>3. q - (e.off - cur) < maxMatchOff
  <2>1. CASE q - (e.off - cur) >= -(IntMax + 1)
    <3>1. Int32(q - (e.off - cur)) = q - (e.off - cur)
      BY <1>1, <2>1, Int32Fits, WindowFacts
    <3> QED
      BY <1>1, <1>2, <3>1 DEF Accepted
  <2>2. CASE ~(q - (e.off - cur) >= -(IntMax + 1))
    BY <1>1, <2>2, WindowFacts
  <2> QED
    BY <2>1, <2>2
<1>4. e.at # Gone
  BY <1>1, <1>3, WindowFacts DEF Aimed
<1> QED
  BY <1>1, <1>2, <1>4 DEF Aimed, Gone

(* No stale table entry is ever a candidate: a match is only extended from   *)
(* bytes of the current history, at the distance the sequence will record.   *)
THEOREM HistoryCandidatesSound ==
  ASSUME CloseWindows
  PROVE  Spec => []CandidatesSound
<1>1. Inv => CandidatesSound
  <2> SUFFICES ASSUME Inv, mode \in {"search", "searchAlone"}, s < end,
                      NEW e \in Entries, Accepted(e, s)
               PROVE  e.at \in 0..(s - 1) /\ Target(e) = e.at
    BY DEF CandidatesSound
  <2>1. Aimed(e) /\ s \in Nat /\ end \in Nat /\ cur \in Int /\ cur + end <= IntMax
    BY DEF Inv, TypeOK, HistoryInv, Reach, Fits, PositionsFit
  <2>2. cur + s <= IntMax /\ s >= s
    BY <2>1, WindowFacts
  <2> QED
    BY <2>1, <2>2, AcceptedAimed
<1>2. Spec => []Inv
  BY HistoryInvariant DEF Inv
<1> QED
  BY <1>1, <1>2, PTL

(* What resetBase promises in its comment: below the reset line, everything  *)
(* of the streams before is out of reach.                                    *)
THEOREM HistoryOutOfReach ==
  ASSUME CloseWindows
  PROVE  Spec => []OutOfReach
<1>1. Inv => OutOfReach
  <2> SUFFICES ASSUME Inv, mode = "fresh", hist = 0, cur < bufferReset,
                      NEW e \in Entries, NEW q \in 0..(MaxBlock - 1), Accepted(e, q)
               PROVE  FALSE
    BY DEF OutOfReach
  <2>1. s = 0 /\ cur \in Nat /\ q \in Nat /\ cur + q <= IntMax
    BY WindowFacts DEF Inv, TypeOK, HistoryInv, Buffer, Fits, PositionsFit
  <2>2. Aimed(e)
    BY <2>1, WindowFacts DEF Inv, HistoryInv, Reach, PurgePending
  <2>3. e.at \in 0..(s - 1)
    BY <2>1, <2>2, AcceptedAimed
  <2> QED
    BY <2>1, <2>3
<1>2. Spec => []Inv
  BY HistoryInvariant DEF Inv
<1> QED
  BY <1>1, <1>2, PTL

(* Rebasing and sliding keep every entry of the window on its bytes.         *)
THEOREM HistoryWindowKept ==
  ASSUME CloseWindows
  PROVE  Spec => WindowKept
<1> DEFINE Kept ==
      mode' = "search" /\ mode # "search" =>
        \A h \in Slots, f \in {"offset", "prev"} :
          table[h][f].at # Gone /\ hist - table[h][f].at < maxMatchOff
            => LET e == table'[h][f] IN e.at # Gone /\ e.off - cur' = e.at
<1>1. Inv /\ [Next]_vars => [Kept]_vars
  <2> SUFFICES ASSUME Inv, [Next]_vars, mode' = "search", mode # "search",
                      NEW h \in Slots, NEW f \in {"offset", "prev"},
                      table[h][f].at # Gone, hist - table[h][f].at < maxMatchOff
               PROVE  table'[h][f].at # Gone /\ table'[h][f].off - cur' = table'[h][f].at
    OBVIOUS
  <2>1. PICK n \in 1..MaxBlock : Encode(n) \/ EncodeNoHist(n)
    BY DEF Next, vars, Configure, Put, Reset, Probe, EndBlock, EndAlone
  <2>2. hist \in Int /\ maxMatchOff \in Int /\ table[h].offset.at \in Int /\ table[h].prev.at \in Int
    BY EntriesSane, WindowFacts DEF Inv, TypeOK, Sane, Entry, Gone
  <2>3. CASE f = "offset"
    <3>1. hist - table[h].offset.at <= maxMatchOff /\ table[h].offset.at # Gone
      BY <2>2, <2>3
    <3>2. table'[h].offset.at # Gone /\ table'[h].offset.off - cur' = table'[h].offset.at
      BY <2>1, <3>1, EncodeSound, EncodeNoHistSound
    <3> QED
      BY <2>3, <3>2
  <2>4. CASE f = "prev"
    <3>1. hist - table[h].prev.at <= maxMatchOff /\ table[h].prev.at # Gone
      BY <2>2, <2>4
    <3>2. table'[h].prev.at # Gone /\ table'[h].prev.off - cur' = table'[h].prev.at
      BY <2>1, <3>1, EncodeSound, EncodeNoHistSound
    <3> QED
      BY <2>4, <3>2
  <2> QED
    BY <2>3, <2>4
<1>2. Spec => []Inv
  BY HistoryInvariant DEF Inv
<1> QED
  BY <1>1, <1>2, PTL DEF Spec, WindowKept

(* The int32 positions of "Protect against e.cur wraparound" (encode) never  *)
(* overflow, however many streams the pooled encoder serves.                 *)
THEOREM HistoryPositionsFit ==
  ASSUME CloseWindows
  PROVE  Spec => []PositionsFit
<1>1. Inv => PositionsFit
  BY DEF Inv, HistoryInv, Fits
<1> QED
  BY <1>1, HistoryInvariant, PTL DEF Inv

(* The panic of addBlock ("unexpected buffer cap") is never reached: the     *)
(* buffer of a pooled encoder always holds a window and a block.             *)
THEOREM HistoryNoPanic ==
  ASSUME CloseWindows
  PROVE  Spec => []NoPanic
<1>1. Inv => NoPanic
  BY DEF Inv, HistoryInv
<1> QED
  BY <1>1, HistoryInvariant, PTL DEF Inv
=============================================================================
