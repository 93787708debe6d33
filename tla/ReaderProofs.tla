----------------------------- MODULE ReaderProofs -----------------------------
(***************************************************************************)
(* Proofs about Reader, for every input, window, limit and set of          *)
(* dictionaries: its invariant, what follows from it for the caller, and   *)
(* that it implements FrameSource.                                         *)
(***************************************************************************)
EXTENDS Reader, TLAPS

-----------------------------------------------------------------------------
(* The input. *)

(* The types of an item. *)
LEMMA ItemTypes ==
  ASSUME NEW s \in Streams, NEW i \in 1..Len(s.items)
  PROVE  /\ s.items[i].kind \in {"head", "block", "skip", "junk"}
         /\ s.items[i].lo \in Nat
         /\ s.items[i].kind = "head" => s.items[i] \in HeadItems
         /\ s.items[i].kind = "block" => s.items[i] \in BlockItems
<1>1. s.items \in Seq(HeadItems \cup BlockItems \cup OtherItems)
  BY ReaderAssumption DEF StreamOk
<1>2. s.items[i] \in HeadItems \cup BlockItems \cup OtherItems
  BY <1>1
<1> QED
  BY <1>2 DEF HeadItems, BlockItems, OtherItems

(* The number of items is a natural number. *)
LEMMA ItemCount ==
  ASSUME NEW s \in Streams
  PROVE  Len(s.items) \in Nat
BY ReaderAssumption DEF StreamOk

(* The bytes an input stands for are counted in order. *)
LEMMA ByteCounts ==
  ASSUME NEW s \in Streams
  PROVE  /\ BytesOf(s) \in Nat
         /\ BytesUpTo(s, 0) = 0
         /\ \A i \in 0..Len(s.items) : BytesUpTo(s, i) \in Nat /\ BytesUpTo(s, i) <= BytesOf(s)
         /\ \A i \in 1..Len(s.items) : s.items[i].lo = BytesUpTo(s, i - 1)
         /\ \A i, j \in 1..Len(s.items) : i < j => BytesUpTo(s, i) <= s.items[j].lo
<1>1. Len(s.items) \in Nat
  BY ItemCount
<1>2. \A i \in 1..Len(s.items) :
        /\ s.items[i].lo = BytesUpTo(s, i - 1)
        /\ \A j \in (i + 1)..Len(s.items) : BytesUpTo(s, i) <= s.items[j].lo
  BY ReaderAssumption DEF StreamOk
<1>3. BytesUpTo(s, 0) = 0
  BY DEF BytesUpTo
<1>4. \A i \in 1..Len(s.items) : BytesUpTo(s, i) \in Nat /\ s.items[i].lo <= BytesUpTo(s, i)
  <2> TAKE i \in 1..Len(s.items)
  <2>1. /\ s.items[i].lo \in Nat
        /\ s.items[i].kind = "block" => s.items[i].n \in Nat
    BY ItemTypes DEF BlockItems
  <2>2. BytesUpTo(s, i) =
          s.items[i].lo + IF s.items[i].kind = "block" THEN s.items[i].n ELSE 0
    BY DEF BytesUpTo
  <2> QED
    BY <2>1, <2>2
<1>5. \A i \in 0..Len(s.items) : BytesUpTo(s, i) \in Nat
  BY <1>1, <1>3, <1>4
<1>6. BytesOf(s) \in Nat
  BY <1>1, <1>5 DEF BytesOf
<1>7. \A i \in 0..Len(s.items) : BytesUpTo(s, i) <= BytesOf(s)
  <2> TAKE i \in 0..Len(s.items)
  <2>1. CASE i = Len(s.items)
    BY <1>6, <2>1 DEF BytesOf
  <2>2. CASE i = 0
    BY <1>3, <1>6, <2>2
  <2>3. CASE i # 0 /\ i # Len(s.items)
    <3>1. i \in 1..Len(s.items) /\ Len(s.items) \in (i + 1)..Len(s.items)
      BY <1>1, <2>3
    <3>2. BytesUpTo(s, i) <= s.items[Len(s.items)].lo
      BY <1>2, <3>1
    <3>3. /\ s.items[Len(s.items)].lo <= BytesOf(s)
          /\ s.items[Len(s.items)].lo \in Nat
      BY <1>1, <1>4, <3>1, ItemTypes DEF BytesOf
    <3> QED
      BY <1>5, <1>6, <3>2, <3>3
  <2> QED
    BY <2>1, <2>2, <2>3
<1> QED
  BY <1>1, <1>2, <1>3, <1>5, <1>6, <1>7

(* The types of what a header says. *)
LEMMA HeadTypes ==
  ASSUME NEW s \in Streams, NEW i \in 1..Len(s.items), s.items[i].kind = "head"
  PROVE  /\ WindowOf(s.items[i]) \in Nat
         /\ WireId(s.items[i]) \in Nat /\ WireId(s.items[i]) \in DictIds \cup {0}
         /\ s.items[i].uses \in DictIds \cup {NoDict}
         /\ s.items[i].size \in Nat \cup {-1}
         /\ s.items[i].crc \in BOOLEAN
<1>1. s.items[i] \in HeadItems
  BY ItemTypes
<1>2. s.items[i].single => s.items[i].size >= 0
  BY ReaderAssumption DEF StreamOk
<1>3. DictIds \subseteq Nat /\ MinWindow \in Nat
  BY ReaderAssumption
<1> DEFINE h == s.items[i]
<1>4. /\ h.window \in Nat /\ h.single \in BOOLEAN /\ h.uses \in DictIds \cup {NoDict}
      /\ h.size \in Nat \cup {-1} /\ h.crc \in BOOLEAN
  BY <1>1 DEF HeadItems
<1>5. h.single => h.size >= 0
  BY <1>2
<1> HIDE DEF h
<1>6. WindowOf(h) \in Nat
  BY <1>3, <1>4, <1>5 DEF WindowOf, Larger
<1>7. WireId(h) \in Nat /\ WireId(h) \in DictIds \cup {0}
  BY <1>3, <1>4 DEF WireId, NoDict
<1> QED
  BY <1>4, <1>6, <1>7 DEF h

(* The types of a block; what stands before it. *)
LEMMA BlockTypes ==
  ASSUME NEW s \in Streams, NEW i \in 1..Len(s.items), s.items[i].kind = "block"
  PROVE  /\ s.items[i].n \in Nat /\ s.items[i].frame \in Nat
         /\ s.items[i].last \in BOOLEAN /\ s.items[i].ok \in BOOLEAN /\ s.items[i].sum \in BOOLEAN
         /\ i > 1
         /\ IF s.items[i-1].kind = "head" THEN s.items[i].frame = i - 1
            ELSE /\ s.items[i-1].kind = "block" /\ ~s.items[i-1].last
                 /\ s.items[i].frame = s.items[i-1].frame
<1>1. s.items[i] \in BlockItems
  BY ItemTypes
<1>2. Follows(s, i)
  BY ReaderAssumption DEF StreamOk
<1>3. /\ i > 1
      /\ s.items[i-1].kind = "head" \/ (s.items[i-1].kind = "block" /\ ~s.items[i-1].last)
      /\ IF s.items[i-1].kind = "head" THEN s.items[i].frame = i - 1
                                       ELSE s.items[i].frame = s.items[i-1].frame
  BY <1>2 DEF Follows
<1>4. /\ s.items[i].n \in Nat /\ s.items[i].frame \in Nat
      /\ s.items[i].last \in BOOLEAN /\ s.items[i].ok \in BOOLEAN /\ s.items[i].sum \in BOOLEAN
  BY <1>1 DEF BlockItems
<1> QED
  BY <1>3, <1>4

(* An item that is no block does not stand inside a frame. *)
LEMMA OthersOutside ==
  ASSUME NEW s \in Streams, NEW i \in 1..Len(s.items), s.items[i].kind # "block", i > 1
  PROVE  ~(s.items[i-1].kind = "head" \/ (s.items[i-1].kind = "block" /\ ~s.items[i-1].last))
BY ReaderAssumption DEF StreamOk, Follows

-----------------------------------------------------------------------------
(* The history buffer. *)
Histories ==
  [b : Seq(Nat), cap : Nat, window : Nat, alloc : Nat, dict : DictIds \cup {NoDict, 0}]

(* What trimming leaves: the end of the buffer, at least a window of it. *)
LEMMA TrimKeeps ==
  ASSUME NEW h \in Histories
  PROVE  /\ Trim(h) \in Histories
         /\ Trim(h).window = h.window /\ Trim(h).dict = h.dict /\ Trim(h).cap = h.cap
         /\ Trim(h).alloc = h.alloc
         /\ Len(Trim(h).b) <= Len(h.b)
         /\ Len(Trim(h).b) >= h.window \/ Len(Trim(h).b) = Len(h.b)
         /\ \A k \in 1..Len(Trim(h).b) : Trim(h).b[k] = h.b[Len(h.b) - Len(Trim(h).b) + k]
<1>1. h.b \in Seq(Nat) /\ h.window \in Nat /\ Len(h.b) \in Nat
  BY DEF Histories
<1>2. CASE Len(h.b) > h.window
  <2> DEFINE lost == Len(h.b) - h.window
  <2>1. lost \in Nat /\ lost + 1 \in 1..(Len(h.b) + 1) /\ h.window = Len(h.b) - lost
    BY <1>1, <1>2
  <2>2. Trim(h) = [h EXCEPT !.b = SubSeq(h.b, lost + 1, Len(h.b))]
    BY <1>2 DEF Trim, LastWindow
  <2> HIDE DEF lost
  <2> DEFINE c == SubSeq(h.b, lost + 1, Len(h.b))
  <2>3. /\ c \in Seq(Nat) /\ Len(c) = Len(h.b) - lost
        /\ \A k \in 1..Len(c) : c[k] = h.b[lost + k]
    BY <1>1, <2>1
  <2> HIDE DEF c
  <2>4. Trim(h) = [h EXCEPT !.b = c]
    BY <2>2 DEF c
  <2>5. /\ Trim(h) \in Histories /\ Trim(h).b = c
        /\ Trim(h).window = h.window /\ Trim(h).dict = h.dict /\ Trim(h).cap = h.cap
        /\ Trim(h).alloc = h.alloc
    BY <2>3, <2>4 DEF Histories
  <2>6. Len(c) = h.window /\ lost = Len(h.b) - Len(c)
    BY <1>1, <2>1, <2>3
  <2>7. \A k \in 1..Len(c) : c[k] = h.b[Len(h.b) - Len(c) + k]
    BY <2>3, <2>6
  <2>8. Len(c) <= Len(h.b) /\ Len(c) >= h.window
    BY <1>1, <1>2, <2>6
  <2> DEFINE t == Trim(h)
  <2> HIDE DEF t
  <2>9. t.b = c
    BY <2>5 DEF t
  <2>10. /\ Len(t.b) <= Len(h.b) /\ Len(t.b) >= h.window
         /\ \A k \in 1..Len(t.b) : t.b[k] = h.b[Len(h.b) - Len(t.b) + k]
    BY <2>7, <2>8, <2>9
  <2> QED
    BY <2>5, <2>10 DEF t
<1>3. CASE ~(Len(h.b) > h.window)
  BY <1>1, <1>3 DEF Trim
<1> QED
  BY <1>2, <1>3

(* What ensureBlock leaves, and the room behind it. *)
LEMMA EnsureBlockKeeps ==
  ASSUME NEW h \in Histories
  PROVE  /\ EnsureBlock(h) \in Histories
         /\ EnsureBlock(h).window = h.window /\ EnsureBlock(h).dict = h.dict
         /\ Len(EnsureBlock(h).b) <= Len(h.b)
         /\ Len(EnsureBlock(h).b) >= h.window \/ Len(EnsureBlock(h).b) = Len(h.b)
         /\ \A k \in 1..Len(EnsureBlock(h).b) :
              EnsureBlock(h).b[k] = h.b[Len(h.b) - Len(EnsureBlock(h).b) + k]
         /\ EnsureBlock(h).cap >= Len(EnsureBlock(h).b) + MaxCompressed
<1> DEFINE t == Trim(h)
           g == [t EXCEPT !.cap = Grown(t)]
<1>1. /\ t \in Histories
      /\ t.window = h.window /\ t.dict = h.dict /\ t.cap = h.cap
      /\ Len(t.b) <= Len(h.b)
      /\ Len(t.b) >= h.window \/ Len(t.b) = Len(h.b)
      /\ \A k \in 1..Len(t.b) : t.b[k] = h.b[Len(h.b) - Len(t.b) + k]
  BY TrimKeeps
<1>2. MaxCompressed \in Nat
  BY ReaderAssumption
<1>3. /\ h.b \in Seq(Nat) /\ Len(h.b) \in Nat /\ h.cap \in Nat /\ h.window \in Nat
      /\ t.b \in Seq(Nat) /\ Len(t.b) \in Nat /\ t.cap \in Nat /\ t.alloc \in Nat
  BY <1>1 DEF Histories
<1>4. \/ EnsureBlock(h) = h /\ HasRoom(h)
      \/ EnsureBlock(h) = t /\ (HasRoom(h) \/ HasRoom(t))
      \/ EnsureBlock(h) = g
  BY DEF EnsureBlock
<1> HIDE DEF t
<1>5. CASE EnsureBlock(h) = h /\ HasRoom(h)
  BY <1>2, <1>3, <1>5 DEF HasRoom
<1>6. CASE EnsureBlock(h) = t /\ (HasRoom(h) \/ HasRoom(t))
  <2>1. t.cap >= Len(t.b) + MaxCompressed
    BY <1>1, <1>2, <1>3, <1>6 DEF HasRoom
  <2> QED
    BY <1>1, <1>6, <2>1
<1>7. CASE EnsureBlock(h) = g
  <2>1. Grown(t) \in Nat /\ Grown(t) >= Len(t.b) + MaxCompressed
    BY SMTT(40), <1>2, <1>3 DEF Grown, Larger, Smaller
  <2> DEFINE c == Grown(t)
  <2> HIDE DEF c
  <2>2. /\ g \in Histories /\ g.b = t.b /\ g.cap = c /\ g.window = t.window /\ g.dict = t.dict
    BY <1>1, <2>1 DEF Histories, c
  <2> HIDE DEF g
  <2> QED
    BY <1>1, <1>7, <2>1, <2>2 DEF c
<1> QED
  BY <1>4, <1>5, <1>6, <1>7

(* What appending a decoded block does. *)
LEMMA AppendKeeps ==
  ASSUME NEW h \in Histories, NEW d \in Seq(Nat)
  PROVE  /\ AppendKeep(h, d) \in Histories
         /\ AppendKeep(h, d).window = h.window /\ AppendKeep(h, d).dict = h.dict
         /\ AppendKeep(h, d).b = h.b \o d
         /\ Len(AppendKeep(h, d).b) = Len(h.b) + Len(d)
         /\ AppendKeep(h, d).cap = Larger(h.cap, Len(h.b) + Len(d))
<1>1. /\ h.b \in Seq(Nat) /\ Len(h.b) \in Nat /\ Len(d) \in Nat /\ h.cap \in Nat
      /\ h.b \o d \in Seq(Nat) /\ Len(h.b \o d) = Len(h.b) + Len(d)
  BY DEF Histories
<1> DEFINE all == h.b \o d
           c == Larger(h.cap, Len(h.b) + Len(d))
<1>2. c \in Nat
  BY <1>1 DEF Larger
<1>3. AppendKeep(h, d) = [h EXCEPT !.b = all, !.cap = c]
  BY DEF AppendKeep, Histories
<1> HIDE DEF all, c
<1>4. /\ AppendKeep(h, d) \in Histories
      /\ AppendKeep(h, d).window = h.window /\ AppendKeep(h, d).dict = h.dict
      /\ AppendKeep(h, d).b = all /\ AppendKeep(h, d).cap = c
  BY <1>1, <1>2, <1>3 DEF Histories, all
<1> QED
  BY <1>1, <1>4 DEF all, c

-----------------------------------------------------------------------------
(* The inductive invariant. *)
IInv == TypeOK /\ ReaderInv /\ InOrder

(* What IInv speaks of, apart from the running call. *)
core == << src, pos, head, hist, crc, buf, place, err, delivered, ended >>

(* The types of the position. *)
LEMMA Position ==
  ASSUME TypeOK
  PROVE  /\ src \in Streams /\ Len(Items) \in Nat
         /\ pos \in Nat /\ pos <= Len(Items)
         /\ Upto \in Nat /\ Upto <= BytesOf(src) /\ BytesOf(src) \in Nat
<1>1. src \in Streams /\ pos \in 0..Len(Items)
  BY DEF TypeOK
<1>2. Len(Items) \in Nat
  BY <1>1, ItemCount DEF Items
<1>3. /\ BytesOf(src) \in Nat
      /\ BytesUpTo(src, pos) \in Nat /\ BytesUpTo(src, pos) <= BytesOf(src)
  BY <1>1, ByteCounts DEF Items
<1> QED
  BY <1>1, <1>2, <1>3 DEF Upto

(* The item read next. *)
LEMMA NextItem ==
  ASSUME TypeOK, ~Exhausted
  PROVE  /\ pos + 1 \in 1..Len(Items) /\ pos + 1 \in 0..Len(Items)
         /\ Items[pos + 1].lo = Upto
         /\ Items[pos + 1].kind \in {"head", "block", "skip", "junk"}
         /\ BytesUpTo(src, pos + 1) =
              Upto + IF Items[pos + 1].kind = "block" THEN Items[pos + 1].n ELSE 0
         /\ BytesUpTo(src, pos + 1) \in Nat /\ BytesUpTo(src, pos + 1) <= BytesOf(src)
<1>1. src \in Streams /\ Len(Items) \in Nat /\ pos \in Nat /\ pos <= Len(Items)
  BY Position
<1>2. pos + 1 \in 1..Len(Items) /\ pos + 1 \in 0..Len(Items) /\ (pos + 1) - 1 = pos
  BY <1>1 DEF Exhausted
<1>3. Items[pos + 1].lo = Upto
  BY <1>1, <1>2, ByteCounts DEF Items, Upto
<1>4. Items[pos + 1].kind \in {"head", "block", "skip", "junk"}
  BY <1>1, <1>2, ItemTypes DEF Items
<1>5. BytesUpTo(src, pos + 1) =
        Items[pos + 1].lo + IF Items[pos + 1].kind = "block" THEN Items[pos + 1].n ELSE 0
  BY <1>1 DEF BytesUpTo, Items
<1>6. BytesUpTo(src, pos + 1) \in Nat /\ BytesUpTo(src, pos + 1) <= BytesOf(src)
  BY <1>1, <1>2, ByteCounts DEF Items
<1> QED
  BY <1>2, <1>3, <1>4, <1>5, <1>6

(* A step that leaves the core alone. *)
LEMMA CoreKept ==
  ASSUME IInv, UNCHANGED core, TypeOK', InCall'
  PROVE  IInv'
<1>1. /\ src' = src /\ pos' = pos /\ head' = head /\ hist' = hist /\ crc' = crc
      /\ buf' = buf /\ decodedCount' = decodedCount /\ inFrame' = inFrame
      /\ frameSeen' = frameSeen /\ err' = err /\ delivered' = delivered /\ ended' = ended
  BY DEF core, place
<1>2. Items' = Items /\ Upto' = Upto /\ Buffered' = Buffered
  BY <1>1 DEF Items, Upto, Buffered
<1>3. FrameAt' = FrameAt /\ Inside' = Inside /\ Unread' = Unread /\ Exhausted' = Exhausted
  BY <1>1, <1>2 DEF FrameAt, Inside, Unread, Exhausted
<1>4. InPlace' /\ Outside'
  BY <1>1, <1>2, <1>3 DEF IInv, ReaderInv, InPlace, Outside
<1>5. WindowHeld' /\ Consecutive' /\ Given'
  BY <1>1, <1>2, <1>3 DEF IInv, ReaderInv, WindowHeld, Consecutive, Given
<1>6. Checked' /\ Hashed' /\ AtEnd'
  BY <1>1, <1>2, <1>3 DEF IInv, ReaderInv, Checked, Hashed, AtEnd
<1>7. InOrder'
  BY <1>1 DEF IInv, InOrder
<1> QED
  BY <1>4, <1>5, <1>6, <1>7 DEF IInv, ReaderInv

(* A step that records an error: nothing is claimed until Reset. *)
LEMMA FailKeeps ==
  ASSUME TypeOK', InOrder', err' # "none", pc' = "idle", err' = "EOF" => ended'
  PROVE  IInv'
<1>1. InPlace' /\ Outside' /\ WindowHeld' /\ Consecutive' /\ Given'
  BY DEF InPlace, Outside, WindowHeld, Consecutive, Given
<1>2. Checked' /\ Hashed' /\ AtEnd' /\ InCall'
  BY DEF Checked, Hashed, AtEnd, InCall
<1> QED
  BY <1>1, <1>2 DEF IInv, ReaderInv

(* Handing out more bytes in order. *)
LEMMA OrderExtends ==
  ASSUME TypeOK, InOrder, NEW c \in Seq(Nat), src' = src,
         \A k \in 1..Len(c) : c[k] = Len(delivered) + k,
         Len(delivered) + Len(c) <= BytesOf(src),
         delivered' = delivered \o c
  PROVE  /\ delivered' \in Seq(Nat) /\ Len(delivered') = Len(delivered) + Len(c)
         /\ InOrder'
<1>1. delivered \in Seq(Nat) /\ Len(delivered) \in Nat /\ Len(c) \in Nat
  BY SMTT(40) DEF TypeOK
<1> DEFINE all == delivered \o c
<1>2. /\ all \in Seq(Nat) /\ Len(all) = Len(delivered) + Len(c)
      /\ \A k \in 1..Len(all) :
           all[k] = IF k <= Len(delivered) THEN delivered[k] ELSE c[k - Len(delivered)]
  BY <1>1
<1> HIDE DEF all
<1>3. \A k \in 1..Len(all) : all[k] = k
  <2> TAKE k \in 1..Len(all)
  <2>1. CASE k <= Len(delivered)
    <3>1. k \in 1..Len(delivered)
      BY <1>1, <1>2, <2>1
    <3>2. delivered[k] = k
      BY <3>1 DEF InOrder
    <3> QED
      BY <1>2, <2>1, <3>2
  <2>2. CASE ~(k <= Len(delivered))
    <3>1. k - Len(delivered) \in 1..Len(c)
      BY <1>1, <1>2, <2>2
    <3>2. c[k - Len(delivered)] = Len(delivered) + (k - Len(delivered))
      BY <3>1
    <3>3. Len(delivered) + (k - Len(delivered)) = k
      BY <1>1, <1>2
    <3> QED
      BY <1>2, <2>2, <3>2, <3>3
  <2> QED
    BY <2>1, <2>2
<1>4. delivered' = all
  BY DEF all
<1> QED
  BY <1>2, <1>3, <1>4 DEF InOrder

(* What the buffer holds is what comes next. *)
LEMMA BufferedNext ==
  ASSUME TypeOK, Consecutive, Given, err = "none", Buffered,
         NEW m \in Nat, m <= buf.hi - buf.lo
  PROVE  LET c == SubSeq(hist.b, buf.lo + 1, buf.lo + m)
         IN  /\ c \in Seq(Nat) /\ Len(c) = m
             /\ \A k \in 1..Len(c) : c[k] = Len(delivered) + k
             /\ Len(delivered) + Len(c) <= BytesOf(src)
<1>1. /\ buf.lo \in Nat /\ buf.hi \in Nat /\ hist.b \in Seq(Nat)
      /\ Len(hist.b) \in Nat /\ delivered \in Seq(Nat) /\ Len(delivered) \in Nat
      /\ buf.hi > buf.lo
  BY SMTT(40) DEF TypeOK, Buffered
<1>2. Upto \in Nat /\ Upto <= BytesOf(src) /\ BytesOf(src) \in Nat
  BY Position
<1>3. /\ buf.hi = Len(hist.b)
      /\ \A k \in 1..Len(hist.b) : hist.b[k] = Upto - Len(hist.b) + k
  BY DEF Consecutive
<1>4. Len(delivered) + (buf.hi - buf.lo) = Upto
  BY DEF Given, Unread
<1> DEFINE c == SubSeq(hist.b, buf.lo + 1, buf.lo + m)
<1>5. /\ c \in Seq(Nat) /\ Len(c) = m
      /\ \A k \in 1..Len(c) : c[k] = hist.b[buf.lo + k]
  <2> DEFINE b  == hist.b
             lo == buf.lo
             hi == buf.lo + m
  <2>1. b \in Seq(Nat) /\ lo \in Nat /\ hi \in Nat /\ hi <= Len(b) /\ hi = lo + m
    BY <1>1, <1>3
  <2> HIDE DEF b, lo, hi
  <2>2. /\ SubSeq(b, lo + 1, hi) \in Seq(Nat) /\ Len(SubSeq(b, lo + 1, hi)) = m
        /\ \A k \in 1..Len(SubSeq(b, lo + 1, hi)) : SubSeq(b, lo + 1, hi)[k] = b[lo + k]
    BY <2>1
  <2> QED
    BY <2>2 DEF b, lo, hi
<1> HIDE DEF c
<1>6. \A k \in 1..Len(c) : c[k] = Len(delivered) + k
  <2> DEFINE l == Len(hist.b)
             lo == buf.lo
             hi == buf.hi
             g == Len(delivered)
             u == Upto
  <2>1. /\ l \in Nat /\ lo \in Nat /\ hi \in Nat /\ g \in Nat /\ u \in Nat
        /\ m <= hi - lo /\ hi = l /\ g + (hi - lo) = u
    BY <1>1, <1>2, <1>3, <1>4
  <2>2. /\ Len(c) = m
        /\ \A k \in 1..m : c[k] = hist.b[lo + k]
        /\ \A k \in 1..l : hist.b[k] = u - l + k
    BY <1>3, <1>5
  <2> HIDE DEF l, lo, hi, g, u
  <2>3. \A k \in 1..m : c[k] = g + k
    <3> TAKE k \in 1..m
    <3>1. lo + k \in 1..l
      BY <2>1
    <3>2. c[k] = u - l + (lo + k)
      BY <2>2, <3>1
    <3> QED
      BY <2>1, <3>2
  <2> QED
    BY <2>2, <2>3 DEF g
<1>7. Len(delivered) + Len(c) <= BytesOf(src)
  BY <1>1, <1>2, <1>4, <1>5
<1> QED
  BY <1>5, <1>6, <1>7 DEF c

-----------------------------------------------------------------------------
(* Every action keeps IInv: the calls. *)

(* The buffers a Reader may be given. *)
LEMMA LeftoverTypes == Leftovers \subseteq Histories
<1>1. DictIds \subseteq Nat /\ MaxCompressed \in Nat /\ MinWindow \in Nat
  BY ReaderAssumption
<1>2. << Garbage >> \in Seq(Nat) /\ << >> \in Seq(Nat)
  BY DEF Garbage
<1>3. NoHist \in Histories
  BY <1>2 DEF NoHist, Histories
<1>4. \A d \in DictIds :
        [b |-> << Garbage >>, cap |-> MaxCompressed, window |-> MinWindow, alloc |-> 0, dict |-> d]
          \in Histories
  BY <1>1, <1>2 DEF Histories
<1> QED
  BY <1>3, <1>4 DEF Leftovers

(* What emptying the buffer leaves. *)
LEMMA ResetKeeps ==
  ASSUME NEW h \in Histories
  PROVE  /\ HistoryReset(h) \in Histories
         /\ HistoryReset(h).b = << >> /\ HistoryReset(h).dict = NoDict
         /\ HistoryReset(h).window = h.window
<1> DEFINE none == << >>
<1>1. none \in Seq(Nat)
  OBVIOUS
<1> HIDE DEF none
<1>2. [h EXCEPT !.b = none, !.dict = NoDict] \in Histories
  BY <1>1 DEF Histories
<1>3. HistoryReset(h) = [h EXCEPT !.b = none, !.dict = NoDict]
  BY DEF HistoryReset, none
<1> QED
  BY <1>2, <1>3 DEF Histories, none

(* The types of what no header, no block and no byte leaves. *)
LEMMA NothingTypes ==
  /\ NoHead \in [window : Nat, dict : Nat, size : Nat \cup {-1}, crc : BOOLEAN]
  /\ NoBuf \in [lo : Nat, hi : Nat]
  /\ << >> \in Seq(Nat)
BY DEF NoHead, NoBuf

(* The state the Reader starts in, and is in after Reset. *)
LEMMA FreshHolds ==
  ASSUME TypeOK', pos' = 0, err' = "none", inFrame' = FALSE, frameSeen' = FALSE,
         buf' = NoBuf, delivered' = << >>, ended' = FALSE, pc' = "idle"
  PROVE  IInv'
<1>1. src' \in Streams
  BY DEF TypeOK
<1>2. ~Buffered' /\ Upto' = 0 /\ BytesOf(src') \in Nat
  BY <1>1, ByteCounts DEF Buffered, NoBuf, Upto
<1>3. InPlace' /\ Outside' /\ WindowHeld' /\ Consecutive'
  BY <1>2 DEF InPlace, Outside, Inside, WindowHeld, Consecutive
<1>4. Given' /\ Checked' /\ Hashed' /\ AtEnd' /\ InCall'
  BY <1>2 DEF Given, Unread, Checked, Hashed, AtEnd, InCall
<1>5. InOrder'
  BY <1>1, <1>2 DEF InOrder
<1> QED
  BY <1>3, <1>4, <1>5 DEF IInv, ReaderInv

(* The initial states. *)
LEMMA InitHolds ==
  ASSUME Init
  PROVE  IInv
<1>1. hist \in Histories
  BY LeftoverTypes DEF Init
<1>2. DefaultLimit \in Nat
  BY ReaderAssumption
<1>3. src \in Streams /\ pos \in 0..Len(Items)
  BY ItemCount DEF Init, Items
<1>4. ~Buffered
  BY DEF Init, Buffered, NoBuf
<1>5. TypeOK
  BY <1>1, <1>2, <1>3, <1>4, NothingTypes DEF Init, TypeOK, Histories, Errors
<1>6. Upto = 0 /\ BytesOf(src) \in Nat
  BY <1>3, ByteCounts DEF Init, Upto
<1>7. InPlace /\ Outside /\ WindowHeld /\ Consecutive
  BY <1>4 DEF Init, InPlace, Outside, Inside, WindowHeld, Consecutive
<1>8. Given /\ Checked /\ Hashed /\ AtEnd /\ InCall
  BY <1>4, <1>6 DEF Init, Given, Unread, Checked, Hashed, AtEnd, InCall
<1>9. InOrder
  BY <1>6 DEF Init, InOrder
<1> QED
  BY <1>5, <1>7, <1>8, <1>9 DEF IInv, ReaderInv

(* Reset(r). *)
LEMMA ResetHolds ==
  ASSUME IInv, NEW s \in Streams, Reset(s)
  PROVE  IInv'
<1>1. TypeOK /\ hist \in Histories
  BY DEF IInv, TypeOK, Histories
<1>2. hist' \in Histories
  BY <1>1, ResetKeeps DEF Reset
<1>3. DefaultLimit \in Nat
  BY ReaderAssumption
<1>4. src' = s /\ pos' = 0 /\ 0 \in 0..Len(s.items)
  BY ItemCount DEF Reset
<1>5. maxWindow' \in Nat /\ initialized' \in BOOLEAN
  BY <1>1, <1>3 DEF Reset, EnsureInit, TypeOK
<1>6. buf' = NoBuf /\ ~Buffered'
  BY DEF Reset, ResetBuffer, Buffered, NoBuf
<1>7. TypeOK'
  BY <1>1, <1>2, <1>4, <1>5, <1>6, NothingTypes DEF Reset, Return, TypeOK, Histories, Items, Errors
<1> QED
  BY <1>4, <1>6, <1>7, FreshHolds DEF Reset, Return

(* Close. *)
LEMMA CloseHolds ==
  ASSUME IInv, Close
  PROVE  IInv'
<1>1. TypeOK /\ InOrder
  BY DEF IInv
<1>2. hist' \in Histories
  BY LeftoverTypes DEF Close
<1>3. DefaultLimit \in Nat
  BY ReaderAssumption
<1>4. maxWindow' \in Nat /\ initialized' \in BOOLEAN
  BY <1>1, <1>3 DEF Close, TypeOK
<1>5. buf' = NoBuf /\ ~Buffered'
  BY DEF Close, Buffered, NoBuf
<1>6. src' = src /\ pos' = pos /\ delivered' = delivered /\ ended' = ended /\ limit' = limit
      /\ dicts' = dicts /\ decodedCount' = decodedCount /\ inFrame' = inFrame
      /\ frameSeen' = frameSeen /\ err' = "closed" /\ pc' = "idle"
  BY DEF Close, place, Return
<1>7. TypeOK'
  BY <1>1, <1>2, <1>4, <1>5, <1>6, NothingTypes DEF Close, Return, TypeOK, Histories, Items, Errors
<1>8. InOrder'
  BY <1>1, <1>6 DEF InOrder
<1> QED
  BY <1>6, <1>7, <1>8, FailKeeps

(* The setters. *)
LEMMA ConfigureHolds ==
  ASSUME IInv,
         \/ \E n \in Limits : SetMaxWindowSize(n)
         \/ \E d \in DictIds : AddDict(d)
         \/ ConfigureRefused
         \/ ClearDicts
  PROVE  IInv'
<1>1. TypeOK /\ InCall
  BY DEF IInv, ReaderInv
<1>2. Limits \subseteq Nat /\ DefaultLimit \in Nat
  BY ReaderAssumption
<1>3. Configure
  BY DEF SetMaxWindowSize, AddDict, ConfigureRefused, ClearDicts
<1>4. UNCHANGED core /\ pc' = "idle" /\ left' = 0 /\ written' = 0 /\ res' = [op |-> "configure", err |-> "none"]
  BY <1>3 DEF Configure, Return, core, place
<1>5. initialized' \in BOOLEAN /\ maxWindow' \in Nat /\ limit' \in Nat
  BY <1>1, <1>2 DEF SetMaxWindowSize, AddDict, ConfigureRefused, ClearDicts, EnsureInit, TypeOK
<1>6. dicts' \subseteq DictIds
  BY <1>1 DEF SetMaxWindowSize, AddDict, ConfigureRefused, ClearDicts, TypeOK
<1>7. TypeOK'
  BY <1>1, <1>4, <1>5, <1>6 DEF TypeOK, core, place, Items, Buffered, Errors
<1>8. InCall'
  BY <1>1, <1>4 DEF InCall, core
<1> QED
  BY <1>4, <1>7, <1>8, CoreKept

(* Read, up to its loop. *)
LEMMA ReadHolds ==
  ASSUME IInv, NEW n \in 0..MaxRead, Read(n)
  PROVE  IInv'
<1>1. TypeOK /\ InCall
  BY DEF IInv, ReaderInv
<1>2. DefaultLimit \in Nat /\ n \in Nat
  BY ReaderAssumption
<1>3. UNCHANGED core /\ dicts' = dicts /\ limit' = limit
  BY DEF Read, core, place
<1>4. initialized' \in BOOLEAN /\ maxWindow' \in Nat
  BY <1>1, <1>2 DEF Read, EnsureInit, TypeOK
<1>5. /\ pc' \in {"idle", "read"} /\ left' \in Nat /\ written' \in Nat
      /\ res'.err \in {"none", err}
      /\ pc' # "idle" => err = "none"
  BY <1>2 DEF Read, Usable, Return, Running
<1>6. TypeOK'
  BY SMTT(40), <1>1, <1>3, <1>4, <1>5 DEF TypeOK, core, place, Items, Buffered, Errors
<1>7. InCall'
  BY <1>1, <1>3, <1>5 DEF InCall, core
<1> QED
  BY <1>3, <1>6, <1>7, CoreKept

(* Read returns. *)
LEMMA ReadDoneHolds ==
  ASSUME IInv, ReadDone
  PROVE  IInv'
<1>1. TypeOK /\ InCall
  BY DEF IInv, ReaderInv
<1>2. UNCHANGED core /\ UNCHANGED << initialized, maxWindow, dicts, limit >>
  BY DEF ReadDone, core, place, frame
<1>3. pc' = "idle" /\ left' = 0 /\ written' = 0 /\ res' = [op |-> "Read", err |-> "none"]
  BY DEF ReadDone, Return
<1>4. TypeOK'
  BY <1>1, <1>2, <1>3 DEF TypeOK, core, place, Items, Buffered, Errors
<1>5. InCall'
  BY <1>1, <1>2, <1>3 DEF InCall, core
<1> QED
  BY <1>2, <1>4, <1>5, CoreKept

(* The flush before the loops: the bytes handed out of the buffer. *)
LEMMA FlushHolds ==
  ASSUME IInv, err = "none", NEW m \in Nat, m <= buf.hi - buf.lo, Buffered,
         src' = src,
         delivered' = delivered \o SubSeq(hist.b, buf.lo + 1, buf.lo + m)
  PROVE  /\ delivered' \in Seq(Nat) /\ Len(delivered') = Len(delivered) + m
         /\ InOrder'
<1> DEFINE c == SubSeq(hist.b, buf.lo + 1, buf.lo + m)
<1>1. /\ c \in Seq(Nat) /\ Len(c) = m
      /\ \A k \in 1..Len(c) : c[k] = Len(delivered) + k
      /\ Len(delivered) + Len(c) <= BytesOf(src)
  BY BufferedNext DEF IInv, ReaderInv
<1>2. delivered' = delivered \o c
  OBVIOUS
<1> HIDE DEF c
<1> QED
  BY <1>1, <1>2, OrderExtends DEF IInv

(* Handing out the front of the buffer, or all of it. *)
LEMMA HandedOutHolds ==
  ASSUME IInv, err = "none", TypeOK', InCall', Buffered,
         UNCHANGED << src, pos, head, hist, crc, place, err, ended >>,
         NEW m \in Nat, m <= buf.hi - buf.lo, Len(delivered') = Len(delivered) + m, InOrder',
         Buffered' => buf'.hi = buf.hi,
         Unread' = buf.hi - buf.lo - m
  PROVE  IInv'
<1>1. /\ src' = src /\ pos' = pos /\ head' = head /\ hist' = hist /\ crc' = crc
      /\ decodedCount' = decodedCount /\ inFrame' = inFrame
      /\ frameSeen' = frameSeen /\ err' = err /\ ended' = ended
  BY DEF place
<1>2. Items' = Items /\ Upto' = Upto
  BY <1>1 DEF Items, Upto
<1>3. FrameAt' = FrameAt /\ Inside' = Inside /\ Exhausted' = Exhausted
  BY <1>1, <1>2 DEF FrameAt, Inside, Exhausted
<1>4. InPlace' /\ Outside' /\ WindowHeld'
  BY <1>1, <1>2, <1>3 DEF IInv, ReaderInv, InPlace, Outside, WindowHeld
<1>5. Consecutive'
  BY <1>1, <1>2 DEF IInv, ReaderInv, Consecutive
<1>6. Given'
  <2>1. /\ Len(delivered) + (buf.hi - buf.lo) = Upto
        /\ buf.hi \in Nat /\ buf.lo \in Nat /\ Len(delivered) \in Nat
    BY DEF IInv, ReaderInv, TypeOK, Given, Unread
  <2>2. Len(delivered') + Unread' = Upto
    BY <2>1
  <2> QED
    BY <1>2, <2>2 DEF Given
<1>7. Checked' /\ Hashed'
  BY <1>1, <1>2, <1>3 DEF IInv, ReaderInv, Checked, Hashed
<1>8. AtEnd'
  BY <1>1 DEF IInv, ReaderInv, AtEnd
<1> QED
  BY <1>4, <1>5, <1>6, <1>7, <1>8 DEF IInv, ReaderInv

(* Read, out of the buffer. *)
LEMMA DrainHolds ==
  ASSUME IInv, Drain
  PROVE  IInv'
<1> DEFINE n == Smaller(left, buf.hi - buf.lo)
<1>1. TypeOK /\ InCall
  BY DEF IInv, ReaderInv
<1>2. err = "none" /\ Buffered
  BY <1>1 DEF Drain, InCall
<1>3. buf.lo \in Nat /\ buf.hi \in Nat /\ buf.hi > buf.lo /\ left \in Nat /\ written \in Nat
  BY <1>1, <1>2 DEF TypeOK, Buffered
<1>4. n \in Nat /\ n <= buf.hi - buf.lo /\ n <= left
  BY <1>3 DEF Smaller
<1>5. /\ delivered' = delivered \o SubSeq(hist.b, buf.lo + 1, buf.lo + n)
      /\ buf' = [buf EXCEPT !.lo = buf.lo + n]
      /\ left' = left - n /\ written' = written + n
  BY DEF Drain, After
<1>6. /\ UNCHANGED << src, pos, head, hist, crc, place, err, ended >>
      /\ UNCHANGED << initialized, maxWindow, dicts, limit, pc, res >>
  BY DEF Drain, frame, place
<1> HIDE DEF n
<1>7. delivered' \in Seq(Nat) /\ Len(delivered') = Len(delivered) + n /\ InOrder'
  BY <1>2, <1>4, <1>5, <1>6, FlushHolds
<1>8. /\ buf' \in [lo : Nat, hi : Nat]
      /\ buf'.lo = buf.lo + n /\ buf'.hi = buf.hi
  <2> DEFINE l == buf.lo + n
  <2>1. l \in Nat /\ buf \in [lo : Nat, hi : Nat]
    BY SMTT(40), <1>1, <1>3, <1>4 DEF TypeOK
  <2> HIDE DEF l
  <2>2. [buf EXCEPT !.lo = l] \in [lo : Nat, hi : Nat]
    BY <2>1
  <2> QED
    BY <1>5, <2>1, <2>2 DEF l
<1>9. TypeOK'
  <2>1. left' \in Nat /\ written' \in Nat
    <3>1. left - n \in Nat /\ written + n \in Nat
      BY <1>3, <1>4
    <3> QED
      BY <1>5, <3>1
  <2>2. buf'.hi <= Len(hist.b)
    BY <1>1, <1>2, <1>8 DEF TypeOK
  <2> QED
    BY <1>1, <1>6, <1>7, <1>8, <2>1, <2>2 DEF TypeOK, place, Items
<1>10. InCall'
  BY <1>1, <1>6 DEF InCall, Drain
<1>11. Unread' = buf.hi - buf.lo - n
  BY <1>3, <1>4, <1>8 DEF Unread, Buffered
<1> QED
  BY <1>2, <1>4, <1>6, <1>7, <1>8, <1>9, <1>10, <1>11, HandedOutHolds

(* WriteTo, up to its loop. *)
LEMMA WriteToHolds ==
  ASSUME IInv, WriteTo
  PROVE  IInv'
<1>1. TypeOK /\ InCall /\ InOrder
  BY DEF IInv, ReaderInv
<1>2. DefaultLimit \in Nat
  BY ReaderAssumption
<1>3. /\ UNCHANGED << src, pos, head, hist, crc, place, ended >> /\ UNCHANGED << dicts, limit >>
      /\ src' = src
  BY DEF WriteTo
<1>4. initialized' \in BOOLEAN /\ maxWindow' \in Nat
  BY <1>1, <1>2 DEF WriteTo, EnsureInit, TypeOK
<1>5. CASE ~Usable /\ Return("WriteTo", err) /\ UNCHANGED << buf, err, delivered >>
  <2>1. UNCHANGED core
    BY <1>3, <1>5 DEF core
  <2>2. TypeOK'
    BY <1>1, <1>3, <1>4, <1>5 DEF TypeOK, place, Items, Buffered, Return
  <2>3. InCall'
    BY <1>1, <1>3, <1>5 DEF InCall, Return
  <2> QED
    BY <2>1, <2>2, <2>3, CoreKept
<1>6. CASE /\ Usable
           /\ pc' = "writeTo" /\ left' = 0 /\ written' = 0 /\ res' = Running
           /\ delivered' = delivered \o SubSeq(hist.b, buf.lo + 1, buf.hi)
           /\ buf' = NoBuf
           /\ UNCHANGED err
  <2>1. ~Buffered' /\ err = "none" /\ err' = "none"
    BY <1>6 DEF Buffered, NoBuf, Usable
  <2>2. buf.lo \in Nat /\ buf.hi \in Nat /\ hist.b \in Seq(Nat) /\ delivered \in Seq(Nat)
    BY <1>1 DEF TypeOK
  <2>3. InCall'
    BY <1>6, <2>1 DEF InCall
  <2>4. CASE Buffered
    <3> DEFINE m == buf.hi - buf.lo
    <3>1. m \in Nat /\ m <= buf.hi - buf.lo /\ buf.hi = buf.lo + m
      BY <2>2, <2>4 DEF Buffered
    <3> HIDE DEF m
    <3>2. delivered' = delivered \o SubSeq(hist.b, buf.lo + 1, buf.lo + m)
      BY <1>6, <3>1
    <3>3. delivered' \in Seq(Nat) /\ Len(delivered') = Len(delivered) + m /\ InOrder'
      BY <1>3, <2>1, <2>4, <3>1, <3>2, FlushHolds
    <3>4. TypeOK'
      BY <1>1, <1>3, <1>4, <1>6, <2>1, <3>3, NothingTypes
      DEF TypeOK, place, Items, Running, Errors
    <3>5. Unread' = buf.hi - buf.lo - m
      BY <2>1, <2>2, <3>1 DEF Unread
    <3>6. UNCHANGED << src, pos, head, hist, crc, place, err, ended >>
      BY <1>3, <1>6
    <3> QED
      BY <2>1, <2>3, <2>4, <3>1, <3>3, <3>4, <3>5, <3>6, HandedOutHolds
  <2>5. CASE ~Buffered
    <3>1. SubSeq(hist.b, buf.lo + 1, buf.hi) = << >>
      <4> DEFINE b  == hist.b
                 lo == buf.lo
                 hi == buf.hi
      <4>1. b \in Seq(Nat) /\ lo \in Nat /\ hi \in Nat /\ hi <= lo
        BY <2>2, <2>5 DEF Buffered
      <4> HIDE DEF b, lo, hi
      <4>2. SubSeq(b, lo + 1, hi) = << >>
        BY <4>1
      <4> QED
        BY <4>2 DEF b, lo, hi
    <3>2. delivered' = delivered
      <4>1. delivered \o << >> = delivered
        BY <2>2
      <4> QED
        BY <1>6, <3>1, <4>1
    <3>3. TypeOK'
      BY <1>1, <1>3, <1>4, <1>6, <2>1, <3>2, NothingTypes
      DEF TypeOK, place, Items, Running, Errors
    <3>4. /\ UNCHANGED << src, pos, head, hist, crc, decodedCount, inFrame, frameSeen >>
          /\ UNCHANGED << err, delivered, ended >>
      BY <1>3, <1>6, <3>2 DEF place
    <3>5. Items' = Items /\ Upto' = Upto /\ Unread' = Unread
      BY <2>1, <2>5, <3>4 DEF Items, Upto, Unread
    <3>6. FrameAt' = FrameAt /\ Inside' = Inside /\ Exhausted' = Exhausted
      BY <3>4, <3>5 DEF FrameAt, Inside, Exhausted
    <3>7. InPlace' /\ Outside' /\ WindowHeld' /\ InOrder'
      BY <3>4, <3>5, <3>6 DEF IInv, ReaderInv, InPlace, Outside, WindowHeld, InOrder
    <3>8. Consecutive' /\ Given'
      BY <2>1, <3>4, <3>5 DEF IInv, ReaderInv, Consecutive, Given
    <3>9. Checked' /\ Hashed' /\ AtEnd'
      BY <2>1, <3>4, <3>5, <3>6 DEF IInv, ReaderInv, Checked, Hashed, AtEnd
    <3> QED
      BY <2>3, <3>3, <3>7, <3>8, <3>9 DEF IInv, ReaderInv
  <2> QED
    BY <2>4, <2>5
<1>7. CASE /\ Usable /\ Buffered
           /\ \E k \in buf.lo..buf.hi :
                delivered' = delivered \o SubSeq(hist.b, buf.lo + 1, k)
           /\ buf' = NoBuf
           /\ err' = "sink"
           /\ Return("WriteTo", "sink")
  <2>1. PICK k \in buf.lo..buf.hi :
          delivered' = delivered \o SubSeq(hist.b, buf.lo + 1, k)
    BY <1>7
  <2> DEFINE m == k - buf.lo
  <2>2. m \in Nat /\ m <= buf.hi - buf.lo /\ k = buf.lo + m
    BY SMTT(40), <1>1 DEF TypeOK
  <2> HIDE DEF m
  <2>3. delivered' \in Seq(Nat) /\ InOrder'
    BY <1>3, <1>7, <2>1, <2>2, FlushHolds DEF Usable
  <2>4. ~Buffered'
    BY <1>7 DEF Buffered, NoBuf
  <2>5. TypeOK'
    BY <1>1, <1>3, <1>4, <1>7, <2>3, <2>4, NothingTypes
    DEF TypeOK, place, Items, Return, Errors
  <2> QED
    BY <1>7, <2>3, <2>5, FailKeeps DEF Return
<1> QED
  BY <1>5, <1>6, <1>7 DEF WriteTo

-----------------------------------------------------------------------------
(* Every action keeps IInv: the loops. *)

(* At the top of a loop there is no error, and nothing waits in the buffer. *)
LEMMA AtLoop ==
  ASSUME IInv, Looping
  PROVE  /\ err = "none" /\ pc # "idle" /\ ~Buffered
         /\ pc \in {"read", "writeTo"}
         /\ Len(delivered) = Upto
<1>1. err = "none" /\ pc # "idle" /\ ~Buffered
  BY DEF IInv, ReaderInv, InCall, Looping
<1>2. Len(delivered) \in Nat
  BY DEF IInv, TypeOK
<1>3. Len(delivered) = Upto
  BY <1>1, <1>2, Position DEF IInv, ReaderInv, Given, Unread
<1> QED
  BY <1>1, <1>3 DEF Looping

(* What is checked stays checked when one more item is. *)
LEMMA CheckedOn ==
  ASSUME TypeOK, Checked, err = "none", ~Exhausted, src' = src, pos' = pos + 1,
         Items[pos + 1].kind # "junk",
         Items[pos + 1].kind = "block" => BlockSound(src, Items[pos + 1]),
         frameSeen' <=> (frameSeen \/ Items[pos + 1].kind = "head")
  PROVE  Checked'
<1>1. pos \in Nat
  BY Position
<1>2. Items' = Items
  BY DEF Items
<1>3. \A i \in 1..(pos + 1) : i \in 1..pos \/ i = pos + 1
  BY <1>1
<1>4. pos + 1 \in 1..(pos + 1) /\ \A i \in 1..pos : i \in 1..(pos + 1)
  BY <1>1
<1>5. \A i \in 1..(pos + 1) : /\ Items[i].kind # "junk"
                              /\ Items[i].kind = "block" => BlockSound(src, Items[i])
  BY <1>3 DEF Checked
<1>6. frameSeen' <=> \E i \in 1..(pos + 1) : Items[i].kind = "head"
  BY <1>3, <1>4 DEF Checked
<1> QED
  BY <1>2, <1>5, <1>6 DEF Checked

(* A skippable frame. *)
LEMMA SkipHolds ==
  ASSUME IInv, SkipFrame
  PROVE  IInv'
<1>1. TypeOK /\ InCall /\ Checked
  BY DEF IInv, ReaderInv
<1>2. err = "none" /\ ~Buffered /\ Len(delivered) = Upto
  BY AtLoop DEF SkipFrame
<1>3. /\ UNCHANGED << src, head, hist, crc, buf, decodedCount, inFrame, frameSeen, err >>
      /\ UNCHANGED << initialized, maxWindow, dicts, pc, left, written, res, delivered, ended, limit >>
      /\ pos' = pos + 1
  BY DEF SkipFrame, frame, place, call
<1>4. ~Exhausted /\ Items[pos + 1].kind = "skip" /\ ~inFrame
  BY DEF SkipFrame
<1>5. Items' = Items /\ ~Buffered'
  BY <1>2, <1>3 DEF Items, Buffered
<1>6. pos + 1 \in 0..Len(Items) /\ BytesUpTo(src, pos + 1) = Upto
  BY <1>1, <1>4, NextItem, Position
<1>7. TypeOK'
  BY <1>1, <1>3, <1>5, <1>6 DEF TypeOK
<1>8. Upto' = Upto
  BY <1>3, <1>6 DEF Upto
<1>9. InPlace' /\ WindowHeld' /\ Hashed' /\ Consecutive'
  BY <1>3, <1>4, <1>5 DEF InPlace, WindowHeld, Hashed, Consecutive
<1>10. Outside'
  BY <1>3, <1>4, <1>5 DEF Outside, Inside
<1>11. Given'
  <2>1. Len(delivered') + Unread' = Upto
    BY <1>1, <1>2, <1>3, <1>5 DEF Unread, TypeOK
  <2> QED
    BY <1>8, <2>1 DEF Given
<1>12. Checked'
  <2>1. Items[pos + 1].kind # "junk" /\ Items[pos + 1].kind # "block" /\ Items[pos + 1].kind # "head"
    BY <1>4
  <2>2. frameSeen' = frameSeen
    BY <1>3
  <2> QED
    BY <1>1, <1>2, <1>3, <1>4, <2>1, <2>2, CheckedOn
<1>13. AtEnd'
  BY <1>2, <1>3, <1>4 DEF IInv, ReaderInv, AtEnd
<1>14. InCall' /\ InOrder'
  BY <1>1, <1>3, <1>5 DEF IInv, InCall, InOrder
<1> QED
  BY <1>7, <1>9, <1>10, <1>11, <1>12, <1>13, <1>14 DEF IInv, ReaderInv

(* No header is left. *)
LEMMA NoHeaderHolds ==
  ASSUME IInv, Looping, ~inFrame, Exhausted, NoHeader,
         UNCHANGED << pos, head, hist, crc, place >>,
         UNCHANGED << src, initialized, maxWindow, buf, dicts, delivered, limit >>
  PROVE  IInv'
<1>1. TypeOK /\ InOrder
  BY DEF IInv
<1>2. err = "none" /\ ~Buffered /\ pc \in {"read", "writeTo"} /\ Len(delivered) = Upto
  BY AtLoop
<1>3. InOrder' /\ Items' = Items /\ Buffered' = Buffered /\ Upto' = Upto /\ Exhausted' = Exhausted
  BY <1>1 DEF InOrder, Items, Buffered, Upto, Exhausted
<1>4. decodedCount' = decodedCount /\ inFrame' = inFrame /\ frameSeen' = frameSeen
  BY DEF place
<1>5. CASE Fail("corrupt") /\ UNCHANGED ended
  <2>1. TypeOK'
    BY <1>1, <1>3, <1>4, <1>5 DEF TypeOK, Fail, Return, Errors
  <2> QED
    BY <1>3, <1>5, <2>1, FailKeeps DEF Fail, Return
<1>6. CASE Fail("io") /\ UNCHANGED ended
  <2>1. TypeOK'
    BY <1>1, <1>3, <1>4, <1>6 DEF TypeOK, Fail, Return, Errors
  <2> QED
    BY <1>3, <1>6, <2>1, FailKeeps DEF Fail, Return
<1>7. CASE Return("Read", "none") /\ UNCHANGED << err, ended >>
  <2>1. TypeOK'
    BY <1>1, <1>3, <1>4, <1>7 DEF TypeOK, Return, Errors
  <2>2. UNCHANGED core
    BY <1>7 DEF core
  <2>3. InCall'
    BY <1>2, <1>7 DEF InCall, Return
  <2> QED
    BY <2>1, <2>2, <2>3, CoreKept
<1>8. CASE ended' = TRUE /\ Fail("EOF")
  <2>1. TypeOK'
    BY <1>1, <1>3, <1>4, <1>8 DEF TypeOK, Fail, Return, Errors
  <2> QED
    BY <1>3, <1>8, <2>1, FailKeeps DEF Fail, Return
<1>9. CASE ended' = TRUE /\ Return("WriteTo", "none") /\ UNCHANGED err
  <2>1. TypeOK'
    BY <1>1, <1>3, <1>4, <1>9 DEF TypeOK, Return, Errors
  <2>2. FrameAt' = FrameAt /\ Inside' = Inside /\ Unread' = Unread
    BY <1>3 DEF FrameAt, Inside, Unread
  <2>3. InPlace' /\ Outside' /\ WindowHeld'
    BY <1>3, <1>4, <1>9, <2>2 DEF IInv, ReaderInv, InPlace, Outside, WindowHeld
  <2>4. Consecutive' /\ Given'
    BY <1>2, <1>3, <1>4, <1>9, <2>2 DEF IInv, ReaderInv, Consecutive, Given
  <2>5. Checked' /\ Hashed'
    BY <1>3, <1>4, <1>9, <2>2 DEF IInv, ReaderInv, Checked, Hashed
  <2>6. AtEnd' /\ InCall'
    BY <1>2, <1>3, <1>4, <1>9 DEF AtEnd, InCall, Return
  <2> QED
    BY <1>3, <2>1, <2>3, <2>4, <2>5, <2>6 DEF IInv, ReaderInv
<1> QED
  BY <1>5, <1>6, <1>7, <1>8, <1>9 DEF NoHeader, EndOfInput

(* A frame header. *)
LEMMA OpenFrameHolds ==
  ASSUME IInv, Looping, ~inFrame, ~Exhausted, pos' = pos + 1, OpenFrame(Items[pos + 1]),
         Items[pos + 1].kind # "skip",
         UNCHANGED << src, initialized, maxWindow, buf, dicts, delivered, ended, limit >>
  PROVE  IInv'
<1> DEFINE h == Items[pos + 1]
           sized == HistoryFor(hist, WindowOf(h))
           fresh == HistoryReset(sized)
<1>1. TypeOK /\ InOrder /\ Checked /\ AtEnd
  BY DEF IInv, ReaderInv
<1>2. err = "none" /\ ~Buffered /\ pc \in {"read", "writeTo"} /\ Len(delivered) = Upto
  BY AtLoop
<1>3. /\ src' = src /\ Items' = Items /\ ~Buffered' /\ InOrder'
      /\ ended' = FALSE
  BY <1>1, <1>2 DEF InOrder, Items, Buffered, AtEnd, TypeOK
<1>4. /\ pos + 1 \in 1..Len(Items) /\ pos + 1 \in 0..Len(Items) /\ h.lo = Upto
      /\ h.kind # "block" => BytesUpTo(src, pos + 1) = Upto
      /\ src \in Streams /\ pos \in Nat /\ Upto \in Nat
  BY <1>1, NextItem, Position
<1>5. CASE h.kind # "head"
  <2>1. Fail("corrupt") /\ UNCHANGED << head, hist, crc, place >>
    BY <1>5 DEF OpenFrame
  <2>2. TypeOK'
    BY <1>1, <1>3, <1>4, <2>1 DEF TypeOK, place, Fail, Return, Errors
  <2> QED
    BY <1>3, <2>1, <2>2, FailKeeps DEF Fail, Return
<1>6. CASE h.kind = "head" /\ WindowOf(h) > maxWindow
  <2>1. Fail("window") /\ UNCHANGED << head, hist, crc, place >>
    BY <1>6 DEF OpenFrame
  <2>2. TypeOK'
    BY <1>1, <1>3, <1>4, <2>1 DEF TypeOK, place, Fail, Return, Errors
  <2> QED
    BY <1>3, <2>1, <2>2, FailKeeps DEF Fail, Return
<1>7. CASE h.kind = "head" /\ ~(WindowOf(h) > maxWindow)
  <2>1. /\ WindowOf(h) \in Nat /\ WireId(h) \in Nat /\ WireId(h) \in DictIds \cup {0}
        /\ h.uses \in DictIds \cup {NoDict} /\ h.size \in Nat \cup {-1} /\ h.crc \in BOOLEAN
    BY <1>4, <1>7, HeadTypes DEF Items
  <2>2. /\ head' = [window |-> WindowOf(h), dict |-> WireId(h), size |-> h.size, crc |-> h.crc]
        /\ crc' = IF h.crc THEN << >> ELSE crc
        /\ frameSeen' = TRUE /\ inFrame' = TRUE /\ decodedCount' = 0
        /\ \/ /\ Fail("dict") /\ hist' = fresh
           \/ /\ ~(WireId(h) # 0 /\ WireId(h) \notin dicts)
              /\ hist' = [fresh EXCEPT !.dict = DictFor(h, @)]
              /\ UNCHANGED << err, call >>
    BY <1>7 DEF OpenFrame
  <2>3. sized \in Histories /\ sized.window = WindowOf(h)
    <3> DEFINE w == WindowOf(h)
               a == IF w < MaxBlockSize THEN 2 * w ELSE w + MaxBlockSize \div 2
    <3>1. w \in Nat /\ MaxBlockSize \in Nat
      BY <2>1, ReaderAssumption
    <3> HIDE DEF w
    <3>2. a \in Nat
      BY <3>1
    <3>3. sized = [hist EXCEPT !.window = w, !.alloc = a]
      BY DEF HistoryFor, w
    <3> HIDE DEF a, sized
    <3>4. hist \in Histories
      BY <1>1 DEF TypeOK, Histories
    <3>5. [hist EXCEPT !.window = w, !.alloc = a] \in Histories
      BY <3>1, <3>2, <3>4 DEF Histories
    <3>6. sized.window = w
      BY <3>3, <3>4 DEF Histories
    <3> QED
      BY <3>3, <3>5, <3>6 DEF w
  <2> HIDE DEF sized
  <2>4. fresh \in Histories /\ fresh.b = << >> /\ fresh.dict = NoDict /\ fresh.window = WindowOf(h)
    BY <2>3, ResetKeeps
  <2> HIDE DEF fresh
  <2>5. /\ head' \in [window : Nat, dict : Nat, size : Nat \cup {-1}, crc : BOOLEAN]
        /\ crc' \in Seq(Nat)
    BY <1>1, <2>1, <2>2, NothingTypes DEF TypeOK
  <2>6. CASE Fail("dict") /\ hist' = fresh
    <3>1. TypeOK'
      BY <1>1, <1>3, <1>4, <2>2, <2>4, <2>5, <2>6 DEF TypeOK, Histories, Fail, Return, Errors
    <3> QED
      BY <1>3, <2>6, <3>1, FailKeeps DEF Fail, Return
  <2>7. CASE /\ ~(WireId(h) # 0 /\ WireId(h) \notin dicts)
             /\ hist' = [fresh EXCEPT !.dict = DictFor(h, @)]
             /\ UNCHANGED << err, call >>
    <3> DEFINE d == DictFor(h, NoDict)
    <3>1. /\ d \in DictIds \cup {NoDict, 0}
          /\ IF WireId(h) # 0 THEN d = WireId(h) ELSE d \in {NoDict, 0}
      BY <2>1 DEF DictFor
    <3> HIDE DEF d
    <3>2. hist' = [fresh EXCEPT !.dict = d]
      BY <2>4, <2>7 DEF d, Histories
    <3>3. /\ hist' \in Histories
          /\ hist'.b = << >> /\ hist'.dict = d /\ hist'.window = WindowOf(h)
      BY <2>4, <3>1, <3>2 DEF Histories
    <3>4. /\ err' = err /\ pc' = pc /\ left' = left /\ written' = written /\ res' = res
      BY <2>7 DEF call
    <3>5. TypeOK'
      BY <1>1, <1>3, <1>4, <2>2, <2>5, <3>3, <3>4 DEF TypeOK, Histories
    <3>6. Upto' = Upto /\ Items[pos'] = h /\ pos' > 0 /\ pos' \in 1..pos'
      BY <1>3, <1>4, <1>7 DEF Upto
    <3>7. FrameAt' = pos + 1 /\ Inside'
      BY <1>3, <1>7, <3>6 DEF FrameAt, Inside
    <3>8. InPlace'
      <4>1. /\ head'.window = WindowOf(h) /\ head'.dict = WireId(h)
            /\ head'.size = h.size /\ head'.crc = h.crc
        BY <2>2
      <4>2. Upto' = Items'[FrameAt'].lo + decodedCount'
        BY <1>3, <1>4, <2>2, <3>6, <3>7
      <4>3. IF head'.dict # 0 THEN hist'.dict = head'.dict ELSE hist'.dict \in {NoDict, 0}
        BY <3>1, <3>3, <4>1
      <4>4. FrameAt' \in 1..pos' /\ Items'[FrameAt'] = h /\ hist'.window = head'.window
        BY <1>3, <3>3, <3>6, <3>7, <4>1
      <4> QED
        BY <1>7, <3>7, <4>1, <4>2, <4>3, <4>4 DEF InPlace
    <3>9. Outside' /\ WindowHeld'
      BY <2>1, <2>2, <3>3 DEF Outside, WindowHeld, Smaller
    <3>10. Consecutive'
      BY <1>3, <3>3 DEF Consecutive
    <3>11. Given'
      <4>1. Len(delivered') + Unread' = Upto
        BY <1>1, <1>2, <1>3 DEF Unread, TypeOK
      <4> QED
        BY <3>6, <4>1 DEF Given
    <3>12. Checked'
      <4>1. frameSeen' <=> (frameSeen \/ h.kind = "head")
        BY <1>7, <2>2
      <4>2. h.kind # "junk" /\ h.kind # "block"
        BY <1>7
      <4> QED
        BY <1>1, <1>2, <1>3, <4>1, <4>2, CheckedOn
    <3>13. Hashed'
      BY <2>2 DEF Hashed
    <3>14. AtEnd' /\ InCall'
      BY <1>1, <1>2, <1>3, <3>4 DEF AtEnd, InCall
    <3> QED
      BY <1>3, <3>5, <3>8, <3>9, <3>10, <3>11, <3>12, <3>13, <3>14 DEF IInv, ReaderInv
  <2> QED
    BY <2>2, <2>6, <2>7
<1> QED
  BY <1>5, <1>6, <1>7

-----------------------------------------------------------------------------
(* Decoding a block. *)

(* The next block, inside a frame: it belongs to the frame the Reader is   *)
(* in, and stands for the bytes that come next.                            *)
LEMMA BlockInPlace ==
  ASSUME IInv, Looping, inFrame, ~Exhausted
  PROVE  LET it == Items[pos + 1]
         IN  /\ it.kind = "block" /\ it.lo = Upto /\ it.n \in Nat
             /\ it.frame = FrameAt /\ HeadOf(src, it) = Items[FrameAt]
             /\ FrameAt \in 1..Len(Items) /\ Items[FrameAt].kind = "head"
             /\ Items[FrameAt].lo \in Nat /\ Upto = Items[FrameAt].lo + decodedCount
<1> DEFINE it == Items[pos + 1]
<1>1. err = "none" /\ TypeOK /\ InPlace
  BY AtLoop DEF IInv, ReaderInv
<1>2. /\ Inside /\ FrameAt \in 1..pos /\ Items[FrameAt].kind = "head"
      /\ Upto = Items[FrameAt].lo + decodedCount
  BY <1>1 DEF InPlace
<1>3. /\ src \in Streams /\ pos \in Nat /\ pos <= Len(Items) /\ Len(Items) \in Nat
      /\ pos + 1 \in 1..Len(Items) /\ it.lo = Upto /\ (pos + 1) - 1 = pos
  BY <1>1, Position, NextItem
<1>4. pos > 0 /\ FrameAt \in 1..Len(Items)
  BY <1>2, <1>3 DEF Inside
<1>5. it.kind = "block"
  BY <1>2, <1>3, <1>4, OthersOutside DEF Inside, Items
<1>6. /\ it.n \in Nat
      /\ IF Items[pos].kind = "head" THEN it.frame = pos ELSE it.frame = Items[pos].frame
  BY <1>3, <1>5, BlockTypes DEF Items
<1>7. it.frame = FrameAt
  BY <1>6 DEF FrameAt
<1>8. HeadOf(src, it) = Items[FrameAt]
  BY <1>7 DEF HeadOf, Items
<1>9. Items[FrameAt].lo \in Nat
  BY <1>3, <1>4, ItemTypes DEF Items
<1> QED
  BY <1>2, <1>3, <1>4, <1>5, <1>6, <1>7, <1>8, <1>9

(* The buffer reaches back as far as the block's matches may: the block is *)
(* decoded to the bytes it stands for.                                     *)
LEMMA BlockDecoded ==
  ASSUME IInv, Looping, inFrame, ~Exhausted,
         NEW h, h = EnsureBlock(hist), Reaches(h, Items[pos + 1])
  PROVE  /\ h \in Histories /\ h.window = hist.window /\ h.dict = hist.dict
         /\ \A k \in 1..Len(h.b) : h.b[k] = Upto - Len(h.b) + k
         /\ Len(h.b) >= Smaller(hist.window, decodedCount)
         /\ Decoded(h, Items[pos + 1]) \in Seq(Nat)
         /\ Len(Decoded(h, Items[pos + 1])) = Items[pos + 1].n
         /\ \A k \in 1..Items[pos + 1].n : Decoded(h, Items[pos + 1])[k] = Upto + k
<1> DEFINE it == Items[pos + 1]
           f  == Items[FrameAt]
<1>1. err = "none" /\ TypeOK /\ InPlace /\ WindowHeld /\ Consecutive /\ hist \in Histories
  BY AtLoop DEF IInv, ReaderInv, TypeOK, Histories
<1>2. /\ it.lo = Upto /\ it.n \in Nat /\ HeadOf(src, it) = f
      /\ f.lo \in Nat /\ Upto = f.lo + decodedCount
      /\ f.kind = "head" /\ FrameAt \in 1..Len(Items)
  BY BlockInPlace
<1>3. /\ head.window = WindowOf(f) /\ head.dict = WireId(f) /\ hist.window = head.window
      /\ IF head.dict # 0 THEN hist.dict = head.dict ELSE hist.dict \in {NoDict, 0}
  BY <1>1 DEF InPlace
<1>4. /\ h \in Histories /\ h.window = hist.window /\ h.dict = hist.dict
      /\ Len(h.b) <= Len(hist.b)
      /\ Len(h.b) >= hist.window \/ Len(h.b) = Len(hist.b)
      /\ \A k \in 1..Len(h.b) : h.b[k] = hist.b[Len(hist.b) - Len(h.b) + k]
  BY <1>1, EnsureBlockKeeps
<1>5. /\ Len(h.b) \in Nat /\ Len(hist.b) \in Nat /\ hist.window \in Nat
      /\ decodedCount \in Nat /\ Upto \in Nat
  <2>1. h.b \in Seq(Nat) /\ hist.b \in Seq(Nat) /\ hist.window \in Nat
    BY <1>1, <1>4 DEF Histories
  <2>2. decodedCount \in Nat /\ Upto \in Nat
    BY <1>1, Position DEF TypeOK
  <2> QED
    BY <2>1, <2>2
<1> HIDE DEF f, it
<1>6. \A k \in 1..Len(h.b) : h.b[k] = Upto - Len(h.b) + k
  <2> DEFINE l == Len(hist.b)
             m == Len(h.b)
             u == Upto
  <2>1. l \in Nat /\ m \in Nat /\ u \in Nat /\ m <= l
    BY <1>4, <1>5
  <2>2. \A k \in 1..l : hist.b[k] = u - l + k
    BY <1>1 DEF Consecutive
  <2>3. \A k \in 1..m : h.b[k] = hist.b[l - m + k]
    BY <1>4
  <2> HIDE DEF l, m, u
  <2>4. \A k \in 1..m : h.b[k] = u - m + k
    <3> TAKE k \in 1..m
    <3>1. l - m + k \in 1..l
      BY <2>1
    <3>2. h.b[k] = u - l + (l - m + k)
      BY <2>2, <2>3, <3>1
    <3> QED
      BY <2>1, <3>2
  <2> QED
    BY <2>4 DEF m, u
<1>7. Len(h.b) >= Smaller(hist.window, decodedCount)
  <2>1. Len(hist.b) >= Smaller(hist.window, decodedCount)
    BY <1>1 DEF WindowHeld
  <2> QED
    BY <1>4, <1>5, <2>1 DEF Smaller
<1>8. Back(it) = Smaller(hist.window, decodedCount)
  <2>1. it.lo - f.lo = decodedCount
    BY <1>2, <1>5
  <2> QED
    BY <1>2, <1>3, <2>1 DEF Back
<1>9. Faithful(h, it)
  <2> DEFINE a == Back(it)
  <2>1. a \in Nat /\ a <= Len(h.b)
    BY <1>5, <1>7, <1>8 DEF Smaller
  <2> HIDE DEF a
  <2>2. \A k \in 1..a : h.b[Len(h.b) - a + k] = it.lo - a + k
    <3> TAKE k \in 1..a
    <3>1. Len(h.b) - a + k \in 1..Len(h.b)
      BY <1>5, <2>1
    <3>2. h.b[Len(h.b) - a + k] = Upto - Len(h.b) + (Len(h.b) - a + k)
      BY <1>6, <3>1
    <3> QED
      BY <1>2, <1>5, <2>1, <3>2
  <2>3. f.uses \in DictIds \cup {NoDict} /\ DictIds \subseteq Nat
    <3>1. src \in Streams /\ FrameAt \in 1..Len(src.items) /\ src.items[FrameAt].kind = "head"
      BY <1>1, <1>2, Position DEF Items, f
    <3> QED
      BY <3>1, HeadTypes, ReaderAssumption DEF Items, f
  <2>4. f.uses = 0 => h.dict = 0
    BY <1>2 DEF Reaches, it
  <2>5. IF f.uses = NoDict THEN h.dict \in {NoDict, 0} ELSE h.dict = f.uses
    BY <1>3, <1>4, <2>3, <2>4 DEF WireId, NoDict
  <2> QED
    BY <1>2, <2>2, <2>5 DEF Faithful, a
<1> DEFINE d == Decoded(h, it)
           n == it.n
<1>10. d = [k \in 1..n |-> it.lo + k]
  BY <1>9 DEF Decoded
<1>11. n \in Nat /\ it.lo \in Nat
  BY <1>2, <1>5
<1> HIDE DEF d, n
<1>12. d \in Seq(Nat) /\ Len(d) = n /\ \A k \in 1..n : d[k] = it.lo + k
  BY <1>10, <1>11
<1> QED
  BY <1>2, <1>4, <1>6, <1>7, <1>12 DEF d, n, it

(* The elements of a concatenation. *)
LEMMA Joined ==
  ASSUME NEW s \in Seq(Nat), NEW t \in Seq(Nat)
  PROVE  /\ s \o t \in Seq(Nat) /\ Len(s \o t) = Len(s) + Len(t)
         /\ \A k \in 1..(Len(s) + Len(t)) :
              (s \o t)[k] = IF k <= Len(s) THEN s[k] ELSE t[k - Len(s)]
OBVIOUS

(* A block that was decoded and passed its checks. *)
LEMMA BlockTaken ==
  ASSUME IInv, Looping, inFrame, ~Exhausted,
         NEW h, h = EnsureBlock(hist), Reaches(h, Items[pos + 1]), ~Refused(Items[pos + 1]),
         NEW d, d = Decoded(h, Items[pos + 1]),
         UNCHANGED << src, head, frameSeen, ended >>,
         pos' = pos + 1, hist' = AppendKeep(h, d), decodedCount' = decodedCount + Len(d),
         crc' = IF head.crc THEN crc \o d ELSE crc,
         err' = "none", inFrame' = ~Items[pos + 1].last,
         Items[pos + 1].last => /\ ~SizeFails(decodedCount')
                                /\ ~SumFails(Items[pos + 1], crc'),
         \/ buf' = [lo |-> Len(h.b), hi |-> Len(hist'.b)] /\ delivered' = delivered
         \/ buf' = buf /\ delivered' = delivered \o d,
         TypeOK', InOrder', InCall'
  PROVE  IInv'
<1> DEFINE it == Items[pos + 1]
           f  == Items[FrameAt]
<1>1. /\ err = "none" /\ ~Buffered /\ Len(delivered) = Upto
      /\ TypeOK /\ InPlace /\ Checked /\ Hashed /\ AtEnd
  BY AtLoop DEF IInv, ReaderInv
<1>2. /\ it.kind = "block" /\ it.lo = Upto /\ it.n \in Nat /\ it.frame = FrameAt
      /\ HeadOf(src, it) = f /\ FrameAt \in 1..Len(Items) /\ f.kind = "head"
      /\ f.lo \in Nat /\ Upto = f.lo + decodedCount
  BY BlockInPlace
<1>3. /\ h \in Histories /\ h.window = hist.window /\ h.dict = hist.dict
      /\ \A k \in 1..Len(h.b) : h.b[k] = Upto - Len(h.b) + k
      /\ Len(h.b) >= Smaller(hist.window, decodedCount)
      /\ d \in Seq(Nat) /\ Len(d) = it.n
      /\ \A k \in 1..Len(d) : d[k] = Upto + k
  BY BlockDecoded
<1>4. /\ hist' \in Histories /\ hist'.window = hist.window /\ hist'.dict = hist.dict
      /\ hist'.b = h.b \o d /\ Len(hist'.b) = Len(h.b) + Len(d)
  BY <1>3, AppendKeeps
<1>5. /\ pos \in Nat /\ Upto \in Nat /\ Len(Items) \in Nat /\ src \in Streams
      /\ BytesUpTo(src, pos + 1) = Upto + Len(d)
      /\ pos + 1 \in 1..Len(Items)
  BY <1>1, <1>2, <1>3, Position, NextItem
<1>6. /\ h.b \in Seq(Nat) /\ Len(h.b) \in Nat /\ Len(d) \in Nat /\ decodedCount \in Nat
      /\ hist.window \in Nat /\ crc \in Seq(Nat) /\ Len(crc) \in Nat /\ delivered \in Seq(Nat)
  <2>1. h.b \in Seq(Nat)
    BY <1>3 DEF Histories
  <2>2. Len(h.b) \in Nat /\ Len(d) \in Nat
    BY <1>3, <2>1
  <2>3. /\ decodedCount \in Nat /\ hist.window \in Nat /\ crc \in Seq(Nat) /\ Len(crc) \in Nat
        /\ delivered \in Seq(Nat)
    BY <1>1 DEF TypeOK
  <2> QED
    BY <2>1, <2>2, <2>3
<1>7. Items' = Items /\ Upto' = Upto + Len(d) /\ Items'[pos'] = it /\ pos' > 0
  BY <1>5 DEF Items, Upto
<1>8. FrameAt' = FrameAt /\ (Inside' <=> inFrame') /\ FrameAt \in 1..pos
  BY <1>1, <1>2, <1>7 DEF FrameAt, Inside, InPlace
<1>9. \A k \in 1..Len(hist'.b) : hist'.b[k] = Upto' - Len(hist'.b) + k
  <2> DEFINE b == h.b
             m == Len(h.b)
             n == Len(d)
             u == Upto
             all == h.b \o d
  <2>1. /\ m \in Nat /\ n \in Nat /\ u \in Nat /\ b \in Seq(Nat) /\ d \in Seq(Nat)
        /\ Len(b) = m /\ Len(d) = n /\ all = b \o d
        /\ \A k \in 1..m : b[k] = u - m + k
        /\ \A k \in 1..n : d[k] = u + k
    BY <1>3, <1>5, <1>6
  <2> HIDE DEF b, m, n, u
  <2>2. \A k \in 1..(m + n) : all[k] = IF k <= m THEN b[k] ELSE d[k - m]
    <3>1. \A k \in 1..(Len(b) + Len(d)) :
            (b \o d)[k] = IF k <= Len(b) THEN b[k] ELSE d[k - Len(b)]
      BY <2>1, Joined
    <3> QED
      BY SMTT(40), <2>1, <3>1
  <2> HIDE DEF all
  <2>3. \A k \in 1..(m + n) : all[k] = (u + n) - (m + n) + k
    <3> TAKE k \in 1..(m + n)
    <3>1. CASE k <= m
      <4>1. k \in 1..m
        BY <2>1, <3>1
      <4> QED
        BY <2>1, <2>2, <3>1, <4>1
    <3>2. CASE ~(k <= m)
      <4>1. k - m \in 1..n
        BY <2>1, <3>2
      <4>2. all[k] = u + (k - m)
        BY <2>1, <2>2, <3>2, <4>1
      <4> QED
        BY <2>1, <4>2
    <3> QED
      BY <3>1, <3>2
  <2>4. hist'.b = all /\ Len(hist'.b) = m + n /\ Upto' = u + n
    BY <1>4, <1>7 DEF m, n, u, all
  <2> QED
    BY <2>3, <2>4
<1>10. head' = head /\ frameSeen' = frameSeen /\ ended' = ended /\ src' = src
  OBVIOUS
<1>11. InPlace'
  <2>1. Upto' = f.lo + decodedCount'
    BY SMTT(40), <1>2, <1>5, <1>6, <1>7
  <2>2. FrameAt \in 1..pos'
    BY <1>5, <1>8
  <2> QED
    BY <1>1, <1>4, <1>7, <1>8, <1>10, <2>1, <2>2 DEF InPlace
<1>12. Outside'
  BY <1>8 DEF Outside
<1>13. WindowHeld'
  BY SMTT(40), <1>3, <1>4, <1>6 DEF WindowHeld, Smaller
<1>14. Consecutive'
  BY <1>1, <1>9 DEF Consecutive, Buffered
<1>15. Given'
  <2>1. CASE buf' = [lo |-> Len(h.b), hi |-> Len(hist'.b)] /\ delivered' = delivered
    <3>1. buf'.lo = Len(h.b) /\ buf'.hi = Len(h.b) + Len(d)
      BY <1>4, <2>1
    <3>2. Unread' = Len(d)
      <4> DEFINE l == Len(h.b)
                 n == Len(d)
      <4>1. l \in Nat /\ n \in Nat /\ buf'.lo = l /\ buf'.hi = l + n
        BY <1>6, <3>1
      <4> HIDE DEF l, n
      <4>2. (IF buf'.hi > buf'.lo THEN buf'.hi - buf'.lo ELSE 0) = n
        BY <4>1
      <4> QED
        BY <4>2 DEF Unread, Buffered, n
    <3> QED
      BY <1>1, <1>7, <2>1, <3>2 DEF Given
  <2>2. CASE buf' = buf /\ delivered' = delivered \o d
    <3>1. Unread' = 0
      BY <1>1, <2>2 DEF Unread, Buffered
    <3>2. Len(delivered') = Len(delivered) + Len(d)
      BY <1>3, <1>6, <2>2
    <3> QED
      BY <1>1, <1>5, <1>6, <1>7, <3>1, <3>2 DEF Given
  <2> QED
    BY <2>1, <2>2
<1>16. Checked'
  <2>1. BlockSound(src, it)
    <3>1. /\ head.window = WindowOf(f) /\ head.size = f.size /\ head.crc = f.crc
      BY <1>1 DEF InPlace
    <3>2. it.ok /\ it.n <= Smaller(WindowOf(f), MaxCompressed)
      <4>1. WindowOf(f) \in Nat /\ MaxCompressed \in Nat
        BY <1>2, <1>5, HeadTypes, ReaderAssumption DEF Items
      <4>2. ~(it.n > Smaller(head.window, MaxCompressed)) /\ it.ok
        BY DEF Refused
      <4> HIDE DEF it, f
      <4> QED
        BY <1>2, <3>1, <4>1, <4>2 DEF Smaller
    <3>3. ASSUME it.last
          PROVE  SizeMet(src, it) /\ SumMet(src, it)
      <4>1. FrameBytes(src, it) = decodedCount + Len(d)
        <5>1. it.lo + it.n - f.lo = decodedCount + Len(d)
          <6> DEFINE l == it.lo
                     n == it.n
                     g == f.lo
          <6>1. /\ l = g + decodedCount /\ n = Len(d) /\ g \in Nat /\ n \in Nat
            BY <1>2, <1>3
          <6> HIDE DEF l, n, g
          <6>2. l + n - g = decodedCount + Len(d)
            BY <1>6, <6>1
          <6> QED
            BY <6>2 DEF l, n, g
        <5> QED
          BY <1>2, <5>1 DEF FrameBytes
      <4>2. f.size \in Nat \cup {-1}
        BY <1>2, <1>5, HeadTypes DEF Items
      <4>3. f.size \in {-1, decodedCount + Len(d)}
        BY <1>6, <3>1, <3>3, <4>2 DEF SizeFails
      <4>4. f.crc => it.sum
        BY <3>1, <3>3 DEF SumFails
      <4> QED
        BY <1>2, <4>1, <4>3, <4>4 DEF SizeMet, SumMet
    <3> QED
      BY <1>2, <3>2, <3>3 DEF BlockSound
  <2>2. it.kind # "junk" /\ it.kind # "head"
    BY <1>2
  <2> QED
    BY <1>1, <1>10, <2>1, <2>2, CheckedOn
<1>17. Hashed'
  <2>1. SUFFICES ASSUME head.crc
                 PROVE  /\ Len(crc') = decodedCount'
                        /\ \A k \in 1..Len(crc') : crc'[k] = f.lo + k
    BY <1>7, <1>8, <1>10 DEF Hashed
  <2> DEFINE m == Len(crc)
             n == Len(d)
             u == Upto
             l == f.lo
             all == crc \o d
  <2>2. /\ m = decodedCount /\ \A k \in 1..m : crc[k] = l + k
    BY <1>1, <2>1 DEF Hashed
  <2>3. /\ m \in Nat /\ n \in Nat /\ l \in Nat /\ u = l + m
        /\ crc \in Seq(Nat) /\ d \in Seq(Nat) /\ Len(crc) = m /\ Len(d) = n
        /\ \A k \in 1..n : d[k] = u + k
    BY <1>2, <1>3, <1>6, <2>2
  <2> HIDE DEF m, n, u, l, it, f
  <2>4. /\ Len(all) = m + n
        /\ \A k \in 1..(m + n) : all[k] = IF k <= m THEN crc[k] ELSE d[k - m]
    <3>1. /\ Len(all) = Len(crc) + Len(d)
          /\ \A k \in 1..(Len(crc) + Len(d)) :
               all[k] = IF k <= Len(crc) THEN crc[k] ELSE d[k - Len(crc)]
      BY <2>3, Joined
    <3> HIDE DEF all
    <3> QED
      BY <2>3, <3>1
  <2> HIDE DEF all
  <2>5. \A k \in 1..(m + n) : all[k] = l + k
    <3> TAKE k \in 1..(m + n)
    <3>1. CASE k <= m
      <4>1. k \in 1..m
        BY <2>3, <3>1
      <4> QED
        BY <2>2, <2>4, <3>1, <4>1
    <3>2. CASE ~(k <= m)
      <4>1. k - m \in 1..n
        BY <2>3, <3>2
      <4>2. all[k] = u + (k - m)
        BY <2>3, <2>4, <3>2, <4>1
      <4> QED
        BY <2>3, <4>2
    <3> QED
      BY <3>1, <3>2
  <2>6. crc' = all
    BY <2>1 DEF all
  <2>7. decodedCount' = m + n
    BY <2>2 DEF n
  <2> QED
    BY <2>4, <2>5, <2>6, <2>7 DEF l
<1>18. AtEnd'
  BY <1>1, <1>10 DEF AtEnd
<1> QED
  BY <1>11, <1>12, <1>13, <1>14, <1>15, <1>16, <1>17, <1>18 DEF IInv, ReaderInv

(* A block, or what stands for one that cannot be read or decoded. *)
LEMMA DecodeBlockHolds ==
  ASSUME IInv, DecodeBlock
  PROVE  IInv'
<1> DEFINE h  == EnsureBlock(hist)
           it == Items[pos + 1]
           d  == Decoded(h, it)
           h2 == AppendKeep(h, d)
           hashed == IF head.crc THEN crc \o d ELSE crc
           n  == decodedCount + Len(d)
<1>1. /\ TypeOK /\ InOrder /\ Looping /\ inFrame
      /\ err = "none" /\ ~Buffered /\ pc \in {"read", "writeTo"} /\ Len(delivered) = Upto
  BY AtLoop DEF IInv, DecodeBlock
<1>2. /\ src' = src /\ head' = head /\ frameSeen' = frameSeen /\ ended' = ended
      /\ UNCHANGED << initialized, maxWindow, dicts, limit >> /\ Items' = Items
  BY DEF DecodeBlock, Items
<1>3. h \in Histories
  BY <1>1, EnsureBlockKeeps DEF TypeOK, Histories
<1>4. CASE /\ hist' = h /\ Fail("corrupt") /\ pos' \in 0..Len(Items)
           /\ UNCHANGED << crc, buf, decodedCount, inFrame, delivered >>
  <2>1. ~Buffered' /\ InOrder'
    BY <1>1, <1>2, <1>4 DEF Buffered, InOrder
  <2>2. TypeOK'
    BY <1>1, <1>2, <1>3, <1>4, <2>1 DEF TypeOK, Histories, Fail, Return, Errors
  <2> QED
    BY <1>4, <2>1, <2>2, FailKeeps DEF Fail, Return
<1>5. CASE /\ ~Exhausted /\ pos' = pos + 1
           /\ ~Refused(it) /\ Reaches(h, it) /\ TakeBlock(h, it)
  <2>1. /\ \A k \in 1..Len(h.b) : h.b[k] = Upto - Len(h.b) + k
        /\ d \in Seq(Nat) /\ Len(d) = it.n
        /\ \A k \in 1..Len(d) : d[k] = Upto + k
    BY <1>1, <1>5, BlockDecoded
  <2>2. /\ it.kind = "block" /\ it.lo = Upto /\ it.n \in Nat
    BY <1>1, <1>5, BlockInPlace
  <2>3. /\ pos' \in 0..Len(Items) /\ Upto \in Nat /\ BytesOf(src) \in Nat
        /\ Upto + Len(d) <= BytesOf(src)
    BY <1>1, <1>5, <2>1, <2>2, NextItem, Position
  <2>4. /\ hist' = h2 /\ crc' = hashed /\ decodedCount' = n
        /\ \/ /\ pc = "read"
              /\ buf' = [lo |-> Len(h.b), hi |-> Len(h2.b)]
              /\ LastChecks(it, n, hashed)
              /\ UNCHANGED delivered
           \/ /\ pc = "writeTo"
              /\ delivered' = delivered \o d
              /\ LastChecks(it, n, hashed)
              /\ UNCHANGED buf
           \/ /\ pc = "writeTo" /\ d # << >>
              /\ \E k \in 0..Len(d) : delivered' = delivered \o SubSeq(d, 1, k)
              /\ Fail("sink")
              /\ UNCHANGED << buf, inFrame >>
    BY <1>5 DEF TakeBlock
  <2>5. /\ h2 \in Histories /\ Len(h2.b) = Len(h.b) + Len(d)
        /\ h.b \in Seq(Nat) /\ Len(h.b) \in Nat /\ Len(d) \in Nat
    <3>1. h.b \in Seq(Nat)
      BY <1>3 DEF Histories
    <3>2. Len(h.b) \in Nat /\ Len(d) \in Nat
      BY <2>1, <3>1
    <3>3. h2 \in Histories /\ Len(h2.b) = Len(h.b) + Len(d)
      BY <1>3, <2>1, AppendKeeps
    <3> QED
      BY <3>1, <3>2, <3>3
  <2>6. crc' \in Seq(Nat) /\ decodedCount' \in Nat
    <3>1. crc \in Seq(Nat) /\ decodedCount \in Nat
      BY <1>1 DEF TypeOK
    <3>2. crc \o d \in Seq(Nat)
      BY <2>1, <3>1
    <3>3. n \in Nat
      BY <2>5, <3>1
    <3> QED
      BY <2>4, <3>1, <3>2, <3>3
  <2>7. it.last \in BOOLEAN
    BY <1>1, <1>5, <2>2, NextItem, BlockTypes DEF Items, TypeOK
  <2> HIDE DEF h2, hashed, n
  <2>8. \/ /\ inFrame' = ~it.last /\ UNCHANGED << err, call >>
           /\ it.last => ~SizeFails(n) /\ ~SumFails(it, hashed)
           /\ \/ /\ buf' = [lo |-> Len(h.b), hi |-> Len(h2.b)] /\ UNCHANGED delivered
              \/ /\ UNCHANGED buf /\ delivered' = delivered \o d
        \/ /\ inFrame' = inFrame
           /\ \E e \in {"size", "crc", "sink"} : Fail(e)
           /\ \/ /\ buf' = [lo |-> Len(h.b), hi |-> Len(h2.b)] /\ UNCHANGED delivered
              \/ /\ UNCHANGED buf
                 /\ \E k \in 0..Len(d) : delivered' = delivered \o SubSeq(d, 1, k)
    <3>1. LastChecks(it, n, hashed) =>
            \/ /\ inFrame' = ~it.last /\ UNCHANGED << err, call >>
               /\ it.last => ~SizeFails(n) /\ ~SumFails(it, hashed)
            \/ /\ inFrame' = inFrame
               /\ \E e \in {"size", "crc", "sink"} : Fail(e)
      BY <1>1, <2>7 DEF LastChecks
    <3>2. SubSeq(d, 1, Len(d)) = d /\ Len(d) \in 0..Len(d)
      BY <2>1, <2>5
    <3> HIDE DEF d, it
    <3> QED
      BY <2>4, <3>1, <3>2
  <2>9. delivered' \in Seq(Nat) /\ InOrder'
    <3>1. CASE UNCHANGED delivered
      BY <1>1, <1>2, <3>1 DEF TypeOK, InOrder
    <3>2. ASSUME NEW k \in 0..Len(d), delivered' = delivered \o SubSeq(d, 1, k)
          PROVE  delivered' \in Seq(Nat) /\ InOrder'
      <4> DEFINE c == SubSeq(d, 1, k)
      <4> HIDE DEF d
      <4>1. /\ c \in Seq(Nat) /\ Len(c) = k
            /\ \A j \in 1..Len(c) : c[j] = d[j]
        BY SMTT(40), <2>1, <2>5, <3>2
      <4> HIDE DEF c
      <4>2. \A j \in 1..Len(c) : c[j] = Len(delivered) + j
        <5> TAKE j \in 1..Len(c)
        <5>1. j \in 1..Len(d)
          BY <2>5, <4>1
        <5> QED
          BY <1>1, <2>1, <4>1, <5>1
      <4>3. Len(delivered) + Len(c) <= BytesOf(src)
        BY <1>1, <2>3, <2>5, <4>1
      <4> QED
        BY <1>1, <1>2, <3>2, <4>1, <4>2, <4>3, OrderExtends DEF c
    <3>3. SubSeq(d, 1, Len(d)) = d /\ Len(d) \in 0..Len(d)
      BY <2>1, <2>5
    <3> HIDE DEF d
    <3> QED
      BY <2>8, <3>1, <3>2, <3>3
  <2>10. TypeOK'
    <3> HIDE DEF h, d
    <3>1. buf' \in [lo : Nat, hi : Nat] /\ (Buffered' => buf'.hi <= Len(hist'.b))
      <4>1. CASE buf' = [lo |-> Len(h.b), hi |-> Len(h2.b)]
        <5>1. Len(h2.b) \in Nat
          BY <2>5
        <5>2. buf'.hi = Len(h2.b)
          BY <4>1
        <5> QED
          BY <2>4, <2>5, <4>1, <5>1, <5>2
      <4>2. CASE UNCHANGED buf
        BY <1>1, <4>2 DEF Buffered, TypeOK
      <4> QED
        BY <2>8, <4>1, <4>2
    <3>2. /\ err' \in Errors /\ pc' \in {"idle", "read", "writeTo"} /\ left' \in Nat
          /\ written' \in Nat /\ res'.err \in Errors /\ inFrame' \in BOOLEAN
      <4>1. /\ err \in Errors /\ left \in Nat /\ written \in Nat /\ res.err \in Errors
        BY <1>1 DEF TypeOK
      <4>2. CASE inFrame' = ~it.last /\ UNCHANGED << err, call >>
        BY <1>1, <4>1, <4>2 DEF call
      <4>3. CASE inFrame' = inFrame /\ \E e \in {"size", "crc", "sink"} : Fail(e)
        BY <1>1, <4>3 DEF Fail, Return, Errors
      <4> QED
        BY <2>8, <4>2, <4>3
    <3>3. hist' \in Histories
      BY <2>4, <2>5
    <3>4. frameSeen' \in BOOLEAN /\ ended' \in BOOLEAN
      BY <1>1, <1>2 DEF TypeOK
    <3> QED
      BY <1>1, <1>2, <2>3, <2>6, <2>9, <3>1, <3>2, <3>3, <3>4 DEF TypeOK, Histories
  <2>11. CASE \E e \in {"size", "crc", "sink"} : Fail(e)
    BY <2>9, <2>10, <2>11, FailKeeps DEF Fail, Return
  <2>12. CASE /\ inFrame' = ~it.last /\ UNCHANGED << err, call >>
              /\ it.last => ~SizeFails(n) /\ ~SumFails(it, hashed)
              /\ \/ /\ buf' = [lo |-> Len(h.b), hi |-> Len(h2.b)] /\ UNCHANGED delivered
                 \/ /\ UNCHANGED buf /\ delivered' = delivered \o d
    <3>1. CASE pc = "read"
      <4>1. InCall'
        BY <1>1, <2>12, <3>1 DEF InCall, call
      <4> QED
        BY <1>1, <1>2, <1>5, <2>4, <2>9, <2>10, <2>12, <4>1, BlockTaken DEF h2, hashed, n
    <3>2. CASE pc = "writeTo"
      <4>1. UNCHANGED buf
        BY <2>4, <2>12, <3>2 DEF Fail
      <4>2. InCall'
        BY <1>1, <2>12, <3>2, <4>1 DEF InCall, call, Buffered
      <4> QED
        BY <1>1, <1>2, <1>5, <2>4, <2>9, <2>10, <2>12, <4>2, BlockTaken DEF h2, hashed, n
    <3> QED
      BY <1>1, <3>1, <3>2
  <2> QED
    BY <2>8, <2>11, <2>12
<1>6. pos \in 0..Len(Items) /\ (~Exhausted => pos + 1 \in 0..Len(Items))
  BY <1>1, NextItem DEF TypeOK
<1> HIDE DEF h, it
<1>7. \/ /\ hist' = h /\ Fail("corrupt") /\ pos' \in 0..Len(Items)
         /\ UNCHANGED << crc, buf, decodedCount, inFrame, delivered >>
      \/ /\ ~Exhausted /\ pos' = pos + 1
         /\ ~Refused(it) /\ Reaches(h, it) /\ TakeBlock(h, it)
  BY <1>6 DEF DecodeBlock, h, it
<1> QED
  BY <1>4, <1>5, <1>7

-----------------------------------------------------------------------------
(* Theorems. *)

(* IInv is inductive. *)
LEMMA StepHolds ==
  ASSUME IInv, [Next]_vars
  PROVE  IInv'
<1>1. CASE Call
  BY <1>1, ResetHolds, CloseHolds, ConfigureHolds, ReadHolds, WriteToHolds DEF Call
<1>2. CASE ReadHeader
  <2>1. Looping /\ ~inFrame
        /\ UNCHANGED << src, initialized, maxWindow, buf, dicts, delivered, limit >>
    BY <1>2 DEF ReadHeader
  <2>2. CASE Exhausted /\ NoHeader /\ UNCHANGED << pos, head, hist, crc, place >>
    BY <2>1, <2>2, NoHeaderHolds
  <2>3. CASE /\ ~Exhausted /\ Items[pos + 1].kind # "skip" /\ pos' = pos + 1
             /\ OpenFrame(Items[pos + 1]) /\ UNCHANGED ended
    BY <2>1, <2>3, OpenFrameHolds
  <2> QED
    BY <1>2, <2>2, <2>3 DEF ReadHeader
<1>3. CASE ReadDone \/ Drain \/ SkipFrame \/ DecodeBlock
  BY <1>3, ReadDoneHolds, DrainHolds, SkipHolds, DecodeBlockHolds
<1>4. CASE UNCHANGED vars
  <2>1. UNCHANGED core
    BY <1>4 DEF vars, frame, core
  <2>2. TypeOK'
    BY <1>4 DEF IInv, TypeOK, vars, frame, place, call, Items, Buffered
  <2>3. InCall'
    BY <1>4 DEF IInv, ReaderInv, InCall, vars, call, Buffered
  <2> QED
    BY <2>1, <2>2, <2>3, CoreKept
<1> QED
  BY <1>1, <1>2, <1>3, <1>4 DEF Next, Step

(* The invariant the proofs use holds in every reachable state. *)
THEOREM ReaderHolds == Spec => []IInv
<1>1. Init => IInv
  BY InitHolds
<1>2. IInv /\ [Next]_vars => IInv'
  BY StepHolds
<1> QED
  BY <1>1, <1>2, PTL DEF Spec

(* The variables keep their types; what is buffered is in the buffer       *)
(* (reader.go: z.buf is a slice of z.frame.history.b).                     *)
THEOREM ReaderTyped == Spec => []TypeOK
<1>1. IInv => TypeOK
  BY DEF IInv
<1> QED
  BY <1>1, ReaderHolds, PTL

(* Between errors the frame's fields, the buffer and the digest belong to  *)
(* the frame the Reader is in (framedec.go and history.go).                *)
THEOREM ReaderInvariant == Spec => []ReaderInv
<1>1. IInv => ReaderInv
  BY DEF IInv
<1> QED
  BY <1>1, ReaderHolds, PTL

(* The caller of Read and WriteTo gets the decompressed input in order,    *)
(* none of it lost, repeated or decoded against the wrong history.         *)
THEOREM ReaderInOrder == Spec => []InOrder
<1>1. IInv => InOrder
  BY DEF IInv
<1> QED
  BY <1>1, ReaderHolds, PTL

-----------------------------------------------------------------------------
(* What a step does to what the caller sees. *)

(* A step on the same input: bytes are only added, none once an end or an  *)
(* error was reported; an end is reported where frameDec.reset finds none  *)
(* left, and an error is not forgotten.                                    *)
SameInput ==
  /\ src' = src
  /\ Len(delivered) <= Len(delivered')
  /\ ended' => delivered' = delivered
  /\ ended => ended'
  /\ (ended' /\ ~ended) =>
        /\ Looping /\ ~inFrame /\ Exhausted /\ frameSeen
        /\ ~src.torn /\ src.end # "failed"
  /\ err # "none" => pos' = pos /\ delivered' = delivered /\ err' \in {err, "closed"}

(* The other kind of step is Reset. *)
OtherInput ==
  /\ src' \in Streams /\ delivered' = << >> /\ ended' = FALSE /\ err' = "none"
  /\ res'.op = "Reset"

(* The bytes handed out are added to those before. *)
LEMMA Added ==
  ASSUME TypeOK, NEW c \in Seq(Nat), delivered' = delivered \o c
  PROVE  Len(delivered) <= Len(delivered')
<1>1. delivered \in Seq(Nat) /\ Len(delivered) \in Nat /\ Len(c) \in Nat
  BY SMTT(40) DEF TypeOK
<1>2. Len(delivered \o c) = Len(delivered) + Len(c)
  BY <1>1
<1> QED
  BY <1>1, <1>2

(* A step that leaves what the caller has alone. *)
LEMMA NothingAdded ==
  ASSUME TypeOK, src' = src, delivered' = delivered, ended' = ended,
         err # "none" => pos' = pos /\ err' \in {err, "closed"}
  PROVE  SameInput
<1>1. Len(delivered) \in Nat
  BY DEF TypeOK
<1> QED
  BY <1>1 DEF SameInput

(* Every step is of one of these kinds. *)
LEMMA StepShape ==
  ASSUME IInv, IInv', [Next]_vars
  PROVE  SameInput \/ OtherInput
<1>1. TypeOK /\ AtEnd /\ InCall /\ TypeOK'
  BY DEF IInv, ReaderInv
<1>2. /\ hist.b \in Seq(Nat) /\ buf.lo \in Nat /\ buf.hi \in Nat /\ delivered \in Seq(Nat)
      /\ Buffered => buf.hi <= Len(hist.b)
      /\ Len(hist.b) \in Nat
  BY <1>1 DEF TypeOK
<1>3. CASE \E s \in Streams : Reset(s)
  BY <1>3 DEF Reset, OtherInput, Return
<1>4. CASE Close \/ Configure \/ ReadDone \/ \E n \in 0..MaxRead : Read(n)
  <2>1. src' = src /\ pos' = pos /\ delivered' = delivered /\ ended' = ended /\ err' \in {err, "closed"}
    BY <1>4 DEF Close, Configure, ReadDone, Read, place, frame
  <2> QED
    BY <1>1, <2>1, NothingAdded
<1>5. CASE Drain
  <2>1. err = "none" /\ ~ended /\ ended' = ended /\ src' = src
    BY <1>1, <1>5 DEF Drain, InCall, AtEnd
  <2>2. \E c \in Seq(Nat) : delivered' = delivered \o c
    <3> DEFINE n == Smaller(left, buf.hi - buf.lo)
    <3>1. n \in Nat /\ n <= buf.hi - buf.lo /\ buf.hi <= Len(hist.b)
      <4>1. left \in Nat /\ buf.hi > buf.lo /\ buf.hi <= Len(hist.b)
        BY <1>1, <1>2, <1>5 DEF Drain, Buffered, TypeOK
      <4> QED
        BY <1>2, <4>1 DEF Smaller
    <3>2. delivered' = delivered \o SubSeq(hist.b, buf.lo + 1, buf.lo + n)
      BY <1>5 DEF Drain
    <3> HIDE DEF n
    <3>3. SubSeq(hist.b, buf.lo + 1, buf.lo + n) \in Seq(Nat)
      <4> DEFINE m == buf.lo + n
      <4>1. m \in Nat /\ m <= Len(hist.b)
        BY <1>2, <3>1
      <4> HIDE DEF m
      <4>2. SubSeq(hist.b, buf.lo + 1, m) \in Seq(Nat)
        BY <1>2, <4>1
      <4> QED
        BY <4>2 DEF m
    <3> QED
      BY <3>2, <3>3
  <2>3. Len(delivered) <= Len(delivered')
    BY <1>1, <2>2, Added
  <2> QED
    BY <2>1, <2>3 DEF SameInput
<1>6. CASE WriteTo
  <2>1. src' = src /\ pos' = pos /\ ended' = ended
    BY <1>6 DEF WriteTo
  <2>2. CASE ~Usable
    <3>1. delivered' = delivered /\ err' = err
      BY <1>6, <2>2 DEF WriteTo
    <3> QED
      BY <1>1, <2>1, <3>1, NothingAdded
  <2>3. CASE Usable /\ Buffered
    <3>1. err = "none" /\ ~ended
      BY <1>1, <2>3 DEF Usable, AtEnd
    <3>2. \E k \in buf.lo..buf.hi : delivered' = delivered \o SubSeq(hist.b, buf.lo + 1, k)
      <4>1. buf.hi \in buf.lo..buf.hi
        BY <1>2, <2>3 DEF Buffered
      <4> QED
        BY <1>6, <2>3, <4>1 DEF WriteTo
    <3>3. \A k \in buf.lo..buf.hi : SubSeq(hist.b, buf.lo + 1, k) \in Seq(Nat)
      BY SMTT(40), <1>2, <2>3
    <3>4. Len(delivered) <= Len(delivered')
      BY <1>1, <3>2, <3>3, Added
    <3> QED
      BY <2>1, <3>1, <3>4 DEF SameInput
  <2>4. CASE Usable /\ ~Buffered
    <3>1. delivered' = delivered \o SubSeq(hist.b, buf.lo + 1, buf.hi) /\ err' = err
      BY <1>6, <2>4 DEF WriteTo
    <3>2. SubSeq(hist.b, buf.lo + 1, buf.hi) = << >>
      <4> DEFINE b  == hist.b
                 lo == buf.lo
                 hi == buf.hi
      <4>1. b \in Seq(Nat) /\ lo \in Nat /\ hi \in Nat /\ hi <= lo
        BY <1>2, <2>4 DEF Buffered
      <4> HIDE DEF b, lo, hi
      <4>2. SubSeq(b, lo + 1, hi) = << >>
        BY <4>1
      <4> QED
        BY <4>2 DEF b, lo, hi
    <3>3. delivered' = delivered
      <4>1. delivered \o << >> = delivered
        BY <1>2
      <4> QED
        BY <3>1, <3>2, <4>1
    <3> QED
      BY <1>1, <2>1, <3>1, <3>3, NothingAdded
  <2> QED
    BY <2>2, <2>3, <2>4
<1>7. CASE SkipFrame
  <2>1. err = "none"
    BY <1>7, AtLoop DEF SkipFrame
  <2>2. src' = src /\ delivered' = delivered /\ ended' = ended
    BY <1>7 DEF SkipFrame
  <2> QED
    BY <1>1, <2>1, <2>2, NothingAdded
<1>8. CASE ReadHeader
  <2>1. err = "none" /\ Looping /\ ~inFrame
    BY <1>8, AtLoop DEF ReadHeader
  <2>2. src' = src /\ delivered' = delivered
    BY <1>8 DEF ReadHeader
  <2>3. CASE UNCHANGED ended
    BY <1>1, <2>1, <2>2, <2>3, NothingAdded
  <2>4. CASE ~UNCHANGED ended
    <3>1. Exhausted /\ NoHeader
      BY <1>8, <2>4 DEF ReadHeader
    <3>2. /\ ~src.torn /\ src.end # "failed" /\ frameSeen /\ ended' = TRUE
      BY <2>4, <3>1 DEF NoHeader, EndOfInput
    <3>3. Len(delivered) <= Len(delivered')
      BY <1>1, <2>2 DEF TypeOK
    <3> QED
      BY <2>1, <2>2, <3>1, <3>2, <3>3 DEF SameInput
  <2> QED
    BY <2>3, <2>4
<1>9. CASE DecodeBlock
  <2>1. err = "none" /\ inFrame /\ ~ended /\ Looping
    BY <1>1, <1>9, AtLoop DEF DecodeBlock, AtEnd
  <2>2. src' = src /\ ended' = ended
    BY <1>9 DEF DecodeBlock
  <2>3. Len(delivered) <= Len(delivered')
    <3>1. CASE UNCHANGED delivered
      BY <1>1, <3>1 DEF TypeOK
    <3>2. CASE ~UNCHANGED delivered
      <4> DEFINE h == EnsureBlock(hist)
                 d == Decoded(h, Items[pos + 1])
      <4>1. ~Exhausted /\ Reaches(h, Items[pos + 1]) /\ TakeBlock(h, Items[pos + 1])
        BY <1>9, <3>2 DEF DecodeBlock
      <4>2. d \in Seq(Nat) /\ Len(d) \in Nat
        BY <2>1, <4>1, BlockDecoded
      <4>3. \/ delivered' = delivered \o d
            \/ \E k \in 0..Len(d) : delivered' = delivered \o SubSeq(d, 1, k)
        BY <3>2, <4>1 DEF TakeBlock
      <4> HIDE DEF d
      <4>4. \A k \in 0..Len(d) : SubSeq(d, 1, k) \in Seq(Nat)
        BY <4>2
      <4> QED
        BY <1>1, <4>2, <4>3, <4>4, Added
    <3> QED
      BY <3>1, <3>2
  <2> QED
    BY <2>1, <2>2, <2>3 DEF SameInput
<1>10. CASE UNCHANGED vars
  <2>1. src' = src /\ pos' = pos /\ delivered' = delivered /\ ended' = ended /\ err' = err
    BY <1>10 DEF vars
  <2> QED
    BY <1>1, <2>1, NothingAdded
<1> QED
  BY <1>3, <1>4, <1>5, <1>6, <1>7, <1>8, <1>9, <1>10
  DEF Next, Call, Step, SetMaxWindowSize, AddDict, ConfigureRefused, ClearDicts

(* After an error nothing is read or delivered until Reset (z.err).        *)
THEOREM ReaderSticky == Spec => Sticky
<1>1. IInv /\ IInv' /\ [Next]_vars =>
        [err # "none" => \/ res'.op = "Reset"
                         \/ UNCHANGED << pos, delivered >> /\ err' \in {err, "closed"}]_vars
  BY StepShape DEF SameInput, OtherInput
<1> QED
  BY <1>1, ReaderHolds, PTL DEF Spec, Sticky

(* The source does not itself report io.ErrUnexpectedEOF, which            *)
(* frameDec.reset takes for the end of the input.                          *)
HonestEnd == \A s \in Streams : s.end # "UnexpectedEOF"

(* Where an end is reported everything was checked and handed over.        *)
LEMMA EndReached ==
  ASSUME HonestEnd, IInv, Looping, ~inFrame, Exhausted, frameSeen,
         ~src.torn, src.end # "failed"
  PROVE  Whole(src) /\ Len(delivered) = BytesOf(src)
<1>1. /\ TypeOK /\ Checked /\ Outside /\ err = "none" /\ Len(delivered) = Upto
  BY AtLoop DEF IInv, ReaderInv
<1>2. src \in Streams /\ pos = Len(Items) /\ pos \in Nat
  BY <1>1, Position DEF Exhausted
<1>3. Len(delivered) = BytesOf(src)
  BY <1>1, <1>2 DEF Upto, BytesOf, Items
<1>4. src.end = "EOF"
  BY <1>2, ReaderAssumption DEF HonestEnd, StreamOk
<1>5. /\ \E i \in 1..pos : Items[i].kind = "head"
      /\ \A i \in 1..pos : /\ Items[i].kind # "junk"
                           /\ Items[i].kind = "block" => BlockSound(src, Items[i])
  BY <1>1 DEF Checked
<1>6. pos \in 1..pos
  BY <1>2, <1>5
<1>7. Items[pos].kind = "skip" \/ (Items[pos].kind = "block" /\ Items[pos].last)
  <2>1. ~Inside
    BY <1>1 DEF Outside
  <2>2. Items[pos].kind \in {"head", "block", "skip", "junk"}
    BY <1>2, <1>6, ItemTypes DEF Items
  <2> QED
    BY <1>5, <1>6, <2>1, <2>2 DEF Inside
<1> QED
  BY <1>2, <1>3, <1>4, <1>5, <1>7 DEF Whole, Items

(* An end is reported for a whole input that was handed over, or not.      *)
LEMMA EndClean ==
  ASSUME HonestEnd, IInv, IInv', CleanEnd, [Next]_vars
  PROVE  CleanEnd'
<1>1. CASE OtherInput
  BY <1>1 DEF OtherInput, CleanEnd
<1>2. CASE SameInput
  <2>1. SUFFICES ASSUME ended'
                 PROVE  Whole(src) /\ Len(delivered) = BytesOf(src)
    BY <1>2 DEF SameInput, CleanEnd
  <2>2. CASE ended
    BY <2>2 DEF CleanEnd
  <2>3. CASE ~ended
    BY <1>2, <2>1, <2>3, EndReached DEF SameInput
  <2> QED
    BY <2>2, <2>3
<1> QED
  BY <1>1, <1>2, StepShape

(* io.EOF from Read, and nil from WriteTo, mean that the input is whole    *)
(* frames with good sizes and checksums, and that all of it was delivered. *)
THEOREM ReaderCleanEnd ==
  ASSUME HonestEnd
  PROVE  Spec => []CleanEnd
<1>1. Init => CleanEnd
  BY DEF Init, CleanEnd
<1>2. IInv /\ IInv' /\ CleanEnd /\ [Next]_vars => CleanEnd'
  BY EndClean
<1> QED
  BY <1>1, <1>2, ReaderHolds, PTL DEF Spec

(* The state FrameSource speaks of. *)
Reported == IF err \notin {"none", "EOF"} THEN "failed" ELSE IF ended THEN "ended" ELSE "open"
Promise  == [bytes |-> BytesOf(src), whole |-> Whole(src)]

(* Every step is one of FrameSource. *)
LEMMA StepRefines ==
  ASSUME HonestEnd, IInv, IInv', CleanEnd, CleanEnd', [Next]_vars
  PROVE  [Source!Next]_<< Promise, Len(delivered), Reported >>
<1>1. /\ TypeOK /\ TypeOK' /\ InOrder' /\ InCall
      /\ Len(delivered) \in Nat /\ Len(delivered') \in Nat /\ BytesOf(src') \in Nat
  <2>1. TypeOK /\ TypeOK' /\ InOrder' /\ InCall
    BY DEF IInv, ReaderInv
  <2>2. src' \in Streams
    BY <2>1 DEF TypeOK
  <2>3. delivered \in Seq(Nat) /\ delivered' \in Seq(Nat)
    BY <2>1 DEF TypeOK
  <2>4. BytesOf(src') \in Nat
    BY <2>2, ByteCounts
  <2> QED
    BY <2>1, <2>3, <2>4
<1>2. CASE OtherInput
  <2>1. Promise' \in Promised
    BY <1>2 DEF OtherInput, Promise, Promised
  <2>2. Len(delivered') = 0 /\ Reported' = "open"
    BY <1>2 DEF OtherInput, Reported
  <2> QED
    BY <2>1, <2>2 DEF Source!Next, Source!Start, Promise, Reported
<1>3. CASE SameInput
  <2>1. /\ Promise' = Promise /\ Promise.bytes = BytesOf(src) /\ Promise.whole = Whole(src)
        /\ Len(delivered') \in Len(delivered)..BytesOf(src)
    BY <1>1, <1>3 DEF SameInput, Promise, InOrder
  <2>2. CASE Reported = "failed"
    <3>1. err \notin {"none", "EOF"}
      BY <2>2 DEF Reported
    <3>2. delivered' = delivered /\ Reported' = "failed"
      BY <1>3, <3>1 DEF SameInput, Reported
    <3> QED
      BY <2>1, <2>2, <3>2
  <2>3. CASE Reported # "failed" /\ Reported' = "failed"
    BY <2>1, <2>3 DEF Source!Next, Source!Fail, Promise, Reported
  <2>4. CASE Reported # "failed" /\ Reported' # "failed" /\ ended'
    <3>1. Reported' = "ended" /\ delivered' = delivered
      BY <1>3, <2>4 DEF SameInput, Reported
    <3>2. CASE ended
      <4>1. Reported = "ended"
        BY <2>4, <3>2 DEF Reported
      <4> QED
        BY <2>1, <3>1, <4>1
    <3>3. CASE ~ended
      <4>1. Reported = "open"
        BY <2>4, <3>3 DEF Reported
      <4>2. Whole(src) /\ Len(delivered) = BytesOf(src)
        BY <1>3, <2>4, <3>1 DEF SameInput, CleanEnd
      <4> QED
        BY <2>1, <3>1, <4>1, <4>2 DEF Source!Next, Source!End, Promise, Reported
    <3> QED
      BY <3>2, <3>3
  <2>5. CASE Reported # "failed" /\ Reported' # "failed" /\ ~ended'
    <3>1. Reported = "open" /\ Reported' = "open"
      BY <1>3, <2>5 DEF SameInput, Reported
    <3> QED
      BY <2>1, <3>1 DEF Source!Next, Source!Deliver, Promise, Reported
  <2> QED
    BY <2>2, <2>3, <2>4, <2>5
<1> QED
  BY <1>2, <1>3, StepShape

(* The Reader keeps what FrameSource promises a caller.                    *)
THEOREM ReaderImplementsSource ==
  ASSUME HonestEnd
  PROVE  Spec => ImplementsSource
<1>1. Init => Source!Init
  BY DEF Init, Source!Init, Promised
<1>2. IInv /\ IInv' /\ CleanEnd /\ CleanEnd' /\ [Next]_vars
        => [Source!Next]_<< Promise, Len(delivered), Reported >>
  BY StepRefines
<1>3. Spec => []CleanEnd
  BY ReaderCleanEnd
<1> QED
  BY <1>1, <1>2, <1>3, ReaderHolds, PTL DEF Spec, ImplementsSource, Source!Spec, Promise, Reported

-----------------------------------------------------------------------------
(* The buffer, and the checks behind the last block.                       *)

(* A decoded block fits behind what ensureBlock kept: appendKeep never     *)
(* moves hist.b while z.buf is a slice of it.                              *)
LEMMA FitsStep ==
  ASSUME IInv, [Next]_vars, inFrame, pos' = pos + 1
  PROVE  hist'.cap = EnsureBlock(hist).cap
<1>1. TypeOK /\ pos \in Nat
  BY Position DEF IInv
<1>2. CASE DecodeBlock
  <2> DEFINE h  == EnsureBlock(hist)
             it == Items[pos + 1]
             d  == Decoded(h, it)
  <2>1. hist' = h \/ (~Exhausted /\ ~Refused(it) /\ Reaches(h, it) /\ TakeBlock(h, it))
    BY <1>2 DEF DecodeBlock
  <2>2. CASE ~Exhausted /\ ~Refused(it) /\ Reaches(h, it) /\ TakeBlock(h, it)
    <3>1. Looping
      BY <1>2 DEF DecodeBlock
    <3>2. h \in Histories /\ d \in Seq(Nat) /\ Len(d) = it.n /\ it.n \in Nat
      BY <2>2, <3>1, BlockDecoded, BlockInPlace
    <3>3. head.window \in Nat /\ MaxCompressed \in Nat
      BY <1>1, ReaderAssumption DEF TypeOK
    <3>4. it.n <= MaxCompressed
      <4>1. ~(it.n > Smaller(head.window, MaxCompressed))
        BY <2>2 DEF Refused
      <4> HIDE DEF it
      <4> QED
        BY <3>2, <3>3, <4>1 DEF Smaller
    <3>5. h.cap >= Len(h.b) + MaxCompressed /\ hist \in Histories
      BY <1>1, EnsureBlockKeeps DEF TypeOK, Histories
    <3>6. hist' = AppendKeep(h, d) /\ AppendKeep(h, d).cap = Larger(h.cap, Len(h.b) + Len(d))
      BY <2>2, <3>2, AppendKeeps DEF TakeBlock
    <3>7. h.cap \in Nat /\ h.b \in Seq(Nat) /\ Len(h.b) \in Nat
      BY <3>2 DEF Histories
    <3> HIDE DEF h, it, d
    <3>8. Larger(h.cap, Len(h.b) + Len(d)) = h.cap
      BY <3>2, <3>3, <3>4, <3>5, <3>7 DEF Larger
    <3> QED
      BY <3>6, <3>8 DEF h
  <2> QED
    BY <2>1, <2>2
<1>3. CASE \E s \in Streams : Reset(s)
  BY <1>1, <1>3 DEF Reset
<1>4. CASE SkipFrame \/ ReadHeader
  BY <1>4 DEF SkipFrame, ReadHeader
<1>5. CASE \/ Close \/ Configure \/ WriteTo \/ ReadDone \/ Drain \/ UNCHANGED vars
           \/ \E n \in 0..MaxRead : Read(n)
  <2>1. pos' = pos
    BY <1>5 DEF Close, Configure, WriteTo, ReadDone, Drain, Read, vars
  <2> QED
    BY <1>1, <2>1
<1> QED
  BY <1>2, <1>3, <1>4, <1>5
  DEF Next, Call, Step, SetMaxWindowSize, AddDict, ConfigureRefused, ClearDicts

(* The buffer is not moved by a decoded block (history.go).                *)
THEOREM ReaderBlockFits == Spec => BlockFits
<1>1. IInv /\ [Next]_vars =>
        [inFrame /\ pos' = pos + 1 => hist'.cap = EnsureBlock(hist).cap]_vars
  BY FitsStep
<1> QED
  BY <1>1, ReaderHolds, PTL DEF Spec, BlockFits

(* What Read delivers in a step stood in items that were read before it.   *)
LEMMA DeliveredChecked ==
  ASSUME IInv, IInv', [Next]_vars, pc = "read",
         NEW k \in (Len(delivered) + 1)..Len(delivered'),
         NEW i \in 1..Len(Items), Items[i].kind = "block", Items[i].last,
         Items[i].lo < k, k <= Items[i].lo + Items[i].n
  PROVE  SizeMet(src, Items[i]) /\ SumMet(src, Items[i])
<1>1. /\ TypeOK /\ TypeOK' /\ Checked /\ Given'
      /\ Len(delivered) \in Nat /\ Len(delivered') \in Nat
  <2>1. TypeOK /\ TypeOK' /\ Checked /\ Given'
    BY DEF IInv, ReaderInv
  <2>2. delivered \in Seq(Nat) /\ delivered' \in Seq(Nat)
    BY <2>1 DEF TypeOK
  <2> QED
    BY <2>1, <2>2
<1>2. delivered' # delivered
  BY <1>1
<1>3. Drain
  <2>1. ~Call
    BY DEF Call, Idle, Reset, Close, Configure, SetMaxWindowSize, AddDict, ConfigureRefused,
           ClearDicts, Read, WriteTo
  <2>2. ~ReadDone /\ ~SkipFrame /\ ~ReadHeader /\ vars' # vars
    BY <1>2 DEF ReadDone, SkipFrame, ReadHeader, vars
  <2>3. ~DecodeBlock
    <3>1. ASSUME DecodeBlock
          PROVE  delivered' = delivered
      BY <3>1 DEF DecodeBlock, TakeBlock
    <3> QED
      BY <1>2, <3>1
  <2> QED
    BY <2>1, <2>2, <2>3 DEF Next, Step
<1>4. err = "none" /\ err' = "none" /\ src' = src /\ pos' = pos
  BY <1>3 DEF Drain, IInv, ReaderInv, InCall
<1>5. k <= Upto
  <2>1. Len(delivered') + Unread' = Upto
    BY <1>1, <1>4 DEF Given, Upto
  <2>2. Unread' \in Nat
    <3>1. buf'.lo \in Nat /\ buf'.hi \in Nat
      BY <1>1 DEF TypeOK
    <3> QED
      BY <3>1 DEF Unread, Buffered
  <2> QED
    BY <1>1, <2>1, <2>2
<1>6. src \in Streams /\ pos \in Nat /\ Upto \in Nat /\ pos <= Len(Items) /\ Len(Items) \in Nat
  BY <1>1, Position
<1>7. i \in 1..pos
  <2>1. SUFFICES ASSUME i > pos
                 PROVE  Upto <= Items[i].lo
    <3>1. Items[i].lo \in Nat
      BY <1>6, ItemTypes DEF Items
    <3> QED
      BY <1>5, <1>6, <2>1, <3>1
  <2>2. CASE pos = 0
    <3>1. Items[i].lo \in Nat
      BY <1>6, ItemTypes DEF Items
    <3> QED
      BY <1>6, <2>2, <3>1, ByteCounts DEF Upto
  <2>3. CASE pos # 0
    <3>1. pos \in 1..Len(Items)
      BY <1>6, <2>3
    <3> QED
      BY <1>6, <2>1, <3>1, ByteCounts DEF Upto, Items
  <2> QED
    BY <2>2, <2>3
<1> QED
  BY <1>1, <1>4, <1>7 DEF Checked, BlockSound

(* Read hands out the last block of a frame only after its size and its    *)
(* checksum were found right (nextBlockWithDict in framedec.go, z.buf).    *)
THEOREM ReaderReadAfterChecks == Spec => ReadAfterChecks
<1>1. IInv /\ IInv' /\ [Next]_vars =>
        [pc = "read" =>
           \A k \in Len(delivered) + 1..Len(delivered') :
             \A i \in 1..Len(Items) :
               LET it == Items[i]
               IN  it.kind = "block" /\ it.last /\ it.lo < k /\ k <= it.lo + it.n
                     => SizeMet(src, it) /\ SumMet(src, it)]_vars
  BY DeliveredChecked
<1> QED
  BY <1>1, ReaderHolds, PTL DEF Spec, ReadAfterChecks

-----------------------------------------------------------------------------
(* A whole input is refused only for what the Reader lacks.                *)

(* The digest was given the bytes of the frame.                            *)
LEMMA BlockHashed ==
  ASSUME IInv, Looping, inFrame, ~Exhausted, head.crc, Items[pos + 1].last,
         NEW h, h = EnsureBlock(hist), Reaches(h, Items[pos + 1])
  PROVE  crc \o Decoded(h, Items[pos + 1]) = FrameHashed(Items[pos + 1])
<1> DEFINE it == Items[pos + 1]
           f  == Items[FrameAt]
           d  == Decoded(h, it)
           m  == Len(crc)
           n  == it.n
           u  == Upto
           l  == f.lo
           all == crc \o d
<1>1. err = "none" /\ TypeOK /\ Hashed
  BY AtLoop DEF IInv, ReaderInv
<1>2. /\ it.lo = u /\ n \in Nat /\ HeadOf(src, it) = f /\ l \in Nat /\ u = l + decodedCount
  BY BlockInPlace
<1>3. d \in Seq(Nat) /\ Len(d) = n /\ \A k \in 1..n : d[k] = u + k
  BY BlockDecoded
<1>4. crc \in Seq(Nat) /\ m \in Nat /\ m = decodedCount /\ \A k \in 1..m : crc[k] = l + k
  BY <1>1 DEF Hashed, TypeOK
<1>5. FrameHashed(it) = [k \in 1..FrameBytes(src, it) |-> l + k] /\ FrameBytes(src, it) = u + n - l
  BY <1>2 DEF FrameHashed, FrameBytes
<1> HIDE DEF it, f, d, m, n, u, l
<1>6. FrameHashed(it) = [k \in 1..(m + n) |-> l + k]
  <2>1. u + n - l = m + n
    BY <1>2, <1>4
  <2> QED
    BY <1>5, <2>1
<1>7. /\ all \in Seq(Nat) /\ Len(all) = m + n
      /\ \A k \in 1..(m + n) : all[k] = IF k <= m THEN crc[k] ELSE d[k - m]
  <2>1. /\ all \in Seq(Nat) /\ Len(all) = Len(crc) + Len(d)
        /\ \A k \in 1..(Len(crc) + Len(d)) :
             all[k] = IF k <= Len(crc) THEN crc[k] ELSE d[k - Len(crc)]
    BY <1>3, <1>4, Joined
  <2> QED
    BY <1>3, <2>1 DEF m
<1> HIDE DEF all
<1>8. \A k \in 1..(m + n) : all[k] = l + k
  <2> TAKE k \in 1..(m + n)
  <2>1. CASE k <= m
    <3>1. k \in 1..m
      BY <1>4, <2>1
    <3> QED
      BY <1>4, <1>7, <2>1, <3>1
  <2>2. CASE ~(k <= m)
    <3>1. k - m \in 1..n
      BY <1>2, <1>4, <2>2
    <3>2. all[k] = u + (k - m)
      BY <1>3, <1>7, <2>2, <3>1
    <3> QED
      BY <1>2, <1>4, <3>2
  <2> QED
    BY <2>1, <2>2
<1>9. all = [k \in 1..(m + n) |-> all[k]]
  BY <1>7
<1> QED
  BY <1>6, <1>8, <1>9 DEF all, d, it

(* The buffer reaches as far back as the matches of a block may, so only   *)
(* its dictionary can be missing.                                          *)
LEMMA OnlyDictMissing ==
  ASSUME IInv, Looping, inFrame, ~Exhausted,
         NEW h, h = EnsureBlock(hist), ~Reaches(h, Items[pos + 1])
  PROVE  HeadOf(src, Items[pos + 1]).uses = 0 /\ h.dict # 0
<1> DEFINE it == Items[pos + 1]
           f  == Items[FrameAt]
<1>1. err = "none" /\ TypeOK /\ InPlace /\ WindowHeld /\ hist \in Histories
  BY AtLoop DEF IInv, ReaderInv, TypeOK, Histories
<1>2. /\ it.lo = Upto /\ HeadOf(src, it) = f /\ f.lo \in Nat /\ Upto = f.lo + decodedCount
  BY BlockInPlace
<1>3. hist.window = WindowOf(f)
  BY <1>1 DEF InPlace
<1>4. Len(h.b) >= hist.window \/ Len(h.b) = Len(hist.b)
  BY <1>1, EnsureBlockKeeps
<1>5. /\ Len(h.b) \in Nat /\ Len(hist.b) \in Nat /\ hist.window \in Nat /\ decodedCount \in Nat
  <2>1. h \in Histories
    BY <1>1, EnsureBlockKeeps
  <2>2. h.b \in Seq(Nat) /\ hist.b \in Seq(Nat) /\ hist.window \in Nat
    BY <1>1, <2>1 DEF Histories
  <2> QED
    BY SMTT(40), <1>1, <2>2 DEF TypeOK
<1> HIDE DEF f, it
<1>6. Back(it) = Smaller(hist.window, decodedCount)
  <2>1. it.lo - f.lo = decodedCount
    BY <1>2, <1>5
  <2> QED
    BY <1>2, <1>3, <2>1 DEF Back
<1>7. Len(h.b) >= Smaller(hist.window, decodedCount)
  <2>1. Len(hist.b) >= Smaller(hist.window, decodedCount)
    BY <1>1 DEF WindowHeld
  <2> QED
    BY <1>4, <1>5, <2>1 DEF Smaller
<1>8. Len(h.b) >= Back(it)
  BY <1>6, <1>7
<1> QED
  BY <1>8 DEF Reaches, it

(* A whole input ends behind a frame.                                      *)
LEMMA WholeEnds ==
  ASSUME IInv, Whole(src), Exhausted
  PROVE  ~Inside
<1>1. pos = Len(Items)
  BY DEF Exhausted
<1>2. Items[pos].kind = "skip" \/ (Items[pos].kind = "block" /\ Items[pos].last)
  BY <1>1 DEF Whole, Items
<1> QED
  BY <1>2 DEF Inside

(* frameDec.reset refuses a whole input only for a window or a dictionary. *)
LEMMA HeaderRefused ==
  ASSUME IInv, Whole(src), ReadHeader
  PROVE  err' \notin {"io", "corrupt", "size", "crc"}
<1>1. /\ TypeOK /\ Checked /\ Outside /\ err = "none" /\ Looping /\ ~inFrame
      /\ pc \in {"read", "writeTo"}
  BY AtLoop DEF IInv, ReaderInv, ReadHeader
<1>2. CASE Exhausted /\ NoHeader
  <2>1. pos = Len(Items) /\ ~src.torn /\ src.end = "EOF"
    BY <1>2 DEF Exhausted, Whole
  <2>2. frameSeen
    BY <1>1, <2>1 DEF Checked, Whole, Items
  <2> QED
    BY <1>1, <1>2, <2>1, <2>2 DEF NoHeader, EndOfInput, Fail
<1>3. CASE ~Exhausted /\ Items[pos + 1].kind # "skip" /\ OpenFrame(Items[pos + 1])
  <2> DEFINE h == Items[pos + 1]
  <2>1. /\ src \in Streams /\ pos \in Nat /\ pos + 1 \in 1..Len(Items)
        /\ h.kind \in {"head", "block", "skip", "junk"} /\ (pos + 1) - 1 = pos
    BY <1>1, <1>3, NextItem, Position
  <2>2. h.kind # "junk"
    BY <2>1 DEF Whole, Items
  <2>3. h.kind # "block"
    <3>1. SUFFICES ASSUME h.kind = "block"
                   PROVE  FALSE
      OBVIOUS
    <3>2. /\ pos + 1 > 1
          /\ Items[pos].kind = "head" \/ (Items[pos].kind = "block" /\ ~Items[pos].last)
      BY <2>1, <3>1, BlockTypes DEF Items
    <3>3. Inside
      BY <2>1, <3>2 DEF Inside
    <3> QED
      BY <1>1, <3>3 DEF Outside
  <2>4. h.kind = "head"
    BY <1>3, <2>1, <2>2, <2>3
  <2> QED
    BY <1>1, <1>3, <2>4 DEF OpenFrame, Fail
<1> QED
  BY <1>2, <1>3 DEF ReadHeader

(* A block of a whole input is refused only if its raw dictionary is not   *)
(* there.                                                                  *)
LEMMA BlockRefused ==
  ASSUME IInv, Whole(src), DecodeBlock
  PROVE  \/ err' \in {"none", "sink"}
         \/ /\ err' = "corrupt" /\ pos' = pos + 1 /\ Items[pos + 1].kind = "block"
            /\ HeadOf(src, Items[pos + 1]).uses = 0 /\ hist'.dict # 0
<1> DEFINE h  == EnsureBlock(hist)
           it == Items[pos + 1]
           f  == Items[FrameAt]
           d  == Decoded(h, it)
<1>1. /\ TypeOK /\ InPlace /\ err = "none" /\ Looping /\ inFrame
      /\ pc \in {"read", "writeTo"}
  BY AtLoop DEF IInv, ReaderInv, DecodeBlock
<1>2. ~Exhausted
  BY <1>1, WholeEnds DEF InPlace
<1>3. /\ it.kind = "block" /\ it.lo = Upto /\ it.n \in Nat /\ HeadOf(src, it) = f
      /\ f.lo \in Nat /\ Upto = f.lo + decodedCount
  BY <1>1, <1>2, BlockInPlace
<1>4. /\ head.window = WindowOf(f) /\ head.size = f.size /\ head.crc = f.crc
      /\ head.window \in Nat /\ decodedCount \in Nat /\ MaxCompressed \in Nat
  BY <1>1, ReaderAssumption DEF InPlace, TypeOK
<1>5. BlockSound(src, it)
  BY <1>1, <1>2, <1>3, NextItem DEF Whole, Items
<1>6. ~Refused(it)
  <2>1. it.ok /\ it.n <= Smaller(head.window, MaxCompressed)
    BY <1>3, <1>4, <1>5 DEF BlockSound
  <2> HIDE DEF it
  <2> QED
    BY <1>3, <1>4, <2>1 DEF Refused, Smaller
<1>7. CASE ~Reaches(h, it)
  <2>1. f.uses = 0 /\ h.dict # 0
    BY <1>1, <1>2, <1>3, <1>7, OnlyDictMissing
  <2>2. hist' = h /\ Fail("corrupt") /\ pos' = pos + 1
    BY <1>2, <1>7 DEF DecodeBlock
  <2> QED
    BY <1>3, <2>1, <2>2 DEF Fail
<1>8. CASE Reaches(h, it)
  <2> DEFINE n == decodedCount + Len(d)
             hashed == IF head.crc THEN crc \o d ELSE crc
  <2>1. Len(d) = it.n
    BY <1>1, <1>2, <1>8, BlockDecoded
  <2>2. it.last => ~SizeFails(n)
    <3>1. SUFFICES ASSUME it.last
                   PROVE  ~SizeFails(n)
      OBVIOUS
    <3>2. FrameBytes(src, it) = n
      <4>1. it.lo + it.n - f.lo = decodedCount + it.n
        <5> DEFINE l == it.lo
                   m == it.n
                   g == f.lo
        <5>1. l = g + decodedCount /\ g \in Nat /\ m \in Nat
          BY <1>3
        <5> HIDE DEF l, m, g
        <5>2. l + m - g = decodedCount + m
          BY <1>4, <5>1
        <5> QED
          BY <5>2 DEF l, m, g
      <4> QED
        BY <1>3, <2>1, <4>1 DEF FrameBytes
    <3>3. head.size \in {-1, n}
      BY <1>3, <1>4, <1>5, <3>1, <3>2 DEF BlockSound, SizeMet
    <3> HIDE DEF n
    <3> QED
      BY <3>3 DEF SizeFails
  <2>3. it.last => ~SumFails(it, hashed)
    <3>1. SUFFICES ASSUME it.last, head.crc
                   PROVE  it.sum /\ hashed = FrameHashed(it)
      BY DEF SumFails
    <3>2. it.sum
      BY <1>3, <1>4, <1>5, <3>1 DEF BlockSound, SumMet
    <3>3. hashed = FrameHashed(it)
      BY <1>1, <1>2, <1>8, <3>1, BlockHashed
    <3> QED
      BY <3>2, <3>3
  <2>4. TakeBlock(h, it)
    BY <1>2, <1>6, <1>8 DEF DecodeBlock
  <2>5. LastChecks(it, n, hashed) \/ Fail("sink")
    BY <2>4 DEF TakeBlock
  <2> HIDE DEF it, n, hashed
  <2> QED
    BY <1>1, <2>2, <2>3, <2>5 DEF LastChecks, Fail
<1> QED
  BY <1>7, <1>8

(* A whole input is refused for nothing else, whatever the calls.          *)
LEMMA RefusedStep ==
  ASSUME IInv, IInv', RefusedForCause, [Next]_vars
  PROVE  RefusedForCause'
<1>1. CASE OtherInput
  BY <1>1 DEF OtherInput, RefusedForCause
<1>2. CASE SameInput /\ err # "none"
  <2>1. src' = src /\ pos' = pos /\ err' \in {err, "closed"}
    BY <1>2 DEF SameInput
  <2>2. Items' = Items
    BY <2>1 DEF Items
  <2>3. CASE err' = "closed"
    BY <2>3 DEF RefusedForCause
  <2>4. CASE err' # "closed"
    <3>1. ~Looping /\ pc = "idle"
      BY <1>2 DEF IInv, ReaderInv, InCall, Looping
    <3>2. ~ReadDone /\ ~Drain /\ ~SkipFrame /\ ~ReadHeader /\ ~DecodeBlock /\ ~Close
      BY <2>4, <3>1 DEF ReadDone, Drain, SkipFrame, ReadHeader, DecodeBlock, Close
    <3>3. hist' = hist \/ \E s \in Streams : Reset(s)
      BY <3>2
      DEF Next, Call, Step, vars, frame, SetMaxWindowSize, AddDict, ConfigureRefused,
          ClearDicts, Configure, Read, WriteTo
    <3>4. CASE hist' = hist
      BY <2>1, <2>2, <2>4, <3>4 DEF RefusedForCause
    <3>5. CASE \E s \in Streams : Reset(s)
      BY <3>5 DEF Reset, RefusedForCause
    <3> QED
      BY <3>3, <3>4, <3>5
  <2> QED
    BY <2>3, <2>4
<1>3. CASE SameInput /\ err = "none"
  <2>1. src' = src /\ Items' = Items
    BY <1>3 DEF SameInput, Items
  <2>2. SUFFICES ASSUME Whole(src)
                 PROVE  /\ err' \notin {"io", "size", "crc"}
                        /\ err' = "corrupt" => /\ pos' > 0 /\ Items[pos'].kind = "block"
                                               /\ HeadOf(src, Items[pos']).uses = 0
                                               /\ hist'.dict # 0
    BY <2>1 DEF RefusedForCause
  <2>3. CASE ReadHeader
    BY <2>2, <2>3, HeaderRefused
  <2>4. CASE DecodeBlock
    <3>1. pos \in Nat
      BY Position DEF IInv
    <3> QED
      BY <2>2, <2>4, <3>1, BlockRefused
  <2>5. CASE ~ReadHeader /\ ~DecodeBlock
    <3>1. err' \in {"none", "sink", "closed"}
      BY <1>3, <2>5
      DEF Next, Call, Step, vars, SetMaxWindowSize, AddDict, ConfigureRefused,
          ClearDicts, Configure, Read, WriteTo, Reset, Close, ReadDone, Drain, SkipFrame
    <3> QED
      BY <3>1
  <2> QED
    BY <2>3, <2>4, <2>5
<1> QED
  BY <1>1, <1>2, <1>3, StepShape

(* A whole input, of any length and with any windows up to the limit, is   *)
(* refused only for a window above the limit or a dictionary that is not   *)
(* there: the buffer reaches far enough back, and size and checksum fit.   *)
THEOREM ReaderRefusedForCause == Spec => []RefusedForCause
<1>1. Init => RefusedForCause
  BY DEF Init, RefusedForCause
<1>2. IInv /\ IInv' /\ RefusedForCause /\ [Next]_vars => RefusedForCause'
  BY RefusedStep
<1> QED
  BY <1>1, <1>2, ReaderHolds, PTL DEF Spec

-----------------------------------------------------------------------------
(***************************************************************************)
(* The size of the buffer.  The window of the frame being decoded was      *)
(* checked against a limit that was in force when its header was read, and *)
(* allocFrameBuffer was set from that window.                              *)
(***************************************************************************)
Ceilings == Limits \cup {DefaultLimit}
AllocFor(w) == IF w < MaxBlockSize THEN 2 * w ELSE w + MaxBlockSize \div 2
Within(c, most) ==
  \/ c <= 2 * Smaller(most, MaxBlockSize - 1)
  \/ c <= most + Larger(MaxBlockSize \div 2, MaxCompressed)

WindowAllowed ==
  err = "none" /\ inFrame =>
    /\ hist.alloc = AllocFor(hist.window)
    /\ \E most \in Ceilings : hist.window <= most

(* The numbers the bound is made of. *)
LEMMA CeilingTypes ==
  /\ Ceilings \subseteq Nat /\ DefaultLimit \in Ceilings
  /\ MaxCompressed \in Nat \ {0} /\ MaxBlockSize \in Nat /\ MaxBlockSize \div 2 \in Nat
  /\ Larger(MaxBlockSize \div 2, MaxCompressed) \in Nat
  /\ Larger(MaxBlockSize \div 2, MaxCompressed) >= MaxCompressed
  /\ Larger(MaxBlockSize \div 2, MaxCompressed) >= MaxBlockSize \div 2
BY ReaderAssumption DEF Ceilings, Larger

(* ensureBlock makes the array at most as large as the window asks for. *)
LEMMA GrownWithin ==
  ASSUME NEW h \in Histories, NEW most \in Nat, h.window <= most, h.alloc = AllocFor(h.window)
  PROVE  /\ EnsureBlock(h).window = h.window /\ EnsureBlock(h).alloc = h.alloc
         /\ EnsureBlock(h).cap = h.cap \/ Within(EnsureBlock(h).cap, most)
<1> DEFINE t == Trim(h)
           g == [t EXCEPT !.cap = Grown(t)]
           room == Larger(MaxBlockSize \div 2, MaxCompressed)
<1>1. /\ t \in Histories /\ t.window = h.window /\ t.cap = h.cap /\ t.alloc = h.alloc
  BY TrimKeeps
<1>2. /\ h.b \in Seq(Nat) /\ Len(h.b) \in Nat /\ h.window \in Nat /\ h.cap \in Nat
      /\ t.b \in Seq(Nat) /\ Len(t.b) \in Nat /\ h.alloc \in Nat
  BY <1>1 DEF Histories
<1>3. Len(t.b) <= h.window
  <2>1. CASE Len(h.b) > h.window
    <3>1. t.b = SubSeq(h.b, Len(h.b) - h.window + 1, Len(h.b))
      BY <2>1 DEF Trim, LastWindow, Histories
    <3> DEFINE lost == Len(h.b) - h.window
    <3>2. lost \in Nat /\ lost <= Len(h.b) /\ Len(h.b) - lost = h.window
      BY <1>2, <2>1
    <3> HIDE DEF lost
    <3>3. Len(SubSeq(h.b, lost + 1, Len(h.b))) = Len(h.b) - lost
      BY <1>2, <3>2
    <3> QED
      BY <1>2, <3>1, <3>2, <3>3 DEF lost
  <2>2. CASE ~(Len(h.b) > h.window)
    BY <1>2, <2>2 DEF Trim
  <2> QED
    BY <2>1, <2>2
<1>4. EnsureBlock(h) \in {h, t, g}
  BY DEF EnsureBlock
<1> HIDE DEF t
<1>5. g.window = h.window /\ g.alloc = h.alloc /\ g.cap = Grown(t)
  BY <1>1 DEF Histories
<1>6. \/ Grown(t) = Len(t.b) + MaxCompressed
      \/ Grown(t) <= h.alloc
  <2>1. t.cap \in Nat /\ t.alloc = h.alloc /\ t.alloc \in Nat
    BY <1>1, <1>2
  <2> QED
    BY SMTT(30), <1>2, <2>1, CeilingTypes DEF Grown, Larger, Smaller
<1>7. Grown(t) \in Int
  <2>1. t.cap \in Nat /\ t.alloc \in Nat
    BY <1>1, <1>2
  <2> QED
    BY <1>2, <2>1, CeilingTypes DEF Grown, Larger, Smaller
<1>8. Within(Grown(t), most)
  <2>1. CASE Grown(t) = Len(t.b) + MaxCompressed
    <3>1. Grown(t) <= most + room
      BY <1>2, <1>3, <2>1, CeilingTypes
    <3> QED
      BY <3>1 DEF Within
  <2>2. CASE Grown(t) <= h.alloc /\ h.window < MaxBlockSize
    <3>1. h.window <= Smaller(most, MaxBlockSize - 1) /\ h.alloc = 2 * h.window
      BY <1>2, <2>2, CeilingTypes DEF Smaller, AllocFor
    <3>2. Smaller(most, MaxBlockSize - 1) \in Int
      BY CeilingTypes DEF Smaller
    <3>3. Grown(t) <= 2 * Smaller(most, MaxBlockSize - 1)
      BY <1>2, <1>7, <2>2, <3>1, <3>2
    <3> QED
      BY <3>3 DEF Within
  <2>3. CASE Grown(t) <= h.alloc /\ ~(h.window < MaxBlockSize)
    <3>1. h.alloc = h.window + MaxBlockSize \div 2
      BY <2>3 DEF AllocFor
    <3>2. Grown(t) <= most + room
      BY <1>2, <1>7, <2>3, <3>1, CeilingTypes
    <3> QED
      BY <3>2 DEF Within
  <2> QED
    BY <1>6, <2>1, <2>2, <2>3
<1> QED
  BY <1>1, <1>4, <1>5, <1>8

(* A step that reads no header and no block, and resets nothing. *)
LEMMA SizeKept ==
  ASSUME maxWindow \in Ceilings, WindowAllowed, Bounded,
         hist' = hist, maxWindow' \in {maxWindow} \cup Ceilings,
         err' = "none" /\ inFrame' => err = "none" /\ inFrame
  PROVE  maxWindow' \in Ceilings /\ WindowAllowed' /\ Bounded'
BY DEF WindowAllowed, Bounded

(* What a pool or an earlier use leaves is small. *)
LEMMA LeftoversWithin ==
  ASSUME NEW h \in Leftovers
  PROVE  Within(h.cap, DefaultLimit)
<1>1. h.cap \in {0, MaxCompressed}
  BY DEF Leftovers, NoHist
<1>2. h.cap <= DefaultLimit + Larger(MaxBlockSize \div 2, MaxCompressed)
  BY <1>1, CeilingTypes
<1> QED
  BY <1>2 DEF Within

(* Bounded, by the names used here. *)
LEMMA BoundedWithin == Bounded <=> \E most \in Ceilings : Within(hist.cap, most)
BY DEF Bounded, Ceilings, Within

(* Every step keeps the buffer within the bound. *)
LEMMA BoundedStep ==
  ASSUME IInv, maxWindow \in Ceilings, WindowAllowed, Bounded, [Next]_vars
  PROVE  maxWindow' \in Ceilings /\ WindowAllowed' /\ Bounded'
<1>1. TypeOK /\ InCall /\ hist \in Histories
  BY DEF IInv, ReaderInv, TypeOK, Histories
<1>2. CASE \/ UNCHANGED vars \/ ReadDone \/ Drain \/ SkipFrame \/ WriteTo
           \/ \E n \in 0..MaxRead : Read(n)
  <2>1. /\ hist' = hist /\ maxWindow' \in {maxWindow} \cup Ceilings
        /\ err' = "none" /\ inFrame' => err = "none" /\ inFrame
    BY <1>2, CeilingTypes
       DEF vars, frame, place, ReadDone, Drain, SkipFrame, WriteTo, Read, EnsureInit, Usable
  <2> QED
    BY <2>1, SizeKept
<1>3. CASE \/ \E n \in Limits : SetMaxWindowSize(n)
           \/ \E d \in DictIds : AddDict(d)
           \/ ConfigureRefused \/ ClearDicts
  <2>1. /\ hist' = hist /\ maxWindow' \in {maxWindow} \cup Ceilings
        /\ err' = "none" /\ inFrame' => err = "none" /\ inFrame
    BY <1>3, CeilingTypes
       DEF SetMaxWindowSize, AddDict, ConfigureRefused, ClearDicts, Configure, EnsureInit,
           place, Ceilings
  <2> QED
    BY <2>1, SizeKept
<1>4. CASE \E s \in Streams : Reset(s)
  <2>1. hist' = HistoryReset(hist) /\ ~inFrame' /\ maxWindow' \in Ceilings
    BY <1>4, CeilingTypes DEF Reset, EnsureInit
  <2>2. hist'.cap = hist.cap
    BY <1>1, <2>1 DEF HistoryReset, Histories
  <2> QED
    BY <2>1, <2>2 DEF WindowAllowed, Bounded
<1>5. CASE Close
  <2>1. hist' \in Leftovers /\ err' = "closed" /\ maxWindow' \in Ceilings
    BY <1>5, CeilingTypes DEF Close
  <2>2. Within(hist'.cap, DefaultLimit)
    BY <2>1, LeftoversWithin
  <2> QED
    BY <2>1, <2>2, CeilingTypes DEF WindowAllowed, Bounded, Within, Ceilings
<1>6. CASE ReadHeader
  <2>1. maxWindow' = maxWindow /\ err = "none"
    BY <1>1, <1>6 DEF ReadHeader, InCall, Looping
  <2>2. CASE hist' = hist /\ inFrame' = inFrame
    BY <2>1, <2>2, SizeKept
  <2>3. CASE ~Exhausted /\ (hist' # hist \/ inFrame' # inFrame)
    <3> DEFINE h == Items[pos + 1]
               w == WindowOf(h)
               fresh == HistoryReset(HistoryFor(hist, w))
    <3>1. ~Exhausted /\ OpenFrame(h)
      BY <1>6, <2>3 DEF ReadHeader, place
    <3>2. /\ ~(w > maxWindow)
          /\ \/ hist' = fresh
             \/ hist' = [fresh EXCEPT !.dict = DictFor(h, @)]
      BY <2>3, <3>1 DEF OpenFrame, place
    <3>3. w \in Nat
      <4>1. h.kind = "head"
        BY <2>3, <3>1 DEF OpenFrame, place
      <4>2. pos + 1 \in 1..Len(Items)
        BY <1>1, <3>1, NextItem
      <4>3. src \in Streams /\ src.items[pos + 1].kind = "head"
        BY <1>1, <4>1 DEF TypeOK, Items
      <4>4. pos + 1 \in 1..Len(src.items)
        BY <4>2 DEF Items
      <4>5. WindowOf(src.items[pos + 1]) \in Nat
        BY <4>3, <4>4, HeadTypes
      <4> QED
        BY <4>5 DEF Items
    <3> HIDE DEF w
    <3>4. /\ fresh.window = w /\ fresh.alloc = AllocFor(w) /\ fresh.cap = hist.cap
          /\ fresh = [hist EXCEPT !.window = w, !.alloc = AllocFor(w), !.b = << >>, !.dict = NoDict]
      BY <1>1 DEF HistoryReset, HistoryFor, Histories, AllocFor
    <3>5. hist'.window = w /\ hist'.alloc = AllocFor(w) /\ hist'.cap = hist.cap
      BY <1>1, <3>2, <3>4 DEF Histories
    <3>6. w <= maxWindow
      BY <1>1, <3>2, <3>3, SMTT(30) DEF TypeOK
    <3> QED
      BY <2>1, <3>5, <3>6 DEF WindowAllowed, Bounded
  <2>4. Exhausted => hist' = hist /\ inFrame' = inFrame
    BY <1>6 DEF ReadHeader, place
  <2> QED
    BY <2>2, <2>3, <2>4
<1>7. CASE DecodeBlock
  <2> DEFINE h == EnsureBlock(hist)
  <2>1. /\ maxWindow' = maxWindow /\ err = "none" /\ inFrame
    BY <1>1, <1>7 DEF DecodeBlock, InCall, Looping
  <2>2. PICK most \in Ceilings : hist.window <= most
    BY <2>1 DEF WindowAllowed
  <2>3. hist.alloc = AllocFor(hist.window) /\ most \in Nat
    BY <2>1, CeilingTypes DEF WindowAllowed
  <2>4. /\ h.window = hist.window /\ h.alloc = hist.alloc
        /\ h.cap = hist.cap \/ Within(h.cap, most)
    BY <1>1, <2>2, <2>3, GrownWithin
  <2>5. hist'.cap = h.cap /\ hist'.window = h.window /\ hist'.alloc = h.alloc
    <3>1. CASE hist' = h
      BY <3>1
    <3>2. CASE hist' # h
      <4> DEFINE it == Items[pos + 1]
      <4>1. pos' = pos + 1 /\ hist' = AppendKeep(h, Decoded(h, it))
        BY <1>7, <3>2 DEF DecodeBlock, TakeBlock
      <4>2. hist'.cap = h.cap
        BY <2>1, <4>1, FitsStep
      <4>3. h \in Histories
        BY <1>1, EnsureBlockKeeps
      <4> HIDE DEF h
      <4>4. hist'.window = h.window /\ hist'.alloc = h.alloc
        BY <4>1, <4>3 DEF AppendKeep, Histories
      <4> QED
        BY <4>2, <4>4
    <3> QED
      BY <3>1, <3>2
  <2>6. WindowAllowed'
    BY <2>2, <2>3, <2>4, <2>5 DEF WindowAllowed
  <2>7. \E m \in Ceilings : Within(hist'.cap, m)
    BY <2>2, <2>4, <2>5, BoundedWithin
  <2>8. Bounded'
    BY <2>7 DEF Bounded, Within, Ceilings
  <2> QED
    BY <2>1, <2>6, <2>8
<1> QED
  BY <1>2, <1>3, <1>4, <1>5, <1>6, <1>7 DEF Next, Call, Step

(***************************************************************************)
(* The buffer never becomes larger than one window up to some limit that   *)
(* was set asks for, for inputs of any length and with any windows.        *)
(***************************************************************************)
THEOREM ReaderBounded == Spec => []Bounded
<1> DEFINE Sized == maxWindow \in Ceilings /\ WindowAllowed /\ Bounded
<1>1. Init => Sized
  <2> SUFFICES ASSUME Init PROVE Sized
    OBVIOUS
  <2>1. Within(hist.cap, DefaultLimit) /\ maxWindow \in Ceilings /\ ~inFrame
    BY LeftoversWithin, CeilingTypes DEF Init
  <2> QED
    BY <2>1, CeilingTypes, BoundedWithin DEF WindowAllowed
<1>2. IInv /\ Sized /\ [Next]_vars => Sized'
  BY BoundedStep
<1>3. Sized => Bounded
  OBVIOUS
<1> QED
  BY <1>1, <1>2, <1>3, ReaderHolds, PTL DEF Spec
=============================================================================
