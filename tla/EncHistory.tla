------------------------------ MODULE EncHistory ------------------------------
(***************************************************************************)
(* The history of the match finders (encoder.go encBase, enc_fast.go,      *)
(* enc_dfast.go, enc_better.go, enc_best.go): the buffer of past bytes,    *)
(* the hash tables of absolute offsets into it, and cur, the int32 that    *)
(* turns a position of the buffer into such an offset.                     *)
(*                                                                         *)
(* Tables are never cleared between streams.  A stale entry is harmless    *)
(* only because cur moves on far enough that it falls out of the window,   *)
(* and cur, which only grows, is brought back before int32 overflows.  An  *)
(* encoder comes from a pool that writers with other windows share.        *)
(*                                                                         *)
(* Bytes are positions here.  An entry carries, beside the offset the code *)
(* stores, the buffer position the bytes it was made from have now (at),   *)
(* or Gone when they left the buffer: the code assumes, without looking,   *)
(* that an accepted entry still points at them.                            *)
(***************************************************************************)
EXTENDS Integers

CONSTANTS
  IntMax,       (* math.MaxInt32                                           *)
  MaxBlock,     (* maxCompressedBlockSize                                  *)
  MinAlloc,     (* the 1 << 20 of ensureHist                               *)
  Windows,      (* windows of the writers that share the pool              *)
  Dicts,        (* content lengths of their dictionaries; 0 for none       *)
  Family,       (* the match finder: "fast" (and double fast), "better",   *)
                (* "best"                                                  *)
  Slots         (* slots of the hash tables                                *)

ASSUME HistoryAssumption ==
  /\ IntMax \in Nat /\ MaxBlock \in Nat \ {0} /\ MinAlloc \in Nat
  /\ Windows \subseteq Nat \ {0}
  /\ \A m \in Windows : 2 * m <= IntMax /\ m + MaxBlock <= IntMax
  /\ Dicts \subseteq Nat /\ 0 \in Dicts
  /\ Family \in {"fast", "better", "best"}

VARIABLES
  cur, maxMatchOff, lowMem,  (* of encBase; bufferReset follows maxMatchOff *)
  hist, room,                (* len(e.hist) and cap(e.hist)                 *)
  table,                     (* the hash tables                             *)
  mode,                      (* what the encoder is being used for          *)
  s, end                     (* the search: next position, end of the data  *)

vars == << cur, maxMatchOff, lowMem, hist, room, table, mode, s, end >>

Gone  == -1
Entry == [off : -(IntMax + 1)..IntMax, at : {Gone} \cup Nat]
Zero  == [off |-> 0, at |-> Gone]           \* a slot nobody wrote
Modes == {"pooled", "configured", "fresh", "open", "search", "searchAlone", "done", "panic"}

(* The sum of two int32 values. *)
Int32(n) ==
  IF n > IntMax THEN n - 2 * (IntMax + 1)
  ELSE IF n < -(IntMax + 1) THEN n + 2 * (IntMax + 1)
  ELSE n

bufferReset == IntMax - 2 * maxMatchOff

-----------------------------------------------------------------------------
(* ensureHist(n): the capacity after it; a buffer that is large enough stays. *)
Larger(a, b) == IF a >= b THEN a ELSE b
AllocSize(low, n) ==
  LET tail  == IF low \/ maxMatchOff <= MaxBlock THEN MaxBlock ELSE maxMatchOff
      least == IF low THEN 0 ELSE MinAlloc
  IN  Larger(maxMatchOff + tail, Larger(least, n))
EnsureHistOf(have, low, n) == IF have >= n THEN have ELSE AllocSize(low, n)

(* A table after the bytes of all its entries, or of the oldest n positions, *)
(* left the buffer: the offsets stay what they are.                          *)
Cleared     == [h \in Slots |-> [offset |-> Zero, prev |-> Zero]]
Forget(e)   == [off |-> e.off, at |-> Gone]
Forgotten   == [h \in Slots |-> [offset |-> Forget(table[h].offset), prev |-> Forget(table[h].prev)]]
Slide(e, n) == [off |-> e.off, at |-> IF e.at < n THEN Gone ELSE e.at - n]
Slid(t, n)  == [h \in Slots |-> [offset |-> Slide(t[h].offset, n), prev |-> Slide(t[h].prev, n)]]

(* Where the code believes the bytes of an entry are. *)
Target(e)   == Int32(e.off - cur)

(* The test a candidate must pass for a lookup at position q. *)
Accepted(e, q) ==
  LET delta == Int32(q - Target(e))
  IN  delta < maxMatchOff /\ (Family = "best" => delta > 0)

-----------------------------------------------------------------------------
Init ==
  /\ cur = 0 /\ maxMatchOff \in Windows /\ lowMem \in BOOLEAN
  /\ hist = 0 /\ room = 0 /\ table = Cleared
  /\ mode = "pooled" /\ s = 0 /\ end = 0

(* newEncoder and configure: the next writer takes the encoder. *)
Configure(n, low) ==
  /\ mode = "pooled"
  /\ maxMatchOff' = n /\ lowMem' = low
  /\ mode' = "configured"
  /\ UNCHANGED << cur, hist, room, table, s, end >>

(* putEncoder: Close, Reset or the end of AppendCompress. *)
Put ==
  /\ mode \in {"fresh", "open", "done"}
  /\ mode' = "pooled" /\ s' = 0 /\ end' = 0
  /\ UNCHANGED << cur, maxMatchOff, lowMem, hist, room, table >>

(***************************************************************************)
(* reset(d, singleBlock), d being the content length of the dictionary.    *)
(* cur leaps over the old history and one window; a cur above the reset    *)
(* line waits for the purge in encode instead.  A dictionary clears the    *)
(* tables, starts cur at one window and indexes positions of its content.  *)
(***************************************************************************)
BumpedByWindow == IF cur < bufferReset THEN Int32(cur + maxMatchOff) ELSE cur \* mutant
Bumped == IF cur < bufferReset THEN Int32(cur + maxMatchOff + hist) ELSE cur

DictEntries(d) == {Zero} \cup {[off |-> Int32(maxMatchOff + i), at |-> i] : i \in 0..(d - 1)}
DictSlots(d) ==
  {x \in [offset : DictEntries(d), prev : DictEntries(d)] :
     x.prev = Zero \/ (Family # "fast" /\ x.prev.off < x.offset.off)}

ResetRoomKept(d, single) ==                                          \* mutant
  IF room = 0 THEN maxMatchOff + d + MaxBlock ELSE room
ResetRoom(d, single) ==
  LET window == EnsureHistOf(room, lowMem, maxMatchOff + MaxBlock)
  IN  IF d = 0 THEN window ELSE EnsureHistOf(window, lowMem \/ single, d + MaxBlock)

Reset(d, single) ==
  /\ mode \in {"configured", "fresh"}
  /\ room' = ResetRoom(d, single) /\ hist' = d
  /\ mode' = "fresh" /\ s' = d /\ end' = d
  /\ \/ /\ d = 0
        /\ cur' = Bumped /\ table' = Forgotten
     \/ /\ d > 0
        /\ cur' = maxMatchOff
        /\ table' \in [Slots -> DictSlots(d)]
  /\ UNCHANGED << maxMatchOff, lowMem >>

(***************************************************************************)
(* "Protect against e.cur wraparound": the tables are cleared, or with a   *)
(* history in the buffer shifted down, entries out of the window to zero.  *)
(***************************************************************************)
AtLimitLate == cur >= IntMax - hist                                  \* mutant
AtLimit == cur >= bufferReset - hist

minOffNoWindow == Int32(cur + hist)                                 \* mutant
minOff == Int32(Int32(cur + hist) - maxMatchOff)

Rebase(e) ==
  IF e.off < minOff THEN Zero
  ELSE [off |-> Int32(Int32(e.off - cur) + maxMatchOff), at |-> e.at]
Rebased ==
  [h \in Slots |->
     [ offset |-> Rebase(table[h].offset),
       prev   |-> IF table[h].offset.off < minOff THEN Zero ELSE Rebase(table[h].prev) ]]

ProtectedCur   == IF AtLimit THEN maxMatchOff ELSE cur
ProtectedTable == IF ~AtLimit THEN table ELSE IF hist = 0 THEN Cleared ELSE Rebased

(***************************************************************************)
(* addBlock: the block is appended; a full buffer first slides so that it  *)
(* keeps one window.  "search" is the search of the block that follows;    *)
(* blocks that are tiny or of one byte value are not searched.             *)
(***************************************************************************)
SlidBy == hist - maxMatchOff

TooSmall == room' < maxMatchOff + MaxBlock \/ SlidBy < 0

AppendBlock(n) ==
  /\ IF hist + n <= room'
       THEN /\ cur' = ProtectedCur /\ table' = ProtectedTable
            /\ hist' = hist + n
       ELSE /\ cur' = Int32(ProtectedCur + SlidBy)
            /\ table' = Slid(ProtectedTable, SlidBy)
            /\ hist' = maxMatchOff + n
  /\ mode' = IF hist + n > room' /\ TooSmall THEN "panic" ELSE "search"
  /\ end' = hist' /\ s' \in {hist' - n, hist'}
  /\ UNCHANGED << maxMatchOff, lowMem >>

(* encode of a block of n bytes; blocks never exceed the window. *)
Encode(n) ==
  /\ mode \in {"fresh", "open"}
  /\ n <= maxMatchOff
  /\ room' = room
  /\ AppendBlock(n)

(* encodeNoHist, the only block of a frame without dictionary: fast and     *)
(* double fast search the block where it is, and return at once on a tiny   *)
(* one.                                                                     *)
EncodeNoHist(n) ==
  /\ mode = "fresh" /\ hist = 0 /\ n <= maxMatchOff
  /\ \/ /\ Family = "fast"
        /\ IF cur >= bufferReset THEN cur' = maxMatchOff /\ table' = Cleared
                                 ELSE UNCHANGED << cur, table >>
        /\ \/ mode' = "searchAlone" /\ end' = n
           \/ mode' = "done" /\ end' = 0
        /\ UNCHANGED << maxMatchOff, lowMem, hist, room, s >>
     \/ /\ Family # "fast"
        /\ room' = EnsureHistOf(room, lowMem, n)
        /\ AppendBlock(n)

-----------------------------------------------------------------------------
(***************************************************************************)
(* One turn of the search: the entries of some slots were looked up at s,  *)
(* s is indexed in them (better and best keep the entry before; the slots  *)
(* of the others have no prev, it stays zero), and the search moves on.    *)
(*  The positions a match covers are indexed too.         *)
(***************************************************************************)
Indexed(h) ==
  [ offset |-> [off |-> Int32(s + cur), at |-> s],
    prev   |-> IF Family = "fast" THEN table[h].prev ELSE table[h].offset ]

Probe ==
  /\ mode \in {"search", "searchAlone"} /\ s < end
  /\ \E written \in SUBSET Slots :
       table' = [h \in Slots |-> IF h \in written THEN Indexed(h) ELSE table[h]]
  /\ s' = s + 1
  /\ UNCHANGED << cur, maxMatchOff, lowMem, hist, room, mode, end >>

(* The end of encode. *)
EndBlock ==
  /\ mode = "search" /\ s = end
  /\ mode' = "open"
  /\ UNCHANGED << cur, maxMatchOff, lowMem, hist, room, table, s, end >>

(* The end of encodeNoHist: cur leaps over the block. *)
NoLeap == cur                                                        \* mutant
LeapAlone == IF cur < bufferReset THEN Int32(cur + end) ELSE cur
EndAlone ==
  /\ mode = "searchAlone" /\ s = end
  /\ cur' = LeapAlone
  /\ table' = Forgotten
  /\ mode' = "done" /\ s' = 0 /\ end' = 0
  /\ UNCHANGED << maxMatchOff, lowMem, hist, room >>

Next ==
  \/ \E n \in Windows, low \in BOOLEAN : Configure(n, low)
  \/ Put
  \/ \E d \in Dicts, single \in BOOLEAN : Reset(d, single)
  \/ \E n \in 1..MaxBlock : Encode(n) \/ EncodeNoHist(n)
  \/ Probe \/ EndBlock \/ EndAlone

Spec == Init /\ [][Next]_vars

-----------------------------------------------------------------------------
(* The types of the state. *)
TypeOK ==
  /\ cur \in -(IntMax + 1)..IntMax /\ maxMatchOff \in Windows /\ lowMem \in BOOLEAN
  /\ room \in Nat /\ hist \in 0..room
  /\ table \in [Slots -> [offset : Entry, prev : Entry]]
  /\ mode \in Modes
  /\ end \in Nat /\ s \in 0..end

Entries == UNION {{table[h].offset, table[h].prev} : h \in Slots}

(* An accepted candidate points, before the position searched, at the bytes  *)
(* it was indexed for: encode extends the match from there without looking   *)
(* at those bytes again, so a stale one is corrupt output or a panic.        *)
CandidatesSound ==
  mode \in {"search", "searchAlone"} /\ s < end =>
    \A e \in Entries : Accepted(e, s) => e.at \in 0..(s - 1) /\ Target(e) = e.at

(* "Offset current position so everything will be out of reach. If above     *)
(* reset line, history will be purged." (resetBase): below the line, no      *)
(* entry is a candidate for any position of the first block.                 *)
OutOfReach ==
  mode = "fresh" /\ hist = 0 /\ cur < bufferReset =>
    \A e \in Entries, q \in 0..(MaxBlock - 1) : ~Accepted(e, q)

(* "Protect against e.cur wraparound" (encode): cur plus any position of the *)
(* buffer is an int32, in every call of a sequence of streams.               *)
PositionsFit == cur >= 0 /\ cur + hist <= IntMax /\ cur + end <= IntMax

(* addBlock never meets a buffer too small for the window, whatever windows  *)
(* and dictionaries the pooled encoder served before.                        *)
NoPanic == mode # "panic"

(* Rebasing and sliding lose nothing that is within the window: its entries  *)
(* still point at their bytes.                                               *)
WindowKept ==
  [][ mode' = "search" /\ mode # "search" =>
        \A h \in Slots, f \in {"offset", "prev"} :
          table[h][f].at # Gone /\ hist - table[h][f].at < maxMatchOff
            => LET e == table'[h][f] IN e.at # Gone /\ e.off - cur' = e.at ]_vars

-----------------------------------------------------------------------------
(* What the design needs of the windows that meet in a pool: none is more    *)
(* than half again as large as another, and none comes near a quarter of     *)
(* IntMax.  So it is for the windows of all SetLevel choices of one pool.    *)
CloseWindows ==
  \A m, n \in Windows :
    /\ 3 * n >= 2 * m /\ n + MaxBlock <= 2 * m + 1
    /\ m + n + MinAlloc + MaxBlock <= IntMax
    /\ \A w \in Windows : m + n + Larger(2 * w, w + MaxBlock) + MaxBlock <= IntMax
    /\ \A d \in Dicts : m + n + (d + MaxBlock) + MaxBlock <= IntMax

(* Why it works then: a stale entry is a window or more behind s, unless the *)
(* next encode purges them all.  A cur above the reset line of one window    *)
(* stays there, or is lifted above the line of the next writer's window by   *)
(* its reset.                                                                *)
PurgePending ==
  hist = 0 /\ IF mode = "fresh" THEN cur >= bufferReset
              ELSE \A n \in Windows : cur + 3 * n >= IntMax
Aimed(e) ==
  IF e.at = Gone THEN e.off - cur <= s - maxMatchOff ELSE e.off - cur = e.at /\ e.at < s

Reach ==
  /\ mode \in {"pooled", "configured", "done"} =>
       PurgePending \/ \A e \in Entries : e.off - cur <= hist
  /\ mode = "fresh" => /\ PurgePending \/ \A e \in Entries : Aimed(e)
                       /\ \A e \in Entries : e.at < hist
  /\ mode \in {"open", "search", "searchAlone"} => \A e \in Entries : Aimed(e)

Fits ==
  /\ PositionsFit
  /\ \A e \in Entries : e.off >= 0
  /\ \A n \in Windows : cur < IntMax - 2 * n => cur + hist + n <= IntMax
  /\ mode = "searchAlone" => cur < bufferReset

Buffer ==
  /\ \A m, n \in Windows : m + n + room + MaxBlock <= IntMax
  /\ mode \in {"fresh", "open", "search"} => room >= maxMatchOff + MaxBlock
  /\ mode \in {"fresh", "open"} => s = hist
  /\ mode = "search" => end = hist
  /\ mode \in {"searchAlone", "done"} => hist = 0
  /\ mode \in {"pooled", "configured", "done"} => s = 0 /\ end = 0

Chained == \A h \in Slots : table[h].prev.off <= table[h].offset.off

(* The bookkeeping behind all of the above: where stale entries are, that no *)
(* sum overflows, that the second entry of a slot is the older one, and that *)
(* the buffer holds the window and a block.                                  *)
HistoryInv == Reach /\ Chained /\ Fits /\ Buffer /\ NoPanic
=============================================================================
