-------------------------------- MODULE Reader --------------------------------
(***************************************************************************)
(* The streaming side of zstd.Reader (reader.go): Read, WriteTo, Reset,    *)
(* Close and the configuration setters, frameDec.reset and next            *)
(* underneath (framedec.go), and the history buffer the decoded bytes are  *)
(* kept in and handed out from (history.go).                               *)
(*                                                                         *)
(* The compressed input is a sequence of items: frame headers, blocks (the *)
(* last one of a frame with its checksum), skippable frames and junk.  The *)
(* bytes it stands for are numbered from 1 over the whole input, so what   *)
(* was delivered is right when it is 1, 2, 3, ...  A block is decoded      *)
(* right only if the buffer holds the bytes its matches may reach: those   *)
(* of its frame, back to the window, and the dictionary it was made with.  *)
(***************************************************************************)
EXTENDS Integers, Sequences

CONSTANTS
  Streams,          (* inputs a Reader may be given                        *)
  MaxCompressed,    (* maxCompressedBlockSize                              *)
  MaxBlockSize,     (* maxBlockSize: where the buffer stops being doubled  *)
  MinWindow,        (* MinWindowSize                                       *)
  DefaultLimit,     (* maxWindowSize of defaultDecoderOptions              *)
  Limits,           (* sizes SetMaxWindowSize may be given                 *)
  DictIds,          (* IDs dictionaries are registered under; 0 is raw     *)
  MaxRead           (* bound: len(p) of one Read call                      *)

(* A frame made without a dictionary; history.dict = nil. *)
NoDict == -1
(* Content of a buffer that is no byte of this input. *)
Garbage == 0

Smaller(a, b) == IF a < b THEN a ELSE b
Larger(a, b)  == IF a < b THEN b ELSE a

(* The dictionary ID a frame header carries: a raw dictionary has none. *)
WireId(h) == IF h.uses = NoDict THEN 0 ELSE h.uses
WindowOf(h) == IF h.single THEN Larger(h.size, MinWindow) ELSE h.window

HeadItems ==
  [kind : {"head"}, lo : Nat, window : Nat, single : BOOLEAN,
   uses : DictIds \cup {NoDict}, size : Nat \cup {-1}, crc : BOOLEAN]
BlockItems ==
  [kind : {"block"}, lo : Nat, n : Nat, frame : Nat \ {0}, last : BOOLEAN,
   ok : BOOLEAN, sum : BOOLEAN]
OtherItems == [kind : {"skip", "junk"}, lo : Nat]

(* How many bytes the first i items of s stand for. *)
BytesUpTo(s, i) ==
  IF i = 0 THEN 0
  ELSE s.items[i].lo + IF s.items[i].kind = "block" THEN s.items[i].n ELSE 0
BytesOf(s) == BytesUpTo(s, Len(s.items))

(* Where a block may stand: behind its header or another block of its frame. *)
Follows(s, i) ==
  LET it == s.items[i]
      inside == i > 1 /\ (s.items[i-1].kind = "head"
                          \/ (s.items[i-1].kind = "block" /\ ~s.items[i-1].last))
  IN  IF it.kind = "block"
      THEN /\ inside
           /\ IF s.items[i-1].kind = "head" THEN it.frame = i - 1
                                            ELSE it.frame = s.items[i-1].frame
      ELSE ~inside

StreamOk(s) ==
  /\ s.items \in Seq(HeadItems \cup BlockItems \cup OtherItems)
  /\ s.torn \in BOOLEAN
  /\ s.end \in {"EOF", "UnexpectedEOF", "failed"}
  /\ \A i \in 1..Len(s.items) :
       /\ Follows(s, i)
       /\ (s.items[i].kind = "head" /\ s.items[i].single) => s.items[i].size >= 0
       /\ s.items[i].lo = BytesUpTo(s, i - 1)
       /\ \A j \in (i + 1)..Len(s.items) : BytesUpTo(s, i) <= s.items[j].lo

ASSUME ReaderAssumption ==
  /\ \A s \in Streams : StreamOk(s)
  /\ MaxCompressed \in Nat \ {0} /\ MaxBlockSize \in Nat
  /\ MinWindow \in Nat \ {0}
  /\ DefaultLimit \in Nat /\ DefaultLimit >= MinWindow
  /\ Limits \subseteq {n \in Nat : n >= MinWindow}
  /\ DictIds \subseteq Nat
  /\ MaxRead \in Nat

VARIABLES
  src, pos,         (* the input, and how many of its items were read      *)
  initialized, maxWindow,      (* z.initialized, z.frame.o.maxWindowSize   *)
  head,             (* the fields of z.frame the last header set           *)
  hist,             (* z.frame.history: b, cap(b), window, alloc and dict  *)
  crc,              (* bytes z.frame.crc was given since its Reset         *)
  buf,              (* z.buf: the part of hist.b from buf.lo+1 to buf.hi   *)
  dicts,            (* the keys of z.dicts                                 *)
  decodedCount, inFrame, frameSeen,
  err,              (* z.err, the sticky error                             *)
  pc, left, written,           (* the running call, len(p), written        *)
  res,              (* the last call that returned, and its error          *)
  delivered,        (* history: bytes handed to the caller since Reset     *)
  ended,            (* history: the end was reported since Reset           *)
  limit             (* history: what the user set maxWindowSize to         *)

frame  == << initialized, maxWindow, head, hist, crc >>
place  == << decodedCount, inFrame, frameSeen >>
call   == << pc, left, written, res >>
vars   == << src, pos, frame, buf, dicts, place, err, call, delivered, ended, limit >>
-----------------------------------------------------------------------------
(* The input. *)
Items      == src.items
Exhausted  == pos = Len(Items)
(* The frame the block it belongs to: what it stands for, and its header. *)
HeadOf(s, it) == s.items[it.frame]
FrameBytes(s, it) == it.lo + it.n - HeadOf(s, it).lo
SizeMet(s, it) == HeadOf(s, it).size \in {-1, FrameBytes(s, it)}
SumMet(s, it)  == HeadOf(s, it).crc => it.sum
BlockSound(s, it) ==
  /\ it.ok /\ it.n <= Smaller(WindowOf(HeadOf(s, it)), MaxCompressed)
  /\ it.last => SizeMet(s, it) /\ SumMet(s, it)

(* A whole input: sound frames, at least one, up to a clean end. *)
Whole(s) ==
  /\ s.end = "EOF" /\ ~s.torn
  /\ \E i \in 1..Len(s.items) : s.items[i].kind = "head"
  /\ \A i \in 1..Len(s.items) :
       /\ s.items[i].kind # "junk"
       /\ s.items[i].kind = "block" => BlockSound(s, s.items[i])
  /\ LET it == s.items[Len(s.items)]
     IN  it.kind = "skip" \/ (it.kind = "block" /\ it.last)
-----------------------------------------------------------------------------
(* history.go. *)
NoHist == [b |-> << >>, cap |-> 0, window |-> 0, alloc |-> 0, dict |-> NoDict]

HistoryReset(h) == [h EXCEPT !.b = << >>, !.dict = NoDict]

WindowShort(h) == SubSeq(h.b, Len(h.b) - h.window + 2, Len(h.b))     \* mutant
LastWindow(h) == SubSeq(h.b, Len(h.b) - h.window + 1, Len(h.b))
TrimNothing(h) == h                                                  \* mutant
Trim(h) == IF Len(h.b) > h.window THEN [h EXCEPT !.b = LastWindow(h)] ELSE h

Grown(h) ==
  Larger(Smaller(Larger(2 * h.cap, 2 * MaxCompressed), h.alloc), Len(h.b) + MaxCompressed)

(* ensureBlock: trim to the window when the room left is small, then grow. *)
SomeRoom(h) == h.cap > Len(h.b)                                      \* mutant
HasRoom(h) == h.cap - Len(h.b) >= MaxCompressed
EnsureBlock(h) ==
  LET t == Trim(h)
  IN  IF HasRoom(h) THEN IF h.cap - Len(h.b) < h.window THEN t ELSE h
      ELSE IF Len(h.b) > h.window /\ HasRoom(t) THEN t
      ELSE [t EXCEPT !.cap = Grown(t)]

(* appendKeep; append makes a larger array if there is no room. *)
AppendKeep(h, s) ==
  [h EXCEPT !.b = @ \o s, !.cap = Larger(@, Len(h.b) + Len(s))]
-----------------------------------------------------------------------------
(* What frameDecPool may give ensureInit: a new frame, or one with the     *)
(* buffer and the dictionary an AppendDecompress left in it.  The model    *)
(* settles which when the Reader is made, or gives its own frame back.     *)
Leftovers == {NoHist} \cup
  {[b |-> << Garbage >>, cap |-> MaxCompressed, window |-> MinWindow, alloc |-> 0, dict |-> d] :
     d \in DictIds}

EnsureInit ==
  /\ initialized' = TRUE
  /\ maxWindow' = IF initialized THEN maxWindow ELSE DefaultLimit

NoBuf  == [lo |-> 0, hi |-> 0]
NoHead == [window |-> 0, dict |-> 0, size |-> -1, crc |-> FALSE]

Idle == pc = "idle"
Return(op, e) ==
  /\ pc' = "idle" /\ left' = 0 /\ written' = 0
  /\ res' = [op |-> op, err |-> e]
Running == [op |-> "running", err |-> "none"]
ThisCall == IF pc = "read" THEN "Read" ELSE "WriteTo"
-----------------------------------------------------------------------------
(* Reset(r) for a reader r of s; Reset(nil) is Close.  Reset leaves the     *)
(* fields of the last header and the digest as they are; nothing reads     *)
(* them before the next header sets them, and the model forgets them.      *)
ResetBufferKept(b) == b                                              \* mutant
ResetBuffer(b) == NoBuf
Reset(s) ==
  /\ Idle
  /\ EnsureInit
  /\ src' = s /\ pos' = 0
  /\ buf' = ResetBuffer(buf)
  /\ inFrame' = FALSE /\ frameSeen' = FALSE /\ decodedCount' = 0
  /\ err' = "none"
  /\ hist' = HistoryReset(hist)
  /\ head' = NoHead /\ crc' = << >>
  /\ Return("Reset", "none")
  /\ delivered' = << >> /\ ended' = FALSE
  /\ UNCHANGED << dicts, limit >>

(* Close gives the frame and the block back to their pools. *)
Close ==
  /\ Idle
  /\ initialized' = FALSE
  /\ maxWindow' = IF initialized THEN maxWindow ELSE DefaultLimit
  /\ err' = "closed"
  /\ buf' = NoBuf
  /\ hist' \in Leftovers /\ head' = NoHead /\ crc' = << >>
  /\ Return("Close", "none")
  /\ UNCHANGED << src, pos, dicts, place, delivered, ended, limit >>

Configure ==
  /\ Idle
  /\ Return("configure", "none")
  /\ UNCHANGED << src, pos, head, hist, crc, buf, place, err, delivered, ended >>

SetMaxWindowSize(n) ==
  /\ Configure
  /\ initialized' = TRUE /\ maxWindow' = n /\ limit' = n
  /\ UNCHANGED dicts

(* AddDict for a dictionary with ID d # 0, SetRawDict for d = 0. *)
AddDict(d) ==
  /\ Configure
  /\ EnsureInit
  /\ dicts' = dicts \cup {d}
  /\ UNCHANGED limit

(* A size out of range, a Dict not made by ParseDict, raw bytes too short. *)
ConfigureRefused ==
  /\ Configure
  /\ EnsureInit
  /\ UNCHANGED << dicts, limit >>

(* AddDict(nil) and SetRawDict(nil). *)
ClearDicts ==
  /\ Configure
  /\ EnsureInit
  /\ dicts' = {}
  /\ UNCHANGED limit
-----------------------------------------------------------------------------
UsableUnlessClosed == err # "closed"                                 \* mutant
Usable == err = "none"

(* Read(p), Len(p) = n. *)
Read(n) ==
  /\ Idle
  /\ EnsureInit
  /\ IF ~Usable THEN Return("Read", err)
     ELSE pc' = "read" /\ left' = n /\ written' = 0 /\ res' = Running
  /\ UNCHANGED << src, pos, head, hist, crc, buf, dicts, place, err, delivered, ended, limit >>

ReadDone ==
  /\ pc = "read" /\ left = 0
  /\ Return("Read", "none")
  /\ UNCHANGED << src, pos, frame, buf, dicts, place, err, delivered, ended, limit >>

Buffered == buf.hi > buf.lo
AfterAll(n) == buf.hi                                                \* mutant
After(n) == buf.lo + n

(* Drain buffered data first. *)
Drain ==
  /\ pc = "read" /\ left > 0 /\ Buffered
  /\ LET n == Smaller(left, buf.hi - buf.lo)
     IN  /\ delivered' = delivered \o SubSeq(hist.b, buf.lo + 1, buf.lo + n)
         /\ buf' = [buf EXCEPT !.lo = After(n)]
         /\ left' = left - n /\ written' = written + n
  /\ UNCHANGED << src, pos, frame, dicts, place, err, pc, res, ended, limit >>

(* WriteTo(w) flushes buffered data first; w.Write may fail after k bytes. *)
WriteTo ==
  /\ Idle
  /\ EnsureInit
  /\ \/ /\ ~Usable
        /\ Return("WriteTo", err)
        /\ UNCHANGED << buf, err, delivered >>
     \/ /\ Usable
        /\ pc' = "writeTo" /\ left' = 0 /\ written' = 0 /\ res' = Running
        /\ delivered' = delivered \o SubSeq(hist.b, buf.lo + 1, buf.hi)
        /\ buf' = NoBuf
        /\ UNCHANGED err
     \/ /\ Usable /\ Buffered
        /\ \E k \in buf.lo..buf.hi :
             delivered' = delivered \o SubSeq(hist.b, buf.lo + 1, k)
        /\ buf' = NoBuf
        /\ err' = "sink"
        /\ Return("WriteTo", "sink")
  /\ UNCHANGED << src, pos, head, hist, crc, dicts, place, ended, limit >>
-----------------------------------------------------------------------------
(* The top of the loops of Read and WriteTo: nothing buffered, room left. *)
Looping == pc = "writeTo" \/ (pc = "read" /\ left > 0 /\ ~Buffered)

Fail(e) ==
  /\ err' = e
  /\ Return(ThisCall, e)

(* The loop of frameDec.reset reads past skippable frames. *)
SkipFrame ==
  /\ Looping /\ ~inFrame
  /\ ~Exhausted /\ Items[pos + 1].kind = "skip"
  /\ pos' = pos + 1
  /\ UNCHANGED << src, frame, buf, dicts, place, err, call, delivered, ended, limit >>

(* io.EOF from frameDec.reset.  WriteTo, and a Read that has something to  *)
(* return, leave err alone.                                                *)
EndOfInputLoops == UNCHANGED << err, ended, call >>                   \* mutant
EndOfInput ==
  IF pc = "read" /\ written > 0
  THEN /\ Return("Read", "none")
       /\ UNCHANGED << err, ended >>
  ELSE IF ~frameSeen THEN Fail("corrupt") /\ UNCHANGED ended
  ELSE /\ ended' = TRUE
       /\ IF pc = "read" THEN Fail("EOF")
          ELSE Return("WriteTo", "none") /\ UNCHANGED err

(* No header is left: the input ends, is cut in a header, or fails.        *)
(* io.ErrUnexpectedEOF at the first byte of a header is taken for an end.  *)
NoHeader ==
  IF src.torn THEN Fail("corrupt") /\ UNCHANGED ended
  ELSE IF src.end = "failed" THEN Fail("io") /\ UNCHANGED ended
  ELSE EndOfInput

(* What frameDec.reset sets from the header h. *)
HistoryFor(h, size) ==
  [h EXCEPT !.window = size,
            !.alloc = IF size < MaxBlockSize THEN 2 * size ELSE size + MaxBlockSize \div 2]

(* The dictionary of the frame; d is what history.reset left. *)
DictFor(h, d) ==
  IF WireId(h) # 0 THEN WireId(h) ELSE IF 0 \in dicts THEN 0 ELSE d

OpenFrame(h) ==
  LET fresh == HistoryReset(HistoryFor(hist, WindowOf(h)))
  IN  IF h.kind # "head"
      THEN Fail("corrupt") /\ UNCHANGED << head, hist, crc, place >>
      ELSE IF WindowOf(h) > maxWindow
      THEN Fail("window") /\ UNCHANGED << head, hist, crc, place >>
      ELSE /\ head' = [window |-> WindowOf(h), dict |-> WireId(h),
                       size |-> h.size, crc |-> h.crc]
           /\ crc' = IF h.crc THEN << >> ELSE crc
           /\ frameSeen' = TRUE /\ inFrame' = TRUE /\ decodedCount' = 0
           /\ IF WireId(h) # 0 /\ WireId(h) \notin dicts
              THEN Fail("dict") /\ hist' = fresh
              ELSE /\ hist' = [fresh EXCEPT !.dict = DictFor(h, @)]
                   /\ UNCHANGED << err, call >>

ReadHeader ==
  /\ Looping /\ ~inFrame
  /\ \/ /\ Exhausted
        /\ NoHeader
        /\ UNCHANGED << pos, head, hist, crc, place >>
     \/ /\ ~Exhausted /\ Items[pos + 1].kind # "skip"
        /\ pos' = pos + 1
        /\ OpenFrame(Items[pos + 1])
        /\ UNCHANGED ended
  /\ UNCHANGED << src, initialized, maxWindow, buf, dicts, delivered, limit >>
-----------------------------------------------------------------------------
(* Decoding the block it with h: right if h.b ends in the bytes before it  *)
(* as far as matches reach, and its dictionary is there.                   *)
Back(it) == Smaller(WindowOf(HeadOf(src, it)), it.lo - HeadOf(src, it).lo)
Reaches(h, it) ==
  /\ Len(h.b) >= Back(it)
  /\ HeadOf(src, it).uses = 0 => h.dict = 0
Faithful(h, it) ==
  /\ \A k \in 1..Back(it) : h.b[Len(h.b) - Back(it) + k] = it.lo - Back(it) + k
  /\ IF HeadOf(src, it).uses = NoDict THEN h.dict \in {NoDict, 0}
                                      ELSE h.dict = HeadOf(src, it).uses
Decoded(h, it) ==
  [k \in 1..it.n |-> IF Faithful(h, it) THEN it.lo + k ELSE Garbage]

(* The checks behind the last block of a frame. *)
SizeFailsLate(n) == head.size >= 0 /\ n < head.size                  \* mutant
SizeFails(n) == head.size >= 0 /\ n # head.size
FrameHashed(it) == [k \in 1..FrameBytes(src, it) |-> HeadOf(src, it).lo + k]
SumUnchecked(it, hashed) == FALSE                                    \* mutant
SumFails(it, hashed) == head.crc /\ ~(it.sum /\ hashed = FrameHashed(it))

LastChecks(it, n, hashed) ==
  IF ~it.last THEN UNCHANGED << inFrame, err, call >>
  ELSE IF SizeFails(n) THEN Fail("size") /\ UNCHANGED inFrame
  ELSE IF SumFails(it, hashed) THEN Fail("crc") /\ UNCHANGED inFrame
  ELSE inFrame' = FALSE /\ UNCHANGED << err, call >>

(* The block it decoded into h.  Read keeps it in z.buf; WriteTo hands it  *)
(* to w before the checks, and returns if w.Write fails after k bytes.     *)
TakeBlock(h, it) ==
  LET d      == Decoded(h, it)
      h2     == AppendKeep(h, d)
      hashed == IF head.crc THEN crc \o d ELSE crc
      n      == decodedCount + Len(d)
  IN  /\ hist' = h2 /\ crc' = hashed /\ decodedCount' = n
      /\ \/ /\ pc = "read"
            /\ buf' = [lo |-> Len(h.b), hi |-> Len(h2.b)]
            /\ LastChecks(it, n, hashed)
            /\ UNCHANGED delivered
         \/ /\ pc = "writeTo"
            /\ delivered' = delivered \o d
            /\ LastChecks(it, n, hashed)
            /\ UNCHANGED buf
         \/ /\ pc = "writeTo" /\ d # << >>
            /\ \E k \in 0..Len(d) : delivered' = delivered \o SubSeq(d, 1, k)
            /\ Fail("sink")
            /\ UNCHANGED << buf, inFrame >>

Refused(it) == ~it.ok \/ it.n > Smaller(head.window, MaxCompressed)

DecodeBlock ==
  /\ Looping /\ inFrame
  /\ LET h == EnsureBlock(hist)
     IN  \/ /\ Exhausted
            /\ hist' = h
            /\ Fail("corrupt")
            /\ UNCHANGED << pos, crc, buf, decodedCount, inFrame, delivered >>
         \/ /\ ~Exhausted
            /\ pos' = pos + 1
            /\ LET it == Items[pos + 1]
               IN  IF Refused(it) \/ ~Reaches(h, it)
                   THEN /\ hist' = h
                        /\ Fail("corrupt")
                        /\ UNCHANGED << crc, buf, decodedCount, inFrame, delivered >>
                   ELSE TakeBlock(h, it)
  /\ UNCHANGED << src, initialized, maxWindow, head, dicts, frameSeen, ended, limit >>
-----------------------------------------------------------------------------
Init ==
  /\ src \in Streams /\ pos = 0
  /\ initialized = TRUE /\ maxWindow = DefaultLimit /\ limit = DefaultLimit
  /\ head = NoHead /\ hist \in Leftovers /\ crc = << >>
  /\ buf = NoBuf /\ dicts = {}
  /\ decodedCount = 0 /\ inFrame = FALSE /\ frameSeen = FALSE
  /\ err = "none"
  /\ pc = "idle" /\ left = 0 /\ written = 0
  /\ res = [op |-> "NewReader", err |-> "none"]
  /\ delivered = << >> /\ ended = FALSE

Call ==
  \/ \E s \in Streams : Reset(s)
  \/ Close
  \/ \E n \in Limits : SetMaxWindowSize(n)
  \/ \E d \in DictIds : AddDict(d)
  \/ ConfigureRefused
  \/ ClearDicts
  \/ \E n \in 0..MaxRead : Read(n)
  \/ WriteTo

Step == ReadDone \/ Drain \/ SkipFrame \/ ReadHeader \/ DecodeBlock

Next == Call \/ Step

Spec == Init /\ [][Next]_vars
LiveSpec == Spec /\ WF_vars(Step)
-----------------------------------------------------------------------------
Errors == {"none", "EOF", "corrupt", "io", "window", "dict", "size", "crc", "sink", "closed"}

TypeOK ==
  /\ src \in Streams /\ pos \in 0..Len(Items)
  /\ initialized \in BOOLEAN /\ maxWindow \in Nat /\ limit \in Nat
  /\ head \in [window : Nat, dict : Nat, size : Nat \cup {-1}, crc : BOOLEAN]
  /\ hist \in [b : Seq(Nat), cap : Nat, window : Nat, alloc : Nat, dict : DictIds \cup {NoDict, 0}]
  /\ crc \in Seq(Nat)
  /\ buf \in [lo : Nat, hi : Nat]
  /\ Buffered => buf.hi <= Len(hist.b)
  /\ dicts \subseteq DictIds
  /\ decodedCount \in Nat /\ inFrame \in BOOLEAN /\ frameSeen \in BOOLEAN
  /\ err \in Errors
  /\ pc \in {"idle", "read", "writeTo"} /\ left \in Nat /\ written \in Nat
  /\ res.err \in Errors
  /\ delivered \in Seq(Nat) /\ ended \in BOOLEAN

(* What the caller got is the start of the decompressed input: no byte is  *)
(* lost, repeated or decoded against the wrong history, however Read,      *)
(* WriteTo, Reset and Close follow each other.                             *)
InOrder ==
  /\ Len(delivered) <= BytesOf(src)
  /\ \A k \in 1..Len(delivered) : delivered[k] = k

(* An end is reported only for an input that is whole, and only after all  *)
(* of it was delivered: not for one cut short at a frame boundary or       *)
(* inside, nor for one that failed a size or a checksum.                   *)
CleanEnd == ended => Whole(src) /\ Len(delivered) = BytesOf(src)

(* A whole input is refused only for what the Reader lacks: room for the   *)
(* window, the dictionary.  The buffer always reaches far enough back, and *)
(* no check fails that should pass.                                        *)
RefusedForCause ==
  Whole(src) =>
    /\ err \notin {"io", "size", "crc"}
    /\ err = "corrupt" => /\ pos > 0 /\ Items[pos].kind = "block"
                          /\ HeadOf(src, Items[pos]).uses = 0 /\ hist.dict # 0

(* What the last block of a frame decoded to is given out by Read only     *)
(* after the size and the checksum of the frame were found right.          *)
ReadAfterChecks ==
  [][pc = "read" =>
       \A k \in Len(delivered) + 1..Len(delivered') :
         \A i \in 1..Len(Items) :
           LET it == Items[i]
           IN  it.kind = "block" /\ it.last /\ it.lo < k /\ k <= it.lo + it.n
                 => SizeMet(src, it) /\ SumMet(src, it)]_vars

(* After an error nothing is read or delivered until Reset. *)
Sticky ==
  [][err # "none" => \/ res'.op = "Reset"
                     \/ UNCHANGED << pos, delivered >> /\ err' \in {err, "closed"}]_vars

(* The buffer stays within what some window up to the limit asks for,      *)
(* however long the input and whatever windows came before.                *)
Bounded ==
  \E most \in Limits \cup {DefaultLimit} :
    \/ hist.cap <= 2 * Smaller(most, MaxBlockSize - 1)
    \/ hist.cap <= most + Larger(MaxBlockSize \div 2, MaxCompressed)

(* A decoded block fits the array ensureBlock left: append never moves     *)
(* the buffer away from under z.buf.                                       *)
BlockFits ==
  [][inFrame /\ pos' = pos + 1 => hist'.cap = EnsureBlock(hist).cap]_vars

(* Close and Reset keep the configuration. *)
ConfigurationKept == initialized => maxWindow = limit

(***************************************************************************)
(* Why the bytes come out in order, as an inductive invariant.  While no   *)
(* error is recorded, the fields of z.frame are those of the header the    *)
(* Reader is behind; hist.b holds consecutive bytes up to the last one     *)
(* decoded, a window of them inside a frame; what is decoded is delivered  *)
(* or waits in buf; and all items read so far passed their checks.         *)
(***************************************************************************)
Upto    == BytesUpTo(src, pos)
Unread  == IF Buffered THEN buf.hi - buf.lo ELSE 0
FrameAt == IF Items[pos].kind = "head" THEN pos ELSE Items[pos].frame
Inside  ==
  /\ pos > 0
  /\ \/ Items[pos].kind = "head"
     \/ Items[pos].kind = "block" /\ ~Items[pos].last

InPlace == (err = "none" /\ inFrame) =>
  /\ Inside
  /\ FrameAt \in 1..pos /\ Items[FrameAt].kind = "head"
  /\ head.window = WindowOf(Items[FrameAt]) /\ head.dict = WireId(Items[FrameAt])
  /\ head.size = Items[FrameAt].size /\ head.crc = Items[FrameAt].crc
  /\ hist.window = head.window
  /\ Upto = Items[FrameAt].lo + decodedCount
  /\ IF head.dict # 0 THEN hist.dict = head.dict ELSE hist.dict \in {NoDict, 0}
Outside == (err = "none" /\ ~inFrame) => ~Inside
WindowHeld == (err = "none" /\ inFrame) => Len(hist.b) >= Smaller(hist.window, decodedCount)
Consecutive == (err = "none" /\ (inFrame \/ Buffered)) =>
  /\ \A k \in 1..Len(hist.b) : hist.b[k] = Upto - Len(hist.b) + k
  /\ Buffered => buf.hi = Len(hist.b)
Given == err = "none" => Len(delivered) + Unread = Upto
Checked == err = "none" =>
  /\ \A i \in 1..pos : /\ Items[i].kind # "junk"
                       /\ Items[i].kind = "block" => BlockSound(src, Items[i])
  /\ frameSeen <=> \E i \in 1..pos : Items[i].kind = "head"
Hashed == (err = "none" /\ inFrame /\ head.crc) =>
  /\ Len(crc) = decodedCount
  /\ \A k \in 1..Len(crc) : crc[k] = Items[FrameAt].lo + k
AtEnd == (err = "none" /\ ended) => Exhausted /\ ~inFrame /\ ~Buffered
InCall ==
  /\ pc # "idle" => err = "none"
  /\ pc = "writeTo" => ~Buffered
  /\ err = "EOF" => ended

ReaderInv ==
  /\ InPlace /\ Outside /\ WindowHeld /\ Consecutive /\ Given
  /\ Checked /\ Hashed /\ AtEnd /\ InCall

(* Every call returns. *)
CallsReturn == (pc # "idle") ~> (pc = "idle")

Promised == {[bytes |-> BytesOf(s), whole |-> Whole(s)] : s \in Streams}
Source == INSTANCE FrameSource WITH
  Inputs <- Promised,
  input  <- [bytes |-> BytesOf(src), whole |-> Whole(src)],
  got    <- Len(delivered),
  state  <- IF err \notin {"none", "EOF"} THEN "failed" ELSE IF ended THEN "ended" ELSE "open"

ImplementsSource == Source!Spec
=============================================================================
