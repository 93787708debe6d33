------------------------------- MODULE OneShot -------------------------------
(***************************************************************************)
(* Many goroutines and the pools of decoders: AppendDecompress on one      *)
(* shared Reader, Readers of their own that stream, and ensureInit         *)
(* underneath (reader.go, framedec.go, blockdec.go).                       *)
(*                                                                         *)
(* runDecoder makes the caller's slice the history of a pooled decoder.  A *)
(* slice is an array and a length, and what an append writes to an array   *)
(* is seen by all who hold it; that append may move to a larger array is   *)
(* left out, since it only ends the sharing.                               *)
(***************************************************************************)
EXTENDS Integers, Sequences, FiniteSetsExt

CONSTANTS
  Users,            (* goroutines, and the slices they pass as dst         *)
  Decoders,         (* a frameDec and a blockDec each                      *)
  Nobody,           (* nil                                                 *)
  Calls,            (* what AppendDecompress is given: dst and frames      *)
  StreamInputs,     (* frames the other Readers are given                  *)
  Dictionaries,     (* what is registered: ID -> content; 0 is raw         *)
  Limit,            (* maxWindowSize                                       *)
  ZeroValue,        (* the shared Reader is a zero value, NewReader did not make it *)
  MaxMatch

Exec == INSTANCE SequenceExec

(* A header that does not parse, or a window, a dictionary ID (0 is none), *)
(* the content size (-1 is unknown), whether the checksum is right, blocks. *)
SequenceShape == [ll : Nat, ml : Nat, mo : Nat]
BlockShape == [kind : {"raw", "RLE", "compressed"}, lits : Seq(Nat), seqs : Seq(SequenceShape)]
FrameShape == [parses : BOOLEAN, window : Nat, id : Nat, size : Nat \cup {-1}, sum : BOOLEAN,
               blocks : Seq(BlockShape)]

Inputs == {c.src : c \in Calls} \cup StreamInputs

(* The arrays a decoder is made with. *)
HistoryOf(d) == << d, "history" >>
DstOf(d) == << d, "dst" >>

ASSUME OneShotAssumption ==
  /\ Calls \subseteq [dst : Seq(Nat), src : Seq(FrameShape)]
  /\ StreamInputs \subseteq Seq(FrameShape)
  /\ \A s \in Inputs : \A i \in 1..Len(s) :
       /\ Len(s[i].blocks) > 0
       /\ \A j \in 1..Len(s[i].blocks) :
            (s[i].blocks[j].kind = "compressed") = (s[i].blocks[j].seqs # << >>)
  /\ \A id \in DOMAIN Dictionaries : Dictionaries[id] \in Seq(Nat)
  /\ Nobody \notin Users \cup Decoders
  /\ \A u \in Users, d \in Decoders : u # HistoryOf(d) /\ u # DstOf(d)

VARIABLES
  reader,           (* the shared Reader: initialized, frame and block, closed *)
  pool,             (* frameDecPool and blockDecPool                       *)
  decoder,          (* history.b, ignoreBuffer, history.dict, block.dst    *)
  array,            (* what the arrays hold                                *)
  call              (* goroutine -> the call it makes or made last         *)

sharedVars == << reader, pool, decoder, array, call >>
-----------------------------------------------------------------------------
(* What a slice reads, of an array that somebody may have cut short. *)
Bytes(s) == SubSeq(array[s.in], 1, Min({s.len, Len(array[s.in])}))
Slice(a, n) == [in |-> a, len |-> n]
Extend(mem, s, bytes) == [mem EXCEPT ![s.in] = SubSeq(@, 1, s.len) \o bytes]

NewDecoder(d) == [b |-> Slice(HistoryOf(d), 0), ignoreBuffer |-> 0, dict |-> << >>, dst |-> DstOf(d)]

NoReader == [initialized |-> FALSE, frame |-> Nobody, closed |-> FALSE]

NoCall == [op |-> "none", at |-> "idle", src |-> << >>, before |-> << >>, rest |-> << >>,
           blocks |-> << >>, d |-> Nobody, seen |-> FALSE, saved |-> Slice(Nobody, 0),
           out |-> Slice(Nobody, 0), got |-> << >>, err |-> "none"]

OneShotInit ==
  /\ \E d \in Decoders :
       reader = IF ZeroValue THEN NoReader ELSE [NoReader EXCEPT !.initialized = TRUE, !.frame = d]
  /\ pool = {}
  /\ decoder = [d \in Decoders |-> NewDecoder(d)]
  /\ array = [a \in Users \cup {HistoryOf(d) : d \in Decoders} \cup {DstOf(d) : d \in Decoders} |-> << >>]
  /\ call = [u \in Users |-> NoCall]

Lent == {call[u].d : u \in Users} \cup {reader.frame}

(* A pool gives one of those it holds; if it holds none, one is made.  A   *)
(* frame decoder and a block decoder are always taken and given together.  *)
Get(d) ==
  /\ d \in IF pool # {} THEN pool ELSE Decoders \ Lent
  /\ pool' = pool \ {d}
  /\ decoder' = IF d \in pool THEN decoder ELSE [decoder EXCEPT ![d] = NewDecoder(d)]

(* What lies behind the length of a decoder's own slices is forgotten. *)
Forget(mem, d) == [mem EXCEPT ![HistoryOf(d)] = << >>, ![DstOf(d)] = << >>]

At(u, pc) == call[u].at = pc
Go(u, pc) == call' = [call EXCEPT ![u].at = pc]
Idle(u) == At(u, "idle")
-----------------------------------------------------------------------------
(* ensureInit: the flag is looked at, then set, and the fields only after it. *)
AppendDecompress(u, c) ==
  /\ Idle(u)
  /\ call' = [call EXCEPT ![u] = [NoCall EXCEPT !.op = "append", !.before = c.dst, !.src = c.src, !.rest = c.src,
                                                !.at = IF reader.initialized THEN "take" ELSE "flag"]]
  /\ array' = [array EXCEPT ![u] = c.dst]
  /\ UNCHANGED << reader, pool, decoder >>

SetFlag(u) ==
  /\ At(u, "flag")
  /\ reader' = [reader EXCEPT !.initialized = TRUE]
  /\ Go(u, "fields")
  /\ UNCHANGED << pool, decoder, array >>

SetFields(u) ==
  /\ At(u, "fields")
  /\ \E d \in Decoders : Get(d) /\ reader' = [reader EXCEPT !.frame = d]
  /\ Go(u, "take")
  /\ UNCHANGED array

(* A closed Reader has no frame to take the options from; nor has one that *)
(* counts as initialised while another goroutine is about to make it.      *)
RefuseClosed(u) ==
  /\ At(u, "take") /\ reader.closed
  /\ call' = [call EXCEPT ![u] = [NoCall EXCEPT !.err = "closed"]]
  /\ UNCHANGED << reader, pool, decoder, array >>

TakeDecoder(u) ==
  /\ At(u, "take") /\ ~reader.closed
  /\ IF reader.frame = Nobody THEN Go(u, "broken") /\ UNCHANGED << pool, decoder >>
     ELSE \E d \in Decoders :
            /\ Get(d)
            /\ call' = [call EXCEPT ![u].at = "header", ![u].d = d,
                                    ![u].out = Slice(u, Len(call[u].before))]
  /\ UNCHANGED << reader, array >>

(* NewReader and the first Read of a Reader of one's own. *)
Stream(u, s) ==
  /\ Idle(u)
  /\ \E d \in Decoders :
       /\ Get(d)
       /\ call' = [call EXCEPT ![u] = [NoCall EXCEPT !.op = "stream", !.at = "header", !.d = d,
                                                     !.src = s, !.rest = s]]
  /\ UNCHANGED << reader, array >>
-----------------------------------------------------------------------------
(* The call is over: Close of a Reader that streamed, which also clears    *)
(* its history, or the deferred Put of AppendDecompress.                   *)
HistoryReset(h) == [h EXCEPT !.b.len = 0, !.ignoreBuffer = 0, !.dict = << >>]

Left(u, h) == IF call[u].op = "stream" THEN HistoryReset(h) ELSE h

Return(u, c, err) ==
  /\ call' = [call EXCEPT ![u] = [c EXCEPT !.at = "idle", !.err = err, !.d = Nobody, !.seen = FALSE,
                                           !.rest = << >>, !.blocks = << >>, !.saved = NoCall.saved]]
  /\ pool' = pool \cup {c.d}

HeaderError(frame) ==
  IF ~frame.parses THEN "header"
  ELSE IF frame.window > Limit THEN "window"
  ELSE IF frame.id # 0 /\ frame.id \notin DOMAIN Dictionaries THEN "dictionary"
  ELSE "none"

(* A frame with an ID has that dictionary; one without, the raw one if     *)
(* there is one.                                                           *)
DictFor(frame, before) == IF frame.id \in DOMAIN Dictionaries THEN Dictionaries[frame.id] ELSE before

AtHeader(u, more) == At(u, "header") /\ (call[u].rest # << >>) = more

EndOfInput(u) ==
  /\ AtHeader(u, FALSE)
  /\ Return(u, call[u], IF call[u].seen THEN "none" ELSE "empty")
  /\ decoder' = [decoder EXCEPT ![call[u].d] = Left(u, @)]
  /\ array' = Forget(array, call[u].d)
  /\ UNCHANGED reader

(* frame.reset refuses a window; an unknown dictionary is found when the   *)
(* history was reset.                                                      *)
RefuseHeader(u) ==
  /\ AtHeader(u, TRUE)
  /\ LET c == call[u]
         err == HeaderError(Head(c.rest))
     IN  /\ err # "none"
         /\ Return(u, c, err)
         /\ decoder' = [decoder EXCEPT ![c.d] = IF err = "dictionary" THEN HistoryReset(@) ELSE Left(u, @)]
         /\ array' = Forget(array, c.d)
  /\ UNCHANGED reader

(* The frame's history, and in AppendDecompress runDecoder's dst in its place. *)
RunDecoder(u) ==
  /\ AtHeader(u, TRUE)
  /\ LET c == call[u]
         frame == Head(c.rest)
         h == [HistoryReset(decoder[c.d]) EXCEPT !.dict = DictFor(frame, @)]
     IN  /\ HeaderError(frame) = "none"
         /\ decoder' = [decoder EXCEPT ![c.d] =
              IF c.op = "stream" THEN h ELSE [h EXCEPT !.b = c.out, !.ignoreBuffer = c.out.len]]
         /\ call' = [call EXCEPT ![u].at = "blocks", ![u].seen = TRUE, ![u].blocks = frame.blocks,
                                 ![u].saved = h.b]
  /\ UNCHANGED << reader, pool, array >>
-----------------------------------------------------------------------------
(* A block whose matches may reach before: its sequences, then the literals *)
(* that are left.  What execution makes of a sequence is what SequenceExec *)
(* shows of decodeSync: a copy byte after byte, of a legal sequence.       *)
OneSequence(env, acc, q) ==
  IF ~acc.ok \/ ~Exec!Legal(env, q, acc) THEN [acc EXCEPT !.ok = FALSE]
  ELSE [acc EXCEPT !.lits = SubSeq(@, q.ll + 1, Len(@)),
          !.out = Exec!LastOf(Exec!Bytewise(env.dict \o env.hist \o @ \o SubSeq(acc.lits, 1, q.ll), q.mo, q.ml),
                              Len(@) + q.ll + q.ml)]

Executed(env, block) ==
  LET after[n \in 0..Len(block.seqs)] ==
        IF n = 0 THEN [ok |-> TRUE, out |-> << >>, lits |-> block.lits]
        ELSE OneSequence(env, after[n - 1], block.seqs[n])
  IN  after[Len(block.seqs)]

BlockOf(frame, done) ==
  IF done.ok /\ Len(done.out) + Len(done.lits) <= frame.window
  THEN [ok |-> TRUE, new |-> done.out \o done.lits] ELSE [ok |-> FALSE, new |-> << >>]

Surroundings(frame, content, before) ==
  [dict |-> content, hist |-> before, window |-> frame.window, maxBlock |-> frame.window, start |-> 0]

(* decodeBuf: behind the history, or in the dst of the block decoder if    *)
(* the history begins with bytes that are not the frame's.                 *)
Behind(h, block) == block.kind = "compressed" /\ h.ignoreBuffer = 0

Reachable(h) == SubSeq(Bytes(h.b), h.ignoreBuffer + 1, h.b.len)

Decoded(frame, h, block) ==
  BlockOf(frame, Executed(Surroundings(frame, h.dict, Reachable(h)), block))

(* What decodeBuf writes to: the dst of the block decoder, then the history. *)
Written(h, block, new) ==
  Extend(IF Behind(h, block) \/ block.kind = "raw" THEN array ELSE Extend(array, Slice(h.dst, 0), new),
         h.b, new)

(* The checks behind the last block. *)
FrameError(frame, n) ==
  IF frame.size \notin {-1, n} THEN "size" ELSE IF ~frame.sum THEN "checksum" ELSE "none"

AfterFrameUnrestored(u, h) == h                                       \* mutant
(* runDecoder puts the decoder's own slice back, after an error as well. *)
AfterFrame(u, h) == IF call[u].op = "append" THEN [h EXCEPT !.b = call[u].saved] ELSE h

(* One block; behind the last one, or an error, the frame is done. *)
DecodeBlock(u) ==
  /\ At(u, "blocks")
  /\ LET c == call[u]
         h == decoder[c.d]
         frame == Head(c.rest)
         block == Head(c.blocks)
         done == Decoded(frame, h, block)
         b == Slice(h.b.in, h.b.len + Len(done.new))
         kept == [h EXCEPT !.b = b]
         over == ~done.ok \/ Len(c.blocks) = 1
         err == IF ~done.ok THEN "block" ELSE FrameError(frame, b.len - h.ignoreBuffer)
         now == [c EXCEPT !.out = IF c.op = "append" THEN b ELSE @, !.got = @ \o done.new]
         wrote == Written(h, block, done.new)
     IN  /\ array' = IF over /\ err # "none" THEN Forget(wrote, c.d) ELSE wrote
         /\ \/ /\ ~over
               /\ decoder' = [decoder EXCEPT ![c.d] = kept]
               /\ call' = [call EXCEPT ![u] = [now EXCEPT !.blocks = Tail(@)]]
               /\ UNCHANGED pool
            \/ /\ over /\ err = "none"
               /\ decoder' = [decoder EXCEPT ![c.d] = AfterFrame(u, kept)]
               /\ call' = [call EXCEPT ![u] = [now EXCEPT !.at = "header", !.rest = Tail(@), !.blocks = << >>]]
               /\ UNCHANGED pool
            \/ /\ over /\ err # "none"
               /\ decoder' = [decoder EXCEPT ![c.d] = Left(u, AfterFrame(u, kept))]
               /\ Return(u, now, err)
  /\ UNCHANGED reader
-----------------------------------------------------------------------------
(* Methods that configure the shared Reader run alone (bound: also not     *)
(* while another Reader streams).  Close gives its                         *)
(* decoders back (the one of a Reader that is not initialised takes them   *)
(* first: nothing changes); Reset makes it usable again.                   *)
Alone == \A u \in Users : Idle(u)

CloseReader ==
  /\ Alone /\ reader.initialized
  /\ decoder' = [decoder EXCEPT ![reader.frame] = HistoryReset(@)]
  /\ pool' = pool \cup {reader.frame}
  /\ reader' = [NoReader EXCEPT !.closed = TRUE]
  /\ UNCHANGED << array, call >>

ResetReader ==
  /\ Alone /\ reader.closed /\ reader.initialized
  /\ reader' = [reader EXCEPT !.closed = FALSE]
  /\ decoder' = [decoder EXCEPT ![reader.frame] = HistoryReset(@)]
  /\ UNCHANGED << pool, array, call >>

ResetClosedReader ==
  /\ Alone /\ reader.closed /\ ~reader.initialized
  /\ \E d \in Decoders : Get(d) /\ reader' = [NoReader EXCEPT !.initialized = TRUE, !.frame = d]
  /\ UNCHANGED << array, call >>
-----------------------------------------------------------------------------
OneShotNext ==
  \/ \E u \in Users :
       \/ \E c \in Calls : AppendDecompress(u, c)
       \/ \E s \in StreamInputs : Stream(u, s)
       \/ SetFlag(u) \/ SetFields(u) \/ RefuseClosed(u) \/ TakeDecoder(u)
       \/ EndOfInput(u) \/ RefuseHeader(u) \/ RunDecoder(u) \/ DecodeBlock(u)
  \/ CloseReader
  \/ ResetReader
  \/ ResetClosedReader

OneShotSpec == OneShotInit /\ [][OneShotNext]_sharedVars
-----------------------------------------------------------------------------
(* What an input stands for: frame after frame, each by itself, up to the  *)
(* first error.                                                            *)
Nothing == [err |-> "none", out |-> << >>]

BlockAlone(acc, frame, block) ==
  LET done == BlockOf(frame, Executed(Surroundings(frame, DictFor(frame, << >>), acc.out), block))
  IN  IF acc.err # "none" THEN acc
      ELSE [err |-> IF done.ok THEN "none" ELSE "block", out |-> acc.out \o done.new]

(* After each of its blocks. *)
BlocksAlone(frame) ==
  LET after[n \in 0..Len(frame.blocks)] ==
        IF n = 0 THEN Nothing ELSE BlockAlone(after[n - 1], frame, frame.blocks[n])
  IN  after

FrameAlone(frame) ==
  LET refused == HeaderError(frame)
      content == BlocksAlone(frame)[Len(frame.blocks)]
  IN  IF refused # "none" THEN [err |-> refused, out |-> << >>]
      ELSE IF content.err # "none" THEN content
      ELSE [content EXCEPT !.err = FrameError(frame, Len(content.out))]

Joined(acc, frame) ==
  IF acc.err # "none" THEN acc
  ELSE [err |-> FrameAlone(frame).err, out |-> acc.out \o FrameAlone(frame).out]

(* After each of its frames. *)
FramesAlone(s) ==
  LET after[n \in 0..Len(s)] == IF n = 0 THEN Nothing ELSE Joined(after[n - 1], s[n])
  IN  after

InputAlone(s) ==
  IF s = << >> THEN [err |-> "empty", out |-> << >>] ELSE FramesAlone(s)[Len(s)]

StandsFor == [s \in Inputs |-> InputAlone(s)]

Returned(u, op) == Idle(u) /\ call[u].op = op

(* AppendDecompress, called by many goroutines on one Reader while others  *)
(* stream with decoders from the same pools, returns what dst held and     *)
(* behind it what the frames stand for, and reports an error exactly if    *)
(* one of them is damaged, its matches never reaching what dst held or the *)
(* frame before; what it returned stays as it is whatever the decoders it  *)
(* gave back are used for, and a Reader that got them decodes the same     *)
(* (reader.go, AppendDecompress: "safe for concurrent use").               *)
OneShotExact ==
  \A u \in Users :
    /\ Returned(u, "append") => /\ Bytes(call[u].out) = call[u].before \o StandsFor[call[u].src].out
                                /\ call[u].err = StandsFor[call[u].src].err
    /\ Returned(u, "stream") => /\ call[u].got = StandsFor[call[u].src].out
                                /\ call[u].err = StandsFor[call[u].src].err
    /\ ~At(u, "broken")

(* The zero value may be used, and by many goroutines at once: no call     *)
(* finds a Reader that counts as initialised and has no frame yet          *)
(* (ensureInit sets the flag first).                                       *)
InitialisedFirst == \A u \in Users : ~At(u, "broken")
=============================================================================
