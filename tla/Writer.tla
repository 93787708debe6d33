-------------------------------- MODULE Writer --------------------------------
(***************************************************************************)
(* The streaming side of zstd.Writer (writer.go): Write, ReadFrom, Flush,  *)
(* Close, Reset and ResetContentSize, the configuration setters, and       *)
(* nextBlock underneath them, over an io.Writer that may fail at any call  *)
(* and, for ReadFrom, over an io.Reader that may end or fail at any call.  *)
(*                                                                         *)
(* One call of the API is several steps: pc names the loop of writer.go    *)
(* the Writer is in, "idle" that no call is running.  A call returns by    *)
(* going back to "idle" with its name and error in res.                    *)
(***************************************************************************)
EXTENDS Frames

CONSTANTS
  Levels,         (* compression levels SetLevel may choose; 0 is raw      *)
  LevelWindow,    (* LevelWindow[l]: wndSize SetLevel(l) sets, 0 for l = 0 *)
  Windows,        (* sizes SetWindowSize may choose                        *)
  DefaultLevel, DefaultWindow,
  Dicts,          (* dictionary IDs; 0 stands for no dictionary            *)
  ContentSizes,   (* sizes given to ResetContentSize; -1 means unknown     *)
  MaxInput,       (* bound: bytes taken from the caller per stream         *)
  MaxChunk,       (* bound: bytes of one Write call                        *)
  LateConfig,     (* may setters be called while a stream is open?         *)
  UseAfterClose,  (* may ReadFrom and Write be called without an encoder?  *)
  EncoderFaults   (* may blk.encode report an (internal) error?            *)

ASSUME WriterAssumption ==
  /\ Levels \subseteq Nat /\ DefaultLevel \in Levels \ {0}
  /\ LevelWindow \in [Levels -> Nat]
  /\ \A l \in Levels : IF l = 0 THEN LevelWindow[l] = 0 ELSE LevelWindow[l] >= MaxBlock
  /\ Windows \subseteq {n \in Nat : n >= MinWindow}
  /\ DefaultWindow \in Nat /\ DefaultWindow >= MaxBlock
  /\ Dicts \subseteq Nat /\ 0 \in Dicts
  /\ ContentSizes \subseteq {-1} \cup Nat /\ -1 \in ContentSizes
  /\ MaxInput \in Nat /\ MaxChunk \in Nat
  /\ LateConfig \in BOOLEAN /\ UseAfterClose \in BOOLEAN
  /\ EncoderFaults \in BOOLEAN

VARIABLES
  cfg,              (* level, blockSize, wndSize, crc and dict             *)
  enc,              (* w.enc: NoEnc, or the encoder taken at Reset         *)
  filling,          (* w.filling                                           *)
  fillCap,          (* cap(w.filling)                                      *)
  headerWritten, eofWritten, fullFrameWritten,
  err,              (* w.err, the sticky error                             *)
  nInput, contentSize,
  out,              (* items the underlying io.Writer received since Reset *)
  given,            (* history: bytes taken from the caller since Reset    *)
  pc, left,         (* running call; bytes of p left, or room in filling   *)
  res,              (* the last call that returned, and its error          *)
  panicked          (* a Go run-time panic ended the program               *)

flags  == << headerWritten, eofWritten, fullFrameWritten >>
stream == << flags, err, nInput, contentSize, out >>
vars   == << cfg, enc, filling, fillCap, stream, given, pc, left, res, panicked >>

Open    == enc.maxOff # 0     \* w.enc != nil: the window of an encoder is never 0
NoEnc   == [raw |-> FALSE, maxOff |-> 0, hashed |-> << >>]
Garbage == 0        \* a byte of filling's backing array nobody wrote yet
Calls   == {"NewWriter", "Reset", "Write", "ReadFrom", "Flush", "Close", "Closed", "running"}
Errors  == {"none", "io", "encode", "source", "closed", "size", "toobig"}

Running     == [op |-> "running", err |-> "none"]

Bytes(n)    == [i \in 1..n |-> given + i]     \* the caller's next n bytes
DigestRestarted(s) == IF cfg.crc THEN s ELSE enc.hashed              \* mutant
Digest(s)   == IF cfg.crc THEN enc.hashed \o s ELSE enc.hashed
Return(op, e) ==
  /\ pc' = "idle" /\ left' = 0
  /\ res' = [op |-> op, err |-> e]
  /\ UNCHANGED panicked
Goto(label, n) ==
  /\ pc' = label /\ left' = n
  /\ res' = Running
  /\ UNCHANGED panicked
Panic ==
  /\ panicked' = TRUE /\ pc' = "idle" /\ left' = 0 /\ res' = Running
  /\ UNCHANGED << cfg, enc, filling, fillCap, stream, given >>

-----------------------------------------------------------------------------
(* newEncoder: the window of level 0 is taken as the default one. *)
NewEncoder ==
  [ raw    |-> cfg.level = 0,
    maxOff |-> IF cfg.wndSize = 0 THEN DefaultWindow ELSE cfg.wndSize,
    hashed |-> << >> ]

StreamHeader ==
  Header(contentSize, WindowSize(enc.maxOff, contentSize), FALSE, cfg.crc, cfg.dict)

Pending == IF headerWritten THEN << >> ELSE << StreamHeader >>

(***************************************************************************)
(* nextBlock(final) for the buffer buf.  It returns at once on a sticky    *)
(* error and on a buffer above blockSize.  Each io.Writer call succeeds or *)
(* fails, and after a failure nothing else is attempted; only a block that *)
(* was handed to the io.Writer leaves the buffer.  eofWritten makes a      *)
(* second final block an ordinary one.                                     *)
(***************************************************************************)
RefusedOnlyBySize(buf) == Len(buf) > cfg.blockSize                   \* mutant
Refused(buf) == err # "none" \/ Len(buf) > cfg.blockSize

HeaderFails(buf) ==
  /\ ~headerWritten /\ headerWritten' = TRUE
  /\ err' = "io" /\ out' = Append(out, Torn)
  /\ filling' = buf
  /\ UNCHANGED << eofWritten, fullFrameWritten, nInput >>

EmitBlockKeepsFilling(buf, last) ==                                  \* mutant
  /\ buf # << >> \/ last
  /\ out' = out \o Pending \o << Block(buf, last) >> /\ err' = "none"
  /\ headerWritten' = TRUE /\ eofWritten' = (eofWritten \/ last)
  /\ nInput' = nInput + Len(buf)
  /\ filling' = buf
  /\ UNCHANGED fullFrameWritten

EmitBlock(buf, last) ==
  /\ buf # << >> \/ last
  /\ \/ out' = out \o Pending \o << Block(buf, last) >> /\ err' = "none"
     \/ out' = out \o Pending \o << Torn >> /\ err' = "io"
  /\ headerWritten' = TRUE /\ eofWritten' = (eofWritten \/ last)
  /\ nInput' = nInput + Len(buf)
  /\ filling' = << >>
  /\ UNCHANGED fullFrameWritten

(* blk.encode reports an error; a raw encoder has none to report. *)
MayFault(buf) == EncoderFaults /\ ~enc.raw /\ buf # << >>

EncodeFails(buf, last) ==
  /\ MayFault(buf)
  /\ out' = out \o Pending /\ err' = "encode"
  /\ headerWritten' = TRUE /\ eofWritten' = (eofWritten \/ last)
  /\ nInput' = nInput + Len(buf)
  /\ filling' = buf
  /\ UNCHANGED fullFrameWritten

(* nextBlock(true) before any block: the whole frame in one Write. *)
EmitFullFrame(buf) ==
  \/ /\ out' = out \o EncodeAll(enc.maxOff, cfg, buf) /\ err' = "none"
     /\ nInput' = nInput + Len(buf)
     /\ filling' = << >>
     /\ headerWritten' = TRUE /\ fullFrameWritten' = TRUE /\ eofWritten' = TRUE
  \/ /\ out' = Append(out, Torn) /\ err' = "io"
     /\ filling' = buf
     /\ UNCHANGED << nInput, flags >>

NextBlock(buf, final) ==
  /\ LET last == final /\ ~eofWritten
     IN  \/ Refused(buf) /\ filling' = buf /\ UNCHANGED << flags, err, nInput, out >>
         \/ /\ ~Refused(buf) /\ ~headerWritten /\ final
            /\ EmitFullFrame(buf)
         \/ /\ ~Refused(buf) /\ (headerWritten \/ ~final)
            /\ \/ HeaderFails(buf)
               \/ EmitBlock(buf, last)
               \/ EncodeFails(buf, last)
  /\ UNCHANGED contentSize

(* The error nextBlock returned, read off after the step. *)
NextBlockErrDropped(buf) == IF Len(buf) > cfg.blockSize THEN "toobig" ELSE "none"   \* mutant
NextBlockErr(buf) ==
  IF err' # "none" THEN err' ELSE IF Len(buf) > cfg.blockSize THEN "toobig" ELSE "none"

(* nextBlock dereferences w.enc unless one of its early returns applies. *)
NextBlockPanics(buf) == ~Open /\ ~Refused(buf)

-----------------------------------------------------------------------------
(* Configuration. *)
Configurable == pc = "idle" /\ ~panicked /\ (LateConfig \/ ~Open)

Configure(c) ==
  /\ cfg' = c /\ cfg' # cfg
  /\ UNCHANGED << enc, filling, fillCap, stream, given, pc, left, res, panicked >>

SetLevel(l) ==
  /\ Configurable
  /\ Configure([cfg EXCEPT !.level = l, !.blockSize = MaxBlock, !.wndSize = LevelWindow[l]])

SetWindowSize(n) ==
  /\ Configurable
  /\ Configure([cfg EXCEPT !.wndSize = n, !.blockSize = Smaller(n, MaxBlock)])

SetCRC(b) ==
  /\ Configurable
  /\ Configure([cfg EXCEPT !.crc = b])

AddDict(d) ==
  /\ Configurable
  /\ Configure([cfg EXCEPT !.dict = d])

(* The size ResetContentSize keeps; the capacity Reset leaves w.filling with. *)
DeclaredAsGiven(size) == size                                        \* mutant
Declared(size) == IF size >= 0 THEN size ELSE 0
RoomMadeOnce == IF fillCap = 0 THEN cfg.blockSize ELSE fillCap       \* mutant
Room == Larger(fillCap, cfg.blockSize)

(***************************************************************************)
(* ResetContentSize(wr, size); Reset(wr) is the case of an unknown size.   *)
(* The previous encoder, if any, goes back to its pool.                    *)
(***************************************************************************)
Reset(size) ==
  /\ pc = "idle" /\ ~panicked
  /\ fillCap' = Room
  /\ filling' = << >>
  /\ enc' = NewEncoder
  /\ headerWritten' = FALSE /\ eofWritten' = FALSE /\ fullFrameWritten' = FALSE
  /\ err' = "none"
  /\ nInput' = 0
  /\ contentSize' = Declared(size)
  /\ out' = << >> /\ given' = 0
  /\ res' = [op |-> "Reset", err |-> "none"]
  /\ UNCHANGED << cfg, pc, left, panicked >>

-----------------------------------------------------------------------------
(* Write(p), Len(p) = n. *)
Write(n) ==
  /\ pc = "idle" /\ ~panicked
  /\ Open \/ eofWritten \/ UseAfterClose
  /\ given + n <= MaxInput
  /\ IF eofWritten THEN Return("Write", "closed")
     ELSE IF n = 0 THEN Return("Write", "none")
     ELSE Goto("write", n)
  /\ UNCHANGED << cfg, enc, filling, fillCap, stream, given >>

(***************************************************************************)
(* One round of Write's loop: either the rest of p fits below a full       *)
(* block, or filling is topped up to blockSize and becomes a block.        *)
(***************************************************************************)
WriteStep ==
  /\ pc = "write"
  /\ LET fits == left + Len(filling) < cfg.blockSize
         n    == IF fits THEN left ELSE Smaller(left, cfg.blockSize - Len(filling))
         buf  == filling \o Bytes(n)
     IN  IF n < 0 \/ (~Open /\ (cfg.crc \/ (~fits /\ NextBlockPanics(buf)))) THEN Panic
         ELSE /\ given' = given + n
              /\ fillCap' = Larger(fillCap, Len(buf))
              /\ enc' = [enc EXCEPT !.hashed = Digest(Bytes(n))]
              /\ UNCHANGED cfg
              /\ IF fits
                 THEN filling' = buf /\ Return("Write", "none") /\ UNCHANGED stream
                 ELSE /\ NextBlock(buf, FALSE)
                      /\ IF NextBlockErr(buf) # "none" THEN Return("Write", NextBlockErr(buf))
                         ELSE IF left = n THEN Return("Write", "none")
                         ELSE Goto("write", left - n)

-----------------------------------------------------------------------------
(* ReadFrom(r): flush what is buffered, then read straight into filling. *)
ReadFrom ==
  /\ pc = "idle" /\ ~panicked
  /\ Open \/ UseAfterClose
  /\ IF filling = << >>
     THEN Goto("pad", 0) /\ UNCHANGED << filling, stream, given, cfg, enc, fillCap >>
     ELSE IF NextBlockPanics(filling) THEN Panic
     ELSE /\ NextBlock(filling, FALSE)
          /\ IF NextBlockErr(filling) # "none" THEN Return("ReadFrom", NextBlockErr(filling))
             ELSE Goto("pad", 0)
          /\ UNCHANGED << cfg, enc, fillCap, given >>

(* w.filling = w.filling[:w.blockSize]; src = w.filling *)
ReadFromPad ==
  /\ pc = "pad"
  /\ IF cfg.blockSize > fillCap THEN Panic
     ELSE /\ filling' = [i \in 1..cfg.blockSize |-> Garbage]
          /\ Goto("read", cfg.blockSize)
          /\ UNCHANGED << cfg, enc, fillCap, stream, given >>

(***************************************************************************)
(* One r.Read(src): n bytes and nil, io.EOF or another error.              *)
(***************************************************************************)
ReadFromStep(n, outcome) ==
  /\ pc = "read"
  /\ n <= left /\ given + n <= MaxInput /\ (n > 0 \/ outcome # "nil")
  /\ LET filled == Len(filling) - left
         buf    == SubSeq(filling, 1, filled) \o Bytes(n)
                     \o SubSeq(filling, filled + n + 1, Len(filling))
         full   == outcome = "nil" /\ n = left
     IN  IF ~Open /\ (cfg.crc \/ (full /\ NextBlockPanics(buf))) THEN Panic
         ELSE /\ given' = given + n
              /\ enc' = [enc EXCEPT !.hashed = Digest(Bytes(n))]
              /\ UNCHANGED << cfg, fillCap >>
              /\ \/ /\ outcome = "eof"
                    /\ filling' = SubSeq(buf, 1, filled + n)
                    /\ Return("ReadFrom", "none")
                    /\ UNCHANGED stream
                 \/ /\ outcome = "error"
                    /\ filling' = buf /\ err' = "source"
                    /\ Return("ReadFrom", "source")
                    /\ UNCHANGED << flags, nInput, contentSize, out >>
                 \/ /\ outcome = "nil" /\ ~full
                    /\ filling' = buf
                    /\ Goto("read", left - n)
                    /\ UNCHANGED stream
                 \/ /\ full
                    /\ NextBlock(buf, FALSE)
                    /\ IF NextBlockErr(buf) # "none" THEN Return("ReadFrom", NextBlockErr(buf))
                       ELSE Goto("pad", 0)

Flush ==
  /\ pc = "idle" /\ ~panicked
  /\ IF filling = << >>
     THEN Return("Flush", err) /\ UNCHANGED << filling, stream, given, cfg, enc, fillCap >>
     ELSE IF NextBlockPanics(filling) THEN Panic
     ELSE /\ NextBlock(filling, FALSE)
          /\ Return("Flush", NextBlockErr(filling))
          /\ UNCHANGED << cfg, enc, fillCap, given >>

-----------------------------------------------------------------------------
(***************************************************************************)
(* Close: the final block, then (for a frame that was streamed) the        *)
(* checksum.  Every return gives the encoder back.  A Writer without an    *)
(* encoder is already closed.  encodeAll turns an encoder error into a     *)
(* panic.                                                                  *)
(***************************************************************************)
CloseFrame ==
  /\ NextBlock(filling, TRUE)
  /\ LET failed == NextBlockErr(filling)
         size   == IF contentSize > 0 /\ nInput' # contentSize THEN "size" ELSE "none"
     IN  IF failed # "none" THEN Return("Close", failed) /\ enc' = NoEnc
         ELSE IF size # "none" \/ fullFrameWritten' THEN Return("Close", size) /\ enc' = NoEnc
         ELSE Goto("trailer", 0) /\ UNCHANGED enc
  /\ UNCHANGED << cfg, fillCap, given >>

Close ==
  /\ pc = "idle" /\ ~panicked
  /\ \/ ~Open /\ Return("Closed", "none") /\ UNCHANGED << cfg, enc, filling, fillCap, stream, given >>
     \/ Open /\ CloseFrame
     \/ Open /\ ~headerWritten /\ ~Refused(filling) /\ MayFault(filling) /\ Panic

CloseTrailer ==
  /\ pc = "trailer"
  /\ enc' = NoEnc
  /\ \/ /\ out' = IF cfg.crc THEN Append(out, Checksum(enc.hashed)) ELSE out
        /\ err' = "closed" /\ Return("Close", "none")
     \/ /\ cfg.crc
        /\ out' = Append(out, Torn)
        /\ err' = "io" /\ Return("Close", "io")
  /\ UNCHANGED << cfg, filling, fillCap, flags, nInput, contentSize, given >>

-----------------------------------------------------------------------------
Init ==
  /\ cfg = [ level |-> DefaultLevel, blockSize |-> MaxBlock, wndSize |-> DefaultWindow,
             crc |-> TRUE, dict |-> 0 ]
  /\ enc = NoEnc
  /\ filling = << >> /\ fillCap = 0
  /\ headerWritten = FALSE /\ eofWritten = FALSE /\ fullFrameWritten = FALSE
  /\ err = "none"
  /\ nInput = 0 /\ contentSize = 0
  /\ out = << >> /\ given = 0
  /\ pc = "idle" /\ left = 0
  /\ res = [op |-> "NewWriter", err |-> "none"]
  /\ panicked = FALSE

Setter ==
  \/ \E l \in Levels : SetLevel(l)
  \/ \E n \in Windows : SetWindowSize(n)
  \/ \E b \in BOOLEAN : SetCRC(b)
  \/ \E d \in Dicts : AddDict(d)

Call ==
  \/ \E size \in ContentSizes : Reset(size)
  \/ \E n \in 0..MaxChunk : Write(n)
  \/ ReadFrom
  \/ Flush
  \/ Close

Step ==
  \/ WriteStep
  \/ ReadFromPad
  \/ \E n \in 0..cfg.blockSize, outcome \in {"nil", "eof", "error"} : ReadFromStep(n, outcome)
  \/ CloseTrailer

Next == Setter \/ Call \/ Step

Spec     == Init /\ [][Next]_vars
LiveSpec == Spec /\ WF_vars(Step)

-----------------------------------------------------------------------------
Iota(n)    == [i \in 1..n |-> i]
Returned(op) == res = [op |-> op, err |-> "none"]

Config ==
  [ level : Nat, blockSize : Nat \ {0}, wndSize : Nat, crc : BOOLEAN, dict : Nat ]

TypeOK ==
  /\ cfg \in Config
  /\ enc \in [ raw : BOOLEAN, maxOff : Nat, hashed : Seq(Nat) ]
  /\ filling \in Seq(Nat) /\ fillCap \in Nat
  /\ headerWritten \in BOOLEAN /\ eofWritten \in BOOLEAN /\ fullFrameWritten \in BOOLEAN
  /\ err \in Errors
  /\ nInput \in Nat /\ contentSize \in Nat
  /\ out \in Seq(Item)
  /\ given \in Nat
  /\ pc \in {"idle", "write", "pad", "read", "trailer"} /\ left \in Nat
  /\ res \in [ op : Calls, err : Errors ]
  /\ panicked \in BOOLEAN

(***************************************************************************)
(* A Close that returned nil for an open stream left exactly one complete  *)
(* frame behind: one the Reader accepts (blocks within window, last block  *)
(* marked, size and checksum right) and whose content is every byte Write  *)
(* and ReadFrom took, in order, each once.                                 *)
(***************************************************************************)
ClosedFrameIsWhole ==
  Returned("Close") => Accepts(out) /\ Content(out) = Iota(given)

(***************************************************************************)
(* As long as no error occurred, between calls every byte taken from the   *)
(* caller is in a block that was written or waits in filling.              *)
(***************************************************************************)
NothingLost ==
  err = "none" /\ pc = "idle" /\ ~panicked => Content(out) \o filling = Iota(given)

(***************************************************************************)
(* A Flush that returned nil has handed every byte taken so far to the     *)
(* underlying io.Writer.                                                   *)
(***************************************************************************)
FlushDelivers ==
  Returned("Flush") => Content(out) = Iota(given)

(***************************************************************************)
(* After the first error (of the io.Writer, the encoder, the source of     *)
(* ReadFrom, or the closed frame) nothing more reaches the io.Writer until *)
(* Reset starts a new frame: a torn header or block is never followed by   *)
(* data a reader could take for the continuation.                          *)
(***************************************************************************)
SilentAfterError ==
  [][err # "none" => \/ out' = out /\ err' # "none"
                     \/ out' = << >> /\ err' = "none" /\ res'.op = "Reset"]_vars

(***************************************************************************)
(* Used as documented (setters before Reset, no Write or ReadFrom without  *)
(* an encoder except a Write after a successful Close), no call panics.    *)
(***************************************************************************)
NoPanic == ~panicked

(***************************************************************************)
(* Every call returns: the loops of Write and ReadFrom end although a full *)
(* buffer may stay full when nextBlock fails.                              *)
(***************************************************************************)
CallsReturn == (pc # "idle") ~> (pc = "idle")

(***************************************************************************)
(* The comment in SetWindowSize: blocks are limited to min(window, 128 KiB)*)
(* of the frame they are in.  Setters called while a frame is open break   *)
(* it: SetLevel restores the full blockSize, the encoder keeps its window. *)
(***************************************************************************)
BlocksFitWindow ==
  \A i \in BlocksOf(out) :
    out[1].kind = "header" => Len(out[i].data) <= Smaller(out[1].window, MaxBlock)

(***************************************************************************)
(* ErrEncoderClosed, "encoder used after Close": once Close returned nil,  *)
(* a call that hands over data is refused.  Write looks at eofWritten,     *)
(* ReadFrom does not: it takes the data and reports success, or panics.    *)
(***************************************************************************)
RefusedAfterClose ==
  eofWritten /\ ~Open => ~panicked /\ ~Returned("ReadFrom") /\ ~Returned("Write")

(***************************************************************************)
(* The bookkeeping of bytes behind NothingLost, as an inductive invariant: *)
(* while the frame is intact every byte taken is counted in nInput or      *)
(* waits in filling (of which left bytes are still room while ReadFrom     *)
(* reads into it), and eofWritten is only seen without an encoder or by    *)
(* the rest of Close.                                                      *)
(***************************************************************************)
Intact == err \in {"none", "closed"}
Unfilled  == IF pc = "read" THEN left ELSE 0

ReadRoom == pc = "read" => left <= Len(filling)

Accounting ==
  /\ ReadRoom
  /\ nInput <= given
  /\ Intact /\ ~panicked => nInput + Len(filling) = given + Unfilled
  /\ Intact /\ eofWritten => filling = << >>
  /\ eofWritten => ~Open \/ pc = "trailer"
  /\ err = "closed" => eofWritten /\ ~Open
  /\ pc \in {"write", "pad", "read"} => Open /\ ~panicked
  /\ pc = "pad" => filling = << >>
  /\ pc \in {"write", "pad", "read"} => ~eofWritten
  /\ pc = "trailer" => eofWritten /\ err = "none"
  /\ panicked => pc = "idle"

(* The promise of the Writer seen from its caller. *)
SinkState ==
  IF ~Intact THEN "broken"
  ELSE IF eofWritten /\ (~Open \/ pc = "trailer") THEN "done"
  ELSE "open"

Sink == INSTANCE FrameSink WITH taken <- given, sent <- nInput, state <- SinkState

(***************************************************************************)
(* Seen from its caller a Writer is a FrameSink: bytes go out in order, a  *)
(* frame is finished only when every byte taken is in it, and a broken one *)
(* stays broken until Reset.                                               *)
(***************************************************************************)
ImplementsSink == Sink!Spec
=============================================================================
