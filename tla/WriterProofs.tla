----------------------------- MODULE WriterProofs -----------------------------
(***************************************************************************)
(* Proofs about Writer: its types, and that a Writer used as its           *)
(* documentation asks implements FrameSink.                                *)
(***************************************************************************)
EXTENDS Writer, FramesProofs

-----------------------------------------------------------------------------
(* Lemmas about the pieces of a step. *)

(* Len and concatenation of the byte sequences the steps handle. *)
LEMMA ByteSeqs ==
  ASSUME given \in Nat
  PROVE  /\ \A n \in Nat : Bytes(n) \in Seq(Nat) /\ Len(Bytes(n)) = n
         /\ \A s, t \in Seq(Nat) : s \o t \in Seq(Nat) /\ Len(s \o t) = Len(s) + Len(t)
         /\ \A s \in Seq(Nat), n \in Nat :
              n <= Len(s) => /\ SubSeq(s, 1, n) \in Seq(Nat)
                             /\ Len(SubSeq(s, 1, n)) = n
                             /\ SubSeq(s, n + 1, Len(s)) \in Seq(Nat)
                             /\ Len(SubSeq(s, n + 1, Len(s))) = Len(s) - n
<1>1. \A n \in Nat : Bytes(n) \in Seq(Nat) /\ Len(Bytes(n)) = n
  BY DEF Bytes
<1>2. \A s, t \in Seq(Nat) : s \o t \in Seq(Nat) /\ Len(s \o t) = Len(s) + Len(t)
  OBVIOUS
<1>3. \A s \in Seq(Nat), n \in Nat :
        n <= Len(s) => /\ SubSeq(s, 1, n) \in Seq(Nat)
                       /\ Len(SubSeq(s, 1, n)) = n
                       /\ SubSeq(s, n + 1, Len(s)) \in Seq(Nat)
                       /\ Len(SubSeq(s, n + 1, Len(s))) = Len(s) - n
  OBVIOUS
<1> QED
  BY <1>1, <1>2, <1>3

(* The length of three sequences put together. *)
LEMMA ThreeParts ==
  ASSUME NEW a \in Seq(Nat), NEW b \in Seq(Nat), NEW c \in Seq(Nat)
  PROVE  Len(a \o b \o c) = Len(a) + Len(b) + Len(c) /\ a \o b \o c \in Seq(Nat)
<1>1. a \o b \in Seq(Nat) /\ Len(a \o b) = Len(a) + Len(b)
  OBVIOUS
<1> DEFINE ab == a \o b
<1> HIDE DEF ab
<1>2. ab \in Seq(Nat) => Len(ab \o c) = Len(ab) + Len(c) /\ ab \o c \in Seq(Nat)
  OBVIOUS
<1> QED
  BY <1>1, <1>2 DEF ab

(* A read into filling does not change its length. *)
LEMMA FilledLength ==
  ASSUME given \in Nat, filling \in Seq(Nat), left \in Nat, left <= Len(filling),
         NEW n \in Nat, n <= left
  PROVE  Len(SubSeq(filling, 1, Len(filling) - left) \o Bytes(n)
               \o SubSeq(filling, Len(filling) - left + n + 1, Len(filling))) = Len(filling)
<1> DEFINE filled == Len(filling) - left
           after  == SubSeq(filling, filled + n + 1, Len(filling))
           before == SubSeq(filling, 1, filled)
<1>1. filled \in Nat /\ filled + n \in Nat /\ filled + n <= Len(filling) /\ Len(filling) \in Nat
  OBVIOUS
<1> HIDE DEF filled
<1>2. /\ before \in Seq(Nat) /\ Len(before) = filled
      /\ after \in Seq(Nat) /\ Len(after) = Len(filling) - (filled + n)
      /\ Bytes(n) \in Seq(Nat) /\ Len(Bytes(n)) = n
  BY <1>1, ByteSeqs
<1> HIDE DEF after, before
<1>3. Len(before \o Bytes(n) \o after) = Len(before) + Len(Bytes(n)) + Len(after)
  BY <1>2, ThreeParts
<1>4. Len(before \o Bytes(n) \o after) = Len(filling)
  BY <1>1, <1>2, <1>3
<1> QED
  BY <1>4 DEF filled, before, after

(* ... nor its being a sequence of bytes. *)
LEMMA FilledType ==
  ASSUME given \in Nat, filling \in Seq(Nat), left \in Nat, left <= Len(filling),
         NEW n \in Nat, n <= left
  PROVE  SubSeq(filling, 1, Len(filling) - left) \o Bytes(n)
           \o SubSeq(filling, Len(filling) - left + n + 1, Len(filling)) \in Seq(Nat)
<1> DEFINE filled == Len(filling) - left
<1>1. filled \in Nat /\ filled <= Len(filling) /\ filled + n \in Nat /\ filled + n <= Len(filling)
  OBVIOUS
<1> HIDE DEF filled
<1>2. /\ SubSeq(filling, 1, filled) \in Seq(Nat) /\ Bytes(n) \in Seq(Nat)
      /\ SubSeq(filling, filled + n + 1, Len(filling)) \in Seq(Nat)
  BY <1>1, ByteSeqs
<1> QED
  BY <1>2, ThreeParts DEF filled

(* The length of a prefix. *)
LEMMA Prefix ==
  ASSUME NEW s \in Seq(Nat), NEW k \in Nat, k <= Len(s)
  PROVE  Len(SubSeq(s, 1, k)) = k
OBVIOUS

(* nextBlock keeps the types of what it assigns. *)
LEMMA NextBlockTypes ==
  ASSUME TypeOK, NEW buf \in Seq(Nat), NEW final \in BOOLEAN, NextBlock(buf, final)
  PROVE  /\ filling' \in Seq(Nat)
         /\ headerWritten' \in BOOLEAN /\ eofWritten' \in BOOLEAN
         /\ fullFrameWritten' \in BOOLEAN
         /\ err' \in Errors /\ nInput' \in Nat /\ contentSize' \in Nat
         /\ out' \in Seq(Item)
<1> DEFINE last == final /\ ~eofWritten
<1>1. last \in BOOLEAN /\ contentSize' \in Nat
  BY DEF TypeOK, NextBlock
<1>2. Torn \in Item /\ Block(buf, last) \in Item
  BY <1>1 DEF Item, Block
<1>3. Pending \in Seq(Item)
  <2>1. StreamHeader \in Item
    BY HeaderItem, WindowSizeNat DEF StreamHeader, TypeOK, Config
  <2>2. << StreamHeader >> \in Seq(Item)
    BY <2>1, SingletonSeq
  <2> QED
    BY <2>2 DEF Pending
<1>4. << Torn >> \in Seq(Item) /\ << Block(buf, last) >> \in Seq(Item)
  BY <1>2, SingletonSeq
<1>5. \A s, t \in Seq(Item) : s \o t \in Seq(Item)
  OBVIOUS
<1>6. \A s \in Seq(Item) : Append(s, Torn) \in Seq(Item)
  BY <1>2
<1>7. CASE Refused(buf) /\ filling' = buf /\ UNCHANGED << flags, err, nInput, out >>
  BY <1>1, <1>7 DEF TypeOK, flags
<1>8. CASE EmitFullFrame(buf)
  <2>1. EncodeAll(enc.maxOff, cfg, buf) \in Seq(Item)
    BY EncodeAllItems DEF TypeOK, Config
  <2>2. out' \in Seq(Item)
    <3>1. out \in Seq(Item)
      BY DEF TypeOK
    <3> QED
      BY <1>5, <1>6, <1>8, <2>1, <3>1 DEF EmitFullFrame
  <2>3. filling' \in Seq(Nat) /\ err' \in Errors /\ nInput' \in Nat
    <3>1. nInput \in Nat /\ Len(buf) \in Nat /\ << >> \in Seq(Nat)
      BY DEF TypeOK
    <3>2. /\ filling' \in {buf, << >>} /\ err' \in {"none", "io"}
          /\ nInput' = nInput \/ nInput' = nInput + Len(buf)
      BY <1>8 DEF EmitFullFrame
    <3>3. filling' \in Seq(Nat)
      BY <3>1, <3>2
    <3>4. err' \in Errors
      BY <3>2 DEF Errors
    <3>5. nInput' \in Nat
      BY <3>1, <3>2
    <3> QED
      BY <3>3, <3>4, <3>5
  <2>4. headerWritten' \in BOOLEAN /\ eofWritten' \in BOOLEAN /\ fullFrameWritten' \in BOOLEAN
    BY <1>8 DEF EmitFullFrame, TypeOK, flags
  <2> QED
    BY <1>1, <2>2, <2>3, <2>4
<1>9. CASE HeaderFails(buf)
  BY <1>1, <1>6, <1>9 DEF HeaderFails, TypeOK, Errors
<1>10. CASE EmitBlock(buf, last)
  <2>1. out \in Seq(Item)
    BY DEF TypeOK
  <2>2. out' \in Seq(Item)
    <3>1. out \o Pending \in Seq(Item)
      BY <1>3, <1>5, <2>1
    <3>2. /\ (out \o Pending) \o << Torn >> \in Seq(Item)
          /\ (out \o Pending) \o << Block(buf, last) >> \in Seq(Item)
      BY <1>4, <1>5, <3>1
    <3> QED
      BY <1>10, <3>2 DEF EmitBlock
  <2> QED
    BY <1>1, <1>10, <2>2 DEF EmitBlock, TypeOK, Errors
<1>11. CASE EncodeFails(buf, last)
  <2>1. out \in Seq(Item)
    BY DEF TypeOK
  <2>2. out' \in Seq(Item)
    BY <1>3, <1>5, <1>11, <2>1 DEF EncodeFails
  <2> QED
    BY <1>1, <1>11, <2>2 DEF EncodeFails, TypeOK, Errors
<1> QED
  BY <1>7, <1>8, <1>9, <1>10, <1>11 DEF NextBlock

(* The error nextBlock returned is an error. *)
LEMMA NextBlockErrType ==
  ASSUME NEW buf, err' \in Errors
  PROVE  NextBlockErr(buf) \in Errors
BY DEF NextBlockErr, Errors

(***************************************************************************)
(* What nextBlock does to the counters: refuse and change nothing, pass    *)
(* the whole buffer on, or fail.                                           *)
(***************************************************************************)
LEMMA NextBlockEffect ==
  ASSUME TypeOK, NEW buf \in Seq(Nat), NEW final \in BOOLEAN, NextBlock(buf, final)
  PROVE  \/ /\ Refused(buf) /\ filling' = buf
            /\ err' = err /\ nInput' = nInput /\ eofWritten' = eofWritten
         \/ /\ ~Refused(buf) /\ err' = "none" /\ filling' = << >>
            /\ nInput' = nInput + Len(buf)
            /\ eofWritten' = (eofWritten \/ final)
         \/ /\ ~Refused(buf) /\ err' \in {"io", "encode"}
            /\ nInput' \in nInput..(nInput + Len(buf))
            /\ eofWritten' => eofWritten \/ final
<1> DEFINE last == final /\ ~eofWritten
<1>1. nInput \in Nat /\ Len(buf) \in Nat /\ eofWritten \in BOOLEAN
  BY DEF TypeOK
<1>2. CASE Refused(buf) /\ filling' = buf /\ UNCHANGED << flags, err, nInput, out >>
  BY <1>2 DEF flags
<1>3. CASE ~Refused(buf) /\ final /\ EmitFullFrame(buf)
  <2>1. CASE err' = "none" /\ nInput' = nInput + Len(buf) /\ filling' = << >> /\ eofWritten' = TRUE
    <3>1. eofWritten' = (eofWritten \/ final)
      BY <1>3, <2>1
    <3> QED
      BY <1>3, <2>1, <3>1
  <2>2. CASE err' = "io" /\ nInput' = nInput
    BY <1>1, <1>3, <2>2
  <2> QED
    BY <1>3, <2>1, <2>2 DEF EmitFullFrame
<1>4. CASE ~Refused(buf) /\ HeaderFails(buf)
  BY <1>1, <1>4 DEF HeaderFails
<1>5. CASE ~Refused(buf) /\ EmitBlock(buf, last)
  BY <1>1, <1>5 DEF EmitBlock
<1>6. CASE ~Refused(buf) /\ EncodeFails(buf, last)
  BY <1>1, <1>6 DEF EncodeFails
<1> QED
  BY <1>2, <1>3, <1>4, <1>5, <1>6 DEF NextBlock

-----------------------------------------------------------------------------
(* Types. *)

(* The initial state is typed. *)
LEMMA TypeInit == Init => TypeOK
<1> SUFFICES ASSUME Init PROVE TypeOK
  OBVIOUS
<1>1. /\ DefaultLevel \in Nat /\ DefaultWindow \in Nat /\ MaxBlock \in Nat \ {0}
  BY WriterAssumption, SizesAssumption
<1>2. << >> \in Seq(Nat) /\ << >> \in Seq(Item)
  OBVIOUS
<1> QED
  BY <1>1, <1>2 DEF Init, TypeOK, Config, NoEnc, Errors, Calls

(* Setters keep the types. *)
LEMMA TypeSetter == TypeOK /\ Setter => TypeOK'
<1> SUFFICES ASSUME TypeOK, Setter PROVE TypeOK'
  OBVIOUS
<1>1. cfg' \in Config
  <2>1. ASSUME NEW l \in Levels, SetLevel(l)
        PROVE  cfg' \in Config
    BY <2>1, WriterAssumption, SizesAssumption DEF SetLevel, Configure, TypeOK, Config
  <2>2. ASSUME NEW n \in Windows, SetWindowSize(n)
        PROVE  cfg' \in Config
    <3>1. n \in Nat /\ n >= MinWindow /\ Smaller(n, MaxBlock) \in Nat \ {0}
      BY WriterAssumption, SizesAssumption DEF Smaller
    <3> QED
      BY <2>2, <3>1 DEF SetWindowSize, Configure, TypeOK, Config
  <2>3. ASSUME NEW b \in BOOLEAN, SetCRC(b)
        PROVE  cfg' \in Config
    BY <2>3 DEF SetCRC, Configure, TypeOK, Config
  <2>4. ASSUME NEW d \in Dicts, AddDict(d)
        PROVE  cfg' \in Config
    BY <2>4, WriterAssumption DEF AddDict, Configure, TypeOK, Config
  <2> QED
    BY <2>1, <2>2, <2>3, <2>4 DEF Setter
<1>2. UNCHANGED << enc, filling, fillCap, stream, given, pc, left, res, panicked >>
  BY DEF Setter, SetLevel, SetWindowSize, SetCRC, AddDict, Configure
<1> QED
  BY <1>1, <1>2 DEF TypeOK, stream, flags

(* The return of a call and the move to another loop keep the types. *)
LEMMA TypeControl ==
  ASSUME TypeOK
  PROVE  /\ \A op \in Calls, e \in Errors :
              Return(op, e) => /\ pc' = "idle" /\ left' \in Nat
                               /\ res' \in [op : Calls, err : Errors]
                               /\ panicked' \in BOOLEAN
         /\ \A label \in {"write", "pad", "read", "trailer"}, n \in Nat :
              Goto(label, n) => /\ pc' = label /\ left' \in Nat
                                /\ res' \in [op : Calls, err : Errors]
                                /\ panicked' \in BOOLEAN
         /\ Panic => TypeOK'
<1>1. Running \in [op : Calls, err : Errors]
  BY DEF Running, Calls, Errors
<1>2. \A op \in Calls, e \in Errors :
        Return(op, e) => /\ pc' = "idle" /\ left' \in Nat
                         /\ res' \in [op : Calls, err : Errors]
                         /\ panicked' \in BOOLEAN
  BY DEF Return, TypeOK
<1>3. \A label \in {"write", "pad", "read", "trailer"}, n \in Nat :
        Goto(label, n) => /\ pc' = label /\ left' \in Nat
                          /\ res' \in [op : Calls, err : Errors]
                          /\ panicked' \in BOOLEAN
  BY <1>1 DEF Goto, TypeOK
<1>4. Panic => TypeOK'
  BY <1>1 DEF Panic, TypeOK, stream, flags
<1> QED
  BY <1>2, <1>3, <1>4

(* Reset keeps the types. *)
LEMMA TypeReset ==
  ASSUME TypeOK, NEW size \in ContentSizes, Reset(size)
  PROVE  TypeOK'
<1>1. Declared(size) \in Nat /\ Room \in Nat
  BY WriterAssumption DEF Declared, Room, Larger, TypeOK, Config
<1>2. << >> \in Seq(Nat) /\ << >> \in Seq(Item)
  OBVIOUS
<1>3. NewEncoder \in [raw : BOOLEAN, maxOff : Nat, hashed : Seq(Nat)]
  BY <1>2, WriterAssumption DEF NewEncoder, TypeOK, Config
<1>4. res' \in [op : Calls, err : Errors]
  BY DEF Reset, Calls, Errors
<1>5. cfg' = cfg /\ pc' = pc /\ left' = left /\ panicked' = panicked
  BY DEF Reset
<1>6. fillCap' \in Nat /\ contentSize' \in Nat
  BY <1>1 DEF Reset
<1> QED
  BY <1>2, <1>3, <1>4, <1>5, <1>6 DEF Reset, TypeOK, Errors

(* Write, Flush and ReadFrom as called keep the types. *)
LEMMA TypeCalls ==
  ASSUME TypeOK, (\E n \in 0..MaxChunk : Write(n)) \/ Flush \/ ReadFrom
  PROVE  TypeOK'
<1>1. ASSUME NEW n \in 0..MaxChunk, Write(n)
      PROVE  TypeOK'
  <2>1. UNCHANGED << cfg, enc, filling, fillCap, stream, given >>
    BY <1>1 DEF Write
  <2>2. n \in Nat /\ "Write" \in Calls /\ "closed" \in Errors /\ "none" \in Errors
    BY DEF Calls, Errors
  <2>3. \/ Return("Write", "closed") \/ Return("Write", "none") \/ Goto("write", n)
    BY <1>1 DEF Write
  <2>4. /\ pc' \in {"idle", "write"} /\ left' \in Nat
        /\ res' \in [op : Calls, err : Errors] /\ panicked' \in BOOLEAN
    BY <2>2, <2>3, TypeControl
  <2> QED
    BY <2>1, <2>4 DEF TypeOK, stream, flags
<1>2. ASSUME Flush \/ ReadFrom
      PROVE  TypeOK'
  <2>1. filling \in Seq(Nat) /\ err \in Errors /\ {"Flush", "ReadFrom"} \subseteq Calls
        /\ 0 \in Nat /\ FALSE \in BOOLEAN /\ "none" \in Errors
    BY DEF TypeOK, Calls, Errors
  <2>2. CASE Panic
    BY <2>2, TypeControl
  <2>3. CASE UNCHANGED << filling, stream, given, cfg, enc, fillCap >>
             /\ (Return("Flush", err) \/ Goto("pad", 0))
    <3>1. /\ pc' \in {"idle", "pad"} /\ left' \in Nat
          /\ res' \in [op : Calls, err : Errors] /\ panicked' \in BOOLEAN
      BY <2>1, <2>3, TypeControl
    <3> QED
      BY <2>3, <3>1 DEF TypeOK, stream, flags
  <2>4. CASE /\ NextBlock(filling, FALSE)
             /\ \/ Return("Flush", NextBlockErr(filling))
                \/ Return("ReadFrom", NextBlockErr(filling))
                \/ Goto("pad", 0)
             /\ UNCHANGED << cfg, enc, fillCap, given >>
    <3>1. /\ filling' \in Seq(Nat)
          /\ headerWritten' \in BOOLEAN /\ eofWritten' \in BOOLEAN
          /\ fullFrameWritten' \in BOOLEAN
          /\ err' \in Errors /\ nInput' \in Nat /\ contentSize' \in Nat
          /\ out' \in Seq(Item)
      BY <2>1, <2>4, NextBlockTypes
    <3>2. NextBlockErr(filling) \in Errors
      BY <3>1, NextBlockErrType
    <3>3. /\ pc' \in {"idle", "pad"} /\ left' \in Nat
          /\ res' \in [op : Calls, err : Errors] /\ panicked' \in BOOLEAN
      BY <2>1, <2>4, <3>2, TypeControl
    <3> QED
      BY <2>4, <3>1, <3>3 DEF TypeOK
  <2> QED
    BY <1>2, <2>2, <2>3, <2>4 DEF Flush, ReadFrom
<1> QED
  BY <1>1, <1>2

(* What a block handed to nextBlock by a step leaves behind is typed. *)
LEMMA TypeBlockStep ==
  ASSUME TypeOK, NEW buf \in Seq(Nat), NEW final \in BOOLEAN, NextBlock(buf, final),
         cfg' = cfg, given' \in Nat, fillCap' \in Nat,
         enc' \in [ raw : BOOLEAN, maxOff : Nat, hashed : Seq(Nat) ],
         pc' \in {"idle", "write", "pad", "read", "trailer"} /\ left' \in Nat,
         res' \in [op : Calls, err : Errors] /\ panicked' \in BOOLEAN
  PROVE  TypeOK'
<1>1. /\ filling' \in Seq(Nat)
      /\ headerWritten' \in BOOLEAN /\ eofWritten' \in BOOLEAN
      /\ fullFrameWritten' \in BOOLEAN
      /\ err' \in Errors /\ nInput' \in Nat /\ contentSize' \in Nat
      /\ out' \in Seq(Item)
  BY NextBlockTypes
<1> QED
  BY <1>1 DEF TypeOK

(* Hashing keeps the encoder an encoder. *)
LEMMA TypeHashed ==
  ASSUME TypeOK, NEW n \in Nat
  PROVE  [enc EXCEPT !.hashed = Digest(Bytes(n))] \in
           [ raw : BOOLEAN, maxOff : Nat, hashed : Seq(Nat) ]
<1>1. Digest(Bytes(n)) \in Seq(Nat)
  <2>1. given \in Nat /\ enc.hashed \in Seq(Nat)
    BY DEF TypeOK
  <2> QED
    BY <2>1, ByteSeqs DEF Digest
<1> QED
  BY <1>1 DEF TypeOK

(* A round of Write's loop keeps the types. *)
LEMMA TypeWriteStep == TypeOK /\ WriteStep => TypeOK'
<1> SUFFICES ASSUME TypeOK, WriteStep PROVE TypeOK'
  OBVIOUS
<1> DEFINE fits == left + Len(filling) < cfg.blockSize
           n    == IF fits THEN left ELSE Smaller(left, cfg.blockSize - Len(filling))
           buf  == filling \o Bytes(n)
<1>1. /\ left \in Nat /\ given \in Nat /\ cfg.blockSize \in Nat /\ filling \in Seq(Nat)
      /\ Len(filling) \in Nat /\ fillCap \in Nat
  BY DEF TypeOK, Config
<1>2. n \in Int /\ n <= left
  BY <1>1 DEF Smaller
<1>3. CASE Panic
  BY <1>3, TypeControl
<1>4. CASE n >= 0 /\ ~Panic
  <2>1. n \in Nat
    BY <1>2, <1>4
  <2>2. buf \in Seq(Nat) /\ Len(buf) \in Nat
    BY <1>1, <2>1, ByteSeqs
  <2>3. /\ given' = given + n
        /\ fillCap' = Larger(fillCap, Len(buf))
        /\ enc' = [enc EXCEPT !.hashed = Digest(Bytes(n))]
        /\ UNCHANGED cfg
        /\ IF fits
           THEN filling' = buf /\ Return("Write", "none") /\ UNCHANGED stream
           ELSE /\ NextBlock(buf, FALSE)
                /\ IF NextBlockErr(buf) # "none" THEN Return("Write", NextBlockErr(buf))
                   ELSE IF left = n THEN Return("Write", "none")
                   ELSE Goto("write", left - n)
    BY <1>4 DEF WriteStep
  <2> HIDE DEF n, buf
  <2>4. given' \in Nat /\ fillCap' \in Nat
    BY <1>1, <2>1, <2>2, <2>3 DEF Larger
  <2>5. enc' \in [ raw : BOOLEAN, maxOff : Nat, hashed : Seq(Nat) ]
    BY <2>1, <2>3, TypeHashed
  <2>6. "Write" \in Calls /\ "none" \in Errors /\ FALSE \in BOOLEAN
    BY DEF Calls, Errors
  <2>7. CASE fits
    <3>1. Return("Write", "none")
      BY <2>3, <2>7
    <3>2. /\ pc' = "idle" /\ left' \in Nat
          /\ res' \in [op : Calls, err : Errors] /\ panicked' \in BOOLEAN
      BY <2>6, <3>1, TypeControl
    <3> QED
      BY <2>2, <2>3, <2>4, <2>5, <2>7, <3>2 DEF TypeOK, stream, flags
  <2>8. CASE ~fits
    <3>1. NextBlock(buf, FALSE)
      BY <2>3, <2>8
    <3>2. NextBlockErr(buf) \in Errors
      BY <2>2, <2>6, <3>1, NextBlockTypes, NextBlockErrType
    <3>3. left - n \in Nat
      BY <1>1, <1>2, <2>1
    <3>4. /\ pc' \in {"idle", "write"} /\ left' \in Nat
          /\ res' \in [op : Calls, err : Errors] /\ panicked' \in BOOLEAN
      BY <2>3, <2>6, <2>8, <3>2, <3>3, TypeControl
    <3>5. cfg' = cfg
      BY <2>3
    <3> QED
      BY <2>2, <2>4, <2>5, <2>6, <3>1, <3>4, <3>5, TypeBlockStep
  <2> QED
    BY <2>7, <2>8
<1>5. n < 0 => Panic
  BY DEF WriteStep
<1> HIDE DEF n
<1> QED
  BY <1>2, <1>3, <1>4, <1>5

(* Making room in filling keeps the types. *)
LEMMA TypeReadFromPad == TypeOK /\ ReadFromPad => TypeOK'
<1> SUFFICES ASSUME TypeOK, ReadFromPad PROVE TypeOK'
  OBVIOUS
<1>1. CASE Panic
  BY <1>1, TypeControl
<1>2. CASE /\ filling' = [i \in 1..cfg.blockSize |-> Garbage]
           /\ Goto("read", cfg.blockSize)
           /\ UNCHANGED << cfg, enc, fillCap, stream, given >>
  <2>1. cfg.blockSize \in Nat
    BY DEF TypeOK, Config
  <2>2. filling' \in Seq(Nat)
    BY <1>2, <2>1 DEF Garbage
  <2>3. /\ pc' = "read" /\ left' \in Nat
        /\ res' \in [op : Calls, err : Errors] /\ panicked' \in BOOLEAN
    BY <1>2, <2>1, TypeControl
  <2> QED
    BY <1>2, <2>2, <2>3 DEF TypeOK, stream, flags
<1> QED
  BY <1>1, <1>2 DEF ReadFromPad

(* One Read of the source keeps the types. *)
LEMMA TypeReadFromStep ==
  ASSUME TypeOK, NEW n \in 0..cfg.blockSize, NEW outcome \in {"nil", "eof", "error"},
         ReadFromStep(n, outcome), left <= Len(filling)
  PROVE  TypeOK'
<1> DEFINE filled == Len(filling) - left
           buf    == SubSeq(filling, 1, filled) \o Bytes(n)
                       \o SubSeq(filling, filled + n + 1, Len(filling))
           full   == outcome = "nil" /\ n = left
<1>1. /\ left \in Nat /\ given \in Nat /\ filling \in Seq(Nat) /\ n \in Nat
      /\ Len(filling) \in Nat /\ fillCap \in Nat /\ n <= left /\ filled \in Nat
  BY SMTT(40) DEF TypeOK, Config, ReadFromStep
<1>2. CASE Panic
  BY <1>2, TypeControl
<1>3. CASE ~Panic
  <2>1. /\ SubSeq(filling, 1, filled) \in Seq(Nat)
        /\ SubSeq(filling, filled + n + 1, Len(filling)) \in Seq(Nat)
        /\ Bytes(n) \in Seq(Nat)
    BY <1>1, ByteSeqs
  <2>2. buf \in Seq(Nat) /\ Len(buf) \in Nat
    BY SMTT(40), <2>1
  <2>3. SubSeq(buf, 1, filled + n) \in Seq(Nat)
    <3>1. Len(SubSeq(filling, 1, filled)) = filled /\ Len(Bytes(n)) = n
      BY <1>1, ByteSeqs
    <3>2. Len(buf) = (filled + n) + Len(SubSeq(filling, filled + n + 1, Len(filling)))
      BY <2>1, <3>1
    <3> HIDE DEF filled, buf
    <3>3. Len(buf) >= filled + n /\ filled + n \in Nat
      <4>1. Len(SubSeq(filling, filled + n + 1, Len(filling))) \in Nat
        BY <2>1
      <4> QED
        <5>1. filled + n \in Nat
          BY <1>1
        <5>2. \A k, rest \in Nat : k + rest >= k
          OBVIOUS
        <5> QED
          BY <3>2, <4>1, <5>1, <5>2
    <3>4. \A s \in Seq(Nat), k \in Nat : k <= Len(s) => SubSeq(s, 1, k) \in Seq(Nat)
      OBVIOUS
    <3> QED
      BY <2>2, <3>3, <3>4
  <2>4. /\ given' = given + n
        /\ enc' = [enc EXCEPT !.hashed = Digest(Bytes(n))]
        /\ UNCHANGED << cfg, fillCap >>
        /\ \/ /\ filling' = SubSeq(buf, 1, filled + n)
              /\ Return("ReadFrom", "none")
              /\ UNCHANGED stream
           \/ /\ filling' = buf /\ err' = "source"
              /\ Return("ReadFrom", "source")
              /\ UNCHANGED << flags, nInput, contentSize, out >>
           \/ /\ filling' = buf
              /\ Goto("read", left - n)
              /\ UNCHANGED stream
           \/ /\ NextBlock(buf, FALSE)
              /\ IF NextBlockErr(buf) # "none" THEN Return("ReadFrom", NextBlockErr(buf))
                 ELSE Goto("pad", 0)
    BY <1>3 DEF ReadFromStep
  <2> HIDE DEF filled, buf
  <2>5. given' \in Nat /\ fillCap' \in Nat /\ cfg' = cfg /\ cfg \in Config
    BY <1>1, <2>4 DEF TypeOK
  <2>6. enc' \in [ raw : BOOLEAN, maxOff : Nat, hashed : Seq(Nat) ]
    BY <1>1, <2>4, TypeHashed
  <2>7. /\ "ReadFrom" \in Calls /\ "none" \in Errors /\ "source" \in Errors
        /\ FALSE \in BOOLEAN /\ 0 \in Nat /\ left - n \in Nat
    BY <1>1 DEF Calls, Errors
  <2>8. CASE /\ filling' = SubSeq(buf, 1, filled + n)
             /\ Return("ReadFrom", "none")
             /\ UNCHANGED stream
    <3>1. /\ pc' = "idle" /\ left' \in Nat
          /\ res' \in [op : Calls, err : Errors] /\ panicked' \in BOOLEAN
      BY <2>7, <2>8, TypeControl
    <3> QED
      BY <2>3, <2>5, <2>6, <2>8, <3>1 DEF TypeOK, stream, flags
  <2>9. CASE /\ filling' = buf /\ err' = "source"
             /\ Return("ReadFrom", "source")
             /\ UNCHANGED << flags, nInput, contentSize, out >>
    <3>1. /\ pc' = "idle" /\ left' \in Nat
          /\ res' \in [op : Calls, err : Errors] /\ panicked' \in BOOLEAN
      BY <2>7, <2>9, TypeControl
    <3> QED
      BY <2>2, <2>5, <2>6, <2>7, <2>9, <3>1 DEF TypeOK, flags
  <2>10. CASE filling' = buf /\ Goto("read", left - n) /\ UNCHANGED stream
    <3>1. /\ pc' = "read" /\ left' \in Nat
          /\ res' \in [op : Calls, err : Errors] /\ panicked' \in BOOLEAN
      BY <2>7, <2>10, TypeControl
    <3> QED
      BY <2>2, <2>5, <2>6, <2>10, <3>1 DEF TypeOK, stream, flags
  <2>11. CASE /\ NextBlock(buf, FALSE)
              /\ IF NextBlockErr(buf) # "none" THEN Return("ReadFrom", NextBlockErr(buf))
                 ELSE Goto("pad", 0)
    <3>1. NextBlockErr(buf) \in Errors
      BY <2>2, <2>7, <2>11, NextBlockTypes, NextBlockErrType
    <3>2. /\ pc' \in {"idle", "pad"} /\ left' \in Nat
          /\ res' \in [op : Calls, err : Errors] /\ panicked' \in BOOLEAN
      BY <2>7, <2>11, <3>1, TypeControl
    <3> QED
      BY <2>2, <2>5, <2>6, <2>7, <2>11, <3>2, TypeBlockStep
  <2> QED
    BY <2>4, <2>8, <2>9, <2>10, <2>11
<1> QED
  BY <1>2, <1>3

(* Close keeps the types. *)
LEMMA TypeClose == TypeOK /\ (Close \/ CloseTrailer) => TypeOK'
<1> SUFFICES ASSUME TypeOK, Close \/ CloseTrailer PROVE TypeOK'
  OBVIOUS
<1>1. /\ {"Close", "Closed"} \subseteq Calls /\ {"none", "size", "io", "closed"} \subseteq Errors
      /\ TRUE \in BOOLEAN /\ filling \in Seq(Nat) /\ 0 \in Nat
  BY DEF Calls, Errors, TypeOK
<1>2. NoEnc \in [ raw : BOOLEAN, maxOff : Nat, hashed : Seq(Nat) ]
  BY DEF NoEnc
<1>3. CASE ~Open /\ Return("Closed", "none")
           /\ UNCHANGED << cfg, enc, filling, fillCap, stream, given >>
  <2>1. /\ pc' = "idle" /\ left' \in Nat
        /\ res' \in [op : Calls, err : Errors] /\ panicked' \in BOOLEAN
    BY <1>1, <1>3, TypeControl
  <2> QED
    BY <1>3, <2>1 DEF TypeOK, stream, flags
<1>4. CASE CloseFrame
  <2> DEFINE size == IF contentSize > 0 /\ nInput' # contentSize THEN "size" ELSE "none"
  <2>1. /\ NextBlock(filling, TRUE)
        /\ \/ Return("Close", NextBlockErr(filling)) /\ enc' = NoEnc
           \/ Return("Close", size) /\ enc' = NoEnc
           \/ Goto("trailer", 0) /\ UNCHANGED enc
        /\ UNCHANGED << cfg, fillCap, given >>
    BY <1>4 DEF CloseFrame
  <2>2. NextBlockErr(filling) \in Errors /\ size \in Errors
    BY <1>1, <2>1, NextBlockTypes, NextBlockErrType
  <2> HIDE DEF size
  <2>3. /\ pc' \in {"idle", "trailer"} /\ left' \in Nat
        /\ res' \in [op : Calls, err : Errors] /\ panicked' \in BOOLEAN
    BY <1>1, <2>1, <2>2, TypeControl
  <2>4. enc' \in [ raw : BOOLEAN, maxOff : Nat, hashed : Seq(Nat) ]
    BY <1>2, <2>1 DEF TypeOK
  <2>5. given' \in Nat /\ fillCap' \in Nat /\ cfg' = cfg
    BY <2>1 DEF TypeOK
  <2> QED
    BY <1>1, <2>1, <2>3, <2>4, <2>5, TypeBlockStep
<1>5. CASE Panic
  BY <1>5, TypeControl
<1>6. CASE CloseTrailer
  <2>1. /\ Return("Close", "none") \/ Return("Close", "io")
        /\ err' \in {"closed", "io"} /\ enc' = NoEnc
        /\ UNCHANGED << cfg, filling, fillCap, flags, nInput, contentSize, given >>
    BY <1>6 DEF CloseTrailer
  <2>2. /\ pc' = "idle" /\ left' \in Nat
        /\ res' \in [op : Calls, err : Errors] /\ panicked' \in BOOLEAN
    BY <1>1, <2>1, TypeControl
  <2>3. out' \in Seq(Item)
    <3>1. Torn \in Item /\ Checksum(enc.hashed) \in Item
      BY DEF Item, Checksum, TypeOK
    <3>2. out \in Seq(Item)
      BY DEF TypeOK
    <3> QED
      BY <1>6, <3>1, <3>2 DEF CloseTrailer
  <2> QED
    BY <1>1, <1>2, <2>1, <2>2, <2>3 DEF TypeOK, flags
<1> QED
  BY <1>3, <1>4, <1>5, <1>6 DEF Close

-----------------------------------------------------------------------------
(***************************************************************************)
(* Types for every behaviour.  The reads of ReadFrom need that the room    *)
(* left is part of filling, so ReadRoom goes with them.                    *)
(***************************************************************************)

(* Only ReadFrom's own steps touch filling or left while it reads. *)
LEMMA RoomNext == TypeOK /\ ReadRoom /\ [Next]_vars => ReadRoom'
<1> SUFFICES ASSUME TypeOK, ReadRoom, [Next]_vars, pc' = "read"
             PROVE  left' <= Len(filling)'
  BY DEF ReadRoom
<1>1. CASE UNCHANGED vars
  BY <1>1 DEF vars, ReadRoom
<1>2. CASE Setter
  BY <1>2 DEF Setter, SetLevel, SetWindowSize, SetCRC, AddDict, Configure, ReadRoom
<1>3. CASE Call
  <2>1. pc' # "read"
    BY <1>3 DEF Call, Reset, Write, ReadFrom, Flush, Close, CloseFrame, Return, Goto, Panic
  <2> QED
    BY <2>1
<1>4. CASE WriteStep \/ CloseTrailer
  BY <1>4 DEF WriteStep, CloseTrailer, Return, Goto, Panic
<1>5. CASE ReadFromPad
  <2> DEFINE room == [i \in 1..cfg.blockSize |-> Garbage]
  <2>1. cfg.blockSize \in Nat
    BY DEF TypeOK, Config
  <2>2. filling' = room /\ left' = cfg.blockSize
    BY <1>5 DEF ReadFromPad, Goto, Panic
  <2>3. Len(room) = cfg.blockSize
    BY <2>1
  <2> HIDE DEF room
  <2> QED
    BY <2>1, <2>2, <2>3
<1>6. ASSUME NEW n \in 0..cfg.blockSize, NEW outcome \in {"nil", "eof", "error"},
             ReadFromStep(n, outcome)
      PROVE  left' <= Len(filling)'
  <2> DEFINE filled == Len(filling) - left
             buf    == SubSeq(filling, 1, filled) \o Bytes(n)
                         \o SubSeq(filling, filled + n + 1, Len(filling))
  <2>1. filling' = buf /\ left' = left - n
    BY <1>6 DEF ReadFromStep, Return, Goto, Panic
  <2>2. /\ left \in Nat /\ n \in Nat /\ n <= left /\ left <= Len(filling)
        /\ filling \in Seq(Nat) /\ given \in Nat
    BY <1>6 DEF ReadFromStep, TypeOK, ReadRoom, Config
  <2>3. Len(buf) = Len(filling)
    BY <2>2, FilledLength
  <2> HIDE DEF buf
  <2>4. Len(filling)' = Len(filling) /\ left' <= left
    BY <2>1, <2>2, <2>3
  <2>5. left' \in Int /\ Len(filling) \in Nat
    BY <2>1, <2>2
  <2> QED
    BY <2>2, <2>4, <2>5
<1> QED
  BY <1>1, <1>2, <1>3, <1>4, <1>5, <1>6 DEF Next, Step

(* Every step keeps the types. *)
LEMMA TypeNext == TypeOK /\ ReadRoom /\ [Next]_vars => TypeOK'
<1> SUFFICES ASSUME TypeOK, ReadRoom, [Next]_vars PROVE TypeOK'
  OBVIOUS
<1>1. CASE UNCHANGED vars
  BY <1>1 DEF vars, TypeOK, stream, flags
<1>2. CASE Setter
  BY <1>2, TypeSetter
<1>3. CASE Call
  BY <1>3, TypeReset, TypeCalls, TypeClose DEF Call
<1>4. CASE Step
  <2>1. ASSUME NEW n \in 0..cfg.blockSize, NEW outcome \in {"nil", "eof", "error"},
               ReadFromStep(n, outcome)
        PROVE  TypeOK'
    <3>1. left <= Len(filling)
      BY <2>1 DEF ReadFromStep, ReadRoom
    <3> QED
      BY <2>1, <3>1, TypeReadFromStep
  <2> QED
    BY <1>4, <2>1, TypeWriteStep, TypeReadFromPad, TypeClose DEF Step
<1> QED
  BY <1>1, <1>2, <1>3, <1>4 DEF Next

(* The Writer is typed in every state of every behaviour. *)
THEOREM WriterTyped == Spec => []TypeOK
<1>1. Init => TypeOK /\ ReadRoom
  BY TypeInit DEF Init, ReadRoom
<1>2. (TypeOK /\ ReadRoom) /\ [Next]_vars => (TypeOK /\ ReadRoom)'
  BY TypeNext, RoomNext
<1>3. Spec => [](TypeOK /\ ReadRoom)
  BY <1>1, <1>2, PTL DEF Spec
<1> QED
  BY <1>3, PTL

-----------------------------------------------------------------------------
(***************************************************************************)
(* Accounting is inductive, and every step that keeps it is a step of      *)
(* FrameSink or invisible to it.  Both are proved action by action, for a  *)
(* Writer without Write and ReadFrom after Close.                          *)
(***************************************************************************)
SinkStep == Sink!Next \/ UNCHANGED << given, nInput, SinkState >>

(* The numbers of a typed state. *)
LEMMA Numbers ==
  ASSUME TypeOK
  PROVE  /\ nInput \in Nat /\ given \in Nat /\ left \in Nat /\ Len(filling) \in Nat
         /\ cfg.blockSize \in Nat \ {0} /\ filling \in Seq(Nat) /\ eofWritten \in BOOLEAN
BY DEF TypeOK, Config

(* At first nothing is taken and nothing is sent. *)
LEMMA AccountInit == Init => Accounting /\ Sink!Init
<1> SUFFICES ASSUME Init PROVE Accounting /\ Sink!Init
  OBVIOUS
<1>1. Accounting
  BY DEF Init, Accounting, ReadRoom, Intact, Unfilled, Open
<1>2. Sink!Init
  BY DEF Init, Sink!Init, SinkState, Intact, Open
<1> QED
  BY <1>1, <1>2

(* Steps that leave the counters, the error and the encoder alone. *)
LEMMA AccountQuiet ==
  ASSUME TypeOK, Accounting,
         UNCHANGED << enc, filling, eofWritten, err, nInput, given >>,
         pc = "idle" \/ panicked',
         pc' \in {"idle", "write"},
         pc' = "write" => Open,
         panicked' => pc' = "idle" /\ pc # "trailer",
         ~panicked' => ~panicked
  PROVE  Accounting' /\ SinkStep
<1>1. Accounting'
  BY Numbers DEF Accounting, ReadRoom, Intact, Unfilled, Open
<1>2. UNCHANGED << given, nInput, SinkState >>
  BY DEF Accounting, SinkState, Intact, Open
<1> QED
  BY <1>1, <1>2 DEF SinkStep

(* A panic ends every call. *)
LEMMA AccountPanic ==
  ASSUME TypeOK, Accounting, Panic, pc # "trailer"
  PROVE  Accounting' /\ SinkStep
<1>1. /\ UNCHANGED << enc, filling, stream, given >> /\ panicked' /\ pc' = "idle"
  BY DEF Panic
<1>2. UNCHANGED << eofWritten, err, nInput >>
  BY <1>1 DEF stream, flags
<1> QED
  BY <1>1, <1>2, AccountQuiet

(* Setters. *)
LEMMA AccountSetter == TypeOK /\ Accounting /\ Setter => Accounting' /\ SinkStep
<1> SUFFICES ASSUME TypeOK, Accounting, Setter PROVE Accounting' /\ SinkStep
  OBVIOUS
<1>1. /\ pc = "idle" /\ UNCHANGED << enc, filling, stream, given, pc, panicked >>
  BY DEF Setter, SetLevel, SetWindowSize, SetCRC, AddDict, Configure, Configurable
<1>2. UNCHANGED << eofWritten, err, nInput >>
  BY <1>1 DEF stream, flags
<1>3. ~panicked
  BY DEF Setter, SetLevel, SetWindowSize, SetCRC, AddDict, Configurable
<1> QED
  BY <1>1, <1>2, <1>3, AccountQuiet

(* Reset starts a new frame. *)
LEMMA AccountReset ==
  ASSUME TypeOK, Accounting, NEW size \in ContentSizes, Reset(size)
  PROVE  Accounting' /\ SinkStep
<1>1. /\ pc' = "idle" /\ ~panicked' /\ filling' = << >> /\ eofWritten' = FALSE
      /\ err' = "none" /\ nInput' = 0 /\ given' = 0
  BY DEF Reset
<1>2. Accounting'
  BY <1>1 DEF Accounting, ReadRoom, Intact, Unfilled, Open
<1>3. Sink!Start
  BY <1>1 DEF Sink!Start, SinkState, Intact
<1> QED
  BY <1>2, <1>3 DEF SinkStep, Sink!Next

(***************************************************************************)
(* A block handed on by Write, Flush or ReadFrom: buf is filling with the  *)
(* bytes taken in this step, and holds no room.                            *)
(***************************************************************************)
LEMMA AccountBlock ==
  ASSUME TypeOK, Accounting, NEW buf \in Seq(Nat), NextBlock(buf, FALSE),
         given' \in Nat, given' >= given,
         Intact => nInput + Len(buf) = given' /\ ~eofWritten,
         ~panicked, ~panicked', pc # "trailer",
         pc' \in {"idle", "write", "pad"},
         pc' # "idle" => Open', Open' => ~eofWritten,
         pc' = "pad" => NextBlockErr(buf) = "none"
  PROVE  Accounting' /\ SinkStep
<1>1. /\ nInput \in Nat /\ given \in Nat /\ Len(buf) \in Nat /\ eofWritten \in BOOLEAN
      /\ nInput <= given /\ (err = "closed" => eofWritten)
  BY Numbers DEF Accounting
<1>2. Unfilled' = 0
  BY DEF Unfilled
<1>3. CASE /\ Refused(buf) /\ filling' = buf
           /\ err' = err /\ nInput' = nInput /\ eofWritten' = eofWritten
  <2>1. Accounting'
    <3>1. pc' # "pad"
      BY <1>3 DEF NextBlockErr, Refused
    <3> QED
      BY <1>1, <1>2, <1>3, <3>1 DEF Accounting, ReadRoom, Intact
  <2>2. CASE Intact
    <3>1. SinkState = "open" /\ SinkState' = "open"
      BY <1>3, <2>2 DEF SinkState, Intact
    <3> QED
      BY <1>1, <1>3, <2>1, <2>2, <3>1 DEF SinkStep, Sink!Next, Sink!Accept
  <2>3. CASE ~Intact
    <3>1. SinkState = "broken" /\ SinkState' = "broken"
      BY <1>3, <2>3 DEF SinkState, Intact
    <3> QED
      BY <1>3, <2>1, <3>1 DEF SinkStep, Sink!Next, Sink!Stall
  <2> QED
    BY <2>2, <2>3
<1>4. CASE /\ ~Refused(buf) /\ err' = "none" /\ filling' = << >>
           /\ nInput' = nInput + Len(buf) /\ eofWritten' = (eofWritten \/ FALSE)
  <2>1. Intact /\ Intact' /\ ~eofWritten /\ ~eofWritten' /\ err = "none"
    BY <1>4 DEF Refused, Intact
  <2>2. nInput' = given' /\ Len(filling)' = 0
    BY <1>4, <2>1
  <2>3. Accounting'
    BY <1>1, <1>2, <1>4, <2>1, <2>2 DEF Accounting, ReadRoom
  <2>4. SinkState = "open" /\ SinkState' = "open"
    BY <2>1 DEF SinkState
  <2> QED
    BY <1>1, <1>4, <2>2, <2>3, <2>4 DEF SinkStep, Sink!Next, Sink!Accept
<1>5. CASE /\ ~Refused(buf) /\ err' \in {"io", "encode"}
           /\ nInput' \in nInput..(nInput + Len(buf))
           /\ eofWritten' => eofWritten
  <2>1. Intact /\ ~Intact' /\ ~eofWritten
    BY <1>5 DEF Refused, Intact
  <2>2. nInput' \in nInput..given'
    BY <1>1, <1>5, <2>1
  <2>3. Accounting'
    <3>1. pc' # "pad"
      BY <1>5 DEF NextBlockErr
    <3> QED
      BY <1>1, <1>2, <1>5, <2>1, <2>2, <3>1 DEF Accounting, ReadRoom, Intact
  <2>4. SinkState = "open" /\ SinkState' = "broken"
    BY <2>1 DEF SinkState
  <2> QED
    BY <2>2, <2>3, <2>4 DEF SinkStep, Sink!Next, Sink!Break
<1> QED
  BY <1>3, <1>4, <1>5, NextBlockEffect

(* Write, Flush and ReadFrom as called. *)
LEMMA AccountCalls ==
  ASSUME TypeOK, Accounting, ~UseAfterClose,
         (\E n \in 0..MaxChunk : Write(n)) \/ Flush \/ ReadFrom
  PROVE  Accounting' /\ SinkStep
<1>1. ASSUME NEW n \in 0..MaxChunk, Write(n)
      PROVE  Accounting' /\ SinkStep
  <2>1. /\ pc = "idle" /\ ~panicked /\ ~panicked' /\ pc' \in {"idle", "write"}
        /\ UNCHANGED << enc, filling, stream, given >>
        /\ pc' = "write" => Open
    BY <1>1 DEF Write, Return, Goto
  <2>2. UNCHANGED << eofWritten, err, nInput >>
    BY <2>1 DEF stream, flags
  <2> QED
    BY <2>1, <2>2, AccountQuiet
<1>2. ASSUME Flush \/ ReadFrom, Panic
      PROVE  Accounting' /\ SinkStep
  BY <1>2, AccountPanic DEF Flush, ReadFrom
<1>3. ASSUME Flush \/ ReadFrom, filling = << >>, ~Panic
      PROVE  Accounting' /\ SinkStep
  <2>1. /\ pc = "idle" /\ ~panicked /\ ~panicked' /\ pc' \in {"idle", "pad"}
        /\ UNCHANGED << enc, filling, stream, given >>
        /\ pc' = "pad" => Open
    BY <1>3 DEF Flush, ReadFrom, Return, Goto
  <2>2. UNCHANGED << eofWritten, err, nInput >>
    BY <2>1 DEF stream, flags
  <2>3. CASE pc' = "idle"
    BY <2>1, <2>2, <2>3, AccountQuiet
  <2>4. CASE pc' = "pad"
    <3>1. Accounting'
      BY <1>3, <2>1, <2>2, <2>4, Numbers DEF Accounting, ReadRoom, Intact, Unfilled, Open
    <3>2. UNCHANGED << given, nInput, SinkState >>
      BY <2>1, <2>2, <2>4 DEF SinkState, Intact, Open
    <3> QED
      BY <3>1, <3>2 DEF SinkStep
  <2> QED
    BY <2>1, <2>3, <2>4
<1>4. ASSUME Flush \/ ReadFrom, filling # << >>, ~Panic
      PROVE  Accounting' /\ SinkStep
  <2>1. /\ pc = "idle" /\ ~panicked /\ ~panicked' /\ pc' \in {"idle", "pad"}
        /\ NextBlock(filling, FALSE) /\ UNCHANGED << enc, given >>
        /\ pc' = "pad" => Open /\ NextBlockErr(filling) = "none"
    BY <1>4 DEF Flush, ReadFrom, Return, Goto
  <2>2. Intact => nInput + Len(filling) = given' /\ ~eofWritten
    BY <1>4, <2>1, Numbers DEF Accounting, Unfilled
  <2>3. (pc' # "idle" => Open') /\ (Open' => ~eofWritten)
    BY <2>1 DEF Open, Accounting
  <2>4. given' \in Nat /\ given' >= given /\ filling \in Seq(Nat)
    BY <2>1, Numbers
  <2> QED
    BY <2>1, <2>2, <2>3, <2>4, AccountBlock
<1> QED
  BY <1>1, <1>2, <1>3, <1>4

(* A round of Write's loop. *)
LEMMA AccountWriteStep ==
  ASSUME TypeOK, Accounting, WriteStep
  PROVE  Accounting' /\ SinkStep
<1> DEFINE fits == left + Len(filling) < cfg.blockSize
           n    == IF fits THEN left ELSE Smaller(left, cfg.blockSize - Len(filling))
           buf  == filling \o Bytes(n)
<1>1. pc = "write" /\ Open /\ ~eofWritten /\ ~panicked
  BY DEF WriteStep, Accounting
<1>2. CASE Panic
  BY <1>1, <1>2, AccountPanic
<1>3. CASE ~Panic
  <2>1. n \in Nat
    <3>1. n \in Int
      BY Numbers DEF Smaller
    <3>2. n < 0 => Panic
      BY DEF WriteStep
    <3> QED
      BY <1>3, <3>1, <3>2
  <2> HIDE DEF n
  <2>2. buf \in Seq(Nat) /\ Len(buf) = Len(filling) + n
    <3>1. Bytes(n) \in Seq(Nat) /\ Len(Bytes(n)) = n
      BY <2>1, Numbers, ByteSeqs
    <3>2. \A s, t \in Seq(Nat) : s \o t \in Seq(Nat) /\ Len(s \o t) = Len(s) + Len(t)
      BY Numbers, ByteSeqs
    <3> QED
      BY <3>1, <3>2, Numbers
  <2>3. /\ given' = given + n
        /\ enc' = [enc EXCEPT !.hashed = Digest(Bytes(n))]
        /\ ~panicked' /\ pc' \in {"idle", "write"}
        /\ \/ /\ fits /\ filling' = buf /\ pc' = "idle" /\ UNCHANGED stream
           \/ NextBlock(buf, FALSE)
    BY <1>1, <1>3 DEF WriteStep, Return, Goto, n
  <2>4. Open'
    BY <1>1, <2>3 DEF Open, TypeOK
  <2> HIDE DEF buf, fits
  <2>5. given' \in Nat /\ given' >= given
    BY <2>1, <2>3, Numbers
  <2>6. Intact => nInput + Len(buf) = given'
    BY <1>1, <2>1, <2>2, <2>3, Numbers DEF Accounting, Unfilled
  <2>7. CASE NextBlock(buf, FALSE)
    BY <1>1, <2>2, <2>3, <2>4, <2>5, <2>6, <2>7, AccountBlock
  <2>8. CASE filling' = buf /\ pc' = "idle" /\ UNCHANGED stream
    <3>1. UNCHANGED << eofWritten, err, nInput >>
      BY <2>8 DEF stream, flags
    <3>2. err # "closed" /\ nInput <= given
      BY <1>1 DEF Accounting
    <3>3. Accounting'
      BY <1>1, <2>3, <2>5, <2>6, <2>8, <3>1, <3>2, Numbers
         DEF Accounting, ReadRoom, Intact, Unfilled
    <3>4. /\ SinkState' = SinkState
          /\ SinkState = "open" \/ SinkState = "broken"
      BY <1>1, <3>1 DEF SinkState, Intact
    <3>5. nInput \in nInput..given'
      BY <2>5, <3>2, Numbers
    <3> QED
      BY <2>5, <3>1, <3>3, <3>4, <3>5 DEF SinkStep, Sink!Next, Sink!Accept, Sink!Stall
  <2> QED
    BY <2>3, <2>7, <2>8
<1> QED
  BY <1>2, <1>3

(* Making room in filling. *)
LEMMA AccountReadFromPad ==
  ASSUME TypeOK, Accounting, ReadFromPad
  PROVE  Accounting' /\ SinkStep
<1>1. pc = "pad" /\ Open /\ ~eofWritten /\ ~panicked /\ filling = << >>
  BY DEF ReadFromPad, Accounting
<1>2. CASE Panic
  BY <1>1, <1>2, AccountPanic
<1>3. CASE ~Panic
  <2> DEFINE room == [i \in 1..cfg.blockSize |-> Garbage]
  <2>1. /\ filling' = room /\ left' = cfg.blockSize /\ pc' = "read" /\ ~panicked'
        /\ UNCHANGED << enc, stream, given >>
    BY <1>1, <1>3 DEF ReadFromPad, Goto
  <2>2. Len(room) = cfg.blockSize
    BY Numbers
  <2> HIDE DEF room
  <2>3. UNCHANGED << eofWritten, err, nInput >>
    BY <2>1 DEF stream, flags
  <2>4. Accounting'
    BY <1>1, <2>1, <2>2, <2>3, Numbers DEF Accounting, ReadRoom, Intact, Unfilled, Open
  <2>5. UNCHANGED << given, nInput, SinkState >>
    BY <1>1, <2>1, <2>3 DEF SinkState, Intact, Open
  <2> QED
    BY <2>4, <2>5 DEF SinkStep
<1> QED
  BY <1>2, <1>3

(* One Read of the source. *)
LEMMA AccountReadFromStep ==
  ASSUME TypeOK, Accounting, NEW n \in 0..cfg.blockSize, NEW outcome \in {"nil", "eof", "error"},
         ReadFromStep(n, outcome)
  PROVE  Accounting' /\ SinkStep
<1> DEFINE filled == Len(filling) - left
           buf    == SubSeq(filling, 1, filled) \o Bytes(n)
                       \o SubSeq(filling, filled + n + 1, Len(filling))
<1>1. /\ pc = "read" /\ Open /\ ~eofWritten /\ ~panicked /\ n <= left /\ left <= Len(filling)
      /\ n \in Nat /\ err # "closed" /\ nInput <= given
  BY Numbers DEF ReadFromStep, Accounting, ReadRoom
<1>2. CASE Panic
  BY <1>1, <1>2, AccountPanic
<1>3. CASE ~Panic
  <2>1. /\ given' = given + n
        /\ enc' = [enc EXCEPT !.hashed = Digest(Bytes(n))]
        /\ ~panicked'
        /\ \/ /\ filling' = SubSeq(buf, 1, filled + n) /\ pc' = "idle" /\ UNCHANGED stream
           \/ /\ filling' = buf /\ err' = "source" /\ pc' = "idle"
              /\ UNCHANGED << flags, nInput >>
           \/ /\ filling' = buf /\ pc' = "read" /\ left' = left - n /\ UNCHANGED stream
           \/ /\ NextBlock(buf, FALSE) /\ n = left /\ pc' \in {"idle", "pad"}
              /\ pc' = "pad" => NextBlockErr(buf) = "none"
    BY <1>1, <1>3 DEF ReadFromStep, Return, Goto
  <2>2. Open'
    BY <1>1, <2>1 DEF Open, TypeOK
  <2>3. given' \in Nat /\ given' >= given
    BY <1>1, <2>1, Numbers
  <2>4. buf \in Seq(Nat) /\ Len(buf) = Len(filling) /\ filled \in Nat
    <3>1. filled \in Nat
      BY <1>1, Numbers
    <3> QED
      BY <1>1, <3>1, Numbers, FilledLength, FilledType
  <2>5. Intact => nInput + Len(buf) = given + left
    BY <1>1, <2>4 DEF Accounting, Unfilled
  <2>6. Len(buf) = filled + left
    BY <1>1, <2>4, Numbers
  <2> HIDE DEF buf, filled
  <2>7. nInput \in nInput..given' /\ nInput <= given'
    BY <1>1, <2>3, Numbers
  <2>8. CASE filling' = SubSeq(buf, 1, filled + n) /\ pc' = "idle" /\ UNCHANGED stream
    <3>1. UNCHANGED << eofWritten, err, nInput >>
      BY <2>8 DEF stream, flags
    <3>2. Len(filling)' = filled + n
      BY <1>1, <2>4, <2>6, <2>8, Numbers, Prefix
    <3>3. Intact => nInput + Len(filling)' = given'
      <4>1. Intact => nInput + filled = given
        <5>1. \A a, b, c, d \in Nat : a + (b + c) = d + c => a + b = d
          OBVIOUS
        <5>2. Intact => nInput + (filled + left) = given + left
          BY <2>5, <2>6
        <5>3. nInput \in Nat /\ filled \in Nat /\ left \in Nat /\ given \in Nat
          BY <2>4, Numbers
        <5> QED
          BY <5>1, <5>2, <5>3
      <4>2. given' = given + n
        BY <2>1
      <4> QED
        BY <1>1, <2>4, <3>2, <4>1, <4>2, Numbers
    <3>4. ~panicked' /\ Unfilled' = 0 /\ given' + 0 = given' /\ ~eofWritten'
      BY <1>1, <2>1, <2>3, <2>8, <3>1 DEF Unfilled
    <3>5. Accounting'
      BY <1>1, <2>7, <2>8, <3>1, <3>3, <3>4 DEF Accounting, ReadRoom, Intact
    <3>6. SinkState' = SinkState /\ (SinkState = "open" \/ SinkState = "broken")
      BY <1>1, <3>1 DEF SinkState, Intact
    <3> QED
      BY <2>3, <2>7, <3>1, <3>5, <3>6 DEF SinkStep, Sink!Next, Sink!Accept, Sink!Stall
  <2>9. CASE /\ filling' = buf /\ err' = "source" /\ pc' = "idle"
             /\ UNCHANGED << flags, nInput >>
    <3>1. UNCHANGED << eofWritten, nInput >>
      BY <2>9 DEF flags
    <3>2. Accounting'
      BY <1>1, <2>1, <2>7, <2>9, <3>1 DEF Accounting, ReadRoom, Intact
    <3>3. SinkState' = "broken"
      BY <2>9 DEF SinkState, Intact
    <3> QED
      BY <2>3, <2>7, <3>1, <3>2, <3>3 DEF SinkStep, Sink!Next, Sink!Break, Sink!Stall
  <2>10. CASE filling' = buf /\ pc' = "read" /\ left' = left - n /\ UNCHANGED stream
    <3>1. UNCHANGED << eofWritten, err, nInput >>
      BY <2>10 DEF stream, flags
    <3>2. Intact => nInput + Len(filling)' = given' + left'
      BY <1>1, <2>1, <2>5, <2>10, Numbers
    <3>3. left' <= Len(filling)'
      BY <1>1, <2>4, <2>10, Numbers
    <3>4. Accounting'
      BY <1>1, <2>1, <2>2, <2>7, <2>10, <3>1, <3>2, <3>3
         DEF Accounting, ReadRoom, Intact, Unfilled
    <3>5. SinkState' = SinkState /\ (SinkState = "open" \/ SinkState = "broken")
      BY <1>1, <3>1 DEF SinkState, Intact
    <3> QED
      BY <2>3, <2>7, <3>1, <3>4, <3>5 DEF SinkStep, Sink!Next, Sink!Accept, Sink!Stall
  <2>11. CASE /\ NextBlock(buf, FALSE) /\ n = left /\ pc' \in {"idle", "pad"}
              /\ pc' = "pad" => NextBlockErr(buf) = "none"
    <3>1. Intact => nInput + Len(buf) = given' /\ ~eofWritten
      BY <1>1, <2>1, <2>5, <2>11
    <3> QED
      BY <1>1, <2>1, <2>2, <2>3, <2>4, <2>11, <3>1, AccountBlock
  <2> QED
    BY <2>1, <2>8, <2>9, <2>10, <2>11
<1> QED
  BY <1>2, <1>3

(* The final block of Close. *)
LEMMA AccountClose ==
  ASSUME TypeOK, Accounting, Close
  PROVE  Accounting' /\ SinkStep
<1>1. pc = "idle" /\ ~panicked /\ nInput <= given
  BY DEF Close, Accounting
<1>2. CASE ~Open /\ Return("Closed", "none")
           /\ UNCHANGED << cfg, enc, filling, fillCap, stream, given >>
  <2>1. pc' = "idle" /\ ~panicked' /\ UNCHANGED << enc, filling, stream, given >>
    BY <1>1, <1>2 DEF Return
  <2>2. UNCHANGED << eofWritten, err, nInput >>
    BY <2>1 DEF stream, flags
  <2> QED
    BY <1>1, <2>1, <2>2, AccountQuiet
<1>3. CASE Panic
  BY <1>1, <1>3, AccountPanic
<1>4. CASE Open /\ CloseFrame
  <2>1. /\ NextBlock(filling, TRUE) /\ given' = given /\ ~panicked'
        /\ \/ pc' = "idle" /\ ~Open' /\ NextBlockErr(filling) # "none"
           \/ pc' = "idle" /\ ~Open' /\ NextBlockErr(filling) = "none"
           \/ pc' = "trailer" /\ enc' = enc /\ NextBlockErr(filling) = "none"
    <3> DEFINE size == IF contentSize > 0 /\ nInput' # contentSize THEN "size" ELSE "none"
    <3>1. /\ NextBlock(filling, TRUE) /\ given' = given
          /\ \/ /\ NextBlockErr(filling) # "none"
                /\ Return("Close", NextBlockErr(filling)) /\ enc' = NoEnc
             \/ /\ NextBlockErr(filling) = "none"
                /\ Return("Close", size) /\ enc' = NoEnc
             \/ NextBlockErr(filling) = "none" /\ Goto("trailer", 0) /\ enc' = enc
      BY <1>4 DEF CloseFrame
    <3>2. enc' = NoEnc => ~Open'
      BY DEF Open, NoEnc
    <3>3. \A e : Return("Close", e) => pc' = "idle" /\ ~panicked'
      BY <1>1 DEF Return
    <3>4. Goto("trailer", 0) => pc' = "trailer" /\ ~panicked'
      BY <1>1 DEF Goto
    <3> HIDE DEF size
    <3> QED
      BY <3>1, <3>2, <3>3, <3>4
  <2>2. ~eofWritten
    BY <1>1, <1>4 DEF Accounting
  <2>3. Intact => err = "none" /\ nInput + Len(filling) = given
    BY <1>1, <2>2, Numbers DEF Accounting, Unfilled, Intact
  <2>4. Unfilled' = 0
    BY <2>1 DEF Unfilled
  <2>5. /\ nInput \in Nat /\ given \in Nat /\ Len(filling) \in Nat /\ filling \in Seq(Nat)
    BY Numbers
  <2>6. CASE /\ Refused(filling) /\ filling' = filling
             /\ err' = err /\ nInput' = nInput /\ eofWritten' = eofWritten
    <3>1. pc' = "idle" /\ ~Open'
      BY <2>1, <2>6 DEF NextBlockErr, Refused
    <3>2. Accounting'
      BY <1>1, <2>1, <2>2, <2>3, <2>4, <2>5, <2>6, <3>1 DEF Accounting, ReadRoom, Intact
    <3>3. UNCHANGED << given, nInput, SinkState >>
      BY <2>1, <2>2, <2>6 DEF SinkState, Intact
    <3> QED
      BY <3>2, <3>3 DEF SinkStep
  <2>7. CASE /\ ~Refused(filling) /\ err' = "none" /\ filling' = << >>
             /\ nInput' = nInput + Len(filling) /\ eofWritten' = (eofWritten \/ TRUE)
    <3>1. Intact /\ Intact' /\ eofWritten'
      BY <2>7 DEF Refused, Intact
    <3>2. nInput' = given' /\ Len(filling)' = 0
      BY <2>1, <2>3, <2>7, <3>1
    <3>3. (pc' = "idle" /\ ~Open') \/ pc' = "trailer"
      BY <2>1
    <3>4. Accounting'
      BY <2>1, <2>4, <2>5, <2>7, <3>1, <3>2, <3>3 DEF Accounting, ReadRoom
    <3>5. SinkState = "open" /\ SinkState' = "done"
      BY <2>2, <3>1, <3>3 DEF SinkState
    <3> QED
      BY <2>1, <3>2, <3>4, <3>5 DEF SinkStep, Sink!Next, Sink!Finish
  <2>8. CASE /\ ~Refused(filling) /\ err' \in {"io", "encode"}
             /\ nInput' \in nInput..(nInput + Len(filling))
    <3>1. pc' = "idle" /\ ~Open'
      BY <2>1, <2>8 DEF NextBlockErr
    <3>2. Intact /\ ~Intact'
      BY <2>8 DEF Refused, Intact
    <3>3. nInput' \in nInput..given'
      BY <2>1, <2>3, <2>5, <2>8, <3>2
    <3>4. Accounting'
      BY <2>1, <2>5, <2>8, <3>1, <3>2, <3>3 DEF Accounting, ReadRoom, Intact
    <3>5. SinkState = "open" /\ SinkState' = "broken"
      BY <2>2, <3>2 DEF SinkState
    <3> QED
      BY <2>1, <2>5, <3>3, <3>4, <3>5 DEF SinkStep, Sink!Next, Sink!Break
  <2> QED
    BY <2>1, <2>5, <2>6, <2>7, <2>8, NextBlockEffect
<1> QED
  BY <1>2, <1>3, <1>4 DEF Close

(* The checksum of a streamed frame. *)
LEMMA AccountCloseTrailer ==
  ASSUME TypeOK, Accounting, CloseTrailer
  PROVE  Accounting' /\ SinkStep
<1>1. /\ pc = "trailer" /\ err = "none" /\ eofWritten /\ ~panicked /\ nInput <= given
      /\ filling = << >>
  BY DEF CloseTrailer, Accounting, Intact
<1>2. /\ pc' = "idle" /\ ~Open' /\ ~panicked' /\ err' \in {"closed", "io"}
      /\ UNCHANGED << filling, flags, nInput, given >>
  BY <1>1 DEF CloseTrailer, Return, Open, NoEnc
<1>3. eofWritten' /\ Unfilled' = Unfilled
  BY <1>1, <1>2 DEF flags, Unfilled
<1>4. Accounting'
  BY <1>1, <1>2, <1>3 DEF Accounting, ReadRoom, Intact
<1>5. SinkState = "done"
  BY <1>1 DEF SinkState, Intact
<1>6. SinkState' = IF err' = "closed" THEN "done" ELSE "broken"
  BY <1>2, <1>3 DEF SinkState, Intact
<1>7. nInput \in nInput..given' /\ given' \in Nat /\ given' >= given
  BY <1>1, <1>2, Numbers
<1> QED
  BY <1>2, <1>4, <1>5, <1>6, <1>7 DEF SinkStep, Sink!Next, Sink!Break

(* Every step of a Writer used before Close keeps the books ... *)
LEMMA AccountNext ==
  ASSUME ~UseAfterClose
  PROVE  TypeOK /\ Accounting /\ [Next]_vars => Accounting' /\ SinkStep
<1> SUFFICES ASSUME TypeOK, Accounting, [Next]_vars PROVE Accounting' /\ SinkStep
  OBVIOUS
<1>1. CASE UNCHANGED vars
  <2>1. Accounting'
    BY <1>1 DEF vars, stream, flags, Accounting, ReadRoom, Intact, Unfilled, Open
  <2>2. UNCHANGED << given, nInput, SinkState >>
    BY <1>1 DEF vars, stream, flags, SinkState, Intact, Open
  <2> QED
    BY <2>1, <2>2 DEF SinkStep
<1>2. CASE Setter
  BY <1>2, AccountSetter
<1>3. CASE Call
  BY <1>3, AccountReset, AccountCalls, AccountClose DEF Call
<1>4. CASE Step
  BY <1>4, AccountWriteStep, AccountReadFromPad, AccountReadFromStep, AccountCloseTrailer DEF Step
<1> QED
  BY <1>1, <1>2, <1>3, <1>4 DEF Next

(***************************************************************************)
(* ... so no byte is lost or counted twice while the frame is intact.      *)
(***************************************************************************)
THEOREM WriterAccounts ==
  ASSUME ~UseAfterClose
  PROVE  Spec => []Accounting
<1>1. Init => TypeOK /\ Accounting
  BY TypeInit, AccountInit
<1>2. (TypeOK /\ Accounting) /\ [Next]_vars => (TypeOK /\ Accounting)'
  <2>1. Accounting => ReadRoom
    BY DEF Accounting
  <2> QED
    BY <2>1, TypeNext, AccountNext
<1> QED
  BY <1>1, <1>2, PTL DEF Spec

(***************************************************************************)
(* A Writer not used after Close implements FrameSink, whatever fails and  *)
(* whenever it is configured.                                              *)
(***************************************************************************)
THEOREM WriterImplementsSink ==
  ASSUME ~UseAfterClose
  PROVE  Spec => ImplementsSink
<1>1. Init => Sink!Init
  BY AccountInit
<1>2. TypeOK /\ Accounting /\ [Next]_vars => [Sink!Next]_<< given, nInput, SinkState >>
  BY AccountNext DEF SinkStep
<1>3. Spec => []TypeOK
  BY WriterTyped
<1>4. Spec => []Accounting
  BY WriterAccounts
<1> QED
  BY <1>1, <1>2, <1>3, <1>4, PTL DEF Spec, ImplementsSink, Sink!Spec

-----------------------------------------------------------------------------
(***************************************************************************)
(* The bytes themselves, for any use of the Writer and any failure: what   *)
(* the loops may assume (Loops), and that the content written and the part *)
(* of filling that holds content are together the bytes taken (Kept).      *)
(***************************************************************************)
Loops ==
  /\ ReadRoom
  /\ pc = "pad" => filling = << >>
  /\ pc = "trailer" => err = "none" /\ Open
  /\ panicked => pc = "idle"
  /\ pc # "idle" => res = Running

Held == SubSeq(filling, 1, Len(filling) - Unfilled)

Kept ==
  err = "none" /\ ~panicked =>
    /\ Content(out) \o Held = Iota(given)
    /\ nInput = Len(Content(out))

(* The caller's next bytes continue those it gave before. *)
LEMMA IotaGrows ==
  ASSUME given \in Nat, NEW n \in Nat
  PROVE  Iota(given) \o Bytes(n) = Iota(given + n)
<1>1. /\ Iota(given) \in Seq(Nat) /\ Len(Iota(given)) = given
      /\ Bytes(n) \in Seq(Nat) /\ Len(Bytes(n)) = n
      /\ Iota(given + n) \in Seq(Nat) /\ Len(Iota(given + n)) = given + n
  BY DEF Iota, Bytes
<1>2. /\ \A i \in 1..given : Iota(given)[i] = i
      /\ \A i \in 1..n : Bytes(n)[i] = given + i
      /\ \A i \in 1..(given + n) : Iota(given + n)[i] = i
  BY DEF Iota, Bytes
<1> DEFINE whole == Iota(given) \o Bytes(n)
<1>3. /\ whole \in Seq(Nat) /\ Len(whole) = given + n
      /\ \A i \in 1..(given + n) :
           whole[i] = IF i <= given THEN Iota(given)[i] ELSE Bytes(n)[i - given]
  <2> DEFINE a == Iota(given)
             b == Bytes(n)
  <2> HIDE DEF a, b
  <2>1. /\ a \o b \in Seq(Nat) /\ Len(a \o b) = Len(a) + Len(b)
        /\ \A i \in 1..(Len(a) + Len(b)) :
             (a \o b)[i] = IF i <= Len(a) THEN a[i] ELSE b[i - Len(a)]
    BY <1>1, ConcatProperties DEF a, b
  <2>2. Len(a) = given /\ Len(b) = n
    BY <1>1 DEF a, b
  <2> QED
    BY <2>1, <2>2 DEF a, b
<1> HIDE DEF whole
<1>4. ASSUME NEW i \in 1..(given + n)
      PROVE  whole[i] = Iota(given + n)[i]
  <2>1. CASE i <= given
    BY <1>2, <1>3, <2>1
  <2>2. CASE i > given
    <3>1. i - given \in 1..n /\ given + (i - given) = i
      BY <2>2
    <3>2. whole[i] = Bytes(n)[i - given]
      BY <1>3, <2>2
    <3>3. Bytes(n)[i - given] = i
      BY <1>2, <3>1
    <3>4. Iota(given + n)[i] = i
      BY <1>2
    <3> QED
      BY <3>2, <3>3, <3>4
  <2> QED
    BY <2>1, <2>2
<1>5. whole = Iota(given + n)
  BY <1>1, <1>3, <1>4, SeqEqual
<1> QED
  BY <1>5 DEF whole

(* Outside a read all of filling holds content. *)
LEMMA AllHeld ==
  ASSUME filling \in Seq(Nat), pc # "read"
  PROVE  Held = filling
<1>1. Len(filling) - Unfilled = Len(filling)
  BY DEF Unfilled
<1> QED
  BY <1>1 DEF Held

(* The header carries no content. *)
LEMMA PendingContent ==
  ASSUME TypeOK
  PROVE  Pending \in Seq(Item) /\ Content(Pending) = << >>
<1>1. StreamHeader \in Item
  BY HeaderItem, WindowSizeNat DEF StreamHeader, TypeOK, Config
<1>2. Carried(StreamHeader) = << >>
  BY DEF StreamHeader, Header, Carried, IsBlock
<1>3. << StreamHeader >> \in Seq(Item) /\ Content(<< StreamHeader >>) = << >>
  BY <1>1, <1>2, SingletonSeq, ContentSingle
<1>4. << >> \in Seq(Item) /\ Content(<< >>) = << >>
  BY ContentEmpty
<1> QED
  BY <1>3, <1>4 DEF Pending

(***************************************************************************)
(* What nextBlock does to the bytes: after a sticky error nothing; without *)
(* an error it refuses the buffer for its size, or the content written     *)
(* grows by exactly the buffer.                                            *)
(***************************************************************************)
LEMMA NextBlockContent ==
  ASSUME TypeOK, NEW buf \in Seq(Nat), NEW final \in BOOLEAN, NextBlock(buf, final)
  PROVE  /\ err # "none" => err' = err /\ out' = out
         /\ err' = "none" => err = "none"
         /\ err' = "none" =>
              \/ /\ Len(buf) > cfg.blockSize
                 /\ filling' = buf /\ out' = out /\ nInput' = nInput
              \/ /\ Len(buf) <= cfg.blockSize /\ filling' = << >>
                 /\ Content(out') = Content(out) \o buf
                 /\ nInput' = nInput + Len(buf)
<1> DEFINE last == final /\ ~eofWritten
<1>1. /\ out \in Seq(Item) /\ Content(out) \in Seq(Nat) /\ Len(buf) \in Nat
      /\ cfg.blockSize \in Nat
  BY ContentType DEF TypeOK, Config
<1>2. CASE Refused(buf) /\ filling' = buf /\ UNCHANGED << flags, err, nInput, out >>
  BY <1>2 DEF Refused
<1>3. CASE ~Refused(buf) /\ EmitFullFrame(buf)
  <2>1. CASE err' = "none" /\ nInput' = nInput + Len(buf) /\ filling' = << >>
             /\ out' = out \o EncodeAll(enc.maxOff, cfg, buf)
    <3>1. /\ EncodeAll(enc.maxOff, cfg, buf) \in Seq(Item)
          /\ Content(EncodeAll(enc.maxOff, cfg, buf)) = buf
      BY EncodeAllItems, EncodeAllWhole DEF TypeOK, Config
    <3>2. Content(out') = Content(out) \o buf
      BY <1>1, <2>1, <3>1, ContentConcat
    <3> QED
      BY <1>1, <1>3, <2>1, <3>2 DEF Refused
  <2>2. CASE err' = "io"
    BY <1>3, <2>2 DEF Refused
  <2> QED
    BY <1>3, <2>1, <2>2 DEF EmitFullFrame
<1>4. CASE ~Refused(buf) /\ HeaderFails(buf)
  BY <1>4 DEF HeaderFails, Refused
<1>5. CASE ~Refused(buf) /\ EmitBlock(buf, last)
  <2>1. CASE err' = "none" /\ out' = out \o Pending \o << Block(buf, last) >>
    <3>1. Block(buf, last) \in Item /\ Carried(Block(buf, last)) = buf
      BY DEF Block, Item, Carried, IsBlock
    <3>2. /\ << Block(buf, last) >> \in Seq(Item)
          /\ Content(<< Block(buf, last) >>) = buf
      BY <3>1, SingletonSeq, ContentSingle
    <3>3. out \o Pending \in Seq(Item) /\ Content(out \o Pending) = Content(out) \o << >>
      BY <1>1, PendingContent, ContentConcat
    <3>4. Content(out) \o << >> = Content(out)
      BY <1>1
    <3> DEFINE head == out \o Pending
               block == << Block(buf, last) >>
    <3>5. head \in Seq(Item) /\ block \in Seq(Item) /\ out' = head \o block
      BY <2>1, <3>2, <3>3
    <3> HIDE DEF head, block
    <3>6. Content(out') = Content(head) \o Content(block)
      BY <3>5, ContentConcat
    <3>7. Content(out') = Content(out) \o buf
      BY <3>2, <3>3, <3>4, <3>6 DEF head, block
    <3>8. err = "none" /\ Len(buf) <= cfg.blockSize
      BY <1>1, <1>5 DEF Refused
    <3>9. filling' = << >> /\ nInput' = nInput + Len(buf)
      BY <1>5 DEF EmitBlock
    <3> QED
      BY <2>1, <3>7, <3>8, <3>9
  <2>2. CASE err' = "io"
    BY <1>5, <2>2 DEF Refused
  <2> QED
    BY <1>5, <2>1, <2>2 DEF EmitBlock
<1>6. CASE ~Refused(buf) /\ EncodeFails(buf, last)
  BY <1>6 DEF EncodeFails, Refused
<1> QED
  BY <1>2, <1>3, <1>4, <1>5, <1>6 DEF NextBlock

(* A block handed on keeps the bytes. *)
LEMMA KeptBlock ==
  ASSUME TypeOK, NEW buf \in Seq(Nat), NEW final \in BOOLEAN, NextBlock(buf, final),
         pc' # "read",
         err = "none" => /\ Content(out) \o buf = Iota(given')
                         /\ nInput = Len(Content(out))
  PROVE  Kept'
<1> SUFFICES ASSUME err' = "none"
             PROVE  Content(out') \o Held' = Iota(given') /\ nInput' = Len(Content(out'))
  BY DEF Kept
<1>1. Held' = filling'
  <2>1. filling' \in Seq(Nat)
    BY NextBlockTypes
  <2>2. Len(filling)' - Unfilled' = Len(filling')
    BY <2>1 DEF Unfilled
  <2> QED
    BY <2>1, <2>2 DEF Held
<1>2. /\ err = "none" /\ Content(out) \o buf = Iota(given') /\ nInput = Len(Content(out))
      /\ Content(out) \in Seq(Nat)
  BY NextBlockContent, ContentType DEF TypeOK
<1>3. CASE filling' = buf /\ out' = out /\ nInput' = nInput
  BY <1>1, <1>2, <1>3
<1>4. CASE /\ filling' = << >> /\ Content(out') = Content(out) \o buf
           /\ nInput' = nInput + Len(buf)
  <2>1. /\ \A s, t \in Seq(Nat) : s \o t \in Seq(Nat) /\ Len(s \o t) = Len(s) + Len(t)
        /\ \A s \in Seq(Nat) : s \o << >> = s
    OBVIOUS
  <2> QED
    BY <1>1, <1>2, <1>4, <2>1
<1> QED
  BY <1>3, <1>4, NextBlockContent

(* Steps that leave the stream and filling alone keep the bytes. *)
LEMMA KeptQuiet ==
  ASSUME TypeOK, Kept, pc # "read", pc' # "read", ~panicked' => ~panicked,
         UNCHANGED << filling, stream, given >>
  PROVE  Kept'
BY DEF Kept, Held, Unfilled, stream

(* One round of Write, when it does not panic. *)
LEMMA WriteRound ==
  ASSUME TypeOK, WriteStep, ~Panic
  PROVE  /\ pc = "write"
         /\ \E n \in Nat, buf \in Seq(Nat) :
              /\ n <= left /\ buf = filling \o Bytes(n) /\ Len(buf) <= cfg.blockSize
              /\ given' = given + n /\ cfg' = cfg
              /\ enc' = [enc EXCEPT !.hashed = Digest(Bytes(n))]
              /\ fillCap' = Larger(fillCap, Len(buf))
              /\ \/ filling' = buf /\ Return("Write", "none") /\ UNCHANGED stream
                 \/ /\ NextBlock(buf, FALSE)
                    /\ \/ Return("Write", NextBlockErr(buf))
                       \/ NextBlockErr(buf) = "none" /\ Goto("write", left - n)
<1> DEFINE fits == left + Len(filling) < cfg.blockSize
           n    == IF fits THEN left ELSE Smaller(left, cfg.blockSize - Len(filling))
           buf  == filling \o Bytes(n)
<1>1. n \in Int /\ n <= left
  BY Numbers DEF Smaller
<1>2. ~(n < 0)
  BY DEF WriteStep
<1>3. n \in Nat /\ n + Len(filling) <= cfg.blockSize
  BY <1>1, <1>2, Numbers DEF Smaller
<1>4. /\ given' = given + n /\ cfg' = cfg
      /\ enc' = [enc EXCEPT !.hashed = Digest(Bytes(n))]
      /\ fillCap' = Larger(fillCap, Len(buf))
      /\ \/ filling' = buf /\ Return("Write", "none") /\ UNCHANGED stream
         \/ /\ NextBlock(buf, FALSE)
            /\ \/ Return("Write", NextBlockErr(buf))
               \/ NextBlockErr(buf) = "none" /\ Goto("write", left - n)
  BY <1>2 DEF WriteStep
<1> HIDE DEF n
<1>5. buf \in Seq(Nat) /\ Len(buf) <= cfg.blockSize
  BY <1>3, Numbers, ByteSeqs
<1> HIDE DEF buf
<1>6. n <= left /\ buf = filling \o Bytes(n) /\ pc = "write"
  BY <1>1 DEF buf, WriteStep
<1> QED
  BY <1>3, <1>4, <1>5, <1>6

(* Cutting the first part off three, the first two together. *)
LEMMA FirstTwo ==
  ASSUME NEW a \in Seq(Nat), NEW b \in Seq(Nat), NEW c \in Seq(Nat),
         NEW k \in Nat, k = Len(a) + Len(b)
  PROVE  SubSeq(a \o b \o c, 1, k) = a \o b
<1> DEFINE ab == a \o b
<1>1. ab \in Seq(Nat) /\ Len(ab) = k
  OBVIOUS
<1> HIDE DEF ab
<1>2. SubSeq(ab \o c, 1, k) = ab
  BY <1>1
<1> QED
  BY <1>2 DEF ab

(* One Read of the source, when it does not panic. *)
LEMMA ReadRound ==
  ASSUME TypeOK, ReadRoom, NEW n \in 0..cfg.blockSize, NEW outcome \in {"nil", "eof", "error"},
         ReadFromStep(n, outcome), ~Panic
  PROVE  /\ pc = "read" /\ n \in Nat /\ n <= left
         /\ given' = given + n /\ cfg' = cfg /\ fillCap' = fillCap
         /\ enc' = [enc EXCEPT !.hashed = Digest(Bytes(n))]
         /\ \E buf \in Seq(Nat) :
              /\ Len(buf) = Len(filling)
              /\ SubSeq(buf, 1, Len(filling) - (left - n)) = Held \o Bytes(n)
              /\ \/ /\ filling' = SubSeq(buf, 1, Len(filling) - (left - n))
                    /\ Return("ReadFrom", "none") /\ UNCHANGED stream
                 \/ /\ filling' = buf /\ err' = "source" /\ Return("ReadFrom", "source")
                    /\ UNCHANGED << flags, nInput, contentSize, out >>
                 \/ filling' = buf /\ Goto("read", left - n) /\ UNCHANGED stream
                 \/ /\ n = left /\ NextBlock(buf, FALSE)
                    /\ \/ Return("ReadFrom", NextBlockErr(buf))
                       \/ NextBlockErr(buf) = "none" /\ Goto("pad", 0)
<1> DEFINE filled == Len(filling) - left
           front  == SubSeq(filling, 1, filled)
           back   == SubSeq(filling, filled + n + 1, Len(filling))
           buf    == front \o Bytes(n) \o back
<1>1. /\ pc = "read" /\ n \in Nat /\ n <= left /\ left <= Len(filling)
      /\ given' = given + n /\ cfg' = cfg /\ fillCap' = fillCap
      /\ enc' = [enc EXCEPT !.hashed = Digest(Bytes(n))]
  <2>1. n \in Nat
    BY Numbers
  <2> QED
    BY <2>1 DEF ReadFromStep, ReadRoom
<1>2. \/ /\ filling' = SubSeq(buf, 1, filled + n)
         /\ Return("ReadFrom", "none") /\ UNCHANGED stream
      \/ /\ filling' = buf /\ err' = "source" /\ Return("ReadFrom", "source")
         /\ UNCHANGED << flags, nInput, contentSize, out >>
      \/ filling' = buf /\ Goto("read", left - n) /\ UNCHANGED stream
      \/ /\ n = left /\ NextBlock(buf, FALSE)
         /\ \/ Return("ReadFrom", NextBlockErr(buf))
            \/ NextBlockErr(buf) = "none" /\ Goto("pad", 0)
  BY DEF ReadFromStep
<1>3. /\ filled \in Nat /\ filled + n \in Nat /\ filled + n <= Len(filling)
      /\ filled + n = Len(filling) - (left - n)
  BY <1>1, Numbers
<1>4. buf \in Seq(Nat) /\ Len(buf) = Len(filling)
  BY <1>1, Numbers, FilledLength, FilledType
<1>5. front = Held
  BY <1>1 DEF Held, Unfilled
<1>6. SubSeq(buf, 1, filled + n) = Held \o Bytes(n)
  <2>1. /\ front \in Seq(Nat) /\ Len(front) = filled /\ back \in Seq(Nat)
        /\ Bytes(n) \in Seq(Nat) /\ Len(Bytes(n)) = n
    <3> HIDE DEF filled
    <3>1. given \in Nat /\ filling \in Seq(Nat) /\ filled <= Len(filling)
      BY <1>3, Numbers
    <3>2. /\ SubSeq(filling, 1, filled) \in Seq(Nat)
          /\ Len(SubSeq(filling, 1, filled)) = filled
          /\ SubSeq(filling, (filled + n) + 1, Len(filling)) \in Seq(Nat)
      BY <1>3, <3>1, ByteSeqs
    <3>3. Bytes(n) \in Seq(Nat) /\ Len(Bytes(n)) = n
      BY <1>1, <3>1, ByteSeqs
    <3> QED
      BY <3>2, <3>3
  <2> HIDE DEF front, back, filled
  <2>2. SubSeq(front \o Bytes(n) \o back, 1, filled + n) = front \o Bytes(n)
    BY <1>1, <1>3, <2>1, FirstTwo
  <2> QED
    BY <1>5, <2>2
<1> HIDE DEF buf
<1>7. SubSeq(buf, 1, Len(filling) - (left - n)) = SubSeq(buf, 1, filled + n)
  BY <1>3
<1> QED
  BY <1>1, <1>2, <1>4, <1>6, <1>7

(***************************************************************************)
(* Close, when it does not panic and the Writer is open: the final block,  *)
(* then a return with the encoder given back, or the checksum.             *)
(***************************************************************************)
LEMMA CloseRound ==
  ASSUME CloseFrame
  PROVE  /\ NextBlock(filling, TRUE) /\ cfg' = cfg /\ fillCap' = fillCap /\ given' = given
         /\ \/ /\ NextBlockErr(filling) # "none" /\ enc' = NoEnc
               /\ Return("Close", NextBlockErr(filling))
            \/ /\ NextBlockErr(filling) = "none" /\ enc' = NoEnc
               /\ Return("Close", "size")
            \/ /\ NextBlockErr(filling) = "none" /\ enc' = NoEnc /\ fullFrameWritten'
               /\ ~(contentSize > 0 /\ nInput' # contentSize)
               /\ Return("Close", "none")
            \/ /\ NextBlockErr(filling) = "none" /\ enc' = enc /\ ~fullFrameWritten'
               /\ ~(contentSize > 0 /\ nInput' # contentSize)
               /\ Goto("trailer", 0)
BY DEF CloseFrame

(* A nextBlock that reports no error has emptied filling. *)
LEMMA NextBlockDone ==
  ASSUME TypeOK, NEW buf \in Seq(Nat), NEW final \in BOOLEAN, NextBlock(buf, final),
         NextBlockErr(buf) = "none"
  PROVE  /\ err = "none" /\ err' = "none" /\ filling' = << >>
         /\ Len(buf) <= cfg.blockSize
         /\ Content(out') = Content(out) \o buf /\ nInput' = nInput + Len(buf)
<1>1. err' = "none" /\ ~(Len(buf) > cfg.blockSize)
  BY DEF NextBlockErr
<1> QED
  BY <1>1, NextBlockContent

(* Every step keeps what the loops assume. *)
LEMMA LoopsNext == TypeOK /\ Loops /\ [Next]_vars => Loops'
<1> SUFFICES ASSUME TypeOK, Loops, [Next]_vars PROVE Loops'
  OBVIOUS
<1>1. ReadRoom' /\ ReadRoom /\ filling \in Seq(Nat)
  BY RoomNext, Numbers DEF Loops
<1> DEFINE Rest == /\ (pc = "pad" => filling = << >>)' /\ (pc = "trailer" => err = "none" /\ Open)'
                   /\ (panicked => pc = "idle")' /\ (pc # "idle" => res = Running)'
<1> SUFFICES Rest
  BY <1>1 DEF Loops
<1>2. CASE Panic
  BY <1>2 DEF Panic
<1>3. ASSUME NEW op, NEW e, Return(op, e)
      PROVE  Rest
  BY <1>3 DEF Return
<1>4. ASSUME ~panicked, NEW n, Goto("write", n) \/ Goto("read", n)
      PROVE  Rest
  BY <1>4 DEF Goto
<1>5. ASSUME ~panicked, Goto("pad", 0), filling' = << >>
      PROVE  Rest
  BY <1>5 DEF Goto
<1>6. ASSUME ~panicked, Goto("trailer", 0), err' = "none", Open'
      PROVE  Rest
  BY <1>6 DEF Goto
<1> HIDE DEF Rest
<1>7. CASE UNCHANGED vars \/ Setter \/ \E size \in ContentSizes : Reset(size)
  <2>1. CASE UNCHANGED vars
    BY <2>1 DEF vars, stream, Loops, Rest, Open
  <2>2. CASE Setter
    <3>1. UNCHANGED << enc, filling, stream, pc, res, panicked >>
      BY <2>2 DEF Setter, SetLevel, SetWindowSize, SetCRC, AddDict, Configure
    <3> QED
      BY <3>1 DEF stream, Loops, Rest, Open
  <2>3. CASE \E size \in ContentSizes : Reset(size)
    <3>1. pc = "idle" /\ pc' = pc /\ ~panicked /\ panicked' = panicked
      BY <2>3 DEF Reset
    <3> QED
      BY <3>1 DEF Rest
  <2> QED
    BY <1>7, <2>1, <2>2, <2>3
<1>8. CASE Close
  <2>1. CASE ~Open /\ Return("Closed", "none")
    BY <1>3, <2>1
  <2>2. CASE CloseFrame
    <3>1. enc' = enc /\ Open => Open'
      BY DEF Open
    <3>2. ~Open => Return("Closed", "none") \/ Panic
      BY <1>8 DEF Close
    <3>3. ~panicked
      BY <1>8 DEF Close
    <3> QED
      BY <1>1, <1>2, <1>3, <1>6, <2>2, <3>1, <3>2, <3>3, CloseRound, NextBlockDone
  <2> QED
    BY <1>2, <1>8, <2>1, <2>2 DEF Close
<1>9. CASE (\E n \in 0..MaxChunk : Write(n)) \/ Flush
  BY <1>2, <1>3, <1>4, <1>9 DEF Write, Flush
<1>10. CASE ReadFrom
  <2>1. ~panicked
    BY <1>10 DEF ReadFrom
  <2>2. CASE filling = << >> /\ Goto("pad", 0) /\ UNCHANGED filling
    BY <1>5, <2>1, <2>2
  <2>3. CASE NextBlock(filling, FALSE) /\ NextBlockErr(filling) = "none" /\ Goto("pad", 0)
    BY <1>1, <1>5, <2>1, <2>3, NextBlockDone
  <2> QED
    BY <1>2, <1>3, <1>10, <2>2, <2>3 DEF ReadFrom
<1>11. CASE Step
  <2>1. ~panicked
    BY <1>11 DEF Step, WriteStep, ReadFromPad, ReadFromStep, CloseTrailer, Loops
  <2>2. CASE WriteStep
    BY <1>2, <1>3, <1>4, <2>1, <2>2, WriteRound
  <2>3. CASE ReadFromPad
    BY <1>2, <1>4, <2>1, <2>3 DEF ReadFromPad
  <2>4. ASSUME NEW n \in 0..cfg.blockSize, NEW outcome \in {"nil", "eof", "error"},
               ReadFromStep(n, outcome)
        PROVE  Rest
    BY <1>1, <1>2, <1>3, <1>4, <1>5, <2>1, <2>4, ReadRound, NextBlockDone
  <2>5. CASE CloseTrailer
    BY <1>3, <2>5 DEF CloseTrailer
  <2> QED
    BY <1>11, <2>2, <2>3, <2>4, <2>5 DEF Step
<1> QED
  BY <1>7, <1>8, <1>9, <1>10, <1>11 DEF Next, Call

(* ... and the bytes. *)
LEMMA KeptNext == TypeOK /\ Loops /\ Kept /\ [Next]_vars => Kept'
<1> SUFFICES ASSUME TypeOK, Loops, Kept, [Next]_vars PROVE Kept'
  OBVIOUS
<1>1. /\ filling \in Seq(Nat) /\ given \in Nat /\ ReadRoom /\ Content(out) \in Seq(Nat)
      /\ cfg.blockSize \in Nat
  BY Numbers, ContentType DEF Loops, TypeOK
<1>2. CASE Panic
  BY <1>2 DEF Panic, Kept
<1>3. ASSUME pc # "read", pc' # "read", ~panicked,
             UNCHANGED << filling, stream, given >>
      PROVE  Kept'
  BY <1>3, KeptQuiet
<1>4. ASSUME pc = "idle", pc' # "read", ~panicked, NEW final \in BOOLEAN,
             NextBlock(filling, final), given' = given
      PROVE  Kept'
  <2>1. err = "none" => Content(out) \o filling = Iota(given') /\ nInput = Len(Content(out))
    BY <1>1, <1>4, AllHeld DEF Kept
  <2> QED
    BY <1>1, <1>4, <2>1, KeptBlock
<1>5. ASSUME NEW op, NEW e, Return(op, e)
      PROVE  pc' # "read"
  BY <1>5 DEF Return
<1>6. ASSUME NEW label \in {"write", "pad", "trailer"}, NEW n, Goto(label, n)
      PROVE  pc' # "read"
  BY <1>6 DEF Goto
<1>7. CASE UNCHANGED vars
  BY <1>7 DEF vars, Kept, Held, Unfilled, stream
<1>8. CASE Setter
  BY <1>3, <1>8 DEF Setter, SetLevel, SetWindowSize, SetCRC, AddDict, Configure, Configurable
<1>9. CASE \E size \in ContentSizes : Reset(size)
  <2>1. /\ out' = << >> /\ filling' = << >> /\ given' = 0 /\ nInput' = 0 /\ pc' = "idle"
    BY <1>9 DEF Reset
  <2>2. Held' = << >>
    BY <2>1 DEF Held, Unfilled
  <2>3. Iota(0) = << >> /\ << >> \o << >> = << >> /\ Len(<< >>) = 0
    BY DEF Iota
  <2> QED
    BY <2>1, <2>2, <2>3, ContentEmpty DEF Kept
<1>10. CASE Close
  <2>1. pc = "idle" /\ ~panicked
    BY <1>10 DEF Close
  <2>2. CASE ~Open /\ Return("Closed", "none") /\ UNCHANGED << filling, stream, given >>
    BY <1>3, <1>5, <2>1, <2>2
  <2>3. CASE CloseFrame
    BY <1>4, <1>5, <1>6, <2>1, <2>3, CloseRound
  <2> QED
    BY <1>2, <1>10, <2>2, <2>3 DEF Close
<1>11. CASE (\E n \in 0..MaxChunk : Write(n)) \/ Flush \/ ReadFrom
  <2>1. pc = "idle" /\ ~panicked
    BY <1>11 DEF Write, Flush, ReadFrom
  <2>2. \/ Panic
        \/ /\ UNCHANGED << filling, stream, given >>
           /\ \/ \E op, e : Return(op, e)
              \/ \E n : Goto("write", n) \/ Goto("pad", n)
        \/ /\ NextBlock(filling, FALSE) /\ given' = given
           /\ \/ \E op, e : Return(op, e)
              \/ Goto("pad", 0)
    BY <1>11 DEF Write, Flush, ReadFrom
  <2>3. Panic \/ pc' # "read"
    BY <1>5, <1>6, <2>2
  <2> QED
    BY <1>2, <1>3, <1>4, <2>1, <2>2, <2>3
<1>12. CASE WriteStep /\ ~Panic
  <2>1. PICK n \in Nat, buf \in Seq(Nat) :
          /\ buf = filling \o Bytes(n) /\ given' = given + n
          /\ \/ filling' = buf /\ Return("Write", "none") /\ UNCHANGED stream
             \/ /\ NextBlock(buf, FALSE)
                /\ Return("Write", NextBlockErr(buf)) \/ Goto("write", left - n)
    BY <1>12, WriteRound
  <2>2. pc = "write" /\ pc' # "read" /\ ~panicked
    BY <1>5, <1>6, <1>12, <2>1, WriteRound DEF Loops
  <2>3. err = "none" => Content(out) \o buf = Iota(given') /\ nInput = Len(Content(out))
    <3> SUFFICES ASSUME err = "none"
                 PROVE  Content(out) \o buf = Iota(given') /\ nInput = Len(Content(out))
      OBVIOUS
    <3>1. Content(out) \o filling = Iota(given) /\ nInput = Len(Content(out))
      BY <1>1, <2>2, AllHeld DEF Kept
    <3>2. Bytes(n) \in Seq(Nat)
      BY <1>1, ByteSeqs
    <3>3. (Content(out) \o filling) \o Bytes(n) = Content(out) \o (filling \o Bytes(n))
      BY <1>1, <3>2, Associative
    <3>4. Iota(given) \o Bytes(n) = Iota(given + n)
      BY <1>1, IotaGrows
    <3> QED
      BY <2>1, <3>1, <3>3, <3>4
  <2>4. CASE NextBlock(buf, FALSE)
    BY <2>2, <2>3, <2>4, KeptBlock
  <2>5. CASE filling' = buf /\ UNCHANGED stream
    <3>1. Held' = buf
      <4>1. Len(filling)' - Unfilled' = Len(buf)
        BY <2>2, <2>5 DEF Unfilled
      <4> QED
        BY <2>5, <4>1 DEF Held
    <3> QED
      BY <2>2, <2>3, <2>5, <3>1 DEF Kept, stream
  <2> QED
    BY <2>1, <2>4, <2>5
<1>13. CASE ReadFromPad /\ ~Panic
  <2>1. /\ filling = << >> /\ pc = "pad" /\ ~panicked
        /\ filling' = [i \in 1..cfg.blockSize |-> Garbage]
        /\ pc' = "read" /\ left' = cfg.blockSize /\ UNCHANGED << stream, given >>
    BY <1>13 DEF ReadFromPad, Goto, Loops
  <2>2. Held = << >>
    BY <1>1, <2>1, AllHeld
  <2>3. Len(filling') = cfg.blockSize
    BY <1>1, <2>1
  <2>4. Len(filling)' - Unfilled' = 0
    BY <1>1, <2>1, <2>3 DEF Unfilled
  <2>5. Held' = << >>
    BY <2>4 DEF Held
  <2> QED
    BY <2>1, <2>2, <2>5 DEF Kept, stream
<1>14. ASSUME NEW n \in 0..cfg.blockSize, NEW outcome \in {"nil", "eof", "error"},
              ReadFromStep(n, outcome), ~Panic
       PROVE  Kept'
  <2>1. PICK buf \in Seq(Nat) :
          /\ Len(buf) = Len(filling)
          /\ SubSeq(buf, 1, Len(filling) - (left - n)) = Held \o Bytes(n)
          /\ \/ /\ filling' = SubSeq(buf, 1, Len(filling) - (left - n))
                /\ Return("ReadFrom", "none") /\ UNCHANGED stream
             \/ /\ filling' = buf /\ err' = "source" /\ Return("ReadFrom", "source")
                /\ UNCHANGED << flags, nInput, contentSize, out >>
             \/ filling' = buf /\ Goto("read", left - n) /\ UNCHANGED stream
             \/ /\ n = left /\ NextBlock(buf, FALSE)
                /\ \/ Return("ReadFrom", NextBlockErr(buf))
                   \/ NextBlockErr(buf) = "none" /\ Goto("pad", 0)
    BY <1>1, <1>14, ReadRound
  <2>2. /\ pc = "read" /\ n \in Nat /\ n <= left /\ given' = given + n /\ ~panicked
        /\ left <= Len(filling) /\ left \in Nat
    BY <1>1, <1>14, ReadRound, Numbers DEF Loops, ReadRoom
  <2> DEFINE taken == Held \o Bytes(n)
  <2>3. /\ Held \in Seq(Nat) /\ Bytes(n) \in Seq(Nat) /\ taken \in Seq(Nat)
    <3>1. Len(filling) - Unfilled \in Nat /\ Len(filling) - Unfilled <= Len(filling)
      BY <1>1, <2>2 DEF Unfilled
    <3>2. Held \in Seq(Nat)
      BY <1>1, <3>1, ByteSeqs DEF Held
    <3>3. Bytes(n) \in Seq(Nat)
      BY <1>1, <2>2, ByteSeqs
    <3> QED
      BY <1>1, <3>2, <3>3, ByteSeqs
  <2>4. err = "none" => Content(out) \o taken = Iota(given') /\ nInput = Len(Content(out))
    <3> SUFFICES ASSUME err = "none"
                 PROVE  Content(out) \o taken = Iota(given') /\ nInput = Len(Content(out))
      OBVIOUS
    <3>1. Content(out) \o Held = Iota(given) /\ nInput = Len(Content(out))
      BY <2>2 DEF Kept
    <3>2. (Content(out) \o Held) \o Bytes(n) = Content(out) \o taken
      <4> HIDE DEF taken
      <4>1. (Content(out) \o Held) \o Bytes(n) = Content(out) \o (Held \o Bytes(n))
        <5>1. Content(out) \in Seq(Nat)
          BY <1>1
        <5> QED
          BY <2>3, <5>1, Associative, Zenon
      <4> QED
        BY <4>1 DEF taken
    <3>3. Iota(given) \o Bytes(n) = Iota(given + n)
      BY <1>1, <2>2, IotaGrows
    <3> QED
      BY <2>2, <3>1, <3>2, <3>3
  <2> HIDE DEF taken
  <2>5. SubSeq(buf, 1, Len(filling) - (left - n)) = taken
    BY <2>1 DEF taken
  <2>6. CASE filling' = taken /\ Return("ReadFrom", "none") /\ UNCHANGED stream
    <3>1. pc' # "read"
      BY <2>6 DEF Return
    <3>2. Held' = taken
      <4>1. Len(filling)' - Unfilled' = Len(taken)
        BY <2>3, <2>6, <3>1 DEF Unfilled
      <4> QED
        BY <2>3, <2>6, <4>1 DEF Held
    <3> QED
      BY <2>4, <2>6, <3>2 DEF Kept, stream
  <2>7. CASE err' = "source"
    BY <2>7 DEF Kept
  <2>8. CASE filling' = buf /\ Goto("read", left - n) /\ UNCHANGED stream
    <3>1. pc' = "read" /\ left' = left - n
      BY <2>8 DEF Goto
    <3>2. Len(filling)' - Unfilled' = Len(filling) - (left - n)
      BY <2>1, <2>8, <3>1 DEF Unfilled
    <3>3. Held' = taken
      BY <2>5, <2>8, <3>2 DEF Held
    <3> QED
      BY <2>4, <2>8, <3>3 DEF Kept, stream
  <2>9. CASE /\ n = left /\ NextBlock(buf, FALSE)
             /\ Return("ReadFrom", NextBlockErr(buf)) \/ Goto("pad", 0)
    <3>1. pc' # "read"
      BY <1>5, <1>6, <2>9
    <3>2. Len(filling) - (left - n) = Len(buf)
      BY <2>1, <2>2, <2>9
    <3>3. SubSeq(buf, 1, Len(buf)) = buf
      OBVIOUS
    <3>4. buf = taken
      BY <2>5, <3>2, <3>3
    <3> QED
      BY <2>4, <2>9, <3>1, <3>4, KeptBlock
  <2> QED
    BY <2>1, <2>5, <2>6, <2>7, <2>8, <2>9
<1>15. CASE CloseTrailer
  BY <1>15 DEF CloseTrailer, Kept
<1> QED
  BY <1>2, <1>7, <1>8, <1>9, <1>10, <1>11, <1>12, <1>13, <1>14, <1>15 DEF Next, Call, Step

-----------------------------------------------------------------------------
(* Content, and the bytes that wait, in every behaviour. *)

(* At first there are none. *)
LEMMA KeptInit == Init => TypeOK /\ Loops /\ Kept
<1> SUFFICES ASSUME Init PROVE TypeOK /\ Loops /\ Kept
  OBVIOUS
<1>1. Loops
  BY DEF Init, Loops, ReadRoom
<1>2. Held = << >> /\ Iota(0) = << >> /\ << >> \o << >> = << >> /\ Len(<< >>) = 0
  BY DEF Init, Held, Unfilled, Iota
<1>3. Kept
  BY <1>2, ContentEmpty DEF Init, Kept
<1> QED
  BY <1>1, <1>3, TypeInit

(* The bytes are kept, step by step. *)
THEOREM WriterKeeps == Spec => [](TypeOK /\ Loops /\ Kept)
<1>1. TypeOK /\ Loops /\ Kept /\ [Next]_vars => (TypeOK /\ Loops /\ Kept)'
  <2>1. Loops => ReadRoom
    BY DEF Loops
  <2> QED
    BY <2>1, TypeNext, LoopsNext, KeptNext
<1> QED
  BY <1>1, KeptInit, PTL DEF Spec

(***************************************************************************)
(* Between calls, while no error occurred, every byte taken is in a block  *)
(* that was written or waits in filling: for all sizes, with setters and   *)
(* calls at any time, whatever fails.                                      *)
(***************************************************************************)
THEOREM WriterLosesNothing == Spec => []NothingLost
<1>1. TypeOK /\ Loops /\ Kept => NothingLost
  BY AllHeld, Numbers DEF Kept, NothingLost
<1> QED
  BY <1>1, WriterKeeps, PTL

(* Only Flush returns as "Flush"; what keeps res keeps the stream. *)
LEMMA WhoFlushes ==
  ASSUME TypeOK, ReadRoom, [Next]_vars, res'.op = "Flush"
  PROVE  Flush \/ UNCHANGED << res, out, given >>
<1>1. ASSUME NEW op \in {"Write", "ReadFrom", "Close", "Closed"}, NEW e, Return(op, e)
      PROVE  FALSE
  BY <1>1 DEF Return
<1>2. ASSUME NEW label, NEW n, Goto(label, n)
      PROVE  FALSE
  BY <1>2 DEF Goto, Running
<1>3. CASE Panic
  BY <1>3 DEF Panic, Running
<1>4. CASE UNCHANGED vars \/ Setter
  BY <1>4 DEF vars, stream, Setter, SetLevel, SetWindowSize, SetCRC, AddDict, Configure
<1>5. CASE \E size \in ContentSizes : Reset(size)
  BY <1>5 DEF Reset
<1>6. CASE (\E n \in 0..MaxChunk : Write(n)) \/ ReadFrom \/ Close
  BY <1>1, <1>2, <1>3, <1>6, CloseRound DEF Write, ReadFrom, Close
<1>7. CASE Step
  <2>1. CASE WriteStep
    BY <1>1, <1>2, <1>3, <2>1, WriteRound
  <2>2. CASE ReadFromPad \/ CloseTrailer
    BY <1>1, <1>2, <1>3, <2>2 DEF ReadFromPad, CloseTrailer
  <2>3. CASE \E n \in 0..cfg.blockSize, outcome \in {"nil", "eof", "error"} :
               ReadFromStep(n, outcome)
    BY <1>1, <1>2, <1>3, <2>3, ReadRound
  <2> QED
    BY <1>7, <2>1, <2>2, <2>3 DEF Step
<1> QED
  BY <1>4, <1>5, <1>6, <1>7 DEF Next, Call

(***************************************************************************)
(* A Flush that returned nil has delivered every byte taken.               *)
(***************************************************************************)
THEOREM WriterFlushes == Spec => []FlushDelivers
<1>1. Init => FlushDelivers
  BY DEF Init, FlushDelivers, Returned
<1>2. TypeOK /\ Loops /\ Kept /\ FlushDelivers /\ [Next]_vars => FlushDelivers'
  <2> SUFFICES ASSUME TypeOK, Loops, Kept, FlushDelivers, [Next]_vars, Returned("Flush")'
               PROVE  Content(out') = Iota(given')
    BY DEF FlushDelivers
  <2>1. res'.op = "Flush" /\ res'.err = "none" /\ ReadRoom
    BY DEF Returned, Loops
  <2>2. CASE UNCHANGED << res, out, given >>
    BY <2>2 DEF FlushDelivers, Returned
  <2>3. CASE Flush
    <3>1. /\ filling \in Seq(Nat) /\ Content(out) \in Seq(Nat) /\ pc = "idle" /\ ~panicked
      BY <2>3, Numbers, ContentType DEF TypeOK, Flush
    <3>2. err = "none" => Content(out) \o filling = Iota(given)
      BY <3>1, AllHeld DEF Kept
    <3>3. CASE Panic
      BY <2>1, <3>3 DEF Panic, Running
    <3>4. CASE filling = << >> /\ Return("Flush", err) /\ UNCHANGED << stream, given >>
      <4>1. err = "none"
        BY <2>1, <3>4 DEF Return
      <4>2. Content(out) \o << >> = Content(out)
        BY <3>1
      <4> QED
        BY <3>2, <3>4, <4>1, <4>2 DEF stream
    <3>5. CASE NextBlock(filling, FALSE) /\ Return("Flush", NextBlockErr(filling))
               /\ given' = given
      <4>1. NextBlockErr(filling) = "none"
        BY <2>1, <3>5 DEF Return
      <4> QED
        BY <3>1, <3>2, <3>5, <4>1, NextBlockDone
    <3> QED
      BY <2>3, <3>3, <3>4, <3>5 DEF Flush
  <2> QED
    BY <2>1, <2>2, <2>3, WhoFlushes
<1> QED
  BY <1>1, <1>2, WriterKeeps, PTL DEF Spec

(* An error keeps the io.Writer silent, step by step. *)
LEMMA SilentStep ==
  ASSUME TypeOK, Loops, [Next]_vars, err # "none"
  PROVE  \/ out' = out /\ err' # "none"
         \/ out' = << >> /\ err' = "none" /\ res'.op = "Reset"
<1>1. CASE UNCHANGED stream
  BY <1>1 DEF stream
<1>2. ASSUME NEW buf \in Seq(Nat), NEW final \in BOOLEAN, NextBlock(buf, final)
      PROVE  out' = out /\ err' # "none"
  BY <1>2, NextBlockContent
<1>3. filling \in Seq(Nat) /\ ReadRoom
  BY Numbers DEF Loops
<1>4. CASE UNCHANGED vars \/ Setter \/ Panic
  BY <1>1, <1>4 DEF vars, Setter, SetLevel, SetWindowSize, SetCRC, AddDict, Configure, Panic
<1>5. CASE \E size \in ContentSizes : Reset(size)
  BY <1>5 DEF Reset
<1>6. CASE (\E n \in 0..MaxChunk : Write(n)) \/ ReadFrom \/ Flush \/ Close
  BY <1>1, <1>2, <1>3, <1>4, <1>6, CloseRound DEF Write, ReadFrom, Flush, Close
<1>7. CASE Step /\ ~Panic
  <2>1. CASE WriteStep
    BY <1>1, <1>2, <1>7, <2>1, WriteRound
  <2>2. CASE ReadFromPad
    BY <1>1, <1>7, <2>2 DEF ReadFromPad
  <2>3. CASE \E n \in 0..cfg.blockSize, outcome \in {"nil", "eof", "error"} :
               ReadFromStep(n, outcome)
    BY <1>1, <1>2, <1>3, <1>7, <2>3, ReadRound
  <2>4. ~CloseTrailer
    BY DEF CloseTrailer, Loops
  <2> QED
    BY <1>7, <2>1, <2>2, <2>3, <2>4 DEF Step
<1> QED
  BY <1>4, <1>5, <1>6, <1>7 DEF Next, Call

(***************************************************************************)
(* After the first error nothing reaches the io.Writer until Reset.        *)
(***************************************************************************)
THEOREM WriterSilentAfterError == Spec => SilentAfterError
<1>1. TypeOK /\ Loops /\ [Next]_vars =>
        [err # "none" => \/ out' = out /\ err' # "none"
                         \/ out' = << >> /\ err' = "none" /\ res'.op = "Reset"]_vars
  BY SilentStep
<1> QED
  BY <1>1, WriterKeeps, PTL DEF Spec, SilentAfterError

-----------------------------------------------------------------------------
(***************************************************************************)
(* The shape of the frame being written.  A configuration has blocks that  *)
(* fit its window (ConfigFits); while the Writer is open the encoder has   *)
(* that window and hashed what was taken, and without an error the items   *)
(* written so far are nothing or a header and blocks (Shaped).             *)
(***************************************************************************)
ConfigFits ==
  /\ cfg.blockSize <= MaxBlock
  /\ cfg.blockSize <= NewEncoder.maxOff

Streamed ==
  /\ Len(out) >= 1 /\ out[1] = StreamHeader
  /\ \A i \in 2..Len(out) :
       /\ IsBlock(out[i])
       /\ out[i].last <=> eofWritten /\ i = Len(out)
       /\ Len(out[i].data) <= cfg.blockSize /\ Len(out[i].data) <= nInput

Growing ==
  /\ ~fullFrameWritten
  /\ eofWritten <=> pc = "trailer"
  /\ eofWritten => Len(out) >= 2 /\ filling = << >> /\ (contentSize > 0 => nInput = contentSize)
  /\ IF headerWritten THEN Streamed ELSE out = << >> /\ ~eofWritten

Shaped ==
  Open =>
    /\ cfg.blockSize <= enc.maxOff
    /\ cfg.crc => enc.hashed = Iota(given)
    /\ err = "none" => Growing

(* Every configuration a setter makes fits. *)
LEMMA FitsNext == TypeOK /\ ReadRoom /\ ConfigFits /\ [Next]_vars => ConfigFits'
<1> SUFFICES ASSUME TypeOK, ReadRoom, ConfigFits, [Next]_vars PROVE ConfigFits'
  OBVIOUS
<1>1. CASE cfg' = cfg
  BY <1>1 DEF ConfigFits, NewEncoder
<1>2. ASSUME NEW l \in Levels, SetLevel(l)
      PROVE  ConfigFits'
  <2>1. cfg'.blockSize = MaxBlock /\ cfg'.wndSize = LevelWindow[l]
    BY <1>2 DEF SetLevel, Configure, TypeOK, Config
  <2>2. LevelWindow[l] = 0 \/ LevelWindow[l] >= MaxBlock
    BY WriterAssumption
  <2> QED
    BY <2>1, <2>2, WriterAssumption, SizesAssumption DEF ConfigFits, NewEncoder
<1>3. ASSUME NEW n \in Windows, SetWindowSize(n)
      PROVE  ConfigFits'
  <2>1. cfg'.blockSize = Smaller(n, MaxBlock) /\ cfg'.wndSize = n
    BY <1>3 DEF SetWindowSize, Configure, TypeOK, Config
  <2>2. n \in Nat /\ n >= MinWindow
    BY WriterAssumption
  <2> QED
    BY <2>1, <2>2, SizesAssumption DEF ConfigFits, NewEncoder, Smaller
<1>4. ASSUME (\E b \in BOOLEAN : SetCRC(b)) \/ (\E d \in Dicts : AddDict(d))
      PROVE  ConfigFits'
  <2>1. cfg'.blockSize = cfg.blockSize /\ cfg'.wndSize = cfg.wndSize
    BY <1>4 DEF SetCRC, AddDict, Configure, TypeOK, Config
  <2> QED
    BY <2>1 DEF ConfigFits, NewEncoder
<1>5. CASE UNCHANGED vars \/ Panic
  BY <1>1, <1>5 DEF vars, Panic
<1>6. CASE Call
  <2>1. CASE Close
    BY <1>1, <1>5, <2>1, CloseRound DEF Close
  <2> QED
    BY <1>1, <1>5, <1>6, <2>1 DEF Call, Reset, Write, ReadFrom, Flush
<1>7. CASE Step
  <2>1. CASE WriteStep
    BY <1>1, <1>5, <2>1, WriteRound
  <2>2. CASE \E n \in 0..cfg.blockSize, outcome \in {"nil", "eof", "error"} :
               ReadFromStep(n, outcome)
    BY <1>1, <1>5, <2>2, ReadRound
  <2> QED
    BY <1>1, <1>5, <1>7, <2>1, <2>2 DEF Step, ReadFromPad, CloseTrailer
<1> QED
  BY <1>2, <1>3, <1>4, <1>5, <1>6, <1>7 DEF Next, Setter

(* A step that leaves the stream alone keeps the shape. *)
LEMMA ShapedQuiet ==
  ASSUME Shaped, UNCHANGED stream, cfg' = cfg, enc'.maxOff = enc.maxOff,
         enc.hashed = Iota(given) /\ cfg.crc => enc'.hashed = Iota(given'),
         pc # "trailer", pc' # "trailer"
  PROVE  Shaped'
<1> SUFFICES ASSUME Open PROVE Shaped'
  BY DEF Shaped, Open
<1>1. /\ cfg.blockSize <= enc.maxOff
      /\ cfg.crc => enc.hashed = Iota(given)
      /\ err = "none" => Growing
  BY DEF Shaped
<1>2. UNCHANGED << headerWritten, eofWritten, fullFrameWritten, err, nInput, contentSize, out >>
  BY DEF stream, flags
<1>3. Streamed => Streamed'
  BY <1>2 DEF Streamed, StreamHeader
<1>4. Growing => Growing'
  BY <1>2, <1>3 DEF Growing
<1> QED
  BY <1>1, <1>2, <1>4 DEF Shaped

(* nextBlock refusing a buffer for its size leaves the stream alone. *)
LEMMA RefusedQuiet ==
  ASSUME TypeOK, NEW buf \in Seq(Nat), NEW final \in BOOLEAN, NextBlock(buf, final),
         Refused(buf)
  PROVE  UNCHANGED stream /\ filling' = buf
BY DEF NextBlock, stream

(* A block written after a header or with one continues the frame. *)
LEMMA BlockAdds ==
  ASSUME TypeOK, NEW buf \in Seq(Nat), NEW final \in BOOLEAN, NextBlock(buf, final),
         err' = "none", ~Refused(buf), headerWritten \/ ~final,
         cfg' = cfg, enc'.maxOff = enc.maxOff,
         ~eofWritten, ~fullFrameWritten,
         IF headerWritten THEN Streamed ELSE out = << >>
  PROVE  /\ headerWritten' /\ ~fullFrameWritten' /\ eofWritten' = final
         /\ contentSize' = contentSize /\ filling' = << >>
         /\ Streamed' /\ Len(out') >= 1 /\ (final => Len(out') >= 2)
<1> DEFINE base == out \o Pending
           block == Block(buf, final)
<1>1. /\ out' = base \o << block >> /\ headerWritten' /\ ~fullFrameWritten'
      /\ eofWritten' = final /\ nInput' = nInput + Len(buf) /\ contentSize' = contentSize
      /\ filling' = << >>
  <2>1. EmitBlock(buf, final)
    BY DEF NextBlock, HeaderFails, EncodeFails
  <2>2. /\ out' = out \o Pending \o << Block(buf, final) >>
        /\ headerWritten' = TRUE /\ eofWritten' = (eofWritten \/ final)
        /\ nInput' = nInput + Len(buf)
        /\ filling' = << >> /\ fullFrameWritten' = fullFrameWritten
    BY <2>1 DEF EmitBlock
  <2>3. contentSize' = contentSize
    BY DEF NextBlock
  <2>4. eofWritten' = final
    BY <2>2
  <2> QED
    BY <2>2, <2>3, <2>4
<1>2. /\ out \in Seq(Item) /\ nInput \in Nat /\ Len(buf) \in Nat /\ Len(buf) <= cfg.blockSize
      /\ cfg.blockSize \in Nat
  BY DEF TypeOK, Config, Refused
<1>3. /\ Len(base) >= 1 /\ base[1] = StreamHeader /\ base \in Seq(Item)
      /\ \A i \in 2..Len(base) :
           /\ IsBlock(base[i]) /\ ~base[i].last
           /\ Len(base[i].data) <= cfg.blockSize /\ Len(base[i].data) <= nInput
  <2>1. CASE headerWritten
    <3>1. base = out
      BY <1>2, <2>1 DEF Pending
    <3> QED
      BY <1>2, <2>1, <3>1 DEF Streamed
  <2>2. CASE ~headerWritten
    <3>1. base = << StreamHeader >>
      BY <2>2 DEF Pending
    <3>2. << StreamHeader >> \in Seq(Item)
      BY <2>2, PendingContent DEF Pending
    <3>3. Len(<< StreamHeader >>) = 1 /\ << StreamHeader >>[1] = StreamHeader
      OBVIOUS
    <3> HIDE DEF base
    <3> QED
      BY <3>1, <3>2, <3>3
  <2> QED
    BY <2>1, <2>2
<1> HIDE DEF base
<1>4. block \in Item /\ IsBlock(block) /\ block.last = final /\ block.data = buf
  BY DEF Block, Item, IsBlock
<1> HIDE DEF block
<1>5. /\ Len(out') = Len(base) + 1 /\ out'[Len(base) + 1] = block
      /\ \A i \in 1..Len(base) : out'[i] = base[i]
      /\ Len(base) \in Nat
  <2>1. out' = Append(base, block)
    BY <1>1, <1>3, <1>4, AppendIsConcat
  <2> QED
    BY <1>3, <1>4, <2>1, AppendProperties
<1>6. StreamHeader' = StreamHeader
  BY <1>1 DEF StreamHeader
<1>7. out'[1] = StreamHeader
  BY <1>3, <1>5
<1>8. ASSUME NEW i \in 2..Len(out')
      PROVE  /\ IsBlock(out'[i])
             /\ out'[i].last <=> final /\ i = Len(out')
             /\ Len(out'[i].data) <= cfg.blockSize
             /\ Len(out'[i].data) <= nInput + Len(buf)
  <2>1. CASE i = Len(base) + 1
    <3>1. Len(buf) <= nInput + Len(buf)
      BY <1>2
    <3> QED
      BY <1>2, <1>4, <1>5, <2>1, <3>1
  <2>2. CASE i # Len(base) + 1
    <3>1. i \in 2..Len(base) /\ out'[i] = base[i] /\ i # Len(out')
      BY <1>5, <2>2
    <3>2. IsBlock(base[i]) /\ Len(base[i].data) <= nInput
      BY <1>3, <3>1
    <3>3. Len(base[i].data) \in Nat
      <4>1. base[i] \in Item
        BY <1>3, <1>5, <3>1
      <4>2. base[i].data \in Seq(Nat)
        BY <3>2, <4>1, CarriedType DEF Carried
      <4> QED
        BY <4>2
    <3>4. Len(base[i].data) <= nInput + Len(buf)
      BY <1>2, <3>2, <3>3
    <3> QED
      BY <1>3, <3>1, <3>4
  <2> QED
    BY <2>1, <2>2
<1>9. Streamed'
  <2>1. Len(out') >= 1
    BY <1>3, <1>5
  <2> QED
    BY <1>1, <1>6, <1>7, <1>8, <2>1 DEF Streamed
<1>10. final => Len(out') >= 2
  BY <1>3, <1>5
<1> QED
  BY <1>1, <1>3, <1>5, <1>9, <1>10

(* A block of a frame that goes on keeps the shape. *)
LEMMA ShapedBlock ==
  ASSUME TypeOK, Shaped, NEW buf \in Seq(Nat), NextBlock(buf, FALSE),
         cfg' = cfg, enc'.maxOff = enc.maxOff,
         enc.hashed = Iota(given) /\ cfg.crc => enc'.hashed = Iota(given'),
         pc # "trailer", pc' # "trailer"
  PROVE  Shaped'
<1>1. CASE Refused(buf)
  BY <1>1, RefusedQuiet, ShapedQuiet
<1>2. CASE ~Refused(buf)
  <2>1. err = "none"
    BY <1>2 DEF Refused
  <2>2. CASE Open /\ err' = "none"
    <3>1. /\ cfg.blockSize <= enc.maxOff /\ (cfg.crc => enc.hashed = Iota(given))
          /\ ~eofWritten /\ ~fullFrameWritten
          /\ IF headerWritten THEN Streamed ELSE out = << >>
      BY <2>1, <2>2 DEF Shaped, Growing
    <3>2. headerWritten' /\ ~fullFrameWritten' /\ ~eofWritten' /\ Streamed'
      BY <1>2, <2>2, <3>1, BlockAdds
    <3>3. Growing'
      BY <3>2 DEF Growing
    <3> QED
      BY <3>1, <3>3 DEF Shaped
  <2>3. CASE ~Open
    BY <2>3 DEF Shaped, Open
  <2>4. CASE Open /\ err' # "none"
    BY <2>4 DEF Shaped
  <2> QED
    BY <2>2, <2>3, <2>4
<1> QED
  BY <1>1, <1>2

(* What is hashed grows with what is taken. *)
LEMMA HashGrows ==
  ASSUME TypeOK, NEW n \in Nat, given' = given + n,
         enc' = [enc EXCEPT !.hashed = Digest(Bytes(n))]
  PROVE  /\ enc'.maxOff = enc.maxOff
         /\ enc.hashed = Iota(given) /\ cfg.crc => enc'.hashed = Iota(given')
<1>1. enc'.maxOff = enc.maxOff /\ enc'.hashed = Digest(Bytes(n))
  BY DEF TypeOK
<1>2. Iota(given) \o Bytes(n) = Iota(given + n)
  BY Numbers, IotaGrows
<1> QED
  BY <1>1, <1>2 DEF Digest

(* The last block of a streamed frame completes its shape. *)
LEMMA ShapedClose ==
  ASSUME TypeOK, Shaped, Open, pc = "idle", CloseFrame
  PROVE  Shaped'
<1>1. CASE enc' = NoEnc
  BY <1>1 DEF Shaped, Open, NoEnc
<1>2. CASE /\ NextBlockErr(filling) = "none" /\ enc' = enc /\ ~fullFrameWritten'
           /\ ~(contentSize > 0 /\ nInput' # contentSize)
           /\ Goto("trailer", 0)
  <2>1. /\ NextBlock(filling, TRUE) /\ cfg' = cfg /\ given' = given /\ filling \in Seq(Nat)
    BY CloseRound, Numbers
  <2>2. err = "none" /\ err' = "none" /\ filling' = << >> /\ ~Refused(filling)
    <3>1. err = "none" /\ err' = "none" /\ filling' = << >> /\ Len(filling) <= cfg.blockSize
      BY <1>2, <2>1, NextBlockDone
    <3> QED
      BY <2>1, <3>1, Numbers DEF Refused
  <2>3. /\ cfg.blockSize <= enc.maxOff /\ (cfg.crc => enc.hashed = Iota(given))
        /\ ~eofWritten /\ ~fullFrameWritten
        /\ IF headerWritten THEN Streamed ELSE out = << >>
    BY <2>2 DEF Shaped, Growing
  <2>4. headerWritten
    <3>1. ~headerWritten => EmitFullFrame(filling)
      BY <2>1, <2>2 DEF NextBlock
    <3> QED
      BY <1>2, <2>2, <3>1 DEF EmitFullFrame
  <2>5. /\ headerWritten' /\ eofWritten' /\ contentSize' = contentSize
        /\ Streamed' /\ Len(out') >= 2
    BY <1>2, <2>1, <2>2, <2>3, <2>4, BlockAdds
  <2>6. pc' = "trailer"
    BY <1>2 DEF Goto
  <2>7. Growing'
    BY <1>2, <2>2, <2>5, <2>6 DEF Growing
  <2> QED
    BY <1>2, <2>1, <2>3, <2>7 DEF Shaped
<1> QED
  BY <1>1, <1>2, CloseRound

(* Every step of a Writer configured between frames keeps the shape. *)
LEMMA ShapedNext ==
  ASSUME ~LateConfig
  PROVE  TypeOK /\ Loops /\ ConfigFits /\ Shaped /\ [Next]_vars => Shaped'
<1> SUFFICES ASSUME TypeOK, Loops, ConfigFits, Shaped, [Next]_vars PROVE Shaped'
  OBVIOUS
<1>1. filling \in Seq(Nat) /\ ReadRoom
  BY Numbers DEF Loops
<1>2. ASSUME pc # "trailer", pc' # "trailer", UNCHANGED << cfg, enc, stream, given >>
      PROVE  Shaped'
  BY <1>2, ShapedQuiet
<1>3. CASE Panic /\ pc # "trailer"
  BY <1>2, <1>3 DEF Panic
<1>4. ASSUME NEW op, NEW e, Return(op, e)
      PROVE  pc' # "trailer"
  BY <1>4 DEF Return
<1>5. ASSUME NEW label \in {"write", "pad", "read"}, NEW n, Goto(label, n)
      PROVE  pc' # "trailer"
  BY <1>5 DEF Goto
<1>6. CASE UNCHANGED vars
  BY <1>6 DEF vars, stream, flags, Shaped, Growing, Streamed, StreamHeader, Open
<1>7. CASE Setter
  <2>1. ~Open /\ enc' = enc
    BY <1>7 DEF Setter, SetLevel, SetWindowSize, SetCRC, AddDict, Configure, Configurable
  <2> QED
    BY <2>1 DEF Shaped, Open
<1>8. CASE \E size \in ContentSizes : Reset(size)
  <2>1. /\ enc' = NewEncoder /\ cfg' = cfg /\ given' = 0 /\ out' = << >>
        /\ ~headerWritten' /\ ~eofWritten' /\ ~fullFrameWritten' /\ pc' # "trailer"
    BY <1>8 DEF Reset
  <2>2. enc'.maxOff = NewEncoder.maxOff /\ enc'.hashed = << >>
    BY <2>1 DEF NewEncoder
  <2>3. Iota(0) = << >>
    BY DEF Iota
  <2>4. Growing'
    BY <2>1 DEF Growing
  <2> QED
    BY <2>1, <2>2, <2>3, <2>4 DEF Shaped, ConfigFits
<1>9. CASE Close
  <2>1. pc = "idle"
    BY <1>9 DEF Close
  <2>2. CASE ~Open /\ Return("Closed", "none") /\ UNCHANGED << cfg, enc, stream, given >>
    BY <1>2, <1>4, <2>1, <2>2
  <2>3. CASE Open /\ CloseFrame
    BY <2>1, <2>3, ShapedClose
  <2> QED
    BY <1>3, <1>9, <2>1, <2>2, <2>3 DEF Close
<1>10. CASE (\E n \in 0..MaxChunk : Write(n)) \/ Flush \/ ReadFrom
  <2>1. pc = "idle"
    BY <1>10 DEF Write, Flush, ReadFrom
  <2>2. \/ Panic
        \/ /\ UNCHANGED << cfg, enc, stream, given >>
           /\ \/ \E op, e : Return(op, e)
              \/ \E n : Goto("write", n) \/ Goto("pad", n)
        \/ /\ NextBlock(filling, FALSE) /\ UNCHANGED << cfg, enc, given >>
           /\ \/ \E op, e : Return(op, e)
              \/ Goto("pad", 0)
    BY <1>10 DEF Write, Flush, ReadFrom
  <2>3. Panic \/ pc' # "trailer"
    BY <1>4, <1>5, <2>2
  <2>4. CASE UNCHANGED << cfg, enc, stream, given >> /\ pc' # "trailer"
    BY <1>2, <2>1, <2>4
  <2>5. CASE NextBlock(filling, FALSE) /\ UNCHANGED << cfg, enc, given >> /\ pc' # "trailer"
    BY <1>1, <2>1, <2>5, ShapedBlock
  <2> QED
    BY <1>3, <2>1, <2>2, <2>3, <2>4, <2>5
<1>11. CASE WriteStep /\ ~Panic
  <2>1. PICK n \in Nat, buf \in Seq(Nat) :
          /\ given' = given + n /\ cfg' = cfg
          /\ enc' = [enc EXCEPT !.hashed = Digest(Bytes(n))]
          /\ \/ Return("Write", "none") /\ UNCHANGED stream
             \/ /\ NextBlock(buf, FALSE)
                /\ Return("Write", NextBlockErr(buf)) \/ Goto("write", left - n)
    BY <1>11, WriteRound
  <2>2. pc # "trailer" /\ pc' # "trailer"
    BY <1>4, <1>5, <1>11, <2>1, WriteRound
  <2>3. /\ enc'.maxOff = enc.maxOff
        /\ enc.hashed = Iota(given) /\ cfg.crc => enc'.hashed = Iota(given')
    BY <2>1, HashGrows
  <2> QED
    BY <2>1, <2>2, <2>3, ShapedQuiet, ShapedBlock
<1>12. CASE ReadFromPad /\ ~Panic
  <2>1. UNCHANGED << cfg, enc, stream, given >> /\ pc # "trailer" /\ pc' # "trailer"
    BY <1>5, <1>12 DEF ReadFromPad
  <2> QED
    BY <1>2, <2>1
<1>13. ASSUME NEW n \in 0..cfg.blockSize, NEW outcome \in {"nil", "eof", "error"},
              ReadFromStep(n, outcome), ~Panic
       PROVE  Shaped'
  <2>1. PICK buf \in Seq(Nat) :
          \/ Return("ReadFrom", "none") /\ UNCHANGED stream
          \/ err' = "source" /\ Return("ReadFrom", "source")
             /\ UNCHANGED << flags, nInput, contentSize, out >>
          \/ Goto("read", left - n) /\ UNCHANGED stream
          \/ /\ NextBlock(buf, FALSE)
             /\ Return("ReadFrom", NextBlockErr(buf)) \/ Goto("pad", 0)
    BY <1>1, <1>13, ReadRound
  <2>2. /\ pc # "trailer" /\ n \in Nat /\ given' = given + n /\ cfg' = cfg
        /\ enc' = [enc EXCEPT !.hashed = Digest(Bytes(n))]
    BY <1>1, <1>13, ReadRound
  <2>3. /\ enc'.maxOff = enc.maxOff
        /\ enc.hashed = Iota(given) /\ cfg.crc => enc'.hashed = Iota(given')
    BY <2>2, HashGrows
  <2>4. pc' # "trailer"
    BY <1>4, <1>5, <2>1
  <2>5. CASE err' = "source"
    <3>1. Open /\ cfg.crc => enc'.hashed = Iota(given')
      BY <2>3 DEF Shaped
    <3> QED
      BY <2>2, <2>3, <2>5, <3>1 DEF Shaped, Open
  <2>6. CASE UNCHANGED stream
    BY <2>2, <2>3, <2>4, <2>6, ShapedQuiet
  <2>7. CASE NextBlock(buf, FALSE)
    BY <2>2, <2>3, <2>4, <2>7, ShapedBlock
  <2> QED
    BY <2>1, <2>5, <2>6, <2>7
<1>14. CASE CloseTrailer
  BY <1>14 DEF CloseTrailer, Shaped, Open, NoEnc
<1>15. Step => pc # "trailer" \/ CloseTrailer
  BY DEF Step, WriteStep, ReadFromPad, ReadFromStep
<1> QED
  BY <1>3, <1>6, <1>7, <1>8, <1>9, <1>10, <1>11, <1>12, <1>13, <1>14, <1>15 DEF Next, Call, Step

(* The first configuration fits, and no frame is open yet. *)
LEMMA ShapedInit == Init => ConfigFits /\ Shaped
BY WriterAssumption, SizesAssumption DEF Init, ConfigFits, NewEncoder, Shaped, Open, NoEnc

(* The frame being written has its shape in every behaviour. *)
THEOREM WriterShapes ==
  ASSUME ~LateConfig
  PROVE  Spec => [](ConfigFits /\ Shaped)
<1>1. Loops => ReadRoom
  BY DEF Loops
<1>2. TypeOK /\ Loops /\ Kept /\ ConfigFits /\ Shaped /\ [Next]_vars => (ConfigFits /\ Shaped)'
  BY <1>1, FitsNext, ShapedNext
<1> QED
  BY <1>2, ShapedInit, WriterKeeps, PTL DEF Spec

(* Only Close returns as "Close"; what keeps res keeps the stream. *)
LEMMA WhoCloses ==
  ASSUME TypeOK, ReadRoom, [Next]_vars, res'.op = "Close"
  PROVE  (Close /\ Open /\ CloseFrame) \/ CloseTrailer \/ UNCHANGED << res, out, given >>
<1>1. ASSUME NEW op \in {"Write", "ReadFrom", "Flush", "Closed"}, NEW e, Return(op, e)
      PROVE  FALSE
  BY <1>1 DEF Return
<1>2. ASSUME NEW label, NEW n, Goto(label, n)
      PROVE  FALSE
  BY <1>2 DEF Goto, Running
<1>3. CASE Panic
  BY <1>3 DEF Panic, Running
<1>4. CASE UNCHANGED vars \/ Setter
  BY <1>4 DEF vars, stream, Setter, SetLevel, SetWindowSize, SetCRC, AddDict, Configure
<1>5. CASE \E size \in ContentSizes : Reset(size)
  BY <1>5 DEF Reset
<1>6. CASE (\E n \in 0..MaxChunk : Write(n)) \/ ReadFrom \/ Flush
  BY <1>1, <1>2, <1>3, <1>6 DEF Write, ReadFrom, Flush
<1>7. CASE Close
  BY <1>1, <1>3, <1>7 DEF Close
<1>8. CASE Step
  <2>1. CASE WriteStep
    BY <1>1, <1>2, <1>3, <2>1, WriteRound
  <2>2. CASE ReadFromPad
    BY <1>1, <1>2, <1>3, <2>2 DEF ReadFromPad
  <2>3. CASE \E n \in 0..cfg.blockSize, outcome \in {"nil", "eof", "error"} :
               ReadFromStep(n, outcome)
    BY <1>1, <1>2, <1>3, <2>3, ReadRound
  <2> QED
    BY <1>8, <2>1, <2>2, <2>3 DEF Step
<1> QED
  BY <1>4, <1>5, <1>6, <1>7, <1>8 DEF Next, Call

(***************************************************************************)
(* A frame streamed to its end fits what its header says: the window was   *)
(* asked for from the encoder's or from the declared size, and every block *)
(* is within either; the declared size is the one that was written.        *)
(***************************************************************************)
LEMMA StreamedBody ==
  ASSUME TypeOK, Kept, ConfigFits, Shaped, Open, err = "none", pc = "trailer", ~panicked
  PROVE  /\ Body(out) /\ out[1].crc = cfg.crc /\ Content(out) = Iota(given)
         /\ cfg.crc => enc.hashed = Content(out)
<1>1. /\ cfg.blockSize <= enc.maxOff /\ (cfg.crc => enc.hashed = Iota(given))
      /\ eofWritten /\ Len(out) >= 2 /\ filling = << >> /\ Streamed
      /\ contentSize > 0 => nInput = contentSize
  BY DEF Shaped, Growing
<1>2. Content(out) = Iota(given) /\ nInput = Len(Content(out))
  <2>1. Held = << >> /\ Content(out) \in Seq(Nat)
    BY <1>1, AllHeld, Numbers, ContentType DEF TypeOK
  <2>2. Content(out) \o << >> = Content(out)
    BY <2>1
  <2> QED
    BY <2>1, <2>2 DEF Kept
<1> DEFINE window == WindowSize(enc.maxOff, contentSize)
<1>3. /\ cfg.blockSize \in Nat /\ enc.maxOff \in Nat /\ contentSize \in Nat /\ nInput \in Nat
      /\ out \in Seq(Item)
  BY DEF TypeOK, Config
<1>4. /\ window \in Nat
      /\ \/ window = enc.maxOff
         \/ contentSize > 0 /\ window >= contentSize
  BY <1>3, AskedWindow
<1>5. /\ out[1].kind = "header" /\ out[1].crc = cfg.crc
      /\ out[1].window = 2 ^ BitsLen(window - 1)
      /\ out[1].fcs = IF contentSize >= FcsMin THEN contentSize ELSE Unknown
  BY <1>1 DEF Streamed, StreamHeader, Header
<1> HIDE DEF window
<1>6. window <= out[1].window /\ out[1].window \in Nat
  BY <1>4, <1>5, DeclaredWindow, BitsLenNat, PowerNat
<1>7. ASSUME NEW i \in 2..Len(out)
      PROVE  /\ IsBlock(out[i]) /\ (out[i].last <=> i = Len(out))
             /\ Len(out[i].data) <= Smaller(out[1].window, MaxBlock)
  <2>1. /\ IsBlock(out[i]) /\ (out[i].last <=> i = Len(out))
        /\ Len(out[i].data) <= cfg.blockSize /\ Len(out[i].data) <= nInput
    BY <1>1 DEF Streamed
  <2>2. Len(out[i].data) \in Nat
    <3>1. out[i] \in Item
      BY <1>3
    <3>2. out[i].data \in Seq(Nat)
      BY <2>1, <3>1, CarriedType DEF Carried
    <3> QED
      BY <3>2
  <2>3. Len(out[i].data) <= window
    BY <1>1, <1>3, <1>4, <2>1, <2>2
  <2>4. Len(out[i].data) <= MaxBlock /\ Len(out[i].data) <= out[1].window
    BY <1>3, <1>4, <1>6, <2>1, <2>2, <2>3, SizesAssumption DEF ConfigFits
  <2> QED
    BY <2>1, <2>4 DEF Smaller
<1>8. out[1].fcs \in {Unknown, Len(Content(out))}
  BY <1>1, <1>2, <1>3, <1>5, SizesAssumption
<1> QED
  BY <1>1, <1>2, <1>5, <1>7, <1>8 DEF Body

(***************************************************************************)
(* A Close that returned nil left one whole frame that carries every byte  *)
(* taken: for all sizes, windows and levels, with the setters used between *)
(* frames, whatever failed before.                                         *)
(***************************************************************************)
THEOREM WriterClosesWhole ==
  ASSUME ~LateConfig
  PROVE  Spec => []ClosedFrameIsWhole
<1>1. Init => ClosedFrameIsWhole
  BY DEF Init, ClosedFrameIsWhole, Returned
<1>2. TypeOK /\ Loops /\ Kept /\ ConfigFits /\ Shaped /\ ClosedFrameIsWhole /\ [Next]_vars
        => ClosedFrameIsWhole'
  <2> SUFFICES ASSUME TypeOK, Loops, Kept, ConfigFits, Shaped, ClosedFrameIsWhole,
                      [Next]_vars, Returned("Close")'
               PROVE  Accepts(out') /\ Content(out') = Iota(given')
    BY DEF ClosedFrameIsWhole
  <2>1. res'.op = "Close" /\ res'.err = "none" /\ ReadRoom
    BY DEF Returned, Loops
  <2>2. CASE UNCHANGED << res, out, given >>
    BY <2>2 DEF ClosedFrameIsWhole, Returned
  <2>3. CASE Close /\ Open /\ CloseFrame
    <3>1. /\ NextBlock(filling, TRUE) /\ given' = given
          /\ NextBlockErr(filling) = "none" /\ fullFrameWritten'
      <4>1. /\ ~Return("Close", "size") /\ ~Goto("trailer", 0)
            /\ \A e : Return("Close", e) => e = "none"
        BY <2>1 DEF Return, Goto, Running
      <4> QED
        BY <2>3, <4>1, CloseRound
    <3>2. /\ filling \in Seq(Nat) /\ pc = "idle" /\ ~panicked /\ cfg.blockSize \in Nat
      BY <2>3, Numbers DEF Close
    <3>3. err = "none" /\ err' = "none" /\ Len(filling) <= cfg.blockSize
      BY <3>1, <3>2, NextBlockDone
    <3>4. /\ cfg.blockSize <= enc.maxOff /\ ~fullFrameWritten
          /\ IF headerWritten THEN Streamed ELSE out = << >>
      BY <2>3, <3>3 DEF Shaped, Growing
    <3>5. EmitFullFrame(filling) /\ ~headerWritten
      <4>1. ~Refused(filling)
        BY <3>2, <3>3 DEF Refused
      <4>2. /\ ~HeaderFails(filling) /\ \A last : ~EmitBlock(filling, last)
            /\ \A last : ~EncodeFails(filling, last)
        BY <3>1, <3>4 DEF HeaderFails, EmitBlock, EncodeFails
      <4> QED
        BY <3>1, <4>1, <4>2 DEF NextBlock
    <3> DEFINE frame == EncodeAll(enc.maxOff, cfg, filling)
    <3>6. out' = << >> \o frame
      BY <3>3, <3>4, <3>5 DEF EmitFullFrame
    <3>7. /\ frame \in Seq(Item) /\ Content(frame) = filling /\ Accepts(frame)
      BY <3>2, <3>4, EncodeAllItems, EncodeAllWhole DEF TypeOK, Config, ConfigFits
    <3> HIDE DEF frame
    <3>8. out' = frame
      BY <3>6, <3>7
    <3>9. << >> \o filling = Iota(given)
      BY <3>2, <3>3, <3>4, <3>5, AllHeld, ContentEmpty DEF Kept
    <3>10. << >> \o filling = filling
      BY <3>2
    <3> QED
      BY <3>1, <3>7, <3>8, <3>9, <3>10
  <2>4. CASE CloseTrailer
    <3>1. pc = "trailer" /\ err = "none" /\ Open /\ ~panicked
      BY <2>4 DEF CloseTrailer, Loops
    <3>2. /\ out' = IF cfg.crc THEN Append(out, Checksum(enc.hashed)) ELSE out
          /\ given' = given
      BY <2>1, <2>4 DEF CloseTrailer, Return
    <3>3. /\ Body(out) /\ out[1].crc = cfg.crc /\ Content(out) = Iota(given)
          /\ cfg.crc => enc.hashed = Content(out)
      BY <3>1, StreamedBody
    <3>4. out \in Seq(Item) /\ cfg.crc \in BOOLEAN
      BY DEF TypeOK, Config
    <3>5. out' = IF out[1].crc THEN Append(out, Checksum(Content(out))) ELSE out
      BY <3>2, <3>3
    <3>6. Accepts(out') /\ Content(out') = Content(out)
      BY <3>3, <3>4, <3>5, CompleteFrame
    <3> QED
      BY <3>2, <3>3, <3>6
  <2> QED
    BY <2>1, <2>2, <2>3, <2>4, WhoCloses
<1> QED
  BY <1>1, <1>2, WriterKeeps, WriterShapes, PTL DEF Spec

-----------------------------------------------------------------------------
(***************************************************************************)
(* Why no call panics: the loops run with an encoder, a buffer never holds *)
(* more than a block nor a block more than the buffer, and bytes only wait *)
(* without an error while there is an encoder to take them.                *)
(***************************************************************************)
Guarded ==
  /\ ~panicked
  /\ pc \in {"write", "pad", "read"} => Open
  /\ Open => Len(filling) <= cfg.blockSize /\ cfg.blockSize <= fillCap
  /\ filling # << >> /\ err = "none" => Open

(* nextBlock keeps the buffer or empties it. *)
LEMMA NextBlockBuffer ==
  ASSUME NEW buf \in Seq(Nat), NEW final \in BOOLEAN, NextBlock(buf, final)
  PROVE  filling' = buf \/ filling' = << >>
BY DEF NextBlock, EmitFullFrame, HeaderFails, EmitBlock, EncodeFails

(* A step with an encoder keeps the guards when the buffer fits a block. *)
LEMMA GuardedOpen ==
  ASSUME TypeOK, Guarded, Open, cfg' = cfg, enc'.maxOff = enc.maxOff, ~panicked',
         fillCap' \in Nat, fillCap' >= fillCap,
         filling' = << >> \/ Len(filling') <= cfg.blockSize
  PROVE  Guarded'
<1>1. Len(<< >>) = 0 /\ cfg.blockSize \in Nat /\ fillCap \in Nat
  BY DEF TypeOK, Config
<1>2. Open' /\ Len(filling') <= cfg.blockSize /\ cfg.blockSize <= fillCap'
  BY <1>1 DEF Guarded, Open
<1> QED
  BY <1>2 DEF Guarded

(* A step that changes neither buffer, encoder nor error. *)
LEMMA GuardedQuiet ==
  ASSUME Guarded, UNCHANGED << enc, cfg, filling, fillCap, err >>, ~panicked',
         pc' \in {"write", "pad", "read"} => Open
  PROVE  Guarded'
BY DEF Guarded, Open

(* No step panics, and every step keeps the guards. *)
LEMMA GuardedNext ==
  ASSUME ~LateConfig, ~UseAfterClose, ~EncoderFaults
  PROVE  TypeOK /\ ReadRoom /\ Guarded /\ [Next]_vars => Guarded'
<1> SUFFICES ASSUME TypeOK, ReadRoom, Guarded, [Next]_vars PROVE Guarded'
  OBVIOUS
<1>1. /\ filling \in Seq(Nat) /\ Len(filling) \in Nat /\ cfg.blockSize \in Nat
      /\ fillCap \in Nat /\ left \in Nat /\ ~panicked
  BY Numbers DEF TypeOK, Guarded
<1>2. ASSUME NEW op, NEW e, Return(op, e)
      PROVE  ~panicked' /\ pc' = "idle"
  BY <1>1, <1>2 DEF Return
<1>3. ASSUME NEW label, NEW n, Goto(label, n)
      PROVE  ~panicked' /\ pc' = label
  BY <1>1, <1>3 DEF Goto
<1>4. filling # << >> /\ ~Open => Refused(filling)
  BY DEF Guarded, Refused
<1>5. CASE UNCHANGED vars
  BY <1>1, <1>5, GuardedQuiet DEF vars, stream, Guarded
<1>6. CASE Setter
  <2>1. /\ ~Open /\ pc = "idle"
        /\ UNCHANGED << enc, filling, fillCap, stream, pc, panicked >>
    BY <1>6 DEF Setter, SetLevel, SetWindowSize, SetCRC, AddDict, Configure, Configurable
  <2> QED
    BY <2>1 DEF Guarded, Open, stream
<1>7. CASE \E size \in ContentSizes : Reset(size)
  <2>1. /\ filling' = << >> /\ fillCap' = Room /\ cfg' = cfg /\ ~panicked' /\ pc' = "idle"
    BY <1>1, <1>7 DEF Reset
  <2>2. cfg.blockSize <= Room /\ Len(<< >>) = 0
    BY <1>1 DEF Room, Larger
  <2> QED
    BY <1>1, <2>1, <2>2 DEF Guarded
<1>8. ASSUME NEW n \in 0..MaxChunk, Write(n)
      PROVE  Guarded'
  <2>1. UNCHANGED << cfg, enc, filling, fillCap, stream >> /\ (Open \/ eofWritten)
    BY <1>8 DEF Write
  <2>2. ~panicked' /\ (pc' = "idle" \/ (pc' = "write" /\ Open))
    <3>1. CASE eofWritten
      <4>1. Return("Write", "closed")
        BY <1>8, <3>1 DEF Write
      <4> QED
        BY <1>2, <4>1
    <3>2. CASE ~eofWritten
      <4>1. Return("Write", "none") \/ Goto("write", n)
        BY <1>8, <3>2 DEF Write
      <4> QED
        BY <1>2, <1>3, <2>1, <3>2, <4>1
    <3> QED
      BY <3>1, <3>2
  <2> QED
    BY <2>1, <2>2, GuardedQuiet DEF stream
<1>9. CASE ReadFrom
  <2>1. Open /\ ~NextBlockPanics(filling)
    BY <1>9 DEF ReadFrom, NextBlockPanics
  <2>2. /\ ~panicked' /\ UNCHANGED << cfg, enc, fillCap >>
        /\ UNCHANGED filling \/ NextBlock(filling, FALSE)
    BY <1>2, <1>3, <1>9, <2>1 DEF ReadFrom
  <2>3. filling' = << >> \/ filling' = filling
    BY <1>1, <2>2, NextBlockBuffer
  <2> QED
    BY <1>1, <2>1, <2>2, <2>3, GuardedOpen DEF Guarded
<1>10. CASE Flush
  <2>1. ~(filling # << >> /\ NextBlockPanics(filling))
    BY <1>4 DEF NextBlockPanics
  <2>2. ~panicked' /\ pc' = "idle" /\ UNCHANGED << cfg, enc, fillCap >>
        /\ (UNCHANGED << filling, stream >> \/ (NextBlock(filling, FALSE) /\ filling # << >>))
    <3>1. (Return("Flush", err) \/ Return("Flush", NextBlockErr(filling)))
          /\ UNCHANGED << cfg, enc, fillCap >>
          /\ (UNCHANGED << filling, stream >> \/ (NextBlock(filling, FALSE) /\ filling # << >>))
      BY <1>10, <2>1 DEF Flush
    <3> QED
      BY <1>2, <3>1
  <2>3. CASE UNCHANGED << filling, stream >>
    BY <2>2, <2>3, GuardedQuiet DEF stream
  <2>4. CASE NextBlock(filling, FALSE) /\ filling # << >> /\ Open
    <3>1. filling' = << >> \/ Len(filling') <= cfg.blockSize
      BY <1>1, <2>4, NextBlockBuffer DEF Guarded
    <3>2. fillCap' >= fillCap /\ enc'.maxOff = enc.maxOff
      BY <1>1, <2>2
    <3> QED
      BY <1>1, <2>2, <2>4, <3>1, <3>2, GuardedOpen
  <2>5. CASE NextBlock(filling, FALSE) /\ filling # << >> /\ ~Open
    <3>1. UNCHANGED << filling, stream >>
      BY <1>1, <1>4, <2>5, RefusedQuiet
    <3> QED
      BY <2>3, <3>1
  <2> QED
    BY <2>2, <2>3, <2>4, <2>5
<1>11. CASE Close
  <2>1. CASE ~Open /\ Return("Closed", "none")
             /\ UNCHANGED << cfg, enc, filling, fillCap, stream >>
    BY <1>2, <2>1, GuardedQuiet DEF stream
  <2>2. CASE Open /\ CloseFrame
    <3>1. ~panicked' /\ cfg' = cfg /\ fillCap' = fillCap /\ NextBlock(filling, TRUE)
      BY <1>2, <1>3, <2>2, CloseRound
    <3>2. CASE NextBlockErr(filling) = "none"
      <4>1. filling' = << >>
        BY <1>1, <3>1, <3>2, NextBlockDone
      <4>2. (enc' = NoEnc /\ pc' = "idle") \/ (enc' = enc /\ pc' = "trailer")
        BY <1>2, <1>3, <2>2, <3>2, CloseRound
      <4>3. CASE enc' = enc
        BY <1>1, <2>2, <3>1, <4>1, <4>3, GuardedOpen
      <4>4. CASE enc' = NoEnc /\ pc' = "idle"
        BY <3>1, <4>1, <4>4 DEF Guarded, Open, NoEnc
      <4> QED
        BY <4>2, <4>3, <4>4
    <3>3. CASE NextBlockErr(filling) # "none"
      <4>1. enc' = NoEnc /\ pc' = "idle"
        BY <1>2, <2>2, <3>3, CloseRound
      <4>2. Len(filling) <= cfg.blockSize
        BY <2>2 DEF Guarded
      <4>3. err' # "none"
        BY <1>1, <3>3, <4>2 DEF NextBlockErr
      <4> QED
        BY <3>1, <4>1, <4>3 DEF Guarded, Open, NoEnc
    <3> QED
      BY <3>2, <3>3
  <2> QED
    BY <1>11, <2>1, <2>2 DEF Close, MayFault
<1>12. CASE WriteStep
  <2>1. pc = "write" /\ Open /\ Len(filling) <= cfg.blockSize
    BY <1>12 DEF WriteStep, Guarded
  <2>2. ~Panic
    <3> DEFINE fits == left + Len(filling) < cfg.blockSize
               n    == IF fits THEN left ELSE Smaller(left, cfg.blockSize - Len(filling))
    <3>1. ~(n < 0)
      BY <1>1, <2>1 DEF Smaller
    <3>2. given' = given + n /\ (Return("Write", "none") \/ \E e : Return("Write", e)
                                 \/ \E k : Goto("write", k))
      BY <1>12, <2>1, <3>1 DEF WriteStep
    <3>3. ~panicked'
      BY <1>2, <1>3, <3>2
    <3> QED
      BY <3>3 DEF Panic
  <2>3. PICK n \in Nat, buf \in Seq(Nat) :
          /\ Len(buf) <= cfg.blockSize /\ given' = given + n /\ cfg' = cfg
          /\ enc' = [enc EXCEPT !.hashed = Digest(Bytes(n))]
          /\ fillCap' = Larger(fillCap, Len(buf))
          /\ \/ filling' = buf /\ Return("Write", "none")
             \/ /\ NextBlock(buf, FALSE)
                /\ Return("Write", NextBlockErr(buf)) \/ Goto("write", left - n)
    BY <1>12, <2>2, WriteRound
  <2>4. ~panicked' /\ (filling' = buf \/ filling' = << >>)
    BY <1>2, <1>3, <2>3, NextBlockBuffer
  <2>5. enc'.maxOff = enc.maxOff
    BY <2>3, HashGrows
  <2>6. fillCap' \in Nat /\ fillCap' >= fillCap
    BY <1>1, <2>3 DEF Larger
  <2> QED
    BY <2>1, <2>3, <2>4, <2>5, <2>6, GuardedOpen
<1>13. CASE ReadFromPad
  <2>1. Open /\ cfg.blockSize <= fillCap
    BY <1>13 DEF ReadFromPad, Guarded
  <2>2. /\ filling' = [i \in 1..cfg.blockSize |-> Garbage]
        /\ ~panicked' /\ UNCHANGED << cfg, enc, fillCap >>
    BY <1>1, <1>3, <1>13, <2>1 DEF ReadFromPad
  <2>3. Len(filling') = cfg.blockSize
    BY <1>1, <2>2
  <2>4. Len(filling') <= cfg.blockSize
    BY <1>1, <2>3
  <2> QED
    BY <1>1, <2>1, <2>2, <2>4, GuardedOpen
<1>14. ASSUME NEW n \in 0..cfg.blockSize, NEW outcome \in {"nil", "eof", "error"},
              ReadFromStep(n, outcome)
       PROVE  Guarded'
  <2>1. Open /\ Len(filling) <= cfg.blockSize
    BY <1>14 DEF ReadFromStep, Guarded
  <2>2. (\E e : Return("ReadFrom", e)) \/ \E label, k : Goto(label, k)
    BY <1>14, <2>1 DEF ReadFromStep
  <2>3. ~panicked' /\ ~Panic
    BY <1>2, <1>3, <2>2 DEF Panic
  <2>4. PICK buf \in Seq(Nat) :
          /\ Len(buf) = Len(filling)
          /\ \/ filling' = SubSeq(buf, 1, Len(filling) - (left - n))
             \/ filling' = buf
             \/ NextBlock(buf, FALSE)
    BY <1>14, <2>3, ReadRound
  <2>5. /\ n \in Nat /\ n <= left /\ left <= Len(filling) /\ given' = given + n
        /\ cfg' = cfg /\ fillCap' = fillCap
        /\ enc' = [enc EXCEPT !.hashed = Digest(Bytes(n))]
    BY <1>14, <2>3, ReadRound DEF ReadRoom
  <2>6. filling' = << >> \/ Len(filling') <= cfg.blockSize
    <3>1. Len(SubSeq(buf, 1, Len(filling) - (left - n))) <= Len(filling)
      <4>1. Len(filling) - (left - n) \in Nat /\ Len(filling) - (left - n) <= Len(filling)
        BY <1>1, <2>5
      <4> QED
        BY <2>4, <4>1, Prefix
    <3>2. CASE filling' = SubSeq(buf, 1, Len(filling) - (left - n))
      <4>1. Len(SubSeq(buf, 1, Len(filling) - (left - n))) \in Nat
        <5>1. Len(filling) - (left - n) \in Nat /\ Len(filling) - (left - n) <= Len(filling)
          BY <1>1, <2>5
        <5> QED
          BY <2>4, <5>1, Prefix
      <4> QED
        BY <1>1, <2>1, <3>1, <3>2, <4>1, SMTT(30)
    <3> QED
      BY <2>1, <2>4, <3>2, NextBlockBuffer
  <2>7. enc'.maxOff = enc.maxOff
    BY <2>5, HashGrows
  <2> QED
    BY <1>1, <2>1, <2>3, <2>5, <2>6, <2>7, GuardedOpen
<1>15. CASE CloseTrailer
  <2>1. ~panicked' /\ pc' = "idle" /\ enc' = NoEnc /\ err' # "none"
    BY <1>2, <1>15 DEF CloseTrailer
  <2> QED
    BY <2>1 DEF Guarded, Open, NoEnc
<1> QED
  BY <1>5, <1>6, <1>7, <1>8, <1>9, <1>10, <1>11, <1>12, <1>13, <1>14, <1>15 DEF Next, Call, Step

(***************************************************************************)
(* A Writer used as documented does not panic, for all sizes and whatever  *)
(* the io.Writer and the source do.                                        *)
(***************************************************************************)
THEOREM WriterNeverPanics ==
  ASSUME ~LateConfig, ~UseAfterClose, ~EncoderFaults
  PROVE  Spec => []NoPanic
<1>1. Init => Guarded
  BY DEF Init, Guarded, Open, NoEnc
<1>2. TypeOK /\ Loops /\ Kept /\ Guarded /\ [Next]_vars => Guarded'
  BY GuardedNext DEF Loops
<1>3. Guarded => NoPanic
  BY DEF Guarded, NoPanic
<1> QED
  BY <1>1, <1>2, <1>3, WriterKeeps, PTL DEF Spec
=============================================================================
