-------------------------------- MODULE Frames --------------------------------
(***************************************************************************)
(* The unit of exchange between Writer and Reader: a frame as a sequence   *)
(* of items, one header, then blocks, then an optional checksum.  The      *)
(* operators build the items the way frameHeader.appendTo, encodeAll and   *)
(* the two windowSize methods of the encoders do; Accepts says what the    *)
(* Reader of the same package demands of a complete frame.                 *)
(*                                                                         *)
(* A byte of content is a number (its position in the caller's stream); a  *)
(* checksum is represented by the sequence of bytes it was computed over.  *)
(***************************************************************************)
EXTENDS Integers, Sequences, SequencesExt, FiniteSets

CONSTANTS
  MaxBlock,    (* maxCompressedBlockSize: largest content of a block       *)
  MinWindow,   (* MinWindowSize: smallest window of a frame                *)
  FcsMin       (* smallest size a header with a window field can declare   *)

ASSUME SizesAssumption ==
  /\ MaxBlock \in Nat \ {0}
  /\ MinWindow \in Nat \ {0}
  /\ FcsMin \in Nat \ {0}

Unknown == -1       \* fcsUnknown: no content size in the header
Torn == [kind |-> "torn"]   \* what a failed io.Writer.Write leaves behind

Smaller(a, b) == IF a <= b THEN a ELSE b
Larger(a, b)  == IF a >= b THEN a ELSE b

(* bits.Len(n): how many powers of two are not above n. *)
BitsLen(n) == Cardinality({k \in 0..n : 2 ^ k <= n})

(* The window an encoder asks for when the content size is known. *)
WindowSize(maxOff, size) ==
  IF 0 < size /\ size < maxOff THEN Larger(2 ^ BitsLen(size), MinWindow) ELSE maxOff

(***************************************************************************)
(* frameHeader.appendTo, as the Reader parses it back: a single-segment    *)
(* frame declares its size and no window (the Reader takes the size, at    *)
(* least MinWindow); any other frame declares a window rounded up to a     *)
(* power of two, and its size only from FcsMin on.                         *)
(***************************************************************************)
Header(size, window, single, crc, dict) ==
  [ kind   |-> "header",
    fcs    |-> IF single \/ size >= FcsMin THEN size ELSE Unknown,
    window |-> IF single THEN Larger(size, MinWindow) ELSE 2 ^ BitsLen(window - 1),
    crc    |-> crc,
    dict   |-> dict ]

Block(data, last) == [kind |-> "block", data |-> data, last |-> last]
Checksum(hashed)  == [kind |-> "crc", of |-> hashed]

Item ==
  {Torn}
    \cup [kind : {"header"}, fcs : Nat \cup {Unknown}, window : Nat, crc : BOOLEAN, dict : Nat]
    \cup [kind : {"block"}, data : Seq(Nat), last : BOOLEAN]
    \cup [kind : {"crc"}, of : Seq(Nat)]

(* src cut into consecutive blocks of at most size bytes, the last one marked. *)
CutIntoBlocks(src, size) ==
  LET count == (Len(src) + size - 1) \div size
  IN  [ i \in 1..count |->
          Block(SubSeq(src, (i - 1) * size + 1, Smaller(i * size, Len(src))), i = count) ]

(***************************************************************************)
(* encodeAll: the whole of src as one frame.  c is the Writer's            *)
(* configuration, maxOff the window of the encoder at hand.                *)
(***************************************************************************)
EncodeAll(maxOff, c, src) ==
  LET single == Len(src) <= c.wndSize /\ Len(src) > MinWindow
      head   == IF src = << >> THEN Header(0, MinWindow, TRUE, c.crc, c.dict)
                ELSE Header(Len(src), WindowSize(maxOff, Len(src)), single, c.crc, c.dict)
      body   == IF src = << >> THEN << Block(src, TRUE) >> ELSE CutIntoBlocks(src, c.blockSize)
  IN  << head >> \o body \o (IF c.crc THEN << Checksum(src) >> ELSE << >>)

-----------------------------------------------------------------------------
(* The content carried by an item, and by a sequence of items. *)
IsBlock(item)  == item.kind = "block"
Carried(item)  == IF IsBlock(item) THEN item.data ELSE << >>
Content(items) == FlattenSeq([i \in DOMAIN items |-> Carried(items[i])])

BlocksOf(items) == {i \in DOMAIN items : IsBlock(items[i])}

(***************************************************************************)
(* What Reader.Read requires of one complete frame: exactly one header, in *)
(* front; a last block, after which only the checksum the header announced *)
(* may follow; no block above min(window, MaxBlock); the declared size and *)
(* the checksum equal to those of the content.                             *)
(***************************************************************************)
Accepts(items) ==
  /\ items # << >> /\ items[1].kind = "header"
  /\ LET head == items[1]
         n    == Len(items) - (IF head.crc THEN 1 ELSE 0)
     IN  /\ n >= 2
         /\ \A i \in 2..n :
              /\ IsBlock(items[i])
              /\ items[i].last <=> i = n
              /\ Len(items[i].data) <= Smaller(head.window, MaxBlock)
         /\ head.fcs \in {Unknown, Len(Content(items))}
         /\ head.crc => items[n + 1] = Checksum(Content(items))
=============================================================================
