------------------------------- MODULE Headers -------------------------------
(***************************************************************************)
(* The headers of a frame, of a block, of its literals section and of its  *)
(* sequences section, bit by bit: what frameenc.go and blockenc.go write   *)
(* and what framedec.go and blockdec.go make of it.                        *)
(*                                                                         *)
(* Numbers that may not fit 31 bits are a pair [hi, lo] worth              *)
(* hi * 2^16 + lo, with lo < 2^16.                                         *)
(***************************************************************************)
EXTENDS FseTables, TLC

AtLeast(n, hi, lo) == n.hi > hi \/ (n.hi = hi /\ n.lo >= lo)

Zero == [hi |-> 0, lo |-> 0]

\* bits.Len32.
Len32(n) == IF n = 0 THEN 0 ELSE Log2(n) + 1

Flag(b) == <<IF b THEN 1 ELSE 0>>

------------------------------------------------------------------------------
\* The frame header behind the magic number.

\* Mutated: 65792 is still given two bytes.
SizeFlagOff(size) ==
    IF AtLeast(size, 65535, 65535) THEN 3 ELSE IF AtLeast(size, 1, 257) THEN 2
    ELSE IF AtLeast(size, 0, 256) THEN 1 ELSE 0

\* Which of the four widths: 256 and up, 65792 and up, 2^32 - 1 and up.
SizeFlag(size) ==
    IF AtLeast(size, 65535, 65535) THEN 3 ELSE IF AtLeast(size, 1, 256) THEN 2
    ELSE IF AtLeast(size, 0, 256) THEN 1 ELSE 0

DictFlag(id) ==
    IF id = Zero THEN 0 ELSE IF ~AtLeast(id, 0, 256) THEN 1 ELSE IF ~AtLeast(id, 1, 0) THEN 2 ELSE 3

\* frameHeader.appendTo.  Below 256 only a single segment says its size.
appendTo(h) ==
    LET fcs == SizeFlag(h.size)
    IN  Bits(DictFlag(h.dict), 2) \o Flag(h.crc) \o <<0, 0>> \o Flag(h.single) \o Bits(fcs, 2)
        \o (IF h.single THEN <<>> ELSE Bits((Len32(h.window - 1) - 10) * 8, 8))
        \o (CASE DictFlag(h.dict) = 0 -> <<>>
              [] DictFlag(h.dict) = 1 -> Bits(h.dict.lo, 8)
              [] DictFlag(h.dict) = 2 -> Bits(h.dict.lo, 16)
              [] DictFlag(h.dict) = 3 -> Bits(h.dict.lo, 16) \o Bits(h.dict.hi, 16))
        \o (CASE fcs = 0 -> IF h.single THEN Bits(h.size.lo, 8) ELSE <<>>
              [] fcs = 1 -> Bits(h.size.hi * 65536 + h.size.lo - 256, 16)
              [] fcs = 2 -> Bits(h.size.lo, 16) \o Bits(h.size.hi, 16)
              [] fcs = 3 -> Bits(h.size.lo, 16) \o Bits(h.size.hi, 30) \o Bits(0, 18))

Unknown == [hi |-> -1, lo |-> 0]

\* frameDec.reset behind the magic number; window is zero for a single segment.
readFrameHeader(bits) ==
    LET fcs    == Peek(bits, 7, 2)
        single == bits[6] = 1
        wide   == <<0, 8, 16, 32>>[Peek(bits, 1, 2) + 1]
        dictAt == IF single THEN 9 ELSE 17
        sizeAt == dictAt + wide
        wd     == Peek(bits, 9, 8)
        base   == 2^(10 + wd \div 8)
        size   == CASE fcs = 0 -> IF single THEN 8 ELSE 0
                    [] OTHER -> 8 * 2^fcs
        low    == [hi |-> 0, lo |-> Peek(bits, sizeAt, Min({size, 16}))]
    IN  [crc |-> bits[3] = 1, single |-> single, reserved |-> bits[4] = 1,
         window |-> IF single THEN 0 ELSE base + (base \div 8) * (wd % 8),
         dict |-> [hi |-> IF wide = 32 THEN Peek(bits, dictAt + 16, 16) ELSE 0,
                   lo |-> Peek(bits, dictAt, Min({wide, 16}))],
         size |-> CASE size = 0 -> Unknown
                    [] size = 16 -> [hi |-> (low.lo + 256) \div 65536, lo |-> (low.lo + 256) % 65536]
                    [] size = 32 -> [low EXCEPT !.hi = Peek(bits, sizeAt + 16, 16)]
                    [] size = 64 -> [low EXCEPT !.hi = Peek(bits, sizeAt + 16, 30)]
                    [] OTHER -> low,
         bits |-> sizeAt + size - 1]

\* The decoder reads back what the encoder declared: the flags, the dictionary, the size
\* at each of the four widths, and a window that holds the one asked for and is less
\* than twice as large.
FrameHeaderReads(h) ==
    LET text == appendTo(h)
        r    == readFrameHeader(text \o <<1, 0, 1>>)
    IN  /\ r.bits = Len(text)
        /\ r.crc = h.crc /\ r.single = h.single /\ r.dict = h.dict /\ ~r.reserved
        /\ r.size = IF ~h.single /\ ~AtLeast(h.size, 0, 256) THEN Unknown ELSE h.size
        /\ ~h.single => r.window \in h.window..(2 * h.window - 1)

------------------------------------------------------------------------------
\* The block header, a number of 24 bits that is put together in any order.

setLast(h, last) == (h \div 2) * 2 + (IF last THEN 1 ELSE 0)

setType(h, t) == (h \div 8) * 8 + t * 2 + (h % 2)

setSize(h, n) == n * 8 + (h % 8)

readBlockHeader(bits) ==
    [last |-> bits[1] = 1, type |-> Peek(bits, 2, 2), size |-> Peek(bits, 4, 21)]

\* A block header reads back, though its size is only known after it was put in place.
BlockHeaderReads(b) ==
    readBlockHeader(Bits(setSize(setType(setLast(0, b.last), b.type), b.size), 24)) = b

------------------------------------------------------------------------------
\* The literals section.

\* literalsHeader.setSize.
setRegenSize(type, n) ==
    CASE Len32(n) < 5 -> Bits(type, 2) \o <<0>> \o Bits(n, 5)
      [] Len32(n) \in 5..11 -> Bits(type, 2) \o <<1, 0>> \o Bits(n, 12)
      [] Len32(n) \in 12..19 -> Bits(type, 2) \o <<1, 1>> \o Bits(n, 20)

\* literalsHeader.setSizes.
setSizes(type, comp, n, single) ==
    LET wide == Len32(Max({comp, n}))
    IN  CASE wide <= 10 -> Bits(type, 2) \o Flag(~single) \o <<0>> \o Bits(n, 10) \o Bits(comp, 10)
          [] wide \in 11..14 -> Bits(type, 2) \o <<0, 1>> \o Bits(n, 14) \o Bits(comp, 14)
          [] wide \in 15..18 -> Bits(type, 2) \o <<1, 1>> \o Bits(n, 18) \o Bits(comp, 18)

\* The header of decodeLiterals.  Types: 0 raw, 1 RLE, 2 compressed, 3 treeless.
readLiteralsHeader(bits) ==
    LET type   == Peek(bits, 1, 2)
        format == Peek(bits, 3, 2)
        n      == <<10, 10, 14, 18>>[format + 1]
    IN  IF type < 2
        THEN [type |-> type, comp |-> 0, single |-> TRUE,
              regen |-> CASE format \in {0, 2} -> Peek(bits, 4, 5)
                          [] format = 1 -> Peek(bits, 5, 12)
                          [] format = 3 -> Peek(bits, 5, 20),
              bits |-> CASE format \in {0, 2} -> 8 [] format = 1 -> 16 [] format = 3 -> 24]
        ELSE [type |-> type, comp |-> Peek(bits, 5 + n, n), single |-> format = 0,
              regen |-> Peek(bits, 5, n), bits |-> 4 + 2 * n]

\* Literals of every size a block can have are found again, with the same number of
\* streams; the header ends where the literals start.
LiteralsHeaderReads(l) ==
    LET text == IF l.type < 2 THEN setRegenSize(l.type, l.regen)
                ELSE setSizes(l.type, l.comp, l.regen, l.single)
    IN  readLiteralsHeader(text \o <<1, 1, 0, 1>>) = [bits |-> Len(text)] @@ l

------------------------------------------------------------------------------
\* The number of sequences (blockEnc.encode, prepareSequences).

countText(n) ==
    CASE n < 128 -> Bits(n, 8)
      [] n \in 128..(32512 - 1) -> Bits(128 + n \div 256, 8) \o Bits(n, 8)
      [] n >= 32512 -> Bits(255, 8) \o Bits(n - 32512, 16)

readCount(bits) ==
    LET first == Peek(bits, 1, 8)
    IN  CASE first < 128 -> first
          [] first \in 128..254 -> (first - 128) * 256 + Peek(bits, 9, 8)
          [] first = 255 -> 32512 + Peek(bits, 9, 16)

\* The number of sequences reads back at each of its three widths.
CountReads(n) == readCount(countText(n) \o <<1, 1>>) = n
==============================================================================
