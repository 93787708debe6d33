----------------------------- MODULE FramesProofs -----------------------------
(***************************************************************************)
(* Lemmas about the operators of Frames: what they build is always an      *)
(* Item, what content a sequence of items carries, and which frames made   *)
(* in one piece are accepted.                                              *)
(***************************************************************************)
EXTENDS Frames, FiniteSetTheorems, SequenceTheorems, WellFoundedInduction, TLAPS

(* A power of two is a natural number (counted as the subsets of 1..k). *)
LEMMA PowerNat ==
  ASSUME NEW k \in Nat
  PROVE  2 ^ k \in Nat
<1>1. IsFiniteSet(1..k) /\ Cardinality(1..k) = k
  BY FS_Interval
<1>2. Cardinality(SUBSET (1..k)) = 2 ^ k /\ IsFiniteSet(SUBSET (1..k))
  BY <1>1, FS_SUBSET
<1> QED
  BY <1>2, FS_CardinalityType

(* bits.Len is a natural number. *)
LEMMA BitsLenNat ==
  ASSUME NEW n \in Int
  PROVE  BitsLen(n) \in Nat
<1>1. IsFiniteSet(0..n)
  BY FS_Interval
<1>2. IsFiniteSet({k \in 0..n : 2 ^ k <= n})
  BY <1>1, FS_Subset
<1> QED
  BY <1>2, FS_CardinalityType DEF BitsLen

(* The window of a header is a size. *)
LEMMA WindowSizeNat ==
  ASSUME NEW maxOff \in Nat, NEW size \in Nat
  PROVE  WindowSize(maxOff, size) \in Nat
BY BitsLenNat, PowerNat, SizesAssumption DEF WindowSize, Larger

(* appendTo builds a header item. *)
LEMMA HeaderItem ==
  ASSUME NEW size \in Nat, NEW window \in Nat,
         NEW single \in BOOLEAN, NEW crc \in BOOLEAN, NEW dict \in Nat
  PROVE  Header(size, window, single, crc, dict) \in Item
<1>1. 2 ^ BitsLen(window - 1) \in Nat
  BY BitsLenNat, PowerNat
<1>2. Larger(size, MinWindow) \in Nat
  BY SizesAssumption DEF Larger
<1> QED
  BY <1>1, <1>2 DEF Header, Item, Unknown

(* Cutting cuts into blocks: every piece is inside src. *)
LEMMA CutItems ==
  ASSUME NEW src \in Seq(Nat), NEW size \in Nat \ {0}
  PROVE  CutIntoBlocks(src, size) \in Seq(Item)
<1> DEFINE count == (Len(src) + size - 1) \div size
           piece(i) == SubSeq(src, (i - 1) * size + 1, Smaller(i * size, Len(src)))
<1>1. count \in Nat /\ count * size <= Len(src) + size - 1
  OBVIOUS
<1>2. ASSUME NEW i \in 1..count
      PROVE  piece(i) \in Seq(Nat)
  <2>1. i * size <= count * size
    BY <1>1
  <2>2. (i - 1) * size = i * size - size /\ i * size \in Nat /\ i * size >= size
    OBVIOUS
  <2> HIDE DEF count
  <2>3. (i - 1) * size + 1 \in 1..(Len(src) + 1)
    BY <1>1, <2>1, <2>2
  <2>4. Smaller(i * size, Len(src)) \in 0..Len(src)
    BY <2>2 DEF Smaller
  <2>5. \A a \in 1..(Len(src) + 1), b \in 0..Len(src) : SubSeq(src, a, b) \in Seq(Nat)
    OBVIOUS
  <2> QED
    BY <2>3, <2>4, <2>5
<1>3. \A i \in 1..count : Block(piece(i), i = count) \in Item
  BY <1>2 DEF Block, Item
<1> HIDE DEF count, piece
<1>4. [i \in 1..count |-> Block(piece(i), i = count)] \in Seq(Item)
  BY <1>1, <1>3
<1> QED
  BY <1>4 DEF CutIntoBlocks, count, piece

(* A tuple of one element is a sequence over any set the element is in. *)
LEMMA SingletonSeq ==
  ASSUME NEW S, NEW x \in S
  PROVE  << x >> \in Seq(S)
OBVIOUS

(* A frame made in one piece is a sequence of items. *)
LEMMA EncodeAllItems ==
  ASSUME NEW maxOff \in Nat, NEW src \in Seq(Nat), NEW c,
         c.blockSize \in Nat \ {0}, c.wndSize \in Nat, c.crc \in BOOLEAN, c.dict \in Nat
  PROVE  EncodeAll(maxOff, c, src) \in Seq(Item)
<1> DEFINE single == Len(src) <= c.wndSize /\ Len(src) > MinWindow
           head == IF src = << >> THEN Header(0, MinWindow, TRUE, c.crc, c.dict)
                   ELSE Header(Len(src), WindowSize(maxOff, Len(src)), single, c.crc, c.dict)
           body == IF src = << >> THEN << Block(src, TRUE) >> ELSE CutIntoBlocks(src, c.blockSize)
           tail == IF c.crc THEN << Checksum(src) >> ELSE << >>
<1>1. head \in Item
  <2>1. Len(src) \in Nat /\ MinWindow \in Nat
    BY SizesAssumption
  <2> QED
    BY <2>1, HeaderItem, WindowSizeNat
<1>2. body \in Seq(Item)
  <2>1. Block(src, TRUE) \in Item
    BY DEF Block, Item
  <2>2. << Block(src, TRUE) >> \in Seq(Item)
    BY <2>1, SingletonSeq
  <2>3. CutIntoBlocks(src, c.blockSize) \in Seq(Item)
    BY CutItems
  <2> QED
    BY <2>2, <2>3
<1>3. tail \in Seq(Item)
  <2>1. Checksum(src) \in Item
    BY DEF Checksum, Item
  <2> QED
    BY <2>1
<1>4. EncodeAll(maxOff, c, src) = << head >> \o body \o tail
  BY DEF EncodeAll
<1> HIDE DEF head, body, tail
<1> QED
  BY <1>1, <1>2, <1>3, <1>4

-----------------------------------------------------------------------------
(***************************************************************************)
(* Induction over the naturals, for a property given as the set of the     *)
(* numbers that have it: the least number outside of the set would have a  *)
(* predecessor in it.                                                      *)
(***************************************************************************)
LEMMA SetInduction ==
  ASSUME NEW T, 0 \in T, \A n \in Nat : n \in T => n + 1 \in T
  PROVE  \A n \in Nat : n \in T
<1> DEFINE Below == {ss \in Nat \X Nat : ss[1] < ss[2]}
           B == Nat \ T
<1>1. IsWellFoundedOn(Below, Nat)
  BY NatLessThanWellFounded DEF OpToRel
<1>2. SUFFICES ASSUME B # {} PROVE FALSE
  OBVIOUS
<1>3. PICK x \in B : \A y \in B : ~ (<<y, x>> \in Below)
  <2>1. B \subseteq Nat
    OBVIOUS
  <2> HIDE DEF B, Below
  <2> QED
    BY <1>1, <1>2, <2>1, WFMin
<1>4. x \in Nat /\ x # 0
  OBVIOUS
<1>5. x - 1 \in Nat /\ x - 1 < x
  BY <1>4
<1>6. x - 1 \notin T
  BY <1>4, <1>5
<1>7. <<x - 1, x>> \in Below
  BY <1>4, <1>5
<1> QED
  BY <1>3, <1>5, <1>6, <1>7
(* f is what the recursive function of FlattenSeq is on 1..n. *)
Chain(f, seqs, n) == f = [i \in 1..n |-> IF i = 1 THEN seqs[i] ELSE f[i-1] \o seqs[i]]

(* c collects seqs step by step, from nothing. *)
Accumulates(c, seqs, n) == c[0] = << >> /\ \A i \in 1..n : c[i] = c[i - 1] \o seqs[i]

(* There is such a function (which CHOOSE therefore finds) ... *)
LEMMA ChainExists ==
  ASSUME NEW seqs
  PROVE  \A n \in Nat : \E f : Chain(f, seqs, n)
<1> DEFINE T == {n \in Nat : \E f : Chain(f, seqs, n)}
<1>1. 0 \in T
  <2> DEFINE g == [i \in 1..0 |-> << >>]
  <2>1. Chain(g, seqs, 0)
    BY DEF Chain
  <2> QED
    BY <2>1
<1>2. ASSUME NEW n \in Nat, n \in T
      PROVE  n + 1 \in T
  <2>1. PICK f : Chain(f, seqs, n)
    BY <1>2
  <2>2. f = [i \in 1..n |-> IF i = 1 THEN seqs[i] ELSE f[i - 1] \o seqs[i]]
    BY <2>1 DEF Chain
  <2> DEFINE g == [i \in 1..(n + 1) |-> IF i = 1 THEN seqs[i] ELSE f[i - 1] \o seqs[i]]
  <2>3. ASSUME NEW i \in 1..(n + 1), i # 1
        PROVE  g[i - 1] = f[i - 1]
    <3>1. i - 1 \in 1..n /\ i - 1 \in 1..(n + 1)
      BY <2>3
    <3>2. g[i - 1] = IF i - 1 = 1 THEN seqs[i - 1] ELSE f[(i - 1) - 1] \o seqs[i - 1]
      BY <3>1
    <3>3. f[i - 1] = IF i - 1 = 1 THEN seqs[i - 1] ELSE f[(i - 1) - 1] \o seqs[i - 1]
      BY <2>2, <3>1
    <3> QED
      BY <3>2, <3>3
  <2>4. g = [i \in 1..(n + 1) |-> IF i = 1 THEN seqs[i] ELSE g[i - 1] \o seqs[i]]
    BY <2>3
  <2>5. Chain(g, seqs, n + 1)
    BY <2>4 DEF Chain
  <2> QED
    BY <2>5
<1> HIDE DEF T
<1>3. \A n \in Nat : n \in T
  BY <1>1, <1>2, SetInduction
<1> QED
  BY <1>3 DEF T

(* ... and FlattenSeq takes its last value. *)
LEMMA FlattenIsChain ==
  ASSUME NEW seqs, Len(seqs) \in Nat \ {0}
  PROVE  \E f : Chain(f, seqs, Len(seqs)) /\ FlattenSeq(seqs) = f[Len(seqs)]
<1> DEFINE fl[i \in 1..Len(seqs)] == IF i = 1 THEN seqs[i] ELSE fl[i-1] \o seqs[i]
<1>1. FlattenSeq(seqs) = fl[Len(seqs)]
  BY DEF FlattenSeq
<1>2. fl = CHOOSE f : Chain(f, seqs, Len(seqs))
  BY DEF Chain
<1>3. Chain(fl, seqs, Len(seqs))
  BY <1>2, ChainExists
<1> QED
  BY <1>1, <1>3

(* Whatever collects seqs step by step ends with the flattened sequence ... *)
LEMMA FlattenByParts ==
  ASSUME NEW S, NEW n \in Nat, NEW seqs \in [1..n -> Seq(S)],
         NEW c, Accumulates(c, seqs, n)
  PROVE  FlattenSeq(seqs) = c[n]
<1>1. Len(seqs) = n
  OBVIOUS
<1>2. CASE n = 0
  <2>1. FlattenSeq(seqs) = seqs
    BY <1>1, <1>2 DEF FlattenSeq
  <2>2. seqs = << >>
    BY <1>2
  <2> QED
    BY <1>2, <2>1, <2>2 DEF Accumulates
<1>3. CASE n # 0
  <2>1. PICK f : Chain(f, seqs, n) /\ FlattenSeq(seqs) = f[n]
    BY <1>1, <1>3, FlattenIsChain
  <2> DEFINE T == {k \in Nat : k < n => f[k + 1] = c[k + 1]}
  <2>2. 0 \in T
    <3>1. 1 \in 1..n /\ seqs[1] \in Seq(S)
      BY <1>3
    <3>2. f[1] = seqs[1]
      BY <2>1, <3>1 DEF Chain
    <3>3. c[1] = << >> \o seqs[1]
      <4>1. c[1] = c[1 - 1] \o seqs[1] /\ c[0] = << >>
        BY <3>1 DEF Accumulates
      <4>2. 1 - 1 = 0
        OBVIOUS
      <4>3. c[1 - 1] = c[0]
        BY <4>2
      <4> QED
        BY <4>1, <4>3
    <3>4. << >> \o seqs[1] = seqs[1]
      BY <3>1
    <3> QED
      BY <3>2, <3>3, <3>4
  <2>3. ASSUME NEW k \in Nat, k \in T
        PROVE  k + 1 \in T
    <3> SUFFICES ASSUME k + 1 < n PROVE f[k + 2] = c[k + 2]
      OBVIOUS
    <3>1. k + 2 \in 1..n /\ (k + 2) - 1 = k + 1 /\ k + 2 # 1
      OBVIOUS
    <3>2. f[k + 1] = c[k + 1]
      BY <2>3
    <3>3. \A i \in 1..n : i # 1 => f[i] = f[i - 1] \o seqs[i]
      BY <2>1 DEF Chain
    <3>4. f[k + 2] = f[k + 1] \o seqs[k + 2]
      BY <3>1, <3>3
    <3>5. c[k + 2] = c[k + 1] \o seqs[k + 2]
      BY <3>1 DEF Accumulates
    <3> QED
      BY <3>2, <3>4, <3>5
  <2> HIDE DEF T
  <2>4. \A k \in Nat : k \in T
    BY <2>2, <2>3, SetInduction
  <2>5. n - 1 \in Nat /\ n - 1 < n /\ (n - 1) + 1 = n
    BY <1>3
  <2> QED
    BY <2>1, <2>4, <2>5 DEF T
<1> QED
  BY <1>2, <1>3

(* ... and there is such a function. *)
LEMMA FlattenParts ==
  ASSUME NEW S, NEW n \in Nat, NEW seqs \in [1..n -> Seq(S)]
  PROVE  \E c \in [0..n -> Seq(S)] : Accumulates(c, seqs, n) /\ FlattenSeq(seqs) = c[n]
<1> DEFINE T == {m \in Nat : m <= n => \E c \in [0..m -> Seq(S)] : Accumulates(c, seqs, m)}
<1>1. 0 \in T
  <2> DEFINE c == [i \in 0..0 |-> << >>]
  <2>1. c \in [0..0 -> Seq(S)] /\ Accumulates(c, seqs, 0)
    BY DEF Accumulates
  <2> QED
    BY <2>1
<1>2. ASSUME NEW m \in Nat, m \in T
      PROVE  m + 1 \in T
  <2> SUFFICES ASSUME m + 1 <= n
               PROVE  \E c \in [0..(m + 1) -> Seq(S)] : Accumulates(c, seqs, m + 1)
    OBVIOUS
  <2>1. PICK d \in [0..m -> Seq(S)] : Accumulates(d, seqs, m)
    BY <1>2
  <2> DEFINE e == [i \in 0..(m + 1) |-> IF i = m + 1 THEN d[m] \o seqs[m + 1] ELSE d[i]]
  <2>2. d[m] \in Seq(S) /\ seqs[m + 1] \in Seq(S)
    BY <2>1
  <2>3. d[m] \o seqs[m + 1] \in Seq(S)
    BY <2>2
  <2>4. e \in [0..(m + 1) -> Seq(S)]
    BY <2>1, <2>3
  <2>5. \A i \in 0..m : e[i] = d[i]
    OBVIOUS
  <2>6. e[m + 1] = d[m] \o seqs[m + 1]
    OBVIOUS
  <2> HIDE DEF e
  <2>7. e[0] = << >>
    BY <2>1, <2>5 DEF Accumulates
  <2>8. ASSUME NEW i \in 1..(m + 1)
        PROVE  e[i] = e[i - 1] \o seqs[i]
    <3>1. CASE i = m + 1
      <4>1. i - 1 = m /\ m \in 0..m
        BY <3>1
      <4> QED
        BY <2>5, <2>6, <3>1, <4>1
    <3>2. CASE i # m + 1
      <4>1. i \in 1..m /\ i \in 0..m /\ i - 1 \in 0..m
        BY <3>2
      <4>2. e[i] = d[i] /\ e[i - 1] = d[i - 1]
        BY <2>5, <4>1
      <4> QED
        BY <2>1, <4>1, <4>2 DEF Accumulates
    <3> QED
      BY <3>1, <3>2
  <2> QED
    BY <2>4, <2>7, <2>8 DEF Accumulates
<1> HIDE DEF T
<1>3. n \in T
  BY <1>1, <1>2, SetInduction
<1>4. PICK c \in [0..n -> Seq(S)] : Accumulates(c, seqs, n)
  BY <1>3 DEF T
<1>5. FlattenSeq(seqs) = c[n]
  BY <1>4, FlattenByParts
<1> QED
  BY <1>4, <1>5
-----------------------------------------------------------------------------
(* The content of a sequence of items. *)

(* c collects what the items carry. *)
Gathers(c, items) ==
  c[0] = << >> /\ \A i \in 1..Len(items) : c[i] = c[i - 1] \o Carried(items[i])

(* An item carries bytes. *)
LEMMA CarriedType ==
  ASSUME NEW item \in Item
  PROVE  Carried(item) \in Seq(Nat)
<1>1. CASE item \in [kind : {"block"}, data : Seq(Nat), last : BOOLEAN]
  BY <1>1 DEF Carried, IsBlock
<1>2. CASE item.kind # "block"
  BY <1>2 DEF Carried, IsBlock
<1> QED
  BY <1>1, <1>2 DEF Item, Torn

(* What Content flattens. *)
LEMMA CarriedParts ==
  ASSUME NEW items \in Seq(Item)
  PROVE  /\ [i \in DOMAIN items |-> Carried(items[i])] \in [1..Len(items) -> Seq(Nat)]
         /\ \A c : Gathers(c, items) <=>
                   Accumulates(c, [i \in DOMAIN items |-> Carried(items[i])], Len(items))
<1>1. DOMAIN items = 1..Len(items) /\ \A i \in 1..Len(items) : items[i] \in Item
  OBVIOUS
<1>2. \A i \in 1..Len(items) : Carried(items[i]) \in Seq(Nat)
  BY <1>1, CarriedType
<1> DEFINE parts == [i \in DOMAIN items |-> Carried(items[i])]
<1>3. parts \in [1..Len(items) -> Seq(Nat)]
  BY <1>1, <1>2
<1>4. \A i \in 1..Len(items) : parts[i] = Carried(items[i])
  BY <1>1
<1> HIDE DEF parts
<1>5. \A c : Gathers(c, items) <=> Accumulates(c, parts, Len(items))
  BY <1>4 DEF Gathers, Accumulates
<1> QED
  BY <1>3, <1>5 DEF parts

(* Whatever gathers the items ends with their content ... *)
LEMMA ContentByParts ==
  ASSUME NEW items \in Seq(Item), NEW c, Gathers(c, items)
  PROVE  Content(items) = c[Len(items)]
<1>1. Len(items) \in Nat
  OBVIOUS
<1> QED
  BY <1>1, CarriedParts, FlattenByParts DEF Content

(* ... and something does. *)
LEMMA ContentParts ==
  ASSUME NEW items \in Seq(Item)
  PROVE  \E c \in [0..Len(items) -> Seq(Nat)] :
            Gathers(c, items) /\ Content(items) = c[Len(items)]
<1>1. Len(items) \in Nat
  OBVIOUS
<1> QED
  BY <1>1, CarriedParts, FlattenParts DEF Content

(* Content is a sequence of bytes. *)
LEMMA ContentType ==
  ASSUME NEW items \in Seq(Item)
  PROVE  Content(items) \in Seq(Nat)
BY ContentParts

(* No items, no content. *)
LEMMA ContentEmpty == Content(<< >>) = << >>
<1>1. << >> \in Seq(Item) /\ Len(<< >>) = 0
  OBVIOUS
<1>2. Gathers([i \in 0..0 |-> << >>], << >>)
  BY DEF Gathers
<1> QED
  BY <1>1, <1>2, ContentByParts

(* The content of one item is what it carries. *)
LEMMA ContentSingle ==
  ASSUME NEW item \in Item
  PROVE  Content(<< item >>) = Carried(item)
<1> DEFINE c == [i \in 0..1 |-> IF i = 0 THEN << >> ELSE Carried(item)]
<1>1. << item >> \in Seq(Item) /\ Len(<< item >>) = 1 /\ << item >>[1] = item
  OBVIOUS
<1>2. c[0] = << >> /\ c[1] = Carried(item) /\ Carried(item) \in Seq(Nat)
  BY CarriedType
<1> HIDE DEF c
<1>3. \A i \in 1..1 : i = 1 /\ i - 1 = 0
  OBVIOUS
<1>4. << >> \o Carried(item) = Carried(item)
  BY <1>2
<1>5. Gathers(c, << item >>)
  BY <1>1, <1>2, <1>3, <1>4 DEF Gathers
<1> QED
  BY <1>1, <1>2, <1>5, ContentByParts

(* Concatenation of bytes is associative. *)
LEMMA Associative == \A x, y, z \in Seq(Nat) : (x \o y) \o z = x \o (y \o z)
<1> TAKE x, y, z \in Seq(Nat)
<1> QED
  OBVIOUS

(* The content of two sequences of items, one after the other. *)
LEMMA ContentConcat ==
  ASSUME NEW s \in Seq(Item), NEW t \in Seq(Item)
  PROVE  s \o t \in Seq(Item) /\ Content(s \o t) = Content(s) \o Content(t)
<1>1. /\ s \o t \in Seq(Item) /\ Len(s \o t) = Len(s) + Len(t)
      /\ Len(s) \in Nat /\ Len(t) \in Nat
      /\ \A i \in 1..(Len(s) + Len(t)) :
           (s \o t)[i] = IF i <= Len(s) THEN s[i] ELSE t[i - Len(s)]
  BY ConcatProperties
<1>2. PICK a \in [0..Len(s) -> Seq(Nat)] : Gathers(a, s) /\ Content(s) = a[Len(s)]
  BY ContentParts
<1>3. PICK b \in [0..Len(t) -> Seq(Nat)] : Gathers(b, t) /\ Content(t) = b[Len(t)]
  BY ContentParts
<1> DEFINE c == [i \in 0..(Len(s) + Len(t)) |->
                   IF i <= Len(s) THEN a[i] ELSE Content(s) \o b[i - Len(s)]]
<1>4. Content(s) \in Seq(Nat)
  BY ContentType
<1>5. \A i \in 0..Len(s) : c[i] = a[i]
  BY <1>1
<1>6. \A j \in 0..Len(t) : c[Len(s) + j] = Content(s) \o b[j]
  <2> TAKE j \in 0..Len(t)
  <2>1. Len(s) + j \in 0..(Len(s) + Len(t)) /\ (Len(s) + j) - Len(s) = j
    BY <1>1
  <2>2. CASE j = 0
    <3>1. b[0] = << >> /\ Len(s) + 0 = Len(s) /\ Len(s) \in 0..Len(s)
      BY <1>1, <1>3 DEF Gathers
    <3>2. Content(s) \o << >> = Content(s)
      BY <1>4, ConcatEmptySeq
    <3> QED
      BY <1>2, <1>5, <2>2, <3>1, <3>2
  <2>3. CASE j # 0
    <3>1. ~(Len(s) + j <= Len(s))
      BY <1>1, <2>3
    <3> QED
      BY <2>1, <3>1
  <2> QED
    BY <2>2, <2>3
<1> HIDE DEF c
<1>7. c[0] = << >>
  BY <1>1, <1>2, <1>5 DEF Gathers
<1>8. ASSUME NEW i \in 1..Len(s \o t)
      PROVE  c[i] = c[i - 1] \o Carried((s \o t)[i])
  <2>1. CASE i <= Len(s)
    <3>1. i \in 1..Len(s) /\ i \in 0..Len(s) /\ i - 1 \in 0..Len(s) /\ (s \o t)[i] = s[i]
      BY <1>1, <2>1
    <3>2. a[i] = a[i - 1] \o Carried(s[i])
      BY <1>2, <3>1 DEF Gathers
    <3> QED
      BY <1>5, <3>1, <3>2
  <2>2. CASE i > Len(s)
    <3> DEFINE j == i - Len(s)
    <3>1. /\ j \in 1..Len(t) /\ j \in 0..Len(t) /\ j - 1 \in 0..Len(t)
          /\ i = Len(s) + j /\ i - 1 = Len(s) + (j - 1) /\ (s \o t)[i] = t[j]
      BY <1>1, <2>2
    <3> HIDE DEF j
    <3>2. b[j] = b[j - 1] \o Carried(t[j])
      BY <1>3, <3>1 DEF Gathers
    <3>3. b[j - 1] \in Seq(Nat) /\ Carried(t[j]) \in Seq(Nat)
      BY <3>1, CarriedType, SMTT(30)
    <3>4. Content(s) \o b[j] = (Content(s) \o b[j - 1]) \o Carried(t[j])
      <4> DEFINE x == Content(s)
                 y == b[j - 1]
                 z == Carried(t[j])
                 yz == b[j]
      <4>1. yz = y \o z /\ x \in Seq(Nat) /\ y \in Seq(Nat) /\ z \in Seq(Nat)
        BY <1>4, <3>2, <3>3
      <4> HIDE DEF x, y, z, yz
      <4>2. x \o yz = (x \o y) \o z
        BY <4>1, Associative
      <4> QED
        BY <4>2 DEF x, y, z, yz
    <3>5. c[i] = Content(s) \o b[j] /\ c[i - 1] = Content(s) \o b[j - 1]
      BY <1>6, <3>1
    <3> QED
      BY <3>1, <3>4, <3>5
  <2>3. i \in Int /\ Len(s) \in Int
    BY <1>1
  <2> QED
    BY <2>1, <2>2, <2>3, SMTT(30)
<1>9. Content(s \o t) = c[Len(s \o t)]
  BY <1>1, <1>7, <1>8, ContentByParts DEF Gathers
<1>10. c[Len(s) + Len(t)] = Content(s) \o b[Len(t)]
  BY <1>1, <1>6
<1> QED
  BY <1>1, <1>3, <1>9, <1>10

(* A block adds its bytes, anything else adds none. *)
LEMMA ContentAppend ==
  ASSUME NEW s \in Seq(Item), NEW item \in Item
  PROVE  Content(Append(s, item)) = Content(s) \o Carried(item)
<1>1. Append(s, item) = s \o << item >> /\ << item >> \in Seq(Item)
  BY AppendIsConcat
<1> QED
  BY <1>1, ContentConcat, ContentSingle

(***************************************************************************)
(* The pieces src is cut into: none is larger than size or than src, the   *)
(* last one is marked, and together they are src.                          *)
(***************************************************************************)
LEMMA CutPieces ==
  ASSUME NEW src \in Seq(Nat), NEW size \in Nat \ {0}
  PROVE  LET cut == CutIntoBlocks(src, size)
         IN  /\ cut \in Seq(Item) /\ (src # << >> => Len(cut) > 0)
             /\ \A i \in 1..Len(cut) :
                  /\ IsBlock(cut[i]) /\ (cut[i].last <=> i = Len(cut))
                  /\ Len(cut[i].data) <= size /\ Len(cut[i].data) <= Len(src)
             /\ Content(cut) = src
<1> DEFINE cut == CutIntoBlocks(src, size)
           count == (Len(src) + size - 1) \div size
           ends(i) == Smaller(i * size, Len(src))
           piece(i) == SubSeq(src, (i - 1) * size + 1, ends(i))
           c == [i \in 0..count |-> SubSeq(src, 1, ends(i))]
<1>1. /\ Len(src) \in Nat /\ count \in Nat
      /\ count * size <= Len(src) + size - 1 /\ Len(src) + size - 1 < (count + 1) * size
  OBVIOUS
<1>2. (count + 1) * size = count * size + size
  BY <1>1
<1> HIDE DEF count
<1>3. cut = [i \in 1..count |-> Block(piece(i), i = count)]
  BY DEF CutIntoBlocks, count
<1>4. cut \in Seq(Item)
  BY CutItems
<1>5. Len(cut) = count
  BY <1>1, <1>3
<1>6. src # << >> => count > 0
  <2>1. src # << >> => Len(src) > 0
    OBVIOUS
  <2>2. count = 0 => Len(src) + size - 1 < size
    BY <1>1, <1>2
  <2> QED
    BY <1>1, <2>1, <2>2
<1>7. ASSUME NEW i \in 1..count
      PROVE  /\ (i - 1) * size \in Nat /\ ends(i) \in Nat /\ ends(i) <= Len(src)
             /\ (i - 1) * size <= ends(i) /\ ends(i) <= (i - 1) * size + size
             /\ ends(i - 1) = (i - 1) * size
  <2>1. i * size <= count * size /\ (i - 1) * size = i * size - size /\ i * size \in Nat
        /\ i * size >= size /\ (i - 1) * size \in Nat
    BY <1>1
  <2>2. (i - 1) * size <= Len(src) - 1
    BY <1>1, <2>1
  <2> QED
    BY <1>1, <2>1, <2>2 DEF Smaller
<1>8. ends(0) = 0 /\ ends(count) = Len(src)
  BY <1>1, <1>2 DEF Smaller
<1> HIDE DEF ends
<1>9. ASSUME NEW i \in 1..count
      PROVE  /\ cut[i] = Block(piece(i), i = count)
             /\ Len(piece(i)) <= size /\ Len(piece(i)) <= Len(src)
             /\ SubSeq(src, 1, ends(i)) = SubSeq(src, 1, ends(i - 1)) \o piece(i)
  <2> DEFINE k == (i - 1) * size
             n == ends(i)
  <2>1. k \in Nat /\ n \in Nat /\ n <= Len(src) /\ k <= n /\ n <= k + size /\ ends(i - 1) = k
    BY <1>7
  <2> HIDE DEF k, n
  <2>2. Len(SubSeq(src, k + 1, n)) = n - k
    BY <1>1, <2>1
  <2>3. SubSeq(src, 1, k) \o SubSeq(src, k + 1, n) = SubSeq(src, 1, n)
    <3>1. 1 \in 1..(Len(src) + 1) /\ k \in (1 - 1)..Len(src) /\ n \in k..Len(src)
      BY <1>1, <2>1
    <3> QED
      BY <3>1, ConcatAdjacentSubSeq
  <2>4. piece(i) = SubSeq(src, k + 1, n)
    BY DEF k, n
  <2>5. Len(piece(i)) <= size /\ Len(piece(i)) <= Len(src)
    <3>1. n - k <= size /\ n - k <= Len(src)
      BY <1>1, <2>1
    <3>2. Len(piece(i)) = n - k
      BY <2>2, <2>4
    <3> HIDE DEF piece
    <3> QED
      BY <3>1, <3>2
  <2>6. SubSeq(src, 1, ends(i)) = SubSeq(src, 1, ends(i - 1)) \o piece(i)
    BY <2>1, <2>3, <2>4 DEF n
  <2>7. cut[i] = Block(piece(i), i = count)
    BY <1>3
  <2> QED
    BY <2>5, <2>6, <2>7
<1> HIDE DEF piece, cut
<1>10. \A i \in 1..count : /\ IsBlock(cut[i]) /\ (cut[i].last <=> i = count)
                           /\ cut[i].data = piece(i) /\ Carried(cut[i]) = piece(i)
  <2> SUFFICES ASSUME NEW i \in 1..count
               PROVE  /\ IsBlock(cut[i]) /\ (cut[i].last <=> i = count)
                      /\ cut[i].data = piece(i) /\ Carried(cut[i]) = piece(i)
    OBVIOUS
  <2>1. cut[i] = [kind |-> "block", data |-> piece(i), last |-> (i = count)]
    BY <1>9 DEF Block
  <2>2. cut[i].kind = "block" /\ cut[i].data = piece(i) /\ cut[i].last = (i = count)
    BY <2>1
  <2> QED
    BY <2>2 DEF IsBlock, Carried
<1>11. Content(cut) = src
  <2>1. \A i \in 0..count : c[i] = SubSeq(src, 1, ends(i))
    OBVIOUS
  <2> HIDE DEF c
  <2>2. c[0] = << >> /\ c[count] = src
    <3>1. 0 \in 0..count /\ count \in 0..count
      BY <1>1
    <3>2. SubSeq(src, 1, 0) = << >> /\ SubSeq(src, 1, Len(src)) = src
      OBVIOUS
    <3> QED
      BY <1>8, <2>1, <3>1, <3>2
  <2>3. \A i \in 1..count : c[i] = c[i - 1] \o Carried(cut[i])
    <3> TAKE i \in 1..count
    <3>1. i \in 0..count /\ i - 1 \in 0..count
      BY <1>1
    <3> QED
      BY <1>9, <1>10, <2>1, <3>1
  <2> QED
    BY <1>4, <1>5, <2>2, <2>3, ContentByParts DEF Gathers
<1>12. \A i \in 1..count : Len(cut[i].data) <= size /\ Len(cut[i].data) <= Len(src)
  BY <1>9, <1>10
<1>13. /\ src # << >> => Len(cut) > 0
       /\ \A i \in 1..Len(cut) :
            /\ IsBlock(cut[i]) /\ (cut[i].last <=> i = Len(cut))
            /\ Len(cut[i].data) <= size /\ Len(cut[i].data) <= Len(src)
  BY <1>5, <1>6, <1>10, <1>12
<1> QED
  BY <1>4, <1>11, <1>13 DEF cut

-----------------------------------------------------------------------------
(* Windows. *)

(* Powers of two grow (as the subsets of 1..k do). *)
LEMMA PowerGrows ==
  ASSUME NEW j \in Nat, NEW k \in Nat, j < k
  PROVE  2 ^ j < 2 ^ k
<1>1. /\ IsFiniteSet(1..j) /\ Cardinality(1..j) = j
      /\ IsFiniteSet(1..k) /\ Cardinality(1..k) = k
  BY FS_Interval
<1>2. /\ Cardinality(SUBSET (1..j)) = 2 ^ j
      /\ IsFiniteSet(SUBSET (1..k)) /\ Cardinality(SUBSET (1..k)) = 2 ^ k
  BY <1>1, FS_SUBSET
<1>3. SUBSET (1..j) \in SUBSET (SUBSET (1..k)) /\ SUBSET (1..j) # SUBSET (1..k)
  <2>1. k \in 1..k /\ k \notin 1..j /\ 1..j \subseteq 1..k
    OBVIOUS
  <2>2. {k} \in SUBSET (1..k) /\ {k} \notin SUBSET (1..j)
    BY <2>1
  <2> QED
    BY <2>1, <2>2
<1>4. 2 ^ j <= 2 ^ k /\ 2 ^ j # 2 ^ k
  <2> DEFINE small == SUBSET (1..j)
             big   == SUBSET (1..k)
  <2>1. small \in SUBSET big /\ small # big /\ IsFiniteSet(big)
    BY <1>2, <1>3
  <2> HIDE DEF small, big
  <2>2. Cardinality(small) <= Cardinality(big) /\ Cardinality(small) # Cardinality(big)
    BY <2>1, FS_Subset
  <2> QED
    BY <1>2, <2>2 DEF small, big
<1>5. 2 ^ j \in Nat /\ 2 ^ k \in Nat
  BY PowerNat
<1> QED
  BY <1>4, <1>5

(* ... faster than their exponents. *)
LEMMA PowerAbove == \A k \in Nat : k < 2 ^ k
<1> DEFINE T == {k \in Nat : k < 2 ^ k}
<1>1. 0 \in T
  <2>1. IsFiniteSet(1..0) /\ Cardinality(1..0) = 0
    BY FS_Interval
  <2>2. Cardinality(SUBSET (1..0)) = 2 ^ 0 /\ IsFiniteSet(SUBSET (1..0))
    BY <2>1, FS_SUBSET
  <2>3. SUBSET (1..0) # {}
    OBVIOUS
  <2>4. 2 ^ 0 # 0
    BY <2>2, <2>3, FS_EmptySet
  <2>5. 2 ^ 0 \in Nat
    BY PowerNat
  <2> QED
    BY <2>4, <2>5
<1>2. ASSUME NEW k \in Nat, k \in T
      PROVE  k + 1 \in T
  <2>1. k < 2 ^ k /\ 2 ^ k < 2 ^ (k + 1)
    BY <1>2, PowerGrows
  <2>2. 2 ^ k \in Nat /\ 2 ^ (k + 1) \in Nat
    BY PowerNat
  <2> QED
    BY <2>1, <2>2
<1> HIDE DEF T
<1>3. \A k \in Nat : k \in T
  BY <1>1, <1>2, SetInduction
<1> QED
  BY <1>3 DEF T

(* A number is below the power of two of its length in bits. *)
LEMMA BitsLenAbove ==
  ASSUME NEW n \in Nat
  PROVE  n < 2 ^ BitsLen(n)
<1> DEFINE fits == {k \in 0..n : 2 ^ k <= n}
           b == BitsLen(n)
<1>1. b \in Nat /\ 2 ^ b \in Nat
  BY BitsLenNat, PowerNat
<1>2. SUFFICES ASSUME 2 ^ b <= n PROVE FALSE
  BY <1>1
<1>3. IsFiniteSet(fits) /\ Cardinality(fits) = b
  <2>1. IsFiniteSet(0..n)
    BY FS_Interval
  <2> QED
    BY <2>1, FS_Subset DEF BitsLen
<1> HIDE DEF b
<1>4. b < 2 ^ b
  BY <1>1, PowerAbove
<1>5. 0..b \subseteq fits
  <2> SUFFICES ASSUME NEW k \in 0..b PROVE k \in fits
    OBVIOUS
  <2>1. 2 ^ k <= 2 ^ b /\ 2 ^ k \in Nat
    <3>1. k \in Nat /\ (k = b \/ k < b)
      BY <1>1
    <3> QED
      BY <1>1, <3>1, PowerGrows, PowerNat
  <2> QED
    BY <1>1, <1>2, <1>4, <2>1
<1>6. IsFiniteSet(0..b) /\ Cardinality(0..b) = b + 1
  BY <1>1, FS_Interval
<1>7. Cardinality(0..b) <= Cardinality(fits)
  BY <1>3, <1>5, FS_Subset
<1> QED
  BY <1>1, <1>3, <1>6, <1>7

(***************************************************************************)
(* The window a header declares covers the window that was asked for; and  *)
(* the window asked for covers a declared size, or is the encoder's own.   *)
(***************************************************************************)
LEMMA DeclaredWindow ==
  ASSUME NEW window \in Nat
  PROVE  window <= 2 ^ BitsLen(window - 1)
<1>1. CASE window = 0
  <2>1. 2 ^ BitsLen(window - 1) \in Nat
    BY BitsLenNat, PowerNat
  <2> QED
    BY <1>1, <2>1
<1>2. CASE window # 0
  <2> DEFINE n == window - 1
  <2>1. n \in Nat /\ window = n + 1
    BY <1>2
  <2> HIDE DEF n
  <2>2. n < 2 ^ BitsLen(n) /\ 2 ^ BitsLen(n) \in Nat
    BY <2>1, BitsLenAbove, BitsLenNat, PowerNat
  <2>3. window <= 2 ^ BitsLen(n)
    BY <2>1, <2>2
  <2> QED
    BY <2>3 DEF n
<1> QED
  BY <1>1, <1>2

LEMMA AskedWindow ==
  ASSUME NEW maxOff \in Nat, NEW size \in Nat
  PROVE  /\ WindowSize(maxOff, size) \in Nat
         /\ \/ WindowSize(maxOff, size) = maxOff
            \/ size > 0 /\ WindowSize(maxOff, size) >= size
<1>1. size < 2 ^ BitsLen(size) /\ 2 ^ BitsLen(size) \in Nat
  BY BitsLenAbove, BitsLenNat, PowerNat
<1> QED
  BY <1>1, WindowSizeNat, SizesAssumption DEF WindowSize, Larger

-----------------------------------------------------------------------------
(* Complete frames. *)

(* A header and its blocks, the last one marked, as they precede a checksum. *)
Body(items) ==
  /\ Len(items) >= 2 /\ items[1].kind = "header"
  /\ \A i \in 2..Len(items) :
       /\ IsBlock(items[i])
       /\ items[i].last <=> i = Len(items)
       /\ Len(items[i].data) <= Smaller(items[1].window, MaxBlock)
  /\ items[1].fcs \in {Unknown, Len(Content(items))}

(***************************************************************************)
(* Such a sequence becomes a frame the Reader accepts by the checksum of   *)
(* its content, if the header announces one, and has the same content.     *)
(***************************************************************************)
LEMMA CompleteFrame ==
  ASSUME NEW items \in Seq(Item), Body(items), items[1].crc \in BOOLEAN
  PROVE  LET whole == IF items[1].crc THEN Append(items, Checksum(Content(items))) ELSE items
         IN  Accepts(whole) /\ Content(whole) = Content(items)
<1>1. items # << >> /\ Len(items) \in Nat
  BY DEF Body
<1>2. CASE ~items[1].crc
  BY <1>1, <1>2, SMTT(30) DEF Accepts, Body
<1>3. CASE items[1].crc
  <2> DEFINE sum   == Checksum(Content(items))
             whole == Append(items, sum)
  <2>1. sum \in Item /\ Carried(sum) = << >>
    BY ContentType DEF Checksum, Item, Carried, IsBlock
  <2> HIDE DEF sum
  <2>2. Content(whole) = Content(items)
    <3>1. Content(whole) = Content(items) \o Carried(sum)
      BY <2>1, ContentAppend
    <3>2. Content(items) \o << >> = Content(items)
      BY ContentType, ConcatEmptySeq
    <3> QED
      BY <2>1, <3>1, <3>2
  <2>3. /\ Len(whole) = Len(items) + 1 /\ whole[Len(items) + 1] = sum
        /\ whole # << >> /\ \A i \in 1..Len(items) : whole[i] = items[i]
    BY <2>1, AppendProperties
  <2> HIDE DEF whole
  <2>4. /\ whole[1] = items[1] /\ Len(whole) - 1 = Len(items)
        /\ \A i \in 2..Len(items) : whole[i] = items[i]
    BY <1>1, <2>3 DEF Body
  <2>5. Accepts(whole)
    BY <1>3, <2>2, <2>3, <2>4, ZenonT(30) DEF Accepts, Body, sum
  <2> QED
    BY <1>3, <2>2, <2>5 DEF whole, sum
<1> QED
  BY <1>2, <1>3

(***************************************************************************)
(* A frame made in one piece is whole: it carries src, and the Reader      *)
(* accepts it when blocks fit the window of the encoder it was made with.  *)
(***************************************************************************)
LEMMA EncodeAllWhole ==
  ASSUME NEW maxOff \in Nat, NEW src \in Seq(Nat), NEW c,
         c.blockSize \in Nat \ {0}, c.wndSize \in Nat, c.crc \in BOOLEAN, c.dict \in Nat
  PROVE  /\ Content(EncodeAll(maxOff, c, src)) = src
         /\ c.blockSize <= maxOff /\ c.blockSize <= MaxBlock => Accepts(EncodeAll(maxOff, c, src))
<1> DEFINE single == Len(src) <= c.wndSize /\ Len(src) > MinWindow
           asked == WindowSize(maxOff, Len(src))
           head == IF src = << >> THEN Header(0, MinWindow, TRUE, c.crc, c.dict)
                   ELSE Header(Len(src), asked, single, c.crc, c.dict)
           body == IF src = << >> THEN << Block(src, TRUE) >> ELSE CutIntoBlocks(src, c.blockSize)
           tail == IF c.crc THEN << Checksum(src) >> ELSE << >>
           items == << head >> \o body
<1>1. Len(src) \in Nat /\ MinWindow \in Nat \ {0} /\ (src # << >> => Len(src) > 0)
  BY SizesAssumption
<1>2. head \in Item
  BY <1>1, HeaderItem, WindowSizeNat
<1>3. /\ head.kind = "header" /\ head.crc = c.crc
      /\ head.fcs \in {Unknown, Len(src)}
      /\ src = << >> => head.window = Larger(0, MinWindow)
      /\ src # << >> /\ single => head.window = Larger(Len(src), MinWindow)
      /\ src # << >> /\ ~single => head.window = 2 ^ BitsLen(asked - 1)
  <2> HIDE DEF asked
  <2>1. CASE src = << >>
    <3>1. head = Header(0, MinWindow, TRUE, c.crc, c.dict)
      BY <2>1
    <3>2. head = [kind |-> "header", fcs |-> 0, window |-> Larger(0, MinWindow),
                  crc |-> c.crc, dict |-> c.dict]
      BY <3>1 DEF Header
    <3> HIDE DEF head, single
    <3>3. head.kind = "header" /\ head.crc = c.crc /\ head.window = Larger(0, MinWindow)
      BY <3>2
    <3>4. head.fcs = 0 /\ Len(src) = 0
      BY <2>1, <3>2
    <3> QED
      BY <2>1, <3>3, <3>4
  <2>2. CASE src # << >> /\ single
    <3>1. head = [kind |-> "header", fcs |-> Len(src), window |-> Larger(Len(src), MinWindow),
                  crc |-> c.crc, dict |-> c.dict]
      BY <2>2 DEF Header
    <3> HIDE DEF head
    <3> QED
      BY <2>2, <3>1
  <2>3. CASE src # << >> /\ ~single
    <3>1. head = [kind |-> "header", fcs |-> IF Len(src) >= FcsMin THEN Len(src) ELSE Unknown,
                  window |-> 2 ^ BitsLen(asked - 1), crc |-> c.crc, dict |-> c.dict]
      BY <2>3 DEF Header
    <3> HIDE DEF head
    <3> QED
      BY <2>3, <3>1
  <2> QED
    BY <2>1, <2>2, <2>3
<1>4. /\ body \in Seq(Item) /\ Len(body) > 0 /\ Content(body) = src
      /\ \A i \in 1..Len(body) :
           /\ IsBlock(body[i]) /\ (body[i].last <=> i = Len(body))
           /\ Len(body[i].data) <= c.blockSize /\ Len(body[i].data) <= Len(src)
  <2>1. CASE src # << >>
    BY <2>1, CutPieces
  <2>2. CASE src = << >>
    <3> DEFINE empty == [kind |-> "block", data |-> src, last |-> TRUE]
    <3>1. empty \in Item /\ Carried(empty) = src /\ IsBlock(empty) /\ empty.last = TRUE
          /\ empty.data = src
      BY DEF Item, Carried, IsBlock
    <3>2. body = << empty >>
      BY <2>2 DEF Block
    <3> HIDE DEF body, empty
    <3>3. body \in Seq(Item) /\ Len(body) = 1 /\ body[1] = empty
      BY <3>1, <3>2
    <3>4. Content(body) = src
      BY <3>1, <3>2, ContentSingle
    <3>5. Len(src) = 0 /\ \A i \in 1..1 : i = 1
      BY <2>2
    <3>6. 0 <= c.blockSize
      OBVIOUS
    <3> QED
      BY <3>1, <3>3, <3>4, <3>5, <3>6
  <2> QED
    BY <2>1, <2>2
<1> HIDE DEF body
<1>5. /\ head.window \in Nat
      /\ c.blockSize <= maxOff => c.blockSize <= head.window \/ Len(src) <= head.window
  <2>1. asked \in Nat /\ (asked = maxOff \/ asked >= Len(src))
    BY <1>1, AskedWindow
  <2> HIDE DEF asked, head, single
  <2>2. 2 ^ BitsLen(asked - 1) \in Nat /\ asked <= 2 ^ BitsLen(asked - 1)
    <3>1. asked \in Nat /\ asked - 1 \in Int
      BY <2>1
    <3>2. BitsLen(asked - 1) \in Nat
      BY <3>1, BitsLenNat
    <3> QED
      BY <3>1, <3>2, DeclaredWindow, PowerNat
  <2>3. CASE src = << >>
    <3>1. Len(src) = 0
      BY <2>3
    <3> QED
      BY <1>1, <1>3, <2>3, <3>1 DEF Larger
  <2>4. CASE src # << >> /\ single
    BY <1>1, <1>3, <2>4 DEF Larger
  <2>5. CASE src # << >> /\ ~single
    <3> DEFINE w == head.window
    <3>1. w \in Nat /\ asked <= w
      BY <1>3, <2>2, <2>5
    <3> HIDE DEF w
    <3>2. c.blockSize <= maxOff => c.blockSize <= w \/ Len(src) <= w
      BY <1>1, <2>1, <3>1
    <3> QED
      BY <3>1, <3>2 DEF w
  <2> QED
    BY <2>3, <2>4, <2>5
<1> HIDE DEF head, body
<1>7. EncodeAll(maxOff, c, src) = items \o tail
  BY DEF EncodeAll, head, body
<1>8. << head >> \in Seq(Item) /\ Content(<< head >>) = << >>
  <2>1. Carried(head) = << >>
    BY <1>3 DEF Carried, IsBlock
  <2> QED
    BY <1>2, <2>1, ContentSingle
<1>9. items \in Seq(Item) /\ Content(items) = src
  <2>1. << >> \o src = src
    OBVIOUS
  <2> QED
    BY <1>4, <1>8, <2>1, ContentConcat
<1>10. /\ Len(items) = Len(body) + 1 /\ items[1] = head
       /\ \A i \in 2..Len(items) : items[i] = body[i - 1] /\ i - 1 \in 1..Len(body)
  <2>1. Len(<< head >>) = 1 /\ << head >>[1] = head
    OBVIOUS
  <2>2. /\ Len(items) = 1 + Len(body)
        /\ \A i \in 1..(1 + Len(body)) : items[i] = IF i <= 1 THEN << head >>[i] ELSE body[i - 1]
    BY <1>4, <1>8, <2>1, ConcatProperties
  <2>3. Len(body) \in Nat
    BY <1>4
  <2> HIDE DEF items
  <2> QED
    BY <2>1, <2>2, <2>3
<1> HIDE DEF items
<1>11. items \o tail = IF items[1].crc THEN Append(items, Checksum(Content(items))) ELSE items
  <2>1. Checksum(src) \in Item
    BY DEF Checksum, Item
  <2>2. Append(items, Checksum(src)) = items \o << Checksum(src) >>
    BY <1>9, <2>1, AppendIsConcat
  <2>3. items \o << >> = items
    BY <1>9, ConcatEmptySeq
  <2> QED
    BY <1>3, <1>9, <1>10, <2>2, <2>3
<1>12. Content(items \o tail) = src
  <2>1. tail \in Seq(Item) /\ Content(tail) = << >>
    <3>1. Checksum(src) \in Item /\ Carried(Checksum(src)) = << >>
      BY DEF Checksum, Item, Carried, IsBlock
    <3> QED
      BY <3>1, ContentSingle, ContentEmpty
  <2>2. src \o << >> = src
    OBVIOUS
  <2> HIDE DEF tail
  <2> QED
    BY <1>9, <2>1, <2>2, ContentConcat
<1>13. ASSUME c.blockSize <= maxOff, c.blockSize <= MaxBlock
       PROVE  Accepts(items \o tail)
  <2>1. \A i \in 2..Len(items) :
          /\ IsBlock(items[i]) /\ (items[i].last <=> i = Len(items))
          /\ Len(items[i].data) <= Smaller(head.window, MaxBlock)
    <3> SUFFICES ASSUME NEW i \in 2..Len(items)
                 PROVE  /\ IsBlock(items[i]) /\ (items[i].last <=> i = Len(items))
                        /\ Len(items[i].data) <= Smaller(head.window, MaxBlock)
      OBVIOUS
    <3>1. items[i] = body[i - 1] /\ i - 1 \in 1..Len(body) /\ (i = Len(items) <=> i - 1 = Len(body))
      <4>1. i \in Int /\ Len(body) \in Nat
        BY <1>4, <1>10
      <4> QED
        BY <1>10, <4>1
    <3>2. /\ IsBlock(body[i - 1]) /\ (body[i - 1].last <=> i - 1 = Len(body))
          /\ Len(body[i - 1].data) <= c.blockSize /\ Len(body[i - 1].data) <= Len(src)
      BY <1>4, <3>1
    <3>3. Len(body[i - 1].data) \in Nat
      <4>1. body[i - 1] \in Item
        BY <1>4, <3>1
      <4> QED
        BY <3>2, <4>1 DEF Item, Torn, IsBlock
    <3>4. Len(body[i - 1].data) <= head.window /\ Len(body[i - 1].data) <= MaxBlock
      <4> DEFINE w == head.window
                 l == Len(body[i - 1].data)
      <4>1. w \in Nat /\ (c.blockSize <= w \/ Len(src) <= w)
        BY <1>5, <1>13
      <4>2. l \in Nat /\ l <= c.blockSize /\ l <= Len(src)
        BY <3>2, <3>3
      <4> HIDE DEF w, l
      <4>3. l <= w /\ l <= MaxBlock
        BY <1>1, <1>13, <4>1, <4>2, SizesAssumption
      <4> QED
        BY <4>3 DEF w, l
    <3> QED
      BY <3>1, <3>2, <3>4 DEF Smaller
  <2>2. Len(items) >= 2
    BY <1>4, <1>10
  <2>3. Body(items)
    BY <1>3, <1>9, <1>10, <2>1, <2>2 DEF Body
  <2> QED
    BY <1>3, <1>9, <1>10, <1>11, <2>3, CompleteFrame
<1> QED
  BY <1>7, <1>12, <1>13
=============================================================================
