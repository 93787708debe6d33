------------------------------- MODULE MCReader -------------------------------
(* The inputs and instances of Reader that TLC checks. *)
EXTENDS Reader, FiniteSetsExt, SequencesExt

(* The items of a frame whose blocks decode to the sizes ns; block bad     *)
(* does not decode.  lo bytes and at items come before it.                 *)
Sum(ns) == FoldFunction(+, 0, ns)
HeadItem(lo, window, single, uses, size, summed) ==
  [lo |-> lo, window |-> window, single |-> single, uses |-> uses, size |-> size,
   crc |-> summed, kind |-> "head"]
BlockItem(lo, n, last, ok, sum, of) ==
  [lo |-> lo, kind |-> "block", n |-> n, last |-> last, ok |-> ok, sum |-> sum, frame |-> of]
FrameItems(f, lo, at) ==
  IF f.other # "no" THEN << [lo |-> lo, kind |-> f.other] >>
  ELSE << HeadItem(lo, f.window, f.single, f.uses, f.size, f.check # "none") >>
       \o [k \in 1..Len(f.ns) |->
             BlockItem(lo + Sum(SubSeq(f.ns, 1, k - 1)), f.ns[k], k = Len(f.ns),
                       f.bad # k, f.check = "good", at + 1)]

Frame(window, uses, size, check, ns) ==
  [ns |-> ns, window |-> window, single |-> FALSE, uses |-> uses, size |-> size,
   other |-> "no", check |-> check, bad |-> 0]
Single(size, check, ns) == [Frame(0, NoDict, size, check, ns) EXCEPT !.single = TRUE]
Broken(f, k) == [f EXCEPT !.bad = k]
Skip == [Frame(0, NoDict, -1, "none", << >>) EXCEPT !.other = "skip"]
Junk == [Skip EXCEPT !.other = "junk"]

ItemsOf(fs) ==
  FoldLeft(LAMBDA made, f : [lo |-> made.lo + Sum(f.ns),
                             items |-> made.items \o FrameItems(f, made.lo, Len(made.items))],
           [lo |-> 0, items |-> << >>], fs).items

Complete(fs) == [items |-> ItemsOf(fs), torn |-> FALSE, end |-> "EOF"]
(* The same cut anywhere: the source ends, ends inside an item, or fails. *)
Cuts(fs, end) ==
  LET items == ItemsOf(fs)
  IN  {[items |-> SubSeq(items, 1, k), torn |-> FALSE, end |-> end] : k \in 0..Len(items)}
Torn(fs) == {[s EXCEPT !.torn = TRUE] : s \in Cuts(fs, "EOF")}

(* Windows below, at and above the size where the buffer is doubled; 9 is  *)
(* above the limit.                                                        *)
Small    == Frame(2, NoDict, -1, "good", << 2, 1, 2 >>)
Sized    == Frame(3, NoDict, 7, "none", << 2, 2, 2, 1 >>)
Large    == Frame(5, NoDict, -1, "none", << 2, 2, 2, 1, 2 >>)
Whole1   == Single(3, "good", << 2, 1 >>)
Empty    == Single(0, "none", << 0 >>)
WithDict == Frame(2, 1, -1, "none", << 1, 2 >>)
WithRaw  == Frame(2, 0, -1, "none", << 2 >>)
Two      == << Single(1, "good", << 1 >>), Skip, Frame(2, NoDict, 3, "good", << 1, 2 >>) >>

WholeInputs ==
  { << Sized, Skip >>, << Empty, Large, Small >>, << Skip, WithDict, Whole1 >>, << WithRaw, WithDict >> }
DamagedInputs ==
  { << Skip >>, << Whole1, Junk >>, << [Small EXCEPT !.check = "bad"], Whole1 >>,
    << [Whole1 EXCEPT !.size = 4] >>, << [Sized EXCEPT !.size = 6] >>, << Broken(Small, 2) >>,
    << Single(1, "none", << 2 >>) >>, << Frame(9, NoDict, -1, "none", << 1 >>) >> }
CutInputs ==
  {s \in Cuts(Two, "EOF") : Len(s.items) \in {0, 2, 3, 4}}
  \cup {s \in Cuts(Two, "failed") : Len(s.items) \in {2, 5}}
  \cup {s \in Torn(Two) : Len(s.items) \in {0, 5}}

AllInputs == {Complete(fs) : fs \in WholeInputs \cup DamagedInputs} \cup CutInputs
FewInputs == {Complete(<< Empty, Small >>)}
=============================================================================
