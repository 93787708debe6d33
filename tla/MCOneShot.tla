------------------------------ MODULE MCOneShot ------------------------------
(***************************************************************************)
(* Frames whose matches reach just as far as they may, or one byte         *)
(* further: to the start of the frame, the window, the dictionary; two     *)
(* frames in one input, damaged headers, sizes and checksums.              *)
(***************************************************************************)
EXTENDS OneShot, TLC

Plain(lits) == [kind |-> "raw", lits |-> lits, seqs |-> << >>]
Repeated(n, byte) == [kind |-> "RLE", lits |-> [i \in 1..n |-> byte], seqs |-> << >>]
Coded(lits, ll, ml, mo) ==
  [kind |-> "compressed", lits |-> lits, seqs |-> << [ll |-> ll, ml |-> ml, mo |-> mo] >>]

Sound(blocks) == [parses |-> TRUE, window |-> 4, id |-> 0, size |-> -1, sum |-> TRUE, blocks |-> blocks]

DictionariesDef == [d \in {1} |-> << 7, 8 >>]
WithDict(blocks) == [Sound(blocks) EXCEPT !.id = 1]

(* Into the block before; the last match overlaps itself. *)
Long == Sound(<< Coded(<< 1, 2 >>, 2, 2, 2), Repeated(1, 3), Coded(<< 4 >>, 1, 2, 3) >>)
(* To the first byte of the frame, and one byte in front of it. *)
Reaching == Sound(<< Plain(<< 5 >>), Coded(<< 6 >>, 1, 1, 2) >>)
Beyond == Sound(<< Plain(<< 5 >>), Coded(<< 6 >>, 1, 1, 3) >>)
FromStart == Sound(<< Coded(<< 5 >>, 1, 1, 1) >>)
TooFar == Sound(<< Coded(<< 6 >>, 1, 1, 2) >>)

Some == << 9, 9 >>
OnTo(before, frames) == [dst |-> before, src |-> frames]

CallsDef ==
  { OnTo(<< >>, << >>),
    OnTo(Some, << Long >>),
    OnTo(<< >>, << WithDict(<< Coded(<< 6 >>, 1, 1, 2) >>), TooFar >>),
    OnTo(<< >>, << FromStart, Beyond >>),
    OnTo(<< >>, << [FromStart EXCEPT !.size = 3] >>),
    OnTo(Some, << [FromStart EXCEPT !.size = 2, !.sum = FALSE] >>),
    OnTo(<< >>, << FromStart, [FromStart EXCEPT !.id = 2] >>) }

StreamInputsDef == { << Reaching, Beyond >> }

OneCall == { OnTo(<< >>, << FromStart >>) }

AlikeDecoders == Permutations(Decoders) \cup Permutations(Users)
==============================================================================
