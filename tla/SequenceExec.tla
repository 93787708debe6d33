---------------------------- MODULE SequenceExec ----------------------------
(***************************************************************************)
(* The execution of sequences (decodeSync in seqdec.go): literals are      *)
(* appended, then a match is copied from the dictionary, the history of    *)
(* earlier blocks and the output of this block, piece by piece, against    *)
(* the meaning of a match: byte after byte from a fixed distance back.     *)
(*                                                                         *)
(* A sequence is [ll, ml, mo], its offset already resolved.  The           *)
(* surroundings of a block are [dict, hist, window, maxBlock, start]:      *)
(* start bytes of the output are there before the block begins, room is    *)
(* the capacity of the output slice.                                       *)
(***************************************************************************)
EXTENDS Integers, Sequences, FiniteSetsExt

CONSTANT MaxMatch           \* maxMatchLen

LastOf(s, n) == SubSeq(s, Len(s) - n + 1, Len(s))

Failed == [ok |-> FALSE, out |-> <<>>, lits |-> <<>>, room |-> 0]

\* The capacity after out may have been grown for ll + ml more bytes; slack is what is
\* asked for beyond that (256 bytes and a quarter of the block so far).
Room(env, acc, more, slack) ==
    LET used == Len(acc.out) - env.start
    IN  IF Len(acc.out) + more <= acc.room
        THEN acc.room
        ELSE Len(acc.out) + Min({slack + more, env.maxBlock - used})

\* Mutated: an overlapping match repeats nothing that it has not found there.
CopyAtOnce(out, mo, ml) ==
    out \o SubSeq(out, Len(out) - mo + 1, Min({Len(out), Len(out) - mo + ml}))

\* A match inside the output; it may overlap what it produces.
CopyOut(out, mo, ml) ==
    LET from == Len(out) - mo
    IN  out \o [i \in 1..ml |-> out[from + 1 + ((i - 1) % mo)]]

\* What the history gives: the bytes that lie behind the start of the output.
FromHistory(env, out, mo, ml) ==
    LET back == mo - Len(out)
        from == Len(env.hist) - back
        n    == IF back > 0 THEN Min({ml, back}) ELSE 0
    IN  [out |-> out \o [i \in 1..n |-> env.hist[from + i]], left |-> ml - n]

\* The piece of a match that lies in the dictionary; none is left when it ends there.
FromDict(env, out, mo, ml) ==
    LET from == Len(env.dict) - (mo - (Len(out) + Len(env.hist)))
        in   == from \in 0..(Len(env.dict) - 1)
        n    == IF in THEN Min({ml, Len(env.dict) - from}) ELSE 0
    IN  [ok |-> in, out |-> out \o [i \in 1..n |-> env.dict[from + i]], left |-> ml - n]

\* One turn of the loop of decodeSync.
Execute(env, seq, slack, acc) ==
    LET room == Room(env, acc, seq.ll + seq.ml, slack)
        lit  == acc.out \o SubSeq(acc.lits, 1, Min({seq.ll, Len(acc.lits)}))
        far  == seq.mo > Len(lit) + Len(env.hist) \/ seq.mo > env.window
        dict == IF far THEN FromDict(env, lit, seq.mo, seq.ml)
                ELSE [ok |-> TRUE, out |-> lit, left |-> seq.ml]
        hist == FromHistory(env, dict.out, seq.mo, dict.left)
        all  == IF hist.left > 0 THEN CopyOut(hist.out, seq.mo, hist.left) ELSE hist.out
    IN  IF \/ seq.ll > Len(acc.lits)
           \/ seq.ll + seq.ml + Len(acc.out) - env.start > env.maxBlock
           \/ seq.ml > MaxMatch
           \/ seq.mo = 0 /\ seq.ml > 0
           \/ ~dict.ok
        THEN Failed
        ELSE [ok |-> TRUE, out |-> all, lits |-> SubSeq(acc.lits, seq.ll + 1, Len(acc.lits)),
              room |-> room]

------------------------------------------------------------------------------
\* The meaning of a sequence: all that can be referred to is one string, and a match
\* copies byte after byte.
Bytewise(all, mo, ml) ==
    LET byte[i \in 1..(Len(all) + ml)] == IF i <= Len(all) THEN all[i] ELSE byte[i - mo]
    IN  byte

\* A sequence is accepted if there are literals and room in the block for it and its
\* match starts inside the window, or behind it in the dictionary.
Legal(env, seq, acc) ==
    LET back == Len(acc.out) + seq.ll + Len(env.hist)
    IN  /\ seq.ll <= Len(acc.lits)
        /\ Len(acc.out) - env.start + seq.ll + seq.ml <= env.maxBlock
        /\ seq.ml <= MaxMatch
        /\ seq.ml > 0 => seq.mo > 0
        /\ seq.mo <= Min({back, env.window}) \/ seq.mo \in (back + 1)..(back + Len(env.dict))

\* However a match lies over dictionary, history and output, decodeSync produces what
\* the byte by byte copy does, refuses exactly the sequences that are not legal, and
\* the slice it writes to was made large enough.
CopyIsBytewise(env, seq, slack, acc) ==
    LET done == Execute(env, seq, slack, acc)
        all  == env.dict \o env.hist \o acc.out \o SubSeq(acc.lits, 1, seq.ll)
    IN  /\ done.ok = Legal(env, seq, acc)
        /\ done.ok => /\ done.out = LastOf(Bytewise(all, seq.mo, seq.ml), Len(acc.out) + seq.ll + seq.ml)
                      /\ Len(done.out) <= done.room
==============================================================================
