--------------------------- MODULE MCBlockEncoder ---------------------------
(***************************************************************************)
(* Three machines side by side, chosen at the start: the block encoder     *)
(* with its tables, the coders with their samples, and the recent offsets. *)
(*                                                                         *)
(* Literals at the boundaries of the header widths and of the choice of    *)
(* coder; sizes of the coded literals on both sides of the sixteenth that  *)
(* must be saved.                                                          *)
(***************************************************************************)
EXTENDS BlockEncoder, MCCodecs, RepeatOffsets

VARIABLE part

Around == {16, 17, 31, 32, 1023, 1024, 2048, 16384}

CoderSizes == UNION {{WantSize(n) - 2, WantSize(n) - 1, WantSize(n)} : n \in Around} \cup {6}

Alike == Permutations(Built) \cup Permutations(Kinds)

DictOffsetsDef == <<2, 3, 5>>

MCInit ==
    /\ Init /\ SampleInit /\ OffsetsInit
    /\ part \in {"tables", "codecs", "offsets"}
    /\ part # "tables" => \A j, k \in Kinds : prevCoder[j] = prevCoder[k]
    /\ part # "offsets" => finder = "best" /\ mode = "all"

MCNext ==
    \/ part = "tables" /\ Next /\ UNCHANGED <<sample, offsetVars, part>>
    \/ part = "codecs" /\ SampleNext /\ UNCHANGED <<vars, offsetVars, part>>
    \/ part = "offsets" /\ OffsetsNext /\ UNCHANGED <<vars, sample, part>>

MCSpec == MCInit /\ [][MCNext]_<<vars, sample, offsetVars, part>>
==============================================================================
