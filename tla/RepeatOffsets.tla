---------------------------- MODULE RepeatOffsets ----------------------------
(***************************************************************************)
(* The three recent offsets, kept twice: by a match finder, which decides  *)
(* from its own copy that a match may be sent as a repeat code, and by the *)
(* decoder, which replays the codes.  They start apart in nearly every     *)
(* block: finders that keep only two, blocks that end up raw after the     *)
(* finder updated its copy, a copy restored that nobody saved, dictionary  *)
(* offsets, a finder reused for another stream.                            *)
(*                                                                         *)
(* One action for every place where a finder appends a sequence.  Where    *)
(* matches lie is not modelled: every distance may turn up anywhere.  The  *)
(* search of bestFastEncoder is taken to use codes 1, 2 and 3 only behind  *)
(* literals; a candidate for them that could be extended back to the last  *)
(* match was tried as 4|1 or 4|2 at that place before, at no higher cost.  *)
(***************************************************************************)
EXTENDS Integers, Sequences

CONSTANTS Distances,        \* of matches from the tables
          DictOffsets       \* the offsets of a dictionary

ASSUME OffsetsAssumption ==
    /\ Distances \subseteq Nat \ {0}
    /\ DictOffsets \in Nat \X Nat \X Nat

VARIABLES finder,           \* "fast", "dfast", "better" or "best"
          mode,             \* blocks of a "stream", of "all" in encodeAll, or one "alone"
          recent,           \* recentOffsets; during a block offset1, offset2, offset3
          saved,            \* prevRecentOffsets
          kept,             \* the decoder's history.recentOffsets
          prevOffset,       \* its prevOffset, in the block at hand
          emitted,          \* len(blk.sequences), up to 3
          counted,          \* the number when canRepeat was set
          place,            \* "idle", "search", "after" a new match, "done", "over"
          sent              \* of the last sequence: the distance meant, and the one read

offsetVars == <<finder, mode, recent, saved, kept, prevOffset, emitted, counted, place, sent>>

Finders == {"fast", "dfast", "better", "best"}

Modes == {"stream", "all", "alone"}

Fresh == <<1, 4, 8>>

NoneSent == [meant |-> 0, read |-> 0]

------------------------------------------------------------------------------
\* adjustOffset, from the value of the offset code (4 and more are new offsets).  A
\* literal length of 1 stands for all but 0.
adjustOffset(p, value, litLen) ==
    LET code == value - 1 + (IF litLen = 0 THEN 1 ELSE 0)
        old  == IF code = 3 THEN p[1] - 1 ELSE p[code + 1]
        temp == IF old = 0 THEN 1 ELSE old
    IN  CASE value > 3             -> <<value - 3, p[1], p[2]>>
          [] value <= 3 /\ code = 0 -> p
          [] value <= 3 /\ code = 1 -> <<temp, p[1], p[3]>>
          [] value <= 3 /\ code > 1 -> <<temp, p[1], p[2]>>

\* A sequence is appended; the decoder reads it.
Send(value, litLen, meant) ==
    /\ prevOffset' = adjustOffset(prevOffset, value, litLen)
    /\ sent' = [meant |-> meant, read |-> prevOffset'[1]]
    /\ emitted' = IF emitted < 3 THEN emitted + 1 ELSE 3

\* Mutated: two sequences are enough.
EnoughTwo(n) == n > 1

\* The offsets of other blocks are never repeated, these are: so many are new.
Enough(n) == n > 2

\* Most finders look once for each new match; those of a block alone ask every time.
MayRepeat == Enough(IF mode = "alone" /\ finder \in {"fast", "dfast"} THEN emitted ELSE counted)

------------------------------------------------------------------------------
OffsetsInit ==
    /\ finder \in Finders /\ mode \in Modes
    /\ recent = Fresh /\ saved = <<0, 0, 0>> /\ kept = Fresh /\ prevOffset = Fresh
    /\ emitted = 0 /\ counted = 0 /\ place = "idle" /\ sent = NoneSent

\* The encoder comes back from its pool for another stream, with a dictionary or without.
\* Without one saved stays what it was.
NewStream ==
    /\ place \in {"idle", "over"}
    /\ place' = "idle"
    /\ mode' \in Modes
    /\ \/ recent' = Fresh /\ UNCHANGED saved
       \/ recent' = DictOffsets /\ saved' = DictOffsets
    /\ kept' = recent' /\ prevOffset' = recent'
    /\ UNCHANGED <<finder, emitted, counted, sent>>

\* The block's sequences are cleared; encodeAll saves the offsets; two finders forget
\* the second offset.
StartBlock ==
    /\ place = "idle"
    /\ place' = "search"
    /\ saved' = IF mode = "all" THEN recent ELSE saved
    /\ recent' = IF finder \in {"fast", "dfast"} THEN <<recent[1], 0, recent[3]>> ELSE recent
    /\ emitted' = 0 /\ counted' = 0 /\ prevOffset' = kept
    /\ UNCHANGED <<finder, mode, kept, sent>>

\* A block of one byte repeated is one sequence, whatever the offsets are.
RepeatedByte ==
    /\ finder \in {"better", "best"} /\ place = "search" /\ emitted = 0
    /\ Send(4, 1, 1)
    /\ place' = "done"
    /\ UNCHANGED <<finder, mode, recent, saved, kept, counted>>

\* A match found in the tables.  bestFastEncoder keeps three offsets and starts again.
NewMatch(distance, litLen) ==
    /\ place = "search"
    /\ Send(distance + 3, litLen, distance)
    /\ IF finder = "best"
       THEN /\ recent' = <<distance, recent[1], recent[2]>>
            /\ counted' = emitted' /\ UNCHANGED place
       ELSE /\ recent' = <<distance, recent[1], recent[3]>>
            /\ place' = "after" /\ UNCHANGED counted
    /\ UNCHANGED <<finder, mode, saved, kept>>

\* The last offset again, a little further on: never without literals.
RepeatLast ==
    /\ finder # "best" /\ place = "search" /\ MayRepeat
    /\ Send(1, 1, recent[1])
    /\ UNCHANGED <<finder, mode, recent, saved, kept, counted, place>>

\* "Check offset 2", right behind a new match: once, or for as long as there is one.
RepeatSecond ==
    /\ finder # "best" /\ place = "after" /\ MayRepeat
    /\ Send(1, 0, recent[2])
    /\ IF finder = "fast"
       THEN recent' = <<recent[2], recent[2], recent[3]>>
                /\ place' = "search" /\ counted' = emitted'
       ELSE recent' = <<recent[2], recent[1], recent[3]>> /\ UNCHANGED <<place, counted>>
    /\ UNCHANGED <<finder, mode, saved, kept>>

SearchOn ==
    /\ place = "after"
    /\ place' = "search" /\ counted' = emitted
    /\ UNCHANGED <<finder, mode, recent, saved, kept, prevOffset, emitted, sent>>

\* bestFastEncoder behind literals: code k for its k-th offset.
RepeatBehind(k) ==
    /\ finder = "best" /\ place = "search" /\ MayRepeat
    /\ Send(k, 1, recent[k])
    /\ recent' = CASE k = 1 -> recent
                   [] k = 2 -> <<recent[2], recent[1], recent[3]>>
                   [] k = 3 -> <<recent[3], recent[1], recent[2]>>
    /\ counted' = emitted'
    /\ UNCHANGED <<finder, mode, saved, kept, place>>

\* bestFastEncoder at the end of the last match, codes 4|1, 4|2 and 4|3: the second
\* offset, the third, and one less than the first.
RepeatAt(k) ==
    /\ finder = "best" /\ place = "search" /\ MayRepeat
    /\ k = 3 => recent[1] > 1
    /\ Send(k, 0, IF k = 3 THEN recent[1] - 1 ELSE recent[k + 1])
    /\ recent' = CASE k = 1 -> <<recent[2], recent[1], recent[3]>>
                   [] k = 2 -> <<recent[3], recent[1], recent[2]>>
                   [] k = 3 -> <<recent[1] - 1, recent[1], recent[2]>>
    /\ counted' = emitted'
    /\ UNCHANGED <<finder, mode, saved, kept, place>>

\* The block is encoded: with its sequences; raw, when little was saved or the result
\* is too long; as a repeated byte or as literals.  The decoder keeps its offsets
\* after sequences only, the finder gets those of popOffsets after a raw block.
EndBlock ==
    /\ place \in {"search", "after", "done"}
    /\ place' = IF mode = "alone" THEN "over" ELSE "idle"
    /\ \/ emitted > 0 /\ kept' = prevOffset /\ UNCHANGED recent
       \/ emitted > 0 /\ kept' = kept /\ recent' = saved
       \/ /\ emitted = 0 \/ (emitted = 1 /\ sent.meant = 1)
          /\ UNCHANGED <<kept, recent>>
    /\ UNCHANGED <<finder, mode, saved, prevOffset, emitted, counted, sent>>

OffsetsNext ==
    \/ NewStream \/ StartBlock \/ RepeatedByte \/ RepeatLast \/ RepeatSecond \/ SearchOn
    \/ \E distance \in Distances, litLen \in 0..1 : NewMatch(distance, litLen)
    \/ \E k \in 1..3 : RepeatBehind(k) \/ RepeatAt(k)
    \/ EndBlock

OffsetsSpec == OffsetsInit /\ [][OffsetsNext]_offsetVars

------------------------------------------------------------------------------
\* Every sequence is read with the distance its match was found at, whatever block,
\* stream and finder it comes from.
OffsetsInStep == sent.meant = sent.read

Three(p) == p[1] \in Nat /\ p[2] \in Nat /\ p[3] \in Nat

\* Why: after n sequences of a block the first n offsets of both sides agree, as far as
\* the finder keeps them, and nothing is repeated before the third.
OffsetsInv ==
    /\ OffsetsInStep
    /\ emitted \in 0..3
    /\ Three(recent) /\ Three(saved) /\ Three(kept) /\ Three(prevOffset)
    /\ counted \in 0..3
    /\ place \in {"search", "after"} =>
         /\ counted <= emitted
         /\ emitted >= 1 => recent[1] = prevOffset[1] /\ prevOffset[1] > 0
         /\ emitted >= 2 => prevOffset[2] > 0
         /\ emitted >= 3 => prevOffset[3] > 0
         /\ emitted >= 2 /\ (place = "after" \/ finder # "fast") => recent[2] = prevOffset[2]
         /\ emitted >= 3 /\ finder = "best" => recent[3] = prevOffset[3]
==============================================================================
