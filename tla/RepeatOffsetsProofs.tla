------------------------- MODULE RepeatOffsetsProofs -------------------------
(***************************************************************************)
(* The two copies of the recent offsets agree where a repeat code is used, *)
(* for all distances and dictionaries.                                     *)
(***************************************************************************)
EXTENDS RepeatOffsets, TLAPS

\* What the decoder makes of the codes: a new offset is put in front; of the old ones
\* the first, the second, the third and one less than the first are named.
LEMMA ReadNew ==
    ASSUME NEW p, NEW value \in Nat, value > 3, NEW litLen
    PROVE  adjustOffset(p, value, litLen) = <<value - 3, p[1], p[2]>>
  BY DEF adjustOffset

LEMMA ReadLast ==
    ASSUME NEW p
    PROVE  adjustOffset(p, 1, 1) = p
  BY DEF adjustOffset

LEMMA ReadSecond ==
    ASSUME NEW p, p[2] \in Nat, p[2] > 0
    PROVE  /\ adjustOffset(p, 1, 0) = <<p[2], p[1], p[3]>>
           /\ adjustOffset(p, 2, 1) = <<p[2], p[1], p[3]>>
  BY DEF adjustOffset

LEMMA ReadThird ==
    ASSUME NEW p, p[3] \in Nat, p[3] > 0
    PROVE  /\ adjustOffset(p, 2, 0) = <<p[3], p[1], p[2]>>
           /\ adjustOffset(p, 3, 1) = <<p[3], p[1], p[2]>>
  BY DEF adjustOffset

LEMMA ReadOneLess ==
    ASSUME NEW p, p[1] \in Nat, p[1] > 1
    PROVE  adjustOffset(p, 3, 0) = <<p[1] - 1, p[1], p[2]>>
  BY DEF adjustOffset

------------------------------------------------------------------------------
LEMMA OffsetsStart == OffsetsInit => OffsetsInv
  BY DEF OffsetsInit, OffsetsInv, OffsetsInStep, Three, Fresh, NoneSent

\* One step per action.
LEMMA OffsetsStep == OffsetsInv /\ [OffsetsNext]_offsetVars => OffsetsInv'
<1> SUFFICES ASSUME OffsetsInv, [OffsetsNext]_offsetVars PROVE OffsetsInv'
  OBVIOUS
<1> USE DEF OffsetsInv, OffsetsInStep, Enough, Three
<1>1. CASE NewStream
  BY <1>1, OffsetsAssumption DEF NewStream, Fresh
<1>2. CASE StartBlock
  BY <1>2 DEF StartBlock
<1>3. CASE RepeatedByte
  <2>1. prevOffset' = <<1, prevOffset[1], prevOffset[2]>>
    BY <1>3, ReadNew DEF RepeatedByte, Send
  <2> QED
    BY <1>3, <2>1 DEF RepeatedByte, Send
<1>4. CASE RepeatLast
  <2>1. prevOffset' = prevOffset
    BY <1>4, ReadLast DEF RepeatLast, Send
  <2> QED
    BY <1>4, <2>1 DEF RepeatLast, Send, MayRepeat
<1>5. CASE RepeatSecond
  <2>1. emitted = 3
    BY <1>5 DEF RepeatSecond, MayRepeat
  <2>2. prevOffset' = <<prevOffset[2], prevOffset[1], prevOffset[3]>>
    BY <1>5, <2>1, ReadSecond DEF RepeatSecond, Send
  <2> QED
    BY <1>5, <2>1, <2>2 DEF RepeatSecond, Send
<1>6. CASE SearchOn
  BY <1>6 DEF SearchOn
<1>7. ASSUME NEW distance \in Distances, NEW litLen \in 0..1, NewMatch(distance, litLen)
      PROVE  OffsetsInv'
  <2>1. distance \in Nat \ {0}
    BY OffsetsAssumption
  <2>2. prevOffset' = <<distance, prevOffset[1], prevOffset[2]>>
    BY <1>7, <2>1, ReadNew DEF NewMatch, Send
  <2>3. CASE finder = "best"
    BY <1>7, <2>1, <2>2, <2>3 DEF NewMatch, Send
  <2>4. CASE finder # "best"
    BY <1>7, <2>1, <2>2, <2>4 DEF NewMatch, Send
  <2> QED
    BY <2>3, <2>4
<1>8. ASSUME NEW k \in 1..3, RepeatBehind(k) PROVE OffsetsInv'
  <2>1. emitted = 3 /\ finder = "best" /\ place = "search"
    BY <1>8 DEF RepeatBehind, MayRepeat
  <2>2. CASE k = 1
    BY <1>8, <2>1, <2>2, ReadLast DEF RepeatBehind, Send
  <2>3. CASE k = 2
    <3>1. prevOffset' = <<prevOffset[2], prevOffset[1], prevOffset[3]>>
      BY <1>8, <2>1, <2>3, ReadSecond DEF RepeatBehind, Send
    <3> QED
      BY <1>8, <2>1, <2>3, <3>1 DEF RepeatBehind, Send
  <2>4. CASE k = 3
    BY <1>8, <2>1, <2>4, ReadThird DEF RepeatBehind, Send
  <2> QED
    BY <2>2, <2>3, <2>4
<1>9. ASSUME NEW k \in 1..3, RepeatAt(k) PROVE OffsetsInv'
  <2>1. emitted = 3 /\ finder = "best" /\ place = "search"
    BY <1>9 DEF RepeatAt, MayRepeat
  <2>2. CASE k = 1
    <3>1. prevOffset' = <<prevOffset[2], prevOffset[1], prevOffset[3]>>
      BY <1>9, <2>1, <2>2, ReadSecond DEF RepeatAt, Send
    <3> QED
      BY <1>9, <2>1, <2>2, <3>1 DEF RepeatAt, Send
  <2>3. CASE k = 2
    BY <1>9, <2>1, <2>3, ReadThird DEF RepeatAt, Send
  <2>4. CASE k = 3
    BY <1>9, <2>1, <2>4, ReadOneLess DEF RepeatAt, Send
  <2> QED
    BY <2>2, <2>3, <2>4
<1>10. CASE EndBlock
  BY <1>10 DEF EndBlock
<1>11. CASE UNCHANGED offsetVars
  BY <1>11 DEF offsetVars
<1> QED
  BY <1>1, <1>2, <1>3, <1>4, <1>5, <1>6, <1>7, <1>8, <1>9, <1>10, <1>11 DEF OffsetsNext

\* Every repeat code a match finder sends is read by the decoder as the distance that
\* was meant, for all distances, dictionaries, block outcomes and orders of streams.
THEOREM RepeatedOffsetsInStep == OffsetsSpec => []OffsetsInStep
<1>1. OffsetsInv => OffsetsInStep
  BY DEF OffsetsInv
<1> QED
  BY <1>1, OffsetsStart, OffsetsStep, PTL DEF OffsetsSpec
==============================================================================
