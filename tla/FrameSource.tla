------------------------------ MODULE FrameSource ------------------------------
(***************************************************************************)
(* What a Reader promises its caller, whatever its buffers do: the bytes   *)
(* of the compressed input come out once and in order, the end is reported *)
(* only for an input that is whole and was handed over completely, and     *)
(* nothing follows an end or a failure until the next input.               *)
(***************************************************************************)
EXTENDS Naturals

CONSTANT Inputs   (* the inputs: how many bytes each stands for, and whether it is whole *)

VARIABLES
  input,   \* the input being read
  got,     \* bytes of it the caller has
  state    \* "open", "ended" or "failed"

Init == input \in Inputs /\ got = 0 /\ state = "open"

(* Another input may be taken at any time. *)
Start == input' \in Inputs /\ got' = 0 /\ state' = "open"

Deliver ==
  /\ state = "open" /\ state' = "open"
  /\ got' \in got..input.bytes
  /\ UNCHANGED input

End ==
  /\ state = "open" /\ state' = "ended"
  /\ input.whole /\ got = input.bytes
  /\ UNCHANGED << input, got >>

(* A failure may come with the last bytes that could be handed over. *)
Fail ==
  /\ state # "failed" /\ state' = "failed"
  /\ got' \in got..input.bytes
  /\ UNCHANGED input

Next == Start \/ Deliver \/ End \/ Fail

Spec == Init /\ [][Next]_<< input, got, state >>
=============================================================================
