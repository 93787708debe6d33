------------------------------- MODULE FrameSink -------------------------------
(***************************************************************************)
(* What a Writer promises its caller, whatever happens inside: bytes are   *)
(* taken and passed on in order, a frame is only finished when everything  *)
(* taken was passed on, and a frame that broke stays broken until the next *)
(* one is started.                                                         *)
(***************************************************************************)
EXTENDS Naturals

VARIABLES
  taken,   \* bytes taken from the caller for the current frame
  sent,    \* how many of them are in blocks of the frame
  state    \* "open", "done" or "broken"

Init == taken = 0 /\ sent = 0 /\ state = "open"

(* A new frame may be started at any time. *)
Start == taken' = 0 /\ sent' = 0 /\ state' = "open"

(* Bytes are taken, and some of those taken are passed on. *)
Accept ==
  /\ state = "open" /\ state' = "open"
  /\ taken' >= taken
  /\ sent' \in sent..taken'

Finish ==
  /\ state = "open" /\ state' = "done"
  /\ taken' = taken /\ sent' = taken

(* The frame breaks; how much of it got out is not promised ... *)
Break ==
  /\ state # "broken" /\ state' = "broken"
  /\ taken' >= taken
  /\ sent' \in sent..taken'

(* ... and from then on nothing is passed on. *)
Stall ==
  /\ state = "broken" /\ state' = "broken"
  /\ taken' >= taken
  /\ sent' = sent

Next == Start \/ Accept \/ Finish \/ Break \/ Stall

Spec == Init /\ [][Next]_<< taken, sent, state >>
=============================================================================
