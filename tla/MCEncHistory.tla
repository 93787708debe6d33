----------------------------- MODULE MCEncHistory -----------------------------
(* The instances of EncHistory whose windows are close: an encoder with one  *)
(* entry in a slot, or one that keeps two and searches a lone block in the   *)
(* history buffer.  Only the actions tell the two apart, no property does.   *)
EXTENDS EncHistory

VARIABLE family

Chain == INSTANCE EncHistory WITH Family <- "better"

ASSUME MCEncHistoryAssumption == CloseWindows /\ Family = "fast"

MCInit == Init /\ family \in {"fast", "better"}

MCNext ==
  /\ \/ family = "fast" /\ Next
     \/ family = "better" /\ Chain!Next
  /\ UNCHANGED family

MCSpec == MCInit /\ [][MCNext]_<<vars, family>>
=============================================================================
