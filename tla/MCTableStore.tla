---------------------------- MODULE MCTableStore ----------------------------
(***************************************************************************)
(* Two machines side by side, chosen at the start: the pools of entropy    *)
(* tables, and the pools of frame and block decoders.                      *)
(*                                                                         *)
(* Two kinds of sequence code: enough to hold each other's memory.  One    *)
(* scratch or decoder more than they can hold.                             *)
(***************************************************************************)
EXTENDS TableStore, MCOneShot

CONSTANTS offsets, lengths, dictOf, dictMl, predefOf, predefMl

BothKinds == {offsets, lengths}

DictDecoders == (offsets :> dictOf) @@ (lengths :> dictMl)

PredefDecoders == (offsets :> predefOf) @@ (lengths :> predefMl)

Alike == Permutations(Built) \cup AlikeDecoders

VARIABLE part

MCInit == Init /\ OneShotInit /\ part \in {"tables", "decoders"}

MCNext ==
  \/ part = "tables" /\ Next /\ UNCHANGED <<sharedVars, part>>
  \/ part = "decoders" /\ OneShotNext /\ UNCHANGED <<vars, part>>

MCSpec == MCInit /\ [][MCNext]_<<vars, sharedVars, part>>
==============================================================================
