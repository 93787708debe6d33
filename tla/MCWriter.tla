------------------------------- MODULE MCWriter -------------------------------
(* The instances of Writer that TLC checks. *)
EXTENDS Writer

(* Level 0 leaves wndSize at 0, the others set a window above MaxBlock. *)
LevelWindowDef == [l \in Levels |-> IF l = 0 THEN 0 ELSE 8]
(* Sizes given to ResetContentSize: unknown, below and above FcsMin. *)
ContentSizesDef == {-1, 1, 4}
NoSizesDef == {-1}
=============================================================================
