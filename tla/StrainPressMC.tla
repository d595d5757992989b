---------------------------- MODULE StrainPressMC ----------------------------
(* Legacy encounters for TLC.                                              *)
EXTENDS StrainPress

\* The first user has two of each strain, whoever else is there none: both a user who never
\* comes to a first find and one whose first press is one.
FirstHasTwo == [u \in Users |-> IF u = 1 THEN 2 ELSE 0]

NoneLeft == [u \in Users |-> 0]
=============================================================================
