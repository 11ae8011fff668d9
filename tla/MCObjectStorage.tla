-------------------------- MODULE MCObjectStorage --------------------------
(***************************************************************************)
(* Model-checking instances of ObjectStorage: three contents, the first    *)
(* two of the same size.                                                   *)
(***************************************************************************)
EXTENDS ObjectStorage

ThreeSizes == [c \in 1..3 |-> IF c = 3 THEN 2 ELSE 1]
=============================================================================
