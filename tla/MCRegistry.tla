----------------------------- MODULE MCRegistry -----------------------------
(***************************************************************************)
(* Model-checking instances of Registry.                                   *)
(***************************************************************************)
EXTENDS Registry
=============================================================================
