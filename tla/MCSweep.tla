------------------------------- MODULE MCSweep -------------------------------
(***************************************************************************)
(* Model-checking instances of Sweep.                                      *)
(***************************************************************************)
EXTENDS Sweep

NoPath == <<>>
TwoPaths == <<"uploads", "artifacts">>
=============================================================================
