------------------------------- MODULE MCAudit -------------------------------
(***************************************************************************)
(* Model-checking instances of Audit.                                      *)
(***************************************************************************)
EXTENDS Audit

\* No row, no ANALYZE yet, and both edges of the tolerance: 5 rows and a tenth.
EdgeCounts == {-2, -1, 5, 54, 60, 61}
=============================================================================
