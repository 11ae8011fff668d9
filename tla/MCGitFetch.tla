----------------------------- MODULE MCGitFetch -----------------------------
(***************************************************************************)
(* Model-checking instances of GitFetch.                                   *)
(***************************************************************************)
EXTENDS GitFetch
=============================================================================
