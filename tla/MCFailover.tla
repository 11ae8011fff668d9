----------------------------- MODULE MCFailover -----------------------------
(***************************************************************************)
(* Model-checking instances of Failover.  All its constants are numbers    *)
(* and switches of the configuration, given in the .cfg files.             *)
(***************************************************************************)
EXTENDS Failover
=============================================================================
