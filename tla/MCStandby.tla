----------------------------- MODULE MCStandby -----------------------------
(***************************************************************************)
(* Model-checking instance of Standby: two secondaries, "us" and "ap".     *)
(***************************************************************************)
EXTENDS Standby

MCName == <<"us", "ap">>

\* One slot for both; slots named as the secondaries; the first one's slot named
\* as the second one, which has none.
MCSlotConfigs == {<<"geo", "geo">>, <<"us", "ap">>, <<"ap", "">>}
=============================================================================
