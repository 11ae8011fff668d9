---------------------------- MODULE ReconcileCall ----------------------------
(***************************************************************************)
(* What one call of Reconcile promises, as reconciler.Result describes it: *)
(* the call lists its units - repositories, images or secondaries - comes  *)
(* to a verdict on each, and then says once how many are bad; it is OK if  *)
(* none is.  A call that cannot begin says that something remains.         *)
(*                                                                         *)
(* A cancelled call may stop in between and report on the units it has     *)
(* judged, OK among them.  git_fetch does so, against the words of Result  *)
(* ("fully in sync"); only a call that was left alone is held to them.     *)
(***************************************************************************)
EXTENDS Naturals, FiniteSets

CONSTANT Units  \* all that can be listed

VARIABLES
  units,      \* those this call has to judge
  verdict,    \* of each unit: "none" so far, "good" or "bad"
  cancelled,  \* the call's context
  result      \* ok and remaining, or <<>>

vars == <<units, verdict, cancelled, result>>

Bad == {u \in Units : verdict[u] = "bad"}
Unjudged == {u \in units : verdict[u] = "none"}

Init ==
  /\ units \in SUBSET Units
  /\ verdict = [u \in Units |-> "none"]
  /\ cancelled = FALSE
  /\ result = <<>>

\* The units are settled before the first verdict.
List ==
  /\ result = <<>>
  /\ \A u \in Units : verdict[u] = "none"
  /\ units' \in SUBSET Units
  /\ UNCHANGED <<verdict, cancelled, result>>

\* A verdict is final, and none is added to a result that was returned.
Judge(u) ==
  /\ result = <<>>
  /\ verdict[u] = "none"
  /\ \E v \in {"good", "bad"} : verdict' = [verdict EXCEPT ![u] = v]
  /\ UNCHANGED <<units, cancelled, result>>

Cancel ==
  /\ ~ cancelled /\ cancelled' = TRUE
  /\ UNCHANGED <<units, verdict, result>>

\* No unit is passed over, unless the call is cancelled.
Return ==
  /\ result = <<>>
  /\ Unjudged = {} \/ cancelled
  /\ result' = <<Bad = {}, Cardinality(Bad)>>
  /\ UNCHANGED <<units, verdict, cancelled>>

GiveUp ==
  /\ result = <<>>
  /\ \A u \in Units : verdict[u] = "none"
  /\ result' \in {<<FALSE, n>> : n \in 1..(1 + 2 * Cardinality(Units))}
  /\ UNCHANGED <<units, verdict, cancelled>>

Next == List \/ (\E u \in units : Judge(u)) \/ Cancel \/ Return \/ GiveUp

Spec == Init /\ [][Next]_vars
=============================================================================
