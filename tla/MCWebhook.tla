----------------------------- MODULE MCWebhook ------------------------------
(***************************************************************************)
(* Model-checking instances of Webhook: a burst of deliveries.             *)
(***************************************************************************)
EXTENDS Webhook, TLC

\* Deliveries are interchangeable: without loss they come in by number, or
\* TLC is told of the symmetry (for runs without liveness).
InOrder ==
  \A r, s \in Requests : r < s /\ pc'[s] # "idle" => pc'[r] # "idle"

Symmetry == Permutations(Requests)
=============================================================================
