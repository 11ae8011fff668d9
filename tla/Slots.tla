-------------------------------- MODULE Slots --------------------------------
(***************************************************************************)
(* What a bounded pool promises, whether it is the channel of the webhook  *)
(* server or the errgroup of git_fetch: clients come and go, each holds at *)
(* most one slot, it is returned once, and never are more slots taken than *)
(* there are.                                                              *)
(***************************************************************************)
EXTENDS Naturals, FiniteSets

CONSTANT Clients

VARIABLES
  cap,   \* slots there are
  held   \* clients that hold one

vars == <<cap, held>>

Init == cap \in Nat /\ held = {}

Acquire(c) ==
  /\ c \notin held
  /\ Cardinality(held) < cap
  /\ held' = held \cup {c}
  /\ UNCHANGED cap

Release(c) ==
  /\ c \in held
  /\ held' = held \ {c}
  /\ UNCHANGED cap

Next == \E c \in Clients : Acquire(c) \/ Release(c)

Spec == Init /\ [][Next]_vars

-----------------------------------------------------------------------------
\* Nobody keeps a slot for ever.
Drains == []<>(held = {})
=============================================================================
