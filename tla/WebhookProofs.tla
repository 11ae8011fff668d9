--------------------------- MODULE WebhookProofs ----------------------------
(***************************************************************************)
(* Proofs about the webhook receiver, for every set of deliveries, every   *)
(* capacity and every assignment of projects.                              *)
(*                                                                         *)
(* The safety invariants are not inductive by themselves.  IInv adds what  *)
(* they rest on: a request that has not been through m.mu has neither been *)
(* cancelled by another trigger nor produced a result (NotBegun), the      *)
(* order of the Trigger calls is below the clock (OrderBound), a delivery  *)
(* announces nothing the primary does not hold (SeenBound), and a fetch    *)
(* only runs when there is something to run it (FetchAllowed).  Outcome,   *)
(* proved from IInv, says what the result of a trigger means.              *)
(***************************************************************************)
EXTENDS Webhook, FiniteSetTheorems, TLAPS

NotBegun ==
  \A r \in Requests : pc[r] \notin Begun =>
     /\ ctx[r] # "superseded"
     /\ result[r] = "none"

OrderBound == \A r \in Requests : order[r] <= clock

SeenBound == \A r \in Requests : seen[r] <= primary[proj[r]]

FetchAllowed == \A r \in Requests : pc[r] = "fetching" => mode = "fetch"

IInv ==
  /\ TypeOK
  /\ SlotAccounting
  /\ PendingIsRunning
  /\ SupersededIsCovered
  /\ NotBegun
  /\ OrderBound
  /\ SeenBound
  /\ FetchAllowed

-----------------------------------------------------------------------------
\* Typing is preserved by every step of the receiver.
LEMMA TypeStep == TypeOK /\ SlotAccounting /\ [Next]_vars => TypeOK'
<1> SUFFICES ASSUME TypeOK, SlotAccounting, [Next]_vars PROVE TypeOK'
  OBVIOUS
<1> USE WebhookAssumption DEF TypeOK, States, Answered, Holding, Triggered, Goto, fetchVars
<1>1. ASSUME NEW p \in Projects, Push(p) PROVE TypeOK'
  BY <1>1 DEF Push
<1>2. CASE Shutdown
  BY <1>2 DEF Shutdown
<1>3. ASSUME NEW r \in Requests, Receive(r) PROVE TypeOK'
  BY <1>3 DEF Receive
<1>4. ASSUME NEW r \in Requests, Expire(r) PROVE TypeOK'
  BY <1>4 DEF Expire
<1>5. ASSUME NEW r \in Requests, Handler(r) PROVE TypeOK'
  <2>1. CASE Reject(r)
    BY <2>1 DEF Reject
  <2>2. CASE Drop(r)
    BY <2>2 DEF Drop
  <2>3. CASE Accept(r)
    BY <2>3 DEF Accept
  <2> QED
    BY <1>5, <2>1, <2>2, <2>3 DEF Handler
<1>6. ASSUME NEW r \in Requests, Goroutine(r) PROVE TypeOK'
  <2>1. CASE Begin(r)
    BY <2>1 DEF Begin, CancelPending
  <2>2. CASE DebounceCancelled(r)
    BY <2>2 DEF DebounceCancelled
  <2>3. CASE DebounceElapsed(r)
    BY <2>3 DEF DebounceElapsed
  <2>4. CASE TriggerNoop(r)
    BY <2>4 DEF TriggerNoop
  <2>5. CASE FetchStart(r)
    BY <2>5 DEF FetchStart
  <2>6. CASE FetchOK(r)
    BY <2>6 DEF FetchOK
  <2>7. CASE FetchFails(r)
    BY <2>7 DEF FetchFails
  <2>8. CASE Cleanup(r)
    BY <2>8 DEF Cleanup
  <2>9. CASE Release(r)
    BY <2>9 DEF Release
  <2> QED
    BY <1>6, <2>1, <2>2, <2>3, <2>4, <2>5, <2>6, <2>7, <2>8, <2>9 DEF Goroutine
<1>7. CASE UNCHANGED vars
  BY <1>7 DEF vars
<1> QED
  BY <1>1, <1>2, <1>3, <1>4, <1>5, <1>6, <1>7 DEF Next

\* What a step can do to the channel: nothing, or Accept adds a request to Slots,
\* or Release takes one out, and the channel moves by one in the same direction.
Taken(r) == r \notin Slots /\ sem < Cap /\ sem' = sem + 1 /\ Slots' = Slots \cup {r}
GivenBack(r) == r \in Slots /\ sem' = sem - 1 /\ Slots' = Slots \ {r}

LEMMA SlotMoves ==
  TypeOK /\ [Next]_vars =>
    \/ sem' = sem /\ Slots' = Slots
    \/ \E r \in Requests : Taken(r) \/ GivenBack(r)
<1> SUFFICES ASSUME TypeOK, [Next]_vars,
                    ~ (sem' = sem /\ Slots' = Slots)
             PROVE  \E r \in Requests : Taken(r) \/ GivenBack(r)
  OBVIOUS
<1>3. ASSUME NEW r \in Requests, Accept(r) PROVE Taken(r)
  BY <1>3 DEF Accept, Slots, Holding, Triggered, Goto, TypeOK, Taken
<1>4. ASSUME NEW r \in Requests, Release(r) PROVE GivenBack(r)
  BY <1>4 DEF Release, Slots, Holding, Triggered, Goto, TypeOK, GivenBack
<1>5. ASSUME NEW r \in Requests,
             Receive(r) \/ Expire(r) \/ Reject(r) \/ Drop(r) \/ Begin(r)
             \/ DebounceCancelled(r) \/ DebounceElapsed(r) \/ TriggerNoop(r)
             \/ FetchStart(r) \/ FetchOK(r) \/ FetchFails(r) \/ Cleanup(r)
      PROVE  sem' = sem /\ Slots' = Slots
  <2> USE DEF Slots, Holding, Triggered, Goto, TypeOK
  <2>1. CASE Receive(r) \/ Reject(r) \/ Drop(r) \/ Expire(r)
    BY <2>1 DEF Receive, Reject, Drop, Expire
  <2>2. CASE Begin(r) \/ DebounceCancelled(r) \/ DebounceElapsed(r)
    BY <2>2 DEF Begin, DebounceCancelled, DebounceElapsed
  <2>3. CASE TriggerNoop(r) \/ FetchStart(r) \/ FetchOK(r)
    BY <2>3 DEF TriggerNoop, FetchStart, FetchOK
  <2>4. CASE FetchFails(r) \/ Cleanup(r)
    BY <2>4 DEF FetchFails, Cleanup
  <2> QED
    BY <1>5, <2>1, <2>2, <2>3, <2>4
<1>6. ~ (Shutdown \/ UNCHANGED vars \/ \E p \in Projects : Push(p))
  BY DEF Shutdown, vars, Push, Slots
<1> QED
  BY <1>3, <1>4, <1>5, <1>6 DEF Next, Handler, Goroutine

\* No step leaks a slot of sem or returns one twice.
LEMMA SlotStep == TypeOK /\ SlotAccounting /\ [Next]_vars => SlotAccounting'
<1> SUFFICES ASSUME TypeOK, SlotAccounting, [Next]_vars PROVE SlotAccounting'
  OBVIOUS
<1>1. IsFiniteSet(Slots) /\ Cardinality(Slots) \in Nat
  BY FS_Subset, FS_CardinalityType, WebhookAssumption DEF Slots
<1>2. CASE sem' = sem /\ Slots' = Slots
  BY <1>2 DEF SlotAccounting
<1>3. ASSUME NEW r \in Requests, Taken(r) PROVE SlotAccounting'
  <2>1. Cardinality(Slots') = Cardinality(Slots) + 1
    BY <1>1, <1>3, FS_AddElement DEF Taken
  <2> QED
    BY <1>1, <1>3, <2>1, WebhookAssumption DEF Taken, SlotAccounting
<1>4. ASSUME NEW r \in Requests, GivenBack(r) PROVE SlotAccounting'
  <2>1. Cardinality(Slots') = Cardinality(Slots) - 1
    BY <1>1, <1>4, FS_RemoveElement DEF GivenBack
  <2> QED
    BY <1>1, <1>4, <2>1, WebhookAssumption DEF GivenBack, SlotAccounting
<1> QED
  BY <1>2, <1>3, <1>4, SlotMoves

-----------------------------------------------------------------------------
\* The map stays clean: only Begin files a CancelFunc, and a trigger leaves
\* Triggered through Cleanup, which empties its project's entry.
LEMMA PendingStep == TypeOK /\ PendingIsRunning /\ [Next]_vars => PendingIsRunning'
<1> SUFFICES ASSUME TypeOK, PendingIsRunning, [Next]_vars PROVE PendingIsRunning'
  OBVIOUS
<1> USE WebhookAssumption DEF TypeOK, PendingIsRunning, Triggered, Goto, fetchVars
<1>1. ASSUME NEW p \in Projects, Push(p) PROVE PendingIsRunning'
  BY <1>1 DEF Push
<1>2. CASE Shutdown
  BY <1>2 DEF Shutdown
<1>3. ASSUME NEW r \in Requests, Receive(r) \/ Expire(r) PROVE PendingIsRunning'
  BY <1>3 DEF Receive, Expire
<1>4. ASSUME NEW r \in Requests, Handler(r) PROVE PendingIsRunning'
  BY <1>4 DEF Handler, Reject, Drop, Accept
<1>5. ASSUME NEW r \in Requests, Goroutine(r) PROVE PendingIsRunning'
  <2>1. CASE Begin(r)
    BY <2>1 DEF Begin
  <2>2. CASE DebounceCancelled(r) \/ DebounceElapsed(r)
    BY <2>2 DEF DebounceCancelled, DebounceElapsed
  <2>3. CASE TriggerNoop(r) \/ FetchStart(r)
    BY <2>3 DEF TriggerNoop, FetchStart
  <2>4. CASE FetchOK(r) \/ FetchFails(r)
    BY <2>4 DEF FetchOK, FetchFails
  <2>5. CASE Cleanup(r)
    BY <2>5 DEF Cleanup
  <2>6. CASE Release(r)
    BY <2>6 DEF Release
  <2> QED
    BY <1>5, <2>1, <2>2, <2>3, <2>4, <2>5, <2>6 DEF Goroutine
<1>6. CASE UNCHANGED vars
  BY <1>6 DEF vars
<1> QED
  BY <1>1, <1>2, <1>3, <1>4, <1>5, <1>6 DEF Next

\* The auxiliary facts are preserved.
LEMMA AuxStep ==
  TypeOK /\ PendingIsRunning /\ NotBegun /\ OrderBound /\ SeenBound /\ FetchAllowed
  /\ [Next]_vars => (NotBegun /\ OrderBound /\ SeenBound /\ FetchAllowed)'
<1> SUFFICES ASSUME TypeOK, PendingIsRunning, NotBegun, OrderBound, SeenBound,
                    FetchAllowed, [Next]_vars
             PROVE  (NotBegun /\ OrderBound /\ SeenBound /\ FetchAllowed)'
  OBVIOUS
<1> DEFINE Aux == NotBegun /\ OrderBound /\ SeenBound /\ FetchAllowed
<1> USE WebhookAssumption
        DEF TypeOK, NotBegun, OrderBound, SeenBound, FetchAllowed, Begun,
            Triggered, Goto, fetchVars
<1>1. ASSUME NEW p \in Projects, Push(p) PROVE Aux'
  BY <1>1 DEF Push
<1>2. CASE Shutdown
  BY <1>2 DEF Shutdown
<1>3. ASSUME NEW r \in Requests, Receive(r) \/ Expire(r) PROVE Aux'
  BY <1>3 DEF Receive, Expire
<1>4. ASSUME NEW r \in Requests, Handler(r) PROVE Aux'
  BY <1>4 DEF Handler, Reject, Drop, Accept
<1>5. ASSUME NEW r \in Requests, Goroutine(r) PROVE Aux'
  <2>1. CASE Begin(r)
    BY <2>1 DEF Begin, CancelPending, PendingIsRunning
  <2>2. CASE DebounceCancelled(r) \/ DebounceElapsed(r)
    BY <2>2 DEF DebounceCancelled, DebounceElapsed
  <2>3. CASE TriggerNoop(r) \/ FetchStart(r)
    BY <2>3 DEF TriggerNoop, FetchStart
  <2>4. CASE FetchOK(r) \/ FetchFails(r)
    BY <2>4 DEF FetchOK, FetchFails
  <2>5. CASE Cleanup(r) \/ Release(r)
    BY <2>5 DEF Cleanup, Release
  <2> QED
    BY <1>5, <2>1, <2>2, <2>3, <2>4, <2>5 DEF Goroutine
<1>6. CASE UNCHANGED vars
  BY <1>6 DEF vars
<1> QED
  BY <1>1, <1>2, <1>3, <1>4, <1>5, <1>6 DEF Next

-----------------------------------------------------------------------------
\* s stands in for the cancelled trigger r.
Covers(s, r) ==
  /\ pc[s] \in Begun
  /\ proj[s] = proj[r]
  /\ order[s] > order[r]
  /\ ctx[s] # "superseded"
  /\ Fetched(s) => snap[s] >= seen[r]

\* A step that is not a Begin cancels nobody in favour of another, and the
\* stand-in of a cancelled trigger goes on standing in for it.
LEMMA CoverKept ==
  ASSUME IInv, [Next]_vars, ~ \E n \in Requests : Begin(n),
         NEW r \in Requests, ctx'[r] = "superseded",
         NEW s \in Requests, ctx[r] = "superseded" => Covers(s, r)
  PROVE  ctx[r] = "superseded" /\ Covers(s, r)'
<1> DEFINE Goal == ctx[r] = "superseded" /\ Covers(s, r)'
<1> USE WebhookAssumption
        DEF IInv, TypeOK, NotBegun, SeenBound, FetchAllowed, Begun, Triggered,
            Goto, fetchVars, Covers, Fetched
<1>1. ASSUME NEW p \in Projects, Push(p) PROVE Goal
  BY <1>1 DEF Push
<1>2. CASE Shutdown
  BY <1>2 DEF Shutdown
<1>3. ASSUME NEW n \in Requests, Receive(n) \/ Expire(n) PROVE Goal
  <2>1. CASE Receive(n)
    BY <2>1 DEF Receive
  <2>2. CASE Expire(n)
    BY <2>2 DEF Expire
  <2> QED
    BY <1>3, <2>1, <2>2
<1>4. ASSUME NEW n \in Requests, Handler(n) PROVE Goal
  <2>1. CASE Reject(n) \/ Drop(n)
    BY <2>1 DEF Reject, Drop
  <2>2. CASE Accept(n)
    BY <2>2 DEF Accept
  <2> QED
    BY <1>4, <2>1, <2>2 DEF Handler
<1>5. ASSUME NEW n \in Requests, Goroutine(n) PROVE Goal
  <2>1. CASE DebounceCancelled(n) \/ DebounceElapsed(n)
    BY <2>1 DEF DebounceCancelled, DebounceElapsed
  <2>2. CASE TriggerNoop(n)
    BY <2>2 DEF TriggerNoop
  <2>3. CASE FetchStart(n)
    BY <2>3 DEF FetchStart
  <2>4. CASE FetchOK(n)
    BY <2>4 DEF FetchOK
  <2>5. CASE FetchFails(n)
    BY <2>5 DEF FetchFails
  <2>6. CASE Cleanup(n) \/ Release(n)
    BY <2>6 DEF Cleanup, Release
  <2> QED
    BY <1>5, <2>1, <2>2, <2>3, <2>4, <2>5, <2>6 DEF Goroutine
<1>6. CASE UNCHANGED vars
  BY <1>6 DEF vars
<1> QED
  BY <1>1, <1>2, <1>3, <1>4, <1>5, <1>6 DEF Next

\* Begin(n) cancels at most the trigger registered for its own project.  For
\* that project n stands in for everyone; the stand-ins of other projects are
\* untouched, because an entry of the map belongs to its project.
LEMMA CoverBegin ==
  ASSUME IInv, NEW n \in Requests, Begin(n)
  PROVE  SupersededIsCovered'
<1> USE WebhookAssumption DEF IInv, TypeOK, Begun, Triggered
<1> SUFFICES ASSUME NEW r \in Requests, ctx'[r] = "superseded"
             PROVE  \E s \in Requests : Covers(s, r)'
  BY DEF SupersededIsCovered, Covers, Fetched
<1>1. CASE proj[r] = proj[n]
  <2>1. n # r
    BY DEF Begin, NotBegun, CancelPending, PendingIsRunning
  <2>2. pc'[n] \in Begun /\ ctx'[n] # "superseded" /\ ~ Fetched(n)'
    BY DEF Begin, NotBegun, CancelPending, PendingIsRunning, Goto, Fetched
  <2>3. order'[n] > order'[r]
    BY <2>1 DEF Begin, OrderBound
  <2> QED
    BY <1>1, <2>2, <2>3 DEF Covers, Begin
<1>2. CASE proj[r] # proj[n]
  <2>1. ctx[r] = "superseded"
    BY <1>2 DEF Begin, CancelPending, PendingIsRunning
  <2>2. PICK s \in Requests : Covers(s, r)
    BY <2>1 DEF SupersededIsCovered, Covers, Fetched
  <2>3. s # n /\ r # n /\ s # pending[proj[n]]
    BY <1>2, <2>2 DEF Covers, PendingIsRunning
  <2>4. /\ pc'[s] = pc[s] /\ order'[s] = order[s] /\ order'[r] = order[r]
        /\ ctx'[s] = ctx[s] /\ UNCHANGED <<mode, proj, seen, snap, result>>
    BY <2>3 DEF Begin, CancelPending, Goto
  <2> QED
    BY <2>2, <2>4 DEF Covers, Fetched
<1> QED
  BY <1>1, <1>2

\* Every step keeps each cancelled trigger covered.
LEMMA CoverStep == IInv /\ [Next]_vars => SupersededIsCovered'
<1> SUFFICES ASSUME IInv, [Next]_vars PROVE SupersededIsCovered'
  OBVIOUS
<1>1. ASSUME NEW n \in Requests, Begin(n) PROVE SupersededIsCovered'
  BY <1>1, CoverBegin
<1>2. CASE ~ \E n \in Requests : Begin(n)
  <2> SUFFICES ASSUME NEW r \in Requests, ctx'[r] = "superseded"
               PROVE  \E s \in Requests : Covers(s, r)'
    BY DEF SupersededIsCovered, Covers, Fetched
  <2>1. PICK s \in Requests : ctx[r] = "superseded" => Covers(s, r)
    BY DEF IInv, SupersededIsCovered, Covers, Fetched
  <2>2. Covers(s, r)'
    BY <1>2, <2>1, CoverKept
  <2> QED
    BY <2>2
<1> QED
  BY <1>1, <1>2

-----------------------------------------------------------------------------
\* The receiver starts with no delivery and an empty map.
LEMMA InitIInv == Init => IInv
<1> SUFFICES ASSUME Init PROVE IInv
  OBVIOUS
<1>1. Slots = {}
  BY DEF Init, Slots, Holding, Triggered
<1>2. SlotAccounting
  BY <1>1, FS_EmptySet, WebhookAssumption DEF Init, SlotAccounting
<1>3. TypeOK
  BY WebhookAssumption, ModesAssumption DEF Init, TypeOK, States
<1>4. PendingIsRunning /\ SupersededIsCovered
  BY DEF Init, PendingIsRunning, SupersededIsCovered
<1>5. NotBegun /\ OrderBound /\ SeenBound /\ FetchAllowed
  BY DEF Init, NotBegun, OrderBound, SeenBound, FetchAllowed
<1> QED
  BY <1>2, <1>3, <1>4, <1>5 DEF IInv

\* IInv is inductive.
THEOREM Inductive == Spec => []IInv
<1>1. IInv /\ [Next]_vars => IInv'
  BY TypeStep, SlotStep, PendingStep, AuxStep, CoverStep DEF IInv
<1> QED
  BY InitIInv, <1>1, PTL DEF Spec

\* Every variable of the receiver keeps its type.
THEOREM TypeCorrect == Spec => []TypeOK
  BY Inductive, PTL DEF IInv

\* The channel holds one element per running trigger goroutine, at most Cap.
THEOREM SlotsAccounted == Spec => []SlotAccounting
  BY Inductive, PTL DEF IInv

\* The receiver implements the abstract pool of slots: a step of its code takes
\* one free slot, returns one taken slot, or leaves the pool alone.
THEOREM PoolImplemented == Spec => ImplementsPool
<1>1. Init => Pool!Init
  BY WebhookAssumption DEF Init, Pool!Init, Slots, Holding, Triggered
<1>2. TypeOK /\ SlotAccounting /\ [Next]_vars => [Pool!Next]_(Pool!vars)
  <2> SUFFICES ASSUME TypeOK, SlotAccounting, [Next]_vars
               PROVE  [Pool!Next]_(Pool!vars)
    OBVIOUS
  <2>1. CASE Slots' = Slots
    BY <2>1 DEF Pool!vars
  <2>2. ASSUME NEW r \in Requests, Taken(r) PROVE Pool!Acquire(r)
    <3>1. Pool!Cardinality(Slots) = Cardinality(Slots)
      BY Zenon DEF Pool!Cardinality, Cardinality
    <3> QED
      BY <2>2, <3>1 DEF Taken, Pool!Acquire, SlotAccounting
  <2>3. ASSUME NEW r \in Requests, GivenBack(r) PROVE Pool!Release(r)
    BY <2>3 DEF GivenBack, Pool!Release
  <2> QED
    BY <2>1, <2>2, <2>3, SlotMoves DEF Pool!Next
<1> QED
  BY <1>1, <1>2, Inductive, PTL DEF Spec, ImplementsPool, Pool!Spec, IInv

\* The map of CancelFuncs holds running triggers only, each under its project.
THEOREM PendingRuns == Spec => []PendingIsRunning
  BY Inductive, PTL DEF IInv

\* Debouncing never drops a push announcement without a later trigger, itself
\* not cancelled by another, whose fetch sees that push.
THEOREM DebounceCovers == Spec => []SupersededIsCovered
  BY Inductive, PTL DEF IInv

\* A dry run never writes to a repository on the secondary.
THEOREM DryRunSafe == Spec => DryRunTouchesNothing
<1>1. ASSUME IInv, [Next]_vars PROVE [mode # "fetch" => UNCHANGED replica]_vars
  <2>1. ASSUME NEW r \in Requests, Goroutine(r), mode # "fetch"
        PROVE  UNCHANGED replica
    <3>1. ~ FetchOK(r)
      BY <1>1, <2>1 DEF IInv, FetchAllowed, FetchOK
    <3> QED
      BY <2>1, <3>1 DEF Goroutine, Begin, DebounceCancelled, DebounceElapsed,
           TriggerNoop, FetchStart, FetchFails, Cleanup, Release
  <2>2. ASSUME NEW r \in Requests, Receive(r) \/ Expire(r) \/ Handler(r)
        PROVE  UNCHANGED replica
    BY <2>2 DEF Receive, Expire, Handler, Reject, Drop, Accept
  <2>3. CASE Shutdown \/ \E p \in Projects : Push(p)
    BY <2>3 DEF Shutdown, Push
  <2> QED
    BY <1>1, <2>1, <2>2, <2>3 DEF Next
<1> QED
  BY <1>1, Inductive, PTL DEF Spec, DryRunTouchesNothing

-----------------------------------------------------------------------------
\* How a trigger ended: with a result, cancelled only when its context was done,
\* and with a fetch only after the primary had all that it announced.
Outcome ==
  \A r \in Requests :
     /\ pc[r] \in {"cleanup", "release", "done"} => result[r] # "none"
     /\ result[r] = "cancelled" => ctx[r] # "live"
     /\ mode = "fetch" /\ (pc[r] = "fetching" \/ result[r] = "ok") => snap[r] >= seen[r]

LEMMA OutcomeStep == IInv /\ Outcome /\ [Next]_vars => Outcome'
<1> SUFFICES ASSUME IInv, Outcome, [Next]_vars PROVE Outcome'
  OBVIOUS
<1> USE WebhookAssumption
        DEF IInv, TypeOK, NotBegun, SeenBound, Outcome, Begun, Triggered, Goto, fetchVars
<1>1. ASSUME NEW p \in Projects, Push(p) PROVE Outcome'
  BY <1>1 DEF Push
<1>2. CASE Shutdown
  BY <1>2 DEF Shutdown
<1>3. ASSUME NEW r \in Requests, Receive(r) \/ Expire(r) PROVE Outcome'
  BY <1>3 DEF Receive, Expire
<1>4. ASSUME NEW r \in Requests, Handler(r) PROVE Outcome'
  BY <1>4 DEF Handler, Reject, Drop, Accept
<1>5. ASSUME NEW r \in Requests, Goroutine(r) PROVE Outcome'
  <2>1. CASE Begin(r)
    BY <2>1 DEF Begin, CancelPending
  <2>2. CASE DebounceCancelled(r) \/ DebounceElapsed(r)
    BY <2>2 DEF DebounceCancelled, DebounceElapsed
  <2>3. CASE TriggerNoop(r)
    BY <2>3 DEF TriggerNoop
  <2>4. CASE FetchStart(r)
    BY <2>4 DEF FetchStart
  <2>5. CASE FetchOK(r) \/ FetchFails(r)
    BY <2>5 DEF FetchOK, FetchFails
  <2>6. CASE Cleanup(r) \/ Release(r)
    BY <2>6 DEF Cleanup, Release
  <2> QED
    BY <1>5, <2>1, <2>2, <2>3, <2>4, <2>5, <2>6 DEF Goroutine
<1>6. CASE UNCHANGED vars
  BY <1>6 DEF vars
<1> QED
  BY <1>1, <1>2, <1>3, <1>4, <1>5, <1>6 DEF Next

\* Once the receiver is at rest, what an accepted delivery announced was fetched
\* by a trigger of its project, or one of them failed or ran out of time: the
\* delivery's own, or the one in whose favour it was cancelled.
THEOREM AcceptedServed == Spec => []AcceptedIsServed
<1>1. Init => Outcome
  BY DEF Init, Outcome
<1>2. IInv /\ Outcome => AcceptedIsServed
  <2> SUFFICES ASSUME IInv, Outcome, Slots = {}, mode = "fetch",
                      NEW r \in Requests, pc[r] = "done"
               PROVE  \E s \in Requests :
                         /\ proj[s] = proj[r]
                         /\ \/ result[s] = "ok" /\ snap[s] >= seen[r]
                            \/ result[s] = "failed"
                            \/ ctx[s] = "expired"
    BY DEF AcceptedIsServed
  <2>1. ASSUME NEW s \in Requests, pc[s] \in Begun
        PROVE  /\ result[s] \in {"ok", "failed", "cancelled"}
               /\ result[s] = "cancelled" => ctx[s] \in {"superseded", "expired"}
    <3>1. pc[s] = "done"
      BY <2>1 DEF Slots, Begun, Holding, Triggered
    <3> QED
      BY <2>1, <3>1 DEF IInv, TypeOK, Outcome
  <2>2. CASE ctx[r] # "superseded"
    BY <2>1, <2>2 DEF Outcome, Begun
  <2>3. CASE ctx[r] = "superseded"
    <3>1. PICK s \in Requests : Covers(s, r)
      BY <2>3 DEF IInv, SupersededIsCovered, Covers, Fetched
    <3>2. result[s] = "ok" => snap[s] >= seen[r]
      BY <3>1 DEF Covers, Fetched
    <3> QED
      BY <2>1, <3>1, <3>2 DEF Covers
  <2> QED
    BY <2>2, <2>3
<1> QED
  BY <1>1, <1>2, OutcomeStep, Inductive, PTL DEF Spec
=============================================================================
