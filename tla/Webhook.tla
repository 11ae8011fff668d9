------------------------------ MODULE Webhook -------------------------------
(***************************************************************************)
(* The webhook receiver of `geoctl serve` (internal/webhook) wired, as     *)
(* buildWebhookServer does, to the per-project fetch of the git_fetch      *)
(* reconciler.                                                             *)
(*                                                                         *)
(* A delivery is handled by its own HTTP goroutine (handleWebhook).  An    *)
(* acceptable one takes a slot of the channel `sem' and spawns a goroutine *)
(* that calls TriggerManager.Trigger: cancel the trigger registered for    *)
(* the project, register this one, wait for the debounce timer, fetch.     *)
(* Every delivery is one element of Requests, so a request identifies its  *)
(* handler, its goroutine, its context and its CancelFunc.                 *)
(*                                                                         *)
(* The repository of a project is abstracted to the number of pushes it    *)
(* holds: primary[p] on the primary, replica[p] on the secondary.          *)
(***************************************************************************)
EXTENDS Integers, FiniteSets

CONSTANTS
  Requests,       \* the webhook deliveries of one behaviour
  NoRequest,      \* "no CancelFunc in the map"
  Projects,       \* projects the deliveries name
  LegacyProjects, \* projects whose repository lies at <path>.git on disk
  Cap,            \* capacity of sem: make(chan struct{}, 8)
  MaxPush,        \* bound: pushes to one project
  Modes           \* modes serve may have been started in

ASSUME WebhookAssumption ==
  /\ IsFiniteSet(Requests)
  /\ NoRequest \notin Requests
  /\ LegacyProjects \subseteq Projects
  /\ Cap \in Nat \ {0}
  /\ MaxPush \in Nat

ASSUME ModesAssumption == Modes \subseteq {"fetch", "dryrun", "nofetcher"}

VARIABLES
  mode,     \* there is a gitfetch reconciler (git.mode = fetch), a dry run, or none
  pc,       \* where the handler or the goroutine of a request stands
  proj,     \* project named by the payload
  seen,     \* pushes on the primary when the delivery was received
  ctx,      \* state of the context the trigger runs under
  order,    \* position of the request's Trigger call in the order of m.mu
  clock,    \* number of Trigger calls that have taken m.mu
  snap,     \* pushes the primary advertised to the request's git fetch
  result,   \* what Trigger returned
  pending,  \* TriggerManager.pending
  sem,      \* elements in the channel Server.sem
  stopped,  \* the server's context is cancelled
  primary, replica

vars == <<mode, pc, proj, seen, ctx, order, clock, snap, result, pending, sem,
          stopped, primary, replica>>

\* Fields that only the call of Trigger and its fetch write.
fetchVars == <<order, clock, snap, pending>>

Answered == {"rejected", "dropped"}             \* answered, nothing spawned
Triggered == {"debounce", "calling", "fetching", "cleanup"}
Begun == Triggered \cup {"release", "done"}     \* has been through m.mu
Holding == {"spawned", "release"} \cup Triggered  \* holds a slot of sem
States == {"idle", "handling", "done"} \cup Answered \cup Holding

TypeOK ==
  /\ mode \in {"fetch", "dryrun", "nofetcher"}
  /\ pc \in [Requests -> States]
  /\ proj \in [Requests -> Projects]
  /\ seen \in [Requests -> Nat]
  /\ ctx \in [Requests -> {"live", "superseded", "expired"}]
  /\ order \in [Requests -> Nat]
  /\ clock \in Nat
  /\ snap \in [Requests -> Nat]
  /\ result \in [Requests -> {"none", "ok", "failed", "cancelled"}]
  /\ pending \in [Projects -> Requests \cup {NoRequest}]
  /\ sem \in Nat
  /\ stopped \in BOOLEAN
  /\ primary \in [Projects -> Nat]
  /\ replica \in [Projects -> Nat]

Init ==
  /\ mode \in Modes
  /\ pc = [r \in Requests |-> "idle"]
  /\ proj \in [Requests -> Projects]
  /\ seen = [r \in Requests |-> 0]
  /\ ctx = [r \in Requests |-> "live"]
  /\ order = [r \in Requests |-> 0]
  /\ clock = 0
  /\ snap = [r \in Requests |-> 0]
  /\ result = [r \in Requests |-> "none"]
  /\ pending = [p \in Projects |-> NoRequest]
  /\ sem = 0
  /\ stopped = FALSE
  /\ primary = [p \in Projects |-> 0]
  /\ replica = [p \in Projects |-> 0]

Goto(r, l) == pc' = [pc EXCEPT ![r] = l]

(***************************************************************************)
(* The environment: users push to the primary, GitLab delivers webhooks    *)
(* (late, twice or never), the process is told to stop.                    *)
(***************************************************************************)
Push(p) ==
  /\ primary[p] < MaxPush
  /\ primary' = [primary EXCEPT ![p] = @ + 1]
  /\ UNCHANGED <<mode, pc, proj, seen, ctx, result, sem, stopped, replica, fetchVars>>

\* The listener hands the request to a handler goroutine; after Shutdown it
\* takes no new ones.
Receive(r) ==
  /\ pc[r] = "idle"
  /\ ~stopped
  /\ Goto(r, "handling")
  /\ seen' = [seen EXCEPT ![r] = primary[proj[r]]]
  /\ UNCHANGED <<mode, proj, ctx, result, sem, stopped, primary, replica, fetchVars>>

\* Start: ctx.Done() shuts the HTTP server down.  Every trigger's context is
\* a child of the server's.
Shutdown ==
  /\ ~stopped
  /\ stopped' = TRUE
  /\ ctx' = [r \in Requests |->
               IF pc[r] \in Holding /\ ctx[r] = "live" THEN "expired" ELSE ctx[r]]
  /\ UNCHANGED <<mode, pc, proj, seen, result, sem, primary, replica, fetchVars>>

\* context.WithTimeout(parent, 5*time.Minute) runs out.
Expire(r) ==
  /\ pc[r] \in {"spawned", "debounce", "calling", "fetching"}
  /\ ctx[r] = "live"
  /\ ctx' = [ctx EXCEPT ![r] = "expired"]
  /\ UNCHANGED <<mode, pc, proj, seen, result, sem, stopped, primary, replica, fetchVars>>

(***************************************************************************)
(* handleWebhook                                                           *)
(***************************************************************************)
\* Deliberate fault: the deferred <-s.sem is registered before the slot is taken.
RejectReleasing(r) ==
  /\ pc[r] = "handling"
  /\ sem > 0
  /\ sem' = sem - 1
  /\ Goto(r, "rejected")
  /\ UNCHANGED <<mode, proj, seen, ctx, result, stopped, primary, replica, fetchVars>>

\* Wrong method or token, unreadable body, no project in the payload, or a
\* path that projectpath.Validate refuses.
Reject(r) ==
  /\ pc[r] = "handling"
  /\ Goto(r, "rejected")
  /\ UNCHANGED <<mode, proj, seen, ctx, result, sem, stopped, primary, replica, fetchVars>>

\* select default: the channel is full; 503 and no trigger.
Drop(r) ==
  /\ pc[r] = "handling"
  /\ sem = Cap
  /\ Goto(r, "dropped")
  /\ UNCHANGED <<mode, proj, seen, ctx, result, sem, stopped, primary, replica, fetchVars>>

\* Deliberate fault: the goroutine is spawned before the slot is asked for.
AcceptUnbounded(r) ==
  /\ pc[r] = "handling"
  /\ sem' = IF sem < Cap THEN sem + 1 ELSE sem
  /\ Goto(r, "spawned")
  /\ ctx' = [ctx EXCEPT ![r] = IF stopped THEN "expired" ELSE "live"]
  /\ UNCHANGED <<mode, proj, seen, result, stopped, primary, replica, fetchVars>>

\* s.sem <- struct{}{}, go func, 200.  The goroutine derives its context from
\* s.ctx, which may be cancelled already.
Accept(r) ==
  /\ pc[r] = "handling"
  /\ sem < Cap
  /\ sem' = sem + 1
  /\ Goto(r, "spawned")
  /\ ctx' = [ctx EXCEPT ![r] = IF stopped THEN "expired" ELSE "live"]
  /\ UNCHANGED <<mode, proj, seen, result, stopped, primary, replica, fetchVars>>

(***************************************************************************)
(* TriggerManager.Trigger                                                  *)
(***************************************************************************)
\* cancel() of a context that is done already changes nothing.
CancelPending(p) ==
  [s \in Requests |->
     IF s = pending[p] /\ ctx[s] = "live" THEN "superseded" ELSE ctx[s]]

\* Deliberate fault: register first, then cancel what the map holds.
BeginSwapped(r) ==
  /\ pc[r] = "spawned"
  /\ pending' = [pending EXCEPT ![proj[r]] = r]
  /\ ctx' = [ctx EXCEPT ![r] = "superseded"]
  /\ clock' = clock + 1
  /\ order' = [order EXCEPT ![r] = clock + 1]
  /\ Goto(r, "debounce")
  /\ UNCHANGED <<mode, proj, seen, snap, result, sem, stopped, primary, replica>>

\* The section under m.mu: cancel the registered trigger, register this one.
Begin(r) ==
  /\ pc[r] = "spawned"
  /\ ctx' = CancelPending(proj[r])
  /\ pending' = [pending EXCEPT ![proj[r]] = r]
  /\ clock' = clock + 1
  /\ order' = [order EXCEPT ![r] = clock + 1]
  /\ Goto(r, "debounce")
  /\ UNCHANGED <<mode, proj, seen, snap, result, sem, stopped, primary, replica>>

\* case <-ctx2.Done()
DebounceCancelled(r) ==
  /\ pc[r] = "debounce"
  /\ ctx[r] # "live"
  /\ result' = [result EXCEPT ![r] = "cancelled"]
  /\ Goto(r, "cleanup")
  /\ UNCHANGED <<mode, proj, seen, ctx, sem, stopped, primary, replica, fetchVars>>

\* case <-time.After(2s).  When both cases are ready select takes either, so
\* a cancelled trigger may come through here too.
DebounceElapsed(r) ==
  /\ pc[r] = "debounce"
  /\ Goto(r, "calling")
  /\ UNCHANGED <<mode, proj, seen, ctx, result, sem, stopped, primary, replica, fetchVars>>

\* The trigger without a gitfetch reconciler logs and returns nil; fetchOne
\* in a dry run returns true.  Neither touches the repository.
TriggerNoop(r) ==
  /\ pc[r] = "calling"
  /\ mode # "fetch"
  /\ result' = [result EXCEPT ![r] = "ok"]
  /\ Goto(r, "cleanup")
  /\ UNCHANGED <<mode, proj, seen, ctx, sem, stopped, primary, replica, fetchVars>>

\* FetchProject -> fetchOne -> git fetch <path>.git: the primary advertises
\* its refs.
FetchStart(r) ==
  /\ pc[r] = "calling"
  /\ mode = "fetch"
  /\ ctx[r] = "live"
  /\ proj[r] \in LegacyProjects
  /\ snap' = [snap EXCEPT ![r] = primary[proj[r]]]
  /\ Goto(r, "fetching")
  /\ UNCHANGED <<mode, proj, seen, ctx, order, clock, result, pending, sem, stopped,
                 primary, replica>>

\* git fetch exits 0: +refs/*:refs/* forces the local refs to the advertised
\* ones.
FetchOK(r) ==
  /\ pc[r] = "fetching"
  /\ replica' = [replica EXCEPT ![proj[r]] = snap[r]]
  /\ result' = [result EXCEPT ![r] = "ok"]
  /\ Goto(r, "cleanup")
  /\ UNCHANGED <<mode, proj, seen, ctx, sem, stopped, primary, fetchVars>>

\* git fetch fails, is killed because its context is done, is not started for
\* that reason, or finds no repository at <path>.git.
FetchFails(r) ==
  /\ \/ pc[r] = "fetching"
     \/ /\ pc[r] = "calling"
        /\ mode = "fetch"
        /\ ctx[r] # "live" \/ proj[r] \notin LegacyProjects
  /\ result' = [result EXCEPT ![r] = "failed"]
  /\ Goto(r, "cleanup")
  /\ UNCHANGED <<mode, proj, seen, ctx, sem, stopped, primary, replica, fetchVars>>

\* Deliberate fault: a cancelled trigger returns without the deferred delete.
CleanupSkipped(r) ==
  /\ pc[r] = "cleanup"
  /\ pending' = IF result[r] = "cancelled" THEN pending
                ELSE [pending EXCEPT ![proj[r]] = NoRequest]
  /\ Goto(r, "release")
  /\ UNCHANGED <<mode, proj, seen, ctx, order, clock, snap, result, sem, stopped,
                 primary, replica>>

\* The deferred section under m.mu: delete(m.pending, projectPath), whoever
\* is registered there.
Cleanup(r) ==
  /\ pc[r] = "cleanup"
  /\ pending' = [pending EXCEPT ![proj[r]] = NoRequest]
  /\ Goto(r, "release")
  /\ UNCHANGED <<mode, proj, seen, ctx, order, clock, snap, result, sem, stopped,
                 primary, replica>>

\* Deliberate fault: only the success path returns the slot.
ReleaseOnSuccess(r) ==
  /\ pc[r] = "release"
  /\ sem' = IF result[r] = "ok" THEN sem - 1 ELSE sem
  /\ Goto(r, "done")
  /\ UNCHANGED <<mode, proj, seen, ctx, result, stopped, primary, replica, fetchVars>>

\* Deliberate fault: an explicit release in front of the deferred one.
ReleaseTwice(r) ==
  /\ pc[r] = "release"
  /\ sem' = sem - 2
  /\ Goto(r, "done")
  /\ UNCHANGED <<mode, proj, seen, ctx, result, stopped, primary, replica, fetchVars>>

\* The goroutine records its metric and its deferred <-s.sem runs.
Release(r) ==
  /\ pc[r] = "release"
  /\ sem > 0
  /\ sem' = sem - 1
  /\ Goto(r, "done")
  /\ UNCHANGED <<mode, proj, seen, ctx, result, stopped, primary, replica, fetchVars>>

Handler(r) == Reject(r) \/ Drop(r) \/ Accept(r)

Goroutine(r) ==
  \/ Begin(r)
  \/ DebounceCancelled(r)
  \/ DebounceElapsed(r)
  \/ TriggerNoop(r)
  \/ FetchStart(r)
  \/ FetchOK(r)
  \/ FetchFails(r)
  \/ Cleanup(r)
  \/ Release(r)

Next ==
  \/ \E p \in Projects : Push(p)
  \/ Shutdown
  \/ \E r \in Requests : Receive(r) \/ Expire(r) \/ Handler(r) \/ Goroutine(r)

Spec == Init /\ [][Next]_vars

\* The runtime keeps scheduling a goroutine that can run: the handler has
\* read its request, the debounce timer is 2 seconds, and git is killed at the
\* latest when the 5-minute context of the trigger runs out.
Fairness == \A r \in Requests : WF_vars(Handler(r)) /\ WF_vars(Goroutine(r))

FairSpec == Spec /\ Fairness

-----------------------------------------------------------------------------
\* The request's git fetch has been shown the primary's refs.
Fetched(r) ==
  \/ pc[r] = "fetching"
  \/ result[r] = "ok" /\ mode = "fetch"

Slots == {r \in Requests : pc[r] \in Holding}

Pool == INSTANCE Slots WITH Clients <- Requests, cap <- Cap, held <- Slots

\* The channel is a pool of Cap slots, however deliveries, cancellations and
\* expiries fall: one delivery per slot, taken once, returned once.
ImplementsPool == Pool!Spec

\* Every element of the channel belongs to exactly one running goroutine and
\* there are never more than Cap of them: on no path (cancelled, expired,
\* failed, no-op) does a goroutine leak its slot or return it twice.
SlotAccounting == sem = Cardinality(Slots) /\ sem <= Cap

\* A CancelFunc in the map belongs to a trigger for that project that is
\* still running: no path leaves an entry behind (the map would grow for
\* ever) and no entry is filed under another project.
PendingIsRunning ==
  \A p \in Projects : pending[p] # NoRequest =>
     /\ proj[pending[p]] = p
     /\ pc[pending[p]] \in Triggered

\* Debouncing drops a trigger only in favour of a later one: whenever a
\* trigger was cancelled by another, some trigger for the same project that
\* called Trigger later was not, and when that one fetches, or has fetched,
\* it sees every push the cancelled one was announcing.
SupersededIsCovered ==
  \A r \in Requests : ctx[r] = "superseded" =>
     \E s \in Requests :
        /\ pc[s] \in Begun
        /\ proj[s] = proj[r]
        /\ order[s] > order[r]
        /\ ctx[s] # "superseded"
        /\ Fetched(s) => snap[s] >= seen[r]

\* A git fetch that was not cancelled is the only one of its project:
\* "so we don't run multiple concurrent fetches for the same repo during a
\* push burst" (webhook.go:183).
OneFetchPerProject ==
  \A r, s \in Requests :
     /\ pc[r] = "fetching" /\ ctx[r] = "live"
     /\ pc[s] = "fetching" /\ ctx[s] = "live"
     /\ proj[r] = proj[s]
     => r = s

\* A dry run, and a deployment without a gitfetch reconciler, answer webhooks
\* and go through the whole trigger, but never write to a repository.
DryRunTouchesNothing == [][mode # "fetch" => UNCHANGED replica]_vars

\* The slots of accepted deliveries come back, even when nobody ever shuts the
\* server down; a goroutine that never ended would keep its slot for good.
SlotsComeBack == Pool!Drains

\* The announcement of an accepted delivery is served.  Its own trigger may be
\* cancelled on the way; but once the receiver is at rest, some trigger for the
\* project has fetched all that the primary held when the delivery came in, or
\* reported a failure, or ran out of time.
AcceptedIsServed ==
  Slots = {} /\ mode = "fetch" =>
    \A r \in Requests : pc[r] = "done" =>
       \E s \in Requests :
          /\ proj[s] = proj[r]
          /\ \/ result[s] = "ok" /\ snap[s] >= seen[r]
             \/ result[s] = "failed"
             \/ ctx[s] = "expired"
=============================================================================
