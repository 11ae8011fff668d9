------------------------------ MODULE GitFetch ------------------------------
(***************************************************************************)
(* One Reconcile call of the git_fetch reconciler: list the projects, fetch*)
(* each in a bounded pool of goroutines, report.  Users go on pushing to   *)
(* the primary and the caller may cancel the context (shutdown of serve,   *)
(* the five-minute timeout of `geoctl sync').  Webhooks make the same      *)
(* Reconciler fetch single repositories meanwhile.                         *)
(*                                                                         *)
(* Rows of the projects table are numbered in the order of the query.  A   *)
(* repository is the number of pushes it holds.                            *)
(***************************************************************************)
EXTENDS Integers, FiniteSets

CONSTANTS
  MaxProjects,  \* bound: rows of the projects table
  Hashed,       \* rows with hashed_storage
  Routeless,    \* rows without a route
  Limits,       \* values of maxParallel (8; SetMaxParallel takes any int)
  MaxPush       \* bound: pushes to one project

ASSUME GitFetchAssumption ==
  /\ MaxProjects \in Nat
  /\ Hashed \subseteq 1..MaxProjects
  /\ Routeless \subseteq 1..MaxProjects
  /\ Limits \subseteq Int
  /\ MaxPush \in Nat

Rows == 1..MaxProjects

VARIABLES
  maxParallel, dryRun,  \* fields of the Reconciler
  n,          \* len(projects): rows there are
  phase,      \* of Reconcile
  next,       \* loop variable
  job,        \* goroutine of each row
  snap,       \* what the primary advertised to the row's git fetch
  failed, repaired,
  cancelled,  \* the caller's context
  result,     \* Result.OK and Result.Remaining; LastSyncTimestamp was set
  base,       \* auxiliary: pushes on the primary when the list was read
  primary, replica,
  hook,       \* row and snapshot of a webhook's git fetch under way, or <<>>
  early       \* auxiliary: rows it was fetching when the list was read

recVars == <<maxParallel, dryRun>>
vars == <<recVars, n, phase, next, job, snap, failed, repaired, cancelled, result, base,
          primary, replica, hook, early>>
repoVars == <<base, primary, replica, hook, early>>

NoResult == [ok |-> FALSE, remaining |-> 0, lastSync |-> FALSE]

Active == {i \in Rows : job[i] \in {"running", "fetching"}}

\* parallel := maxParallel, at least 1 and at most len(projects)
Parallel ==
  LET p == IF maxParallel < 1 THEN 1 ELSE maxParallel
  IN  IF p > n THEN n ELSE p

\* repoDiskPath; the empty path is <<>>.
RepoDiskPath(i) ==
  IF i \in Hashed THEN <<"@hashed", i>>
  ELSE IF i \in Routeless THEN <<>>
  ELSE <<"route", i>>

\* No webhook's fetch, or the row and the pushes it was shown.
Hooks == {<<>>} \cup (Rows \X (0..MaxPush))

TypeOK ==
  /\ maxParallel \in Limits /\ dryRun \in BOOLEAN
  /\ n \in 0..MaxProjects
  /\ phase \in {"idle", "launch", "go", "wait", "done"}
  /\ next \in 1..(MaxProjects + 1)
  /\ job \in [Rows -> {"none", "running", "fetching", "ok", "failed"}]
  /\ snap \in [Rows -> 0..MaxPush]
  /\ failed \in 0..MaxProjects
  /\ repaired \in 0..MaxProjects
  /\ cancelled \in BOOLEAN
  /\ result \in [ok : BOOLEAN, remaining : 0..(MaxProjects + 1), lastSync : BOOLEAN]
  /\ base \in [Rows -> 0..MaxPush]
  /\ primary \in [Rows -> 0..MaxPush]
  /\ replica \in [Rows -> 0..MaxPush]
  /\ hook \in Hooks
  /\ early \subseteq Rows

Init ==
  /\ maxParallel \in Limits /\ dryRun \in BOOLEAN
  /\ n \in 0..MaxProjects
  /\ phase = "idle"
  /\ next = 1
  /\ job = [i \in Rows |-> "none"]
  /\ snap = [i \in Rows |-> 0]
  /\ failed = 0 /\ repaired = 0
  /\ cancelled = FALSE
  /\ result = NoResult
  /\ base = [i \in Rows |-> 0]
  /\ primary = [i \in Rows |-> 0]
  /\ replica = [i \in Rows |-> 0]
  /\ hook = <<>> /\ early = {}

\* The environment.
Push(i) ==
  /\ phase # "done" /\ primary[i] < MaxPush
  /\ primary' = [primary EXCEPT ![i] = @ + 1]
  /\ UNCHANGED <<recVars, n, phase, next, job, snap, failed, repaired, cancelled, result,
                 base, replica, hook, early>>

\* FetchProject of the same Reconciler, called by a webhook.  It makes the path
\* of legacy storage out of the project's route; hashed repositories are
\* elsewhere.  One call at a time is enough to meet the sweep.
HookStart(i) ==
  /\ hook = <<>>
  /\ phase # "done" /\ ~ dryRun
  /\ RepoDiskPath(i) = <<"route", i>>
  /\ hook' = <<i, primary[i]>>
  /\ UNCHANGED <<recVars, n, phase, next, job, snap, failed, repaired, cancelled, result,
                 base, primary, replica, early>>

\* It succeeds or fails.
HookEnds ==
  /\ hook # <<>>
  /\ replica' \in {replica, [replica EXCEPT ![hook[1]] = hook[2]]}
  /\ hook' = <<>>
  /\ UNCHANGED <<recVars, n, phase, next, job, snap, failed, repaired, cancelled, result,
                 base, primary, early>>

Cancel ==
  /\ phase # "done" /\ ~ cancelled
  /\ cancelled' = TRUE
  /\ UNCHANGED <<recVars, n, phase, next, job, snap, failed, repaired, result, repoVars>>

Report(r) ==
  /\ phase' = "done"
  /\ result' = r

(***************************************************************************)
(* Reconcile                                                               *)
(***************************************************************************)
\* The query fails, or its context is done.
ListFails ==
  /\ phase = "idle"
  /\ Report([ok |-> FALSE, remaining |-> 1, lastSync |-> FALSE])
  /\ UNCHANGED <<recVars, n, next, job, snap, failed, repaired, cancelled, repoVars>>

\* "no projects to sync" does not touch the timestamp.
ListProjects ==
  /\ phase = "idle"
  /\ ~ cancelled
  /\ IF n = 0
       THEN Report([ok |-> TRUE, remaining |-> 0, lastSync |-> FALSE])
       ELSE phase' = "launch" /\ UNCHANGED result
  /\ base' = primary
  /\ early' = {i \in Rows : hook # <<>> /\ i = hook[1]}
  /\ UNCHANGED <<recVars, n, next, job, snap, failed, repaired, cancelled, primary, replica,
                 hook>>

\* The head of the loop: select on gctx.Done().
LoopCheck ==
  /\ phase = "launch"
  /\ phase' = IF next > n \/ cancelled THEN "wait" ELSE "go"
  /\ UNCHANGED <<recVars, n, next, job, snap, failed, repaired, cancelled, result, repoVars>>

\* Deliberate fault: no g.SetLimit.
GoUnlimited ==
  /\ phase = "go"
  /\ job' = [job EXCEPT ![next] = "running"]
  /\ next' = next + 1
  /\ phase' = "launch"
  /\ UNCHANGED <<recVars, n, snap, failed, repaired, cancelled, result, repoVars>>

\* Deliberate fault: the limit is maxParallel as it was configured.
GoUnclamped ==
  /\ phase = "go"
  /\ Cardinality(Active) < maxParallel
  /\ job' = [job EXCEPT ![next] = "running"]
  /\ next' = next + 1
  /\ phase' = "launch"
  /\ UNCHANGED <<recVars, n, snap, failed, repaired, cancelled, result, repoVars>>

\* g.Go blocks until the group has room.
Go ==
  /\ phase = "go"
  /\ Cardinality(Active) < Parallel
  /\ job' = [job EXCEPT ![next] = "running"]
  /\ next' = next + 1
  /\ phase' = "launch"
  /\ UNCHANGED <<recVars, n, snap, failed, repaired, cancelled, result, repoVars>>

\* Deliberate fault: the result is taken from the counter of successes.
FinishIfAny ==
  /\ phase = "wait"
  /\ Active = {}
  /\ Report([ok |-> failed = 0 \/ repaired > 0, remaining |-> failed,
             lastSync |-> failed = 0])
  /\ UNCHANGED <<recVars, n, next, job, snap, failed, repaired, cancelled, repoVars>>

\* g.Wait() and the report.
Finish ==
  /\ phase = "wait"
  /\ Active = {}
  /\ Report([ok |-> failed = 0, remaining |-> failed, lastSync |-> failed = 0])
  /\ UNCHANGED <<recVars, n, next, job, snap, failed, repaired, cancelled, repoVars>>

(***************************************************************************)
(* The goroutine of row i: fetchOne, then one of the two counters.         *)
(***************************************************************************)
\* Deliberate fault: a failed fetch is counted again by a retry.
JobEndsTwice(i, good) ==
  /\ job' = [job EXCEPT ![i] = IF good THEN "ok" ELSE "failed"]
  /\ repaired' = IF good THEN repaired + 1 ELSE repaired
  /\ failed' = IF good THEN failed ELSE failed + 2

JobEnds(i, good) ==
  /\ job' = [job EXCEPT ![i] = IF good THEN "ok" ELSE "failed"]
  /\ repaired' = IF good THEN repaired + 1 ELSE repaired
  /\ failed' = IF good THEN failed ELSE failed + 1

\* A dry run builds the command and returns true.
JobDry(i) ==
  /\ job[i] = "running"
  /\ RepoDiskPath(i) # <<>>
  /\ dryRun
  /\ JobEnds(i, TRUE)
  /\ UNCHANGED <<recVars, n, phase, next, snap, cancelled, result, repoVars>>

\* git fetch is shown the refs of the primary.
FetchStart(i) ==
  /\ job[i] = "running"
  /\ RepoDiskPath(i) # <<>>
  /\ ~ dryRun /\ ~ cancelled
  /\ snap' = [snap EXCEPT ![i] = primary[i]]
  /\ job' = [job EXCEPT ![i] = "fetching"]
  /\ UNCHANGED <<recVars, n, phase, next, failed, repaired, cancelled, result, repoVars>>

\* +refs/*:refs/* makes the local refs those of the primary.
FetchOK(i) ==
  /\ job[i] = "fetching"
  /\ replica' = [replica EXCEPT ![i] = snap[i]]
  /\ JobEnds(i, TRUE)
  /\ UNCHANGED <<recVars, n, phase, next, snap, cancelled, result, base, primary, hook,
                 early>>

\* An empty path, a context that is done, the ten-minute timeout, or git
\* exits with an error.
FetchFails(i) ==
  /\ \/ job[i] = "running" /\ RepoDiskPath(i) = <<>>
     \/ job[i] = "running" /\ ~ dryRun /\ cancelled
     \/ job[i] = "fetching"
  /\ JobEnds(i, FALSE)
  /\ UNCHANGED <<recVars, n, phase, next, snap, cancelled, result, repoVars>>

Job(i) == JobDry(i) \/ FetchStart(i) \/ FetchOK(i) \/ FetchFails(i)

Loop == ListFails \/ ListProjects \/ LoopCheck \/ Go \/ Finish

Next ==
  \/ \E i \in Rows : Push(i) \/ HookStart(i) \/ Job(i)
  \/ HookEnds
  \/ Cancel
  \/ Loop

Spec == Init /\ [][Next]_vars

\* Goroutines that can run are scheduled; the query and git end at the latest
\* when their contexts run out.
Fairness == WF_vars(Loop) /\ \A i \in Rows : WF_vars(Job(i))

FairSpec == Spec /\ Fairness

-----------------------------------------------------------------------------
Pool == INSTANCE Slots WITH Clients <- Rows, cap <- Parallel, held <- Active

VerdictOf(i) ==
  CASE job[i] = "ok" -> "good"
    [] job[i] = "failed" -> "bad"
    [] OTHER -> "none"

Promise == INSTANCE ReconcileCall WITH
  Units <- Rows,
  units <- 1..n,
  verdict <- [i \in Rows |-> VerdictOf(i)],
  result <- IF phase = "done" THEN <<result.ok, result.remaining>> ELSE <<>>

\* "Fetching is bounded-parallel via a worker pool sized by maxParallel": no
\* interleaving of the loop with its goroutines runs more fetches at once, and
\* each row takes and returns one place.
ImplementsPool == Pool!Spec

\* A call that is left alone keeps the promise of reconciler.Result: its
\* goroutines come to one final verdict on every listed row, none of them after
\* the report, which counts exactly the bad ones and is OK if there are none.  A
\* cancelled call does not: the rows its loop no longer launched are neither
\* good nor bad, and it reports OK over the others, although Result calls that
\* "fully in sync" (runner.go:15); even then every goroutine it did launch is
\* waited for and counted.
ImplementsCall == Promise!Spec

\* A sweep that was not cancelled and reports OK has brought the secondary at
\* least to the state the primary had when the project list was read.  Webhooks
\* that fetch the same repositories meanwhile do not undo this; only a fetch
\* that was under way before can.
OKMeansFetched ==
  phase = "done" /\ result.ok /\ ~ cancelled /\ ~ dryRun =>
    \A i \in 1..n : i \in early \/ replica[i] >= base[i]

\* A Reconcile call returns, whatever maxParallel was set to.
SweepEnds == <>(phase = "done")
=============================================================================
