# Verification of geoctl (gitlab-geo-sync)

This directory holds a TLA+ development for `geoctl`, the tool that keeps one or
more secondary GitLab sites in step with a primary and promotes one of them when
the primary fails.  It has TLA+ modules translated from the Go code, TLC
configurations that check them on small instances, and TLAPS proofs of the safety
properties and the refinements for every value of the parameters.  `PROJECT.json` is the
index: components, runs, the source lines of each definition, findings, hazards
and theorems.

To repeat a check: `tlc -workers 4 -config MCFailover.cfg MCFailover`, or
`tlapm FailoverProofs.tla`.

## 1. Inventory

| Component (source) | State | Operations | Talks to |
|---|---|---|---|
| webhook receiver (`internal/webhook`) | `sem` (8 slots), `TriggerManager.pending` (CancelFunc per project) | `handleWebhook`, `Trigger`, `Start` | `FetchProject` of git_fetch, through a callback built by `buildWebhookServer` |
| failover controller (`internal/failover`) | `consecutiveFails`, `primaryDown` | `check`, `pollURL`, `Promote`, `AdoptAsSecondary` | remote hosts over SSH, health URLs, read-only enforcement, db_key_base check |
| read-only enforcement (`internal/readonly`) | none of its own; three restrictions on a site | `Enable`, `Disable` | remote hosts |
| runner (`internal/reconciler/runner.go`) | loop variable, ticker | `Run`, `sweep` | all reconcilers, one after the other |
| git_fetch (`reconciler/gitfetch`) | `failed`, `repaired` (atomic), errgroup | `Reconcile`, `fetchOne`, `FetchProject` | the standby's database, git |
| git_rsync, fs_storage (`reconciler/gitrsync`, `fsstorage`) | failure counter | `Reconcile`, `rsyncPath` | rsync |
| object_storage and `Retry` | totals of two listings, attempt number, backoff | `Reconcile`, `bucketStats`, `Retry` | two S3 buckets |
| consistency_sweep, api_validator | `drifts`, `remaining` | `Reconcile`, `isApproxEqual`, `sampleGitFsck` | two databases, two APIs, git fsck |
| registry | catalogs, `driftRepos` | `Reconcile`, `listRepositories`, `listTags` | two registries |
| postgres | connection pools | `NewWithFactory`, `Reconcile`, `Close` | primary and standby databases |
| pg setup (`internal/pgsetup`) | none; the standby's data directory and its slot on the primary | `Run`, `appendConnInfoAppname` | `pg_basebackup` |
| doctor (`internal/doctor`) | the list of outcomes | `checks` and the single checks | databases, hosts over SSH |
| geoctl commands (`cmd/geoctl`) | context of the process | `serve`, `sync`, `failover`, `adopt-as-secondary`, `pg setup`, `doctor`, `init`, `sla`, `runbook` | everything |
| configuration, ssh execution, projectpath, dbkey | none | validation, command execution, parsing | |
| init, runbook, sla, autorepair, metrics, logging | none that steers control flow | printing | |

How they interact.  `serve` makes the secondaries read-only, then runs three
things at once: the runner (a sweep at start and at every tick), the webhook
server, and the failover controller's health rounds.  They share the context of
the process, the repositories on the secondary, and the sites themselves.  The
commands `failover` and `adopt-as-secondary` are other processes with controllers
of their own; only the sites are shared.  All of a promotion is a list of remote
commands that stops at the first error.  `pg setup`, `pg status` and `doctor` are
again other processes, which share with everything else only the sites: the data
directory `pg setup` fills, the slot it creates and the `application_name` it leaves
are what the postgres reconciler later finds, or does not find.

What is hard:

* concurrency: handler and trigger goroutines over one map and one channel; the
  fetch pool; sweeps, webhooks and users writing at once; two processes
  orchestrating the same site;
* cancellation: one context ends in-flight polls, waits, rsyncs and launch loops,
  each of which interprets that differently;
* partial failure: scripts of remote commands, retries, loops that go on after an
  error, listings that fail on a later page;
* roles: they are configuration, not state, so nothing in the process remembers
  that a promotion took place;
* reads that are not atomic: two sites are read one after the other while both
  change.

The full list, with lines, is under `hazards` in `PROJECT.json`.

## 2. Modules

| Module | Models | Composes |
|---|---|---|
| `Webhook` | handler, slots, debounce, `TriggerManager`, the fetch at its end | webhook receiver and `FetchProject` |
| `Failover` | `serve`'s health rounds and automatic promotion, the two commands, the sites | controller, read-only enforcement, db_key_base check, remote execution, two processes |
| `GitFetch` | one `Reconcile` call of git_fetch with its goroutines, beside `FetchProject` of the same reconciler | reconciler, errgroup and webhook fetches |
| `Sweep` | `Run`, `sweep`, `buildReconcilers`, git_rsync and fs_storage, promotion | runner and mirrors |
| `ObjectStorage` | one `Reconcile` call of object_storage with `Retry` | reconciler and retry |
| `Audit` | one `Reconcile` call of consistency_sweep or api_validator (`Kind`) | both auditors |
| `Registry` | one `Reconcile` call of the registry reconciler | |
| `Standby` | `pg setup` for each secondary, an operator, and one `pg status` or `doctor` | pg setup, postgres reconciler, doctor |
| `Slots` | abstract: what a bounded pool promises | implemented by `Webhook` and `GitFetch` |
| `ReconcileCall` | abstract: what one `Reconcile` call promises | implemented by `GitFetch`, `Registry` and `Standby` |
| `WebhookProofs`, `FailoverProofs`, `GitFetchProofs`, `SweepProofs`, `ObjectStorageProofs`, `AuditProofs`, `RegistryProofs`, `StandbyProofs` | theorems about the module they extend | |
| `MC*` | the constants of the runs | |

Definitions named "Deliberate fault" are variants of the definition that follows
them.  No specification uses them; substituting one for its original must make
TLC report the property it is paired with in `PROJECT.json`, which shows that the
property depends on that piece of the code.

### Webhook

A request is a delivery.  `pc[r]` runs through the handler (`Reject`, `Drop`,
`Accept`), then through the goroutine: `Begin` is the critical section of
`Trigger` (cancel the predecessor, register), the debounce `select` is
`DebounceElapsed` or `DebounceCancelled` - Go may take either when both are ready
- then the fetch, the deferred `Cleanup` and the deferred `Release` of the slot.
Contexts are `live`, `superseded`, `expired` (five minutes) or ended by shutdown.
A repository is the number of pushes it holds: `FetchStart` takes a snapshot of the
primary and `FetchOK` overwrites the replica with it, which is what
`+refs/*:refs/*` does.  Signature, payload and path checks are one
nondeterministic `Reject`.

### Failover

Processes are `serve` and one command `cli`.  `Script(kind)` is the list of remote
commands of a promotion, a role swap or `EnableWithConfig`; `step[p]` is where the
process stands.  `StepOK`, `StepFails` and `StepFaulty` are the outcomes of one
command: it worked, it could not, or something else went wrong with the effect
done or not.  A site is `reachable`, has `services` running, a PostgreSQL that is
`primary`, `standby` or `empty`, and a set `ro` of restrictions.  A health round is
one action per URL followed by `RoundBad` or `RoundGood`; the consecutive-failure
counter saturates at three, the number the code compares with.  `history` and
`genuine` are auxiliary: they record what the last rounds really were, so that a
round spoilt by our own shutdown can be told from an outage.  A remote command may also never
return: nothing in the code bounds it, and no fairness of the model ends it.

Assumptions about what is outside: `gitlab-ctl stop` leaves PostgreSQL able to be
promoted by the `pg_ctl` step, as the script relies on; a standby's database
is read-only, so the `storages` runner (whose exit code the command discards) has
no effect there; the process's exit cuts its remote commands.

### GitFetch

The list of projects is read first; `base` remembers the primary at that moment.
`LoopCheck` looks at the context, `Go` launches a goroutine when the pool has room,
`Finish` is `Wait` and the report.  `HookStart` and `HookEnds` are a webhook's
`FetchProject` on the same repositories, without any lock between the two; one such call
at a time is enough to meet the sweep.  `Cancel` may come between any two steps.  It builds the path of legacy storage from the
project's route, so it reaches only projects that are kept there.  The digest of hashed storage is abstract: a
path is a tag and the row's identity, and only whether there is one matters.

### Sweep

`Plan` is `buildReconcilers`.  The runner's actions are the context check, the
call, the return, and the `select`.  Reconcilers that do not mirror files return
any verdict (`Observe`); their own modules say which.  A tree is a set of items.
rsync has no atomic view: `must` holds what was there during the whole copy, `may`
whatever was there at some moment, and a finished copy is anything between the two; an
interrupted one is any mixture with the old contents.  `RsyncFails(worded)` is an rsync that
ends with an error, for whatever reason, with part of its work done: fs_storage takes it
for success if its output has one of two phrases, `worded`, and the auxiliary `forgiven`
holds the paths of which that is true.  `steady` and `seen` are auxiliary:
what the primary held throughout the running call, and whatever any user had meanwhile;
`OKMeansMirrored` bounds the destination by the two at the moment a call returns OK, on
every path that is not `forgiven`; of those the code says nothing.  `Promote` is the promotion
of this secondary by the failover controller; `LocalWrite` is its users afterwards.

### ObjectStorage, Audit, Registry

One call each, with the sites changing between any two requests, any request
failing, and (except in Registry, where a done context is one more failing
request) the context being cancelled.  `ObjectStorage` lists page by page under
`Retry`; the reference that its verdict is compared with is the number of objects and of
bytes in a bucket, as cardinalities, while the code adds them up.  `Audit` covers both auditors: they are the same loop, the one with a
tolerance and a `git fsck` sample, the other with exact numbers; `Fsck` gives an error for a
broken repository and may give one for any other, as a git does that is missing or refuses
to open it, and `unrun` remembers the latter; a table that is
missing counts as 0, a missing header as an error.  `Registry` reads two catalogs
of at most `CatalogMax` names (1000 in the code) and then pairs of tag lists in the
arbitrary order of a Go map; digests are left out because the code never reads one.

### Standby

`pg setup` for a secondary is `SetupStart` (the directory is empty, `pg_basebackup`
connects, creates the slot and begins to write), `BackupEnds` or `BackupFails`, and
`AppendConnInfoAppname` or `AppendFails`.  Its state is the state of the sites: `dir`,
`slots`, `conninfo`.  A failed or killed copy may leave files and leaves its slot; the
rewrite of `postgresql.auto.conf` may lose the file.  A secondary starts bare or with a
GitLab of its own.  The operator starts, stops and promotes servers, wipes directories,
drops slots nobody depends on, and renames a standby.

`pg status` is `OpenPool` or `OpenFails` for each site, then per secondary
`AskRecovery` and `AskRow`, each of which can be `QueryFails`, then `Report` and
`Close`; `Expire` is its ten-second context.  `ok` and `remaining` are the accumulators of
`Reconcile`, which `Tally` updates once per secondary and `Report` returns; `verdict` is
auxiliary and read by no step, it records what each `checkSecondary` said.  `Streams` and `RowFor` are PostgreSQL's part:
which standbys have a row in `pg_stat_replication`, and under which name.  `doctor` is
the sequence of its checks, whose statuses are gathered in `outcomes`; those that ask a
database depend on the sites, those of host, secrets and tools have any outcome.  The
`--data-dir` that `pg setup` is given is taken to be the PGDATA of the secondary's server.  The primary's server is assumed to run.

### Slots and ReconcileCall

`Slots` is a pool: clients take one slot at most, return it once, and never more are
taken than there are.  In `Webhook` the clients are deliveries and the slots those of the
channel `sem`; in `GitFetch` they are rows and the places in the errgroup.

`ReconcileCall` is what the comments of `reconciler.Result` promise: a call settles its
units, comes to one final verdict on each of them, and then reports once, OK if no unit is
bad, with the number of bad ones; a call that could not begin says that something remains.
No unit is passed over, unless the call is cancelled: then it may report on what it has, OK
included, which is what git_fetch does and what runner.go:15 does not allow (see below).
The units are rows, repositories of two equal catalogs, or secondaries.  None of the
three computes its report from verdicts: git_fetch has two atomic counters, registry a
list of drifted repositories, postgres `ok` and `Remaining`.  The refinement mappings are
`VerdictOf` in `GitFetch` and `Registry`, and the auxiliary `verdict` in `Standby`.
`Audit` and `ObjectStorage` do not implement
it: an audit reports OK with tables it could not read in `Remaining`, and object storage
counts a difference of objects.

## 3. Runs

### Passing

| Run | Shows |
|---|---|
| `webhook` | with git_fetch and in a dry run: the channel is a pool (`ImplementsPool`) and all slots come back (`SlotsComeBack`), also if nobody shuts the server down; no stale CancelFunc stays in the map; a debounced trigger is always covered by a later one that sees its push; once the receiver is at rest every announced push was fetched, unless a fetch for that project failed or timed out |
| `failover` | `primaryDown` stands only on three rounds without a good one; PostgreSQL is promoted only by enabled automatic failover after three genuine outages, although a shutdown produces failing rounds; a promotion reported complete left the site serving and writable, a role swap reported complete left the old primary a serving, restricted standby; a standby is never released from read-only mode; a lasting outage is answered by a completed promotion, also after an attempt that failed before `pg_ctl promote`, provided that no remote command hangs; the one exception is a promotion that serve began and that was cut off after `pg_ctl promote` (`Stranded`) |
| `gitfetch` | the errgroup is a pool, also with `maxParallel` 0 (errgroup would block on it); a call that is not cancelled judges every row once and its report is exact; its OK means fetched, although webhooks fetch the same repositories meanwhile; a call returns; real and dry, with projects in hashed storage and without a route |
| `sweep` | for `serve` and `sync`: a failing reconciler does not abort the sweep; after a cancellation at most one more is entered; OK of git_rsync or fs_storage means mirrored, under concurrent writes and failing copies, except for the paths whose rsync error fs_storage took for success; no reconciler starves, and shutdown ends the runner although ticks keep coming |
| `objectstorage` | failed pages and retries never distort the totals; `Retry` forgives two failures and not a third |
| `audit` | OK hides no drift that was met and no error of `git fsck`, an alarm has a reason (a drift, a broken repository, or a `git fsck` that could not check a sound one), `Remaining` is exact on sites that stand still |
| `registry` | OK only after all listed repositories were compared, and then registries at rest whose catalogs fit a page are the same; each repository is judged once and the report is exact |
| `standby` | a setup reported complete, after whatever failures, kills, clean-ups and setups of other secondaries, left a whole copy, its slot and a name, and shares its slot with no other completed standby; the report of `pg status` is exact on sites that stand still, errors of some secondaries notwithstanding, and its counters agree with the verdicts on all secondaries also when time runs out between two queries (`ImplementsCall`); pools are closed wherever opening fails, and the command ends in its time; a `doctor` that says "All checks passed" has, on sites that stand still, seen a primary that can be copied and a running standby at every secondary |

What the command line and the configuration fix for the life of a process - a dry
run, `serve` or `sync`, `maxParallel`, whether git_fetch is there - are variables
that keep their initial value (in `Failover`, that a new process sets), so that one
run covers all of their values.

### Violations

Each of these checks one sentence that the repository's documents or comments say,
and TLC finds a behaviour of the code that contradicts it.  The quotations are
under `findings`.

| Run | What the code does |
|---|---|
| `webhook_burst` | three deliveries for one project can end in two concurrent fetches: the first trigger's deferred `delete` removes the second one's entry (webhook.go:213) |
| `failover_repeat` | the controller promotes again at the next round; the second attempt stops GitLab on the promoted site and fails at `pg_ctl promote` (failover.go:96) |
| `failover_manual` | the `geoctl failover` that the log asks for refuses: its own controller has never polled (failover.go:246) |
| `sweep_promoted` | sweeps after a promotion delete what users wrote on the promoted site (gitrsync/reconciler.go:63) |

### Other disagreements met while modelling

These follow from the same actions; no run is kept for them.

* Restarting `serve` makes a promoted secondary read-only again (main.go:187), while
  testing-guide.md:234 says it is write-capable.
* The old primary, unreachable only for the health check or back again, is writable
  together with the new one: nothing fences it (failover.go:138; runbook.go:74 calls
  this rare).
* `adopt-as-secondary` stops the old primary, then fails because `pg_basebackup`
  does not write into a data directory that is not empty (failover.go:210).
* With the primary's host gone no promotion completes: its last step reads the
  primary's secrets over SSH (failover.go:167), so the runbook of testing-guide.md:230
  is not printed.
* A cancelled git_fetch call reports OK for projects it never launched
  (gitfetch/reconciler.go:113; runner.go:15 "true if the component is fully in sync").
* For hashed storage the webhook fetches into a path where the repository is not
  (gitfetch/reconciler.go:276 beside its comment at 267).
* fs_storage takes an rsync error for success when its output contains "No such file or
  directory" or "change_dir" (fsstorage/reconciler.go:140).  That is so for a missing source or
  destination, but also for a source directory that may not be entered, a missing ssh
  identity file, or a file that vanished in the middle of the copy; the reconciler is then
  OK, and runner.go:15 calls that fully in sync.
* `git fsck` that cannot run (no git, an owner it does not trust, a repository that is gone
  since the walk, a shutdown) raises the same critical alarm as a broken repository
  (consistency/reconciler.go:185).
* The remote commands of a promotion have neither a timeout nor a deadline (sshexec.go:49-70,
  failover.go:79-96): one that hangs keeps the controller from polling, and an outage is then
  not answered.
* `lagThreshold` is stored and never read (objectstorage/reconciler.go:100 and 126).
* An audit is OK with items remaining when sites cannot be read (consistency/reconciler.go:102,
  apivalidator/reconciler.go:87; runner.go:19 "0 when OK").
* The fsck sample is drawn with replacement and covers less than its share
  (consistency/reconciler.go:175; runbook.go:117).
* The registry reconciler compares tags, not digests (registry/reconciler.go:5 and 181).
* `pg setup` names the standby after its slot, or leaves the `gitlab-geo-sync` of the DSN;
  the postgres reconciler looks for the secondary's `name` (postgres/reconciler.go:143), so a
  fresh standby is usually reported as missing.  testing-guide.md:269-271 describes the symptom.
  The row found may also be another standby's, when a slot is named like another secondary.
* The wizard and the example put `slot_name` under the primary (initcmd.go:123,
  deploy/config.example.yaml:24); `pg setup` reads the secondary's (main.go:371) and then runs
  without a slot.
* `doctor` before `pg setup` is said only to WARN of a secondary that is not bootstrapped
  (testing-guide.md:103-119: "will WARN if not bootstrapped yet", "Fix all FAIL items before
  proceeding"; doctor.go:283 and 402 say the same).  Without a server there it FAILs, at the
  control connection (doctor.go:179-204, `DoctorControl`), and that item cannot be fixed before
  the bootstrap: a server that runs has a data directory, and `pg setup` refuses one that is not
  empty.
* `max_wal_senders` 1 passes `doctor` (doctor.go:269), while `-X stream` needs two connections.
* `dbKeyPresentCheck` says "not found in secrets.yml or gitlab.rb" and looks at secrets.yml
  only (doctor.go:305 and 315).
* A setup that fails while it writes `postgresql.auto.conf` (pgsetup.go:123) leaves a standby
  without `primary_conninfo` that the next run refuses; the slot of a failed copy makes
  the next `--create-slot` fail.
* A promotion that stops after `pg_ctl promote` took effect cannot be completed by a later
  round: the repeated `pg_ctl promote` fails (failover.go:151-170).
* `adopt-as-secondary` does not look at the other site; run before a promotion it leaves no
  primary (failover.go:206).
* A replica can end behind an announced push when a fetch that was shown older refs finishes
  after a newer one (gitfetch/reconciler.go:232); the next sweep repairs it.
* The failover section is never written by the wizard, and without it `failover_enabled`
  starts no controller (main.go:202-215).
* On a signal, and on the error of any of its servers, `serve` returns without waiting for
  the runner (main.go:217-229).

### Bounds

* Webhook: three requests are the least that shows the three-party interleavings
  (a cancelled one, its successor, and one that arrives after a clean-up); two slots for
  three requests make `Drop` happen.  One project is the case where triggers meet; that
  the entries of several projects are kept apart holds by the theorems, for any number of
  them.  Deliveries are interchangeable; without symmetry, which liveness forbids, the
  run takes them in the order of their numbers (`InOrder`, which constrains only their
  arrival, an action without fairness).  `MaxPush` 1 distinguishes before from after.
* Failover: one secondary, one URL and a quorum of one; a round is then one poll, and three
  rounds are the code's own constant.  One fault allows a failed attempt followed by a good
  one.  One start of `serve`: restarts, several secondaries and other quorums are covered by
  the theorems, which also hold for them.  `OutageIsAnswered` needs the primary's own
  failing polls to reach the quorum: with two URLs and a quorum of two another URL that
  answers keeps every round good, as the code intends.
* GitFetch: up to three projects, one in hashed storage, one of legacy storage, one without a
  route; a pool of two makes the launch loop wait for three, a configured 0 tests the clamp.
  One push per project and one webhook fetch at a time.
* Sweep: one item suffices because mirrors treat items independently and the properties
  are statements about single items; two paths, one missing on the primary, separate the
  counter from the last result.
* ObjectStorage: two keys give a listing a second page; three contents include two of
  the same size.  Three attempts are the code's constant.
* Audit: counts are chosen at the edges of the tolerance: no row, -1, 5, 54, 60 and 61,
  where differences of 6 and 7 meet tenths of 5 and 6.  One repository, one change.
  The run takes the consistency kind; the theorems hold for both.
* Registry: three repositories and a catalog page of two, one tag; one change of a site
  during the call.
* Standby: two secondaries, under three configurations: one slot for both, slots named as
  the secondaries, and the first one's slot named as the second, which has none.  Setups
  and the operator are unbounded; one command (`pg status` or `doctor`) per behaviour, with
  at most one step of others while it runs (`MaxChange`), which separates sites at rest
  from sites that move.

`CHECK_DEADLOCK FALSE` is set where a call, a sweep or a server ends.  Failover runs
with deadlock checking: sites and processes can always move.

### Fairness

* Webhook: weak fairness of each handler and each goroutine.  The Go scheduler runs
  goroutines that can run, the debounce is a timer, and git is killed when the five-minute
  context ends.  Nothing is assumed of users, deliveries, expiry or shutdown.
* Failover: weak fairness of the health rounds only: the ticker fires and the HTTP client of the
  polls has a timeout of five seconds.  Remote commands have none, so no fairness makes them
  return; `OutageIsAnswered` has as its hypothesis that every orchestration of `serve` comes to
  its end, good or bad (`[]<>(kind["serve"] = "none")`).  Nothing is assumed of the sites, the
  operator or the commands.
* GitFetch: weak fairness of the loop and of each goroutine; git has a ten-minute context.
* Sweep: weak fairness of the runner and the ticker, strong fairness of `Stop`, because
  `select` chooses uniformly at random among ready cases and so cannot take the tick for ever.
  The one assumption the code does not secure is that a `Reconcile` call returns; there is
  no timeout around rsync (listed as a hazard).
* Standby: weak fairness of the steps of `pg status` that need no server, and of its timeout.
  No server is assumed to answer; a query that hangs ends with the context.

## 4. Proofs

All theorems hold for every value of the constants that satisfies the module's
assumption; nothing is taken on trust.  Every module has its proofs in one of its own, laid
out alike: a lemma `InitIInv`, one lemma or step per action for the inductive invariant
`IInv`, then `Inductive`, which puts them together, and the properties.  The runs' safety invariants and
action properties, and the three refinements of `ReconcileCall` and two of `Slots`, are all
stated by theorems.

The assumptions are the types of the constants and, besides: in Webhook finitely many
requests and a capacity of at least one; in Failover at least one secondary and URL
and a quorum of at least one; in Audit at least one table; in Sweep that the configured
paths differ; in Standby what `validate` secures, a nonempty list of secondaries with
different names.  `maxParallel`, the sizes of pages, the numbers of keys, items and
repositories, and the bounds on changes (`MaxPush`, `MaxChange`) are arbitrary.

* `WebhookProofs`: `TypeCorrect`, `SlotsAccounted`, `PendingRuns`, `DebounceCovers`,
  `DryRunSafe`, `PoolImplemented`, `AcceptedServed`.  `SupersededIsCovered` is
  not inductive: that the canceller is later and has not been cancelled itself needs that a
  request that has not entered the critical section has neither result nor canceller
  (`NotBegun`), that orders are below the clock (`OrderBound`) and that a delivery announces
  nothing the primary does not hold (`SeenBound`).  The step that matters is `Begin`: the
  new trigger takes over every obligation of the one it cancels, since it is the latest of all.
  `SlotsAccounted` uses the cardinality lemmas for finite sets.  `PoolImplemented` is the
  refinement of `Slots`: with `SlotsAccounted`, `Accept` is an `Acquire`, `Release` a
  `Release`, and every other step a stutter.  `AcceptedServed` adds what a result means
  (`Outcome`: a fetch was shown at least what its delivery had seen) and then follows the
  cancelled trigger to the one that covers it.
* `FailoverProofs`: `TypeCorrect`, `VerdictEarned`, `StandbysReadOnly`, `PromotionIsJustified`,
  `PromotionComplete`, `SwapComplete`.  The invariant has three parts.  `Window` ties the
  counter to the recorded rounds: the last `consecutiveFails` are not good, and are genuine
  outages unless the process is stopping.  `Ops` says which orchestrations which process can be
  in; in particular a command never passes `verifyPrimaryDown`, as its controller never polls.
  `Progress` says what the sites look like once a script has reached a command.  That a shutdown
  cannot cause a promotion follows from `Window` and from the fact that commands of a stopping
  process fail.  `SwapComplete` needs that nobody undoes a role swap's commands while it runs
  (`Swapping`), which rests on `Ops`: `serve` promotes only the first secondary and
  restricts, never releases, any other site.
* `GitFetchProofs`: `TypeCorrect`, `OKIsFetched`, `PoolImplemented`, `CallImplemented`.
  Goroutines exist exactly for the rows the loop has passed (`Launched`), which is why `Go`
  can only acquire a place that its row does not have and why rows that were not launched
  have no verdict; the two counters are the numbers of the rows that ended so or so (`Counted`);
  and a fetch carries at least what the primary held when the list was read, unless a webhook
  had begun on that repository before (`Fresh`).
* `SweepProofs`: `TypeCorrect`, `CompleteSweep`, `LastCall`, `OKIsMirrored`.  `Configuration`
  shows that every choice of `buildReconcilers` gives a plan that is not empty; `Passed` that the
  loop has called what lies behind it once and the rest not at all, and leaves early only by
  the cancellation; `Late` how many calls that allows.  For the mirrors, `Window` says that what an
  rsync must copy has been on the primary throughout and what it may copy was there at some
  time, and `Copied` that paths done with neither a failure nor a forgiven error stay between
  the two until the call returns - although the loop goes on and users go on writing.
* `ObjectStorageProofs`: `TypeCorrect`, `VerdictIsExact`, `RetryIsExact`.  On quiet buckets the
  running totals are those of the keys before the cursor (`Totalled`), a new attempt sets
  both back, and `Retries` ties the attempt to the failures so far.  That one more page adds
  one more object and its bytes is `SeenOneMore`, an argument about disjoint finite sets; so no
  induction over the bucket is needed.
* `AuditProofs`: `ApproxIsClose`,
  `ApproxIsSymmetric` and `ApproxIsConvex` are about `isApproxEqual` for all integers:
  with its truncating division it is the band "at most 5, or at most a tenth of the larger",
  symmetric and without gaps.  `TypeCorrect`, `OKIsTolerated` and `AlarmsHaveReason` follow from
  an invariant that ties `drifts` being zero to what was read and to the errors of `git fsck`
  (`DriftsCounted`), the number held
  between the two reads to one the primary had (`Observed`), and the counters to the loop
  (`Position`).  `RemainingExact` adds that `remaining` is the number of the tables passed
  that were not read, plus those read and drifted (`Accounted`).
* `RegistryProofs`: `TypeCorrect`, `OKIsCompared`, `CallImplemented`.  The repository in hand is
  neither to do nor clean (`Current`), `driftRepos` counts the ones that are over and not
  clean (`Counted`), and while the registries stand still what was read is what they hold (`Still`).
* `StandbyProofs`: `TypeCorrect`, `SetupIsComplete`, `ReportIsExact`, `DoctorIsReady`,
  `CallImplemented`.  `Owners` says that finished and running setups hold their slots and share
  none, through kills, clean-ups and the slots that failed copies leave behind.  `Directories`
  says what is in the directory of a server that runs or was set up; it had to be
  strengthened by "a secondary that is being set up has no server running", without
  which it is not inductive: the operator could promote what is half copied.  `Position`
  and `Exact` follow `pg status` through its loop, `Found` the `doctor` through its checks.
  `Accumulated` is that `ok` and `remaining` agree with the set of bad verdicts at every
  round of the loop (`TallyCounts`): the secondary in hand has no verdict yet, so a bad one
  is counted once.
* The refinements of `ReconcileCall` go step by step: a row, repository or secondary that
  changes its verdict is a `Judge`, reading the list a `List`, the report a `Return` whose
  number is the cardinality that the counters were shown to be, an error before the loop a
  `GiveUp`, the rest stutters.  A `Return` needs that every unit has its verdict: all rows ended
  (`AllEnded` in GitFetch, but for a cancelled call), no repository is left to do, and the loop
  over the secondaries stands behind the last one.

Only model-checked: the liveness properties, since fairness and ENABLED are out of the
prover's reach - `SlotsComeBack`, `OutageIsAnswered`, `SweepEnds`, `KeepsSweeping`,
`StatusCleansUp`.  The violations are found by TLC and are statements about single behaviours.

## 5. Not modelled

* configuration: parsing, environment references and defaults; what `validate` secures enters
  as assumptions (`validate` in Standby, the assumptions of the other modules).  One
  difference is listed as a hazard: `validate` accepts a negative quorum.
* the fallbacks of `fetchKey` in db_key_base parity: the check is one command that succeeds
  if both hosts answer.
* metrics and `Detail` of the postgres reconciler: lag is reported, not acted on.
* init, runbook, sla, metrics, logging: reading and printing.
* autorepair: no command calls it.
* the format of commands, URLs, SSH options, log lines and metrics.
* contents of databases and repositories beyond "which pushes are there".

## 6. Plan

Modelled, in order of importance: Failover, Webhook, GitFetch (with the webhook's fetches),
Sweep, ObjectStorage, Audit, Registry, Standby, and the abstract `Slots` and
`ReconcileCall` with the modules that implement them.

Proved: every safety and action property and every refinement the runs check.

Next, proofs:

1. What `Slots` and `ReconcileCall` themselves promise - a pool is never overfull, an answer is
   final and counts the verdicts given - as theorems about the abstract modules, which the
   refinements then carry over.
2. The safety half of the liveness properties: in every reachable state in which a call or a
   command has not ended the guard of one of its own steps holds, stated with the guards and
   without ENABLED.
3. Bounds on what can go wrong where a hazard is only described: how far a replica can fall behind
   when a webhook's fetch and a sweep's cross.

Next, modelling: the start-up of `serve` (servers that fail to listen beside a runner that has
begun), operators for the defaults and checks of the configuration, and one run of Audit for
both kinds.
