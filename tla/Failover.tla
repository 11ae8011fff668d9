------------------------------ MODULE Failover ------------------------------
(***************************************************************************)
(* The failover controller (internal/failover) inside `geoctl serve', the  *)
(* read-only enforcement that serve performs when it starts                *)
(* (internal/readonly), and the `geoctl failover' and                      *)
(* `geoctl adopt-as-secondary' commands, which run in a process of their   *)
(* own with a Controller of their own.                                     *)
(*                                                                         *)
(* Sites are numbered as in the configuration: 0 is cfg.Primary, i is      *)
(* cfg.Secondaries[i-1].  An orchestration (promotion, role swap,          *)
(* read-only enforcement) is a script of remote commands that stops at the *)
(* first error; its process can die between any two of them.               *)
(***************************************************************************)
EXTENDS Integers, Sequences

CONSTANTS
  NumSecondaries,     \* len(cfg.Secondaries)
  NumURLs,            \* len(healthURLs); the first is the primary's
  Quorum,             \* failover.quorum_required
  FailoverEnabled,    \* sync.failover_enabled
  AutoFailover,       \* failover.auto_failover
  ReadOnlySecondary,  \* sync.read_only_secondary
  MaxFaults,          \* bound: commands that fail for no reason of the model's
  MaxStarts           \* bound: starts of serve

\* config.validate: at least one secondary, quorum_required 0 becomes 1.
ASSUME FailoverAssumption ==
  /\ NumSecondaries \in Nat \ {0}
  /\ NumURLs \in Nat \ {0}
  /\ Quorum \in Nat \ {0}
  /\ {FailoverEnabled, AutoFailover, ReadOnlySecondary} \subseteq BOOLEAN
  /\ MaxFaults \in Nat
  /\ MaxStarts \in Nat

Sites == 0..NumSecondaries
Primary == 0
First == 1                          \* cfg.Secondaries[0]
Procs == {"serve", "cli"}
Restrictions == {"registry", "sidekiq", "storages"}

\* Deliberate fault: the promotion lifts read-only mode before pg_ctl promote.
ScriptEarlyRelease(k) ==
  CASE k = "promote"  -> <<"verify", "stop", "registry", "sidekiq", "storages",
                           "promote", "start", "dbkey">>
    [] k = "adopt"    -> <<"stop", "basebackup", "registry", "sidekiq",
                           "storages", "start">>
    [] k = "readonly" -> <<"registry", "sidekiq", "storages">>

\* The commands of an orchestration.  Enable and Disable of package readonly
\* are three commands each.
Script(k) ==
  CASE k = "promote"  -> <<"verify", "stop", "promote", "registry", "sidekiq",
                           "storages", "start", "dbkey">>
    [] k = "adopt"    -> <<"stop", "basebackup", "registry", "sidekiq",
                           "storages", "start">>
    [] k = "readonly" -> <<"registry", "sidekiq", "storages">>

Length(k) == Len(Script(k))

Kinds == {"promote", "adopt", "readonly"}

VARIABLES
  \* the sites
  reachable,    \* the host answers HTTP and SSH
  services,     \* gitlab-ctl: GitLab is running
  pg,           \* role of PostgreSQL; "empty" is a wiped PGDATA
  ro,           \* read-only restrictions in force
  \* the serve process
  phase,        \* "off", "starting" (read-only enforcement) or "running"
  stopping,     \* its context is cancelled
  polls, fails, \* URLs polled and failures in the current round
  consecutiveFails,
  \* both processes
  dry,          \* started with --dry-run
  primaryDown,  \* Controller.primaryDown
  kind, target, step,   \* orchestration in progress: Script(kind)[step]
  \* auxiliary: what happened so far
  genuine,      \* failures of the round that a cancelled context did not cause
  history,      \* verdicts of the last three rounds, latest last
  promoted,     \* sites whose promotion was reported complete
  faults, starts

siteVars == <<reachable, services, pg, ro>>
checkVars == <<polls, fails, genuine, consecutiveFails, history>>
opVars == <<kind, target, step>>
vars == <<siteVars, phase, stopping, checkVars, dry, primaryDown, opVars, promoted,
          faults, starts>>

TypeOK ==
  /\ reachable \in [Sites -> BOOLEAN]
  /\ services \in [Sites -> BOOLEAN]
  /\ pg \in [Sites -> {"primary", "standby", "empty"}]
  /\ ro \in [Sites -> SUBSET Restrictions]
  /\ phase \in {"off", "starting", "running"}
  /\ stopping \in BOOLEAN
  /\ polls \in 0..NumURLs
  /\ fails \in 0..polls
  /\ genuine \in 0..fails
  /\ consecutiveFails \in 0..3
  /\ history \in [1..3 -> {"good", "bad", "spoilt"}]
  /\ dry \in [Procs -> BOOLEAN]
  /\ primaryDown \in [Procs -> BOOLEAN]
  /\ kind \in [Procs -> Kinds \cup {"none"}]
  /\ target \in [Procs -> Sites]
  /\ step \in [Procs -> 1..8]
  /\ \A p \in Procs : kind[p] # "none" => step[p] <= Length(kind[p])
  /\ promoted \subseteq Sites
  /\ faults \in 0..MaxFaults
  /\ starts \in 0..MaxStarts

\* Replication is set up (geoctl pg setup); nothing of geoctl runs yet.
Init ==
  /\ reachable = [s \in Sites |-> TRUE]
  /\ services = [s \in Sites |-> TRUE]
  /\ pg = [s \in Sites |-> IF s = Primary THEN "primary" ELSE "standby"]
  /\ ro = [s \in Sites |-> {}]
  /\ phase = "off" /\ stopping = FALSE
  /\ polls = 0 /\ fails = 0 /\ genuine = 0
  /\ consecutiveFails = 0
  /\ history = [i \in 1..3 |-> "good"]
  /\ dry = [p \in Procs |-> FALSE]
  /\ primaryDown = [p \in Procs |-> FALSE]
  /\ kind = [p \in Procs |-> "none"]
  /\ target = [p \in Procs |-> Primary]
  /\ step = [p \in Procs |-> 1]
  /\ promoted = {}
  /\ faults = 0 /\ starts = 0

(***************************************************************************)
(* The environment: hosts and their network fail and come back, GitLab on  *)
(* the primary fails and comes back, an operator wipes the data directory  *)
(* of the stopped old primary.                                             *)
(***************************************************************************)
Connectivity(s) ==
  /\ reachable' = [reachable EXCEPT ![s] = ~ @]
  /\ UNCHANGED <<services, pg, ro, phase, stopping, checkVars, dry, primaryDown,
                 opVars, promoted, faults, starts>>

PrimaryService ==
  /\ kind["cli"] # "adopt"
  /\ pg[Primary] = "primary"
  /\ services' = [services EXCEPT ![Primary] = ~ @]
  /\ UNCHANGED <<reachable, pg, ro, phase, stopping, checkVars, dry, primaryDown,
                 opVars, promoted, faults, starts>>

WipeData ==
  /\ kind["cli"] = "none"
  /\ ~ services[Primary]
  /\ pg' = [pg EXCEPT ![Primary] = "empty"]
  /\ UNCHANGED <<reachable, services, ro, phase, stopping, checkVars,
                 dry, primaryDown, opVars, promoted, faults, starts>>

Environment == (\E s \in Sites : Connectivity(s)) \/ PrimaryService \/ WipeData

(***************************************************************************)
(* The life of the serve process.                                          *)
(***************************************************************************)
\* An orchestration starts in process p at the first command.
StartOp(p, k, s) ==
  /\ kind' = [kind EXCEPT ![p] = k]
  /\ target' = [target EXCEPT ![p] = s]
  /\ step' = [step EXCEPT ![p] = 1]

\* newServeCmd: with read_only_secondary every secondary is made read-only,
\* in order, before anything else runs.
ServeStart(d) ==
  /\ phase = "off"
  /\ starts < MaxStarts
  /\ starts' = starts + 1
  /\ dry' = [dry EXCEPT !["serve"] = d]
  /\ IF ReadOnlySecondary
       THEN phase' = "starting" /\ StartOp("serve", "readonly", First)
       ELSE phase' = "running" /\ UNCHANGED opVars
  /\ UNCHANGED <<siteVars, stopping, checkVars, primaryDown, promoted, faults>>

\* SIGINT or SIGTERM cancels the context of the controller.
Signal ==
  /\ phase # "off"
  /\ ~ stopping
  /\ stopping' = TRUE
  /\ UNCHANGED <<siteVars, phase, checkVars, dry, primaryDown, opVars, promoted,
                 faults, starts>>

\* The process is gone and its memory with it.
Gone ==
  /\ phase' = "off" /\ stopping' = FALSE
  /\ polls' = 0 /\ fails' = 0 /\ genuine' = 0
  /\ consecutiveFails' = 0
  /\ primaryDown' = [primaryDown EXCEPT !["serve"] = FALSE]
  /\ kind' = [kind EXCEPT !["serve"] = "none"]
  /\ step' = [step EXCEPT !["serve"] = 1]
  /\ target' = [target EXCEPT !["serve"] = Primary]
  /\ UNCHANGED <<history, dry, promoted, starts>>

\* Once the context is cancelled RunE returns; a crash needs no signal.  The
\* controller's goroutine is cut off wherever it stands.
ServeExit ==
  /\ phase # "off"
  /\ Gone
  /\ UNCHANGED <<siteVars, faults>>

(***************************************************************************)
(* check: one round of polls, then the verdict.                            *)
(***************************************************************************)
PrimaryHealthy == reachable[Primary] /\ services[Primary]

\* Controller.Run: serve starts it only with failover enabled, and while it
\* promotes it does not poll.
CanPoll ==
  /\ phase = "running"
  /\ FailoverEnabled
  /\ kind["serve"] = "none"

PollOK ==
  /\ CanPoll
  /\ polls < NumURLs
  /\ ~ stopping
  /\ polls = 0 => PrimaryHealthy
  /\ polls' = polls + 1
  /\ UNCHANGED <<siteVars, phase, stopping, fails, genuine, consecutiveFails,
                 history, dry, primaryDown, opVars, promoted, faults, starts>>

\* The request fails: a bad status, a timeout, or a context cancelled by the
\* shutdown of serve itself.
PollFails ==
  /\ CanPoll
  /\ polls < NumURLs
  /\ polls' = polls + 1
  /\ fails' = fails + 1
  /\ genuine' = IF stopping THEN genuine ELSE genuine + 1
  /\ UNCHANGED <<siteVars, phase, stopping, consecutiveFails, history,
                 dry, primaryDown, opVars, promoted, faults, starts>>

Record(verdict) ==
  history' = [i \in 1..3 |-> IF i = 3 THEN verdict ELSE history[i + 1]]

EndRound ==
  /\ CanPoll
  /\ polls = NumURLs
  /\ polls' = 0 /\ fails' = 0 /\ genuine' = 0

\* Promote of the first secondary, with its own check of failover_enabled.
AutoPromote ==
  IF AutoFailover /\ (dry["serve"] \/ FailoverEnabled)
    THEN StartOp("serve", "promote", First)
    ELSE UNCHANGED opVars

\* Deliberate fault: promote when the counter passes 3, not while it is there.
RoundBadOnce ==
  /\ EndRound
  /\ fails >= Quorum
  /\ consecutiveFails' = IF consecutiveFails < 3 THEN consecutiveFails + 1 ELSE 3
  /\ IF consecutiveFails = 2
       THEN primaryDown' = [primaryDown EXCEPT !["serve"] = TRUE] /\ AutoPromote
       ELSE UNCHANGED <<primaryDown, opVars>>
  /\ Record(IF genuine >= Quorum THEN "bad" ELSE "spoilt")
  /\ UNCHANGED <<siteVars, phase, stopping, dry, promoted, faults, starts>>

\* The counter only meets the comparison with 3, so it saturates there.
RoundBad ==
  /\ EndRound
  /\ fails >= Quorum
  /\ consecutiveFails' = IF consecutiveFails < 3 THEN consecutiveFails + 1 ELSE 3
  /\ IF consecutiveFails' >= 3
       THEN primaryDown' = [primaryDown EXCEPT !["serve"] = TRUE] /\ AutoPromote
       ELSE UNCHANGED <<primaryDown, opVars>>
  /\ Record(IF genuine >= Quorum THEN "bad" ELSE "spoilt")
  /\ UNCHANGED <<siteVars, phase, stopping, dry, promoted, faults, starts>>

\* Deliberate fault: a recovery resets the counter only.
RoundGoodKeepsDown ==
  /\ EndRound
  /\ fails < Quorum
  /\ consecutiveFails' = 0
  /\ Record("good")
  /\ UNCHANGED <<siteVars, phase, stopping, dry, primaryDown, opVars, promoted,
                 faults, starts>>

RoundGood ==
  /\ EndRound
  /\ fails < Quorum
  /\ consecutiveFails' = 0
  /\ primaryDown' = [primaryDown EXCEPT !["serve"] = FALSE]
  /\ Record("good")
  /\ UNCHANGED <<siteVars, phase, stopping, dry, opVars, promoted, faults, starts>>

(***************************************************************************)
(* The commands.  Each builds a fresh Controller, whose primaryDown is     *)
(* false, and calls Promote or AdoptAsSecondary.                           *)
(***************************************************************************)
CliFailover(s, d) ==
  /\ kind["cli"] = "none"
  /\ d \/ FailoverEnabled
  /\ dry' = [dry EXCEPT !["cli"] = d]
  /\ primaryDown' = [primaryDown EXCEPT !["cli"] = FALSE]
  /\ StartOp("cli", "promote", s)
  /\ UNCHANGED <<siteVars, phase, stopping, checkVars, promoted, faults, starts>>

CliAdopt(d) ==
  /\ kind["cli"] = "none"
  /\ d \/ FailoverEnabled
  /\ dry' = [dry EXCEPT !["cli"] = d]
  /\ primaryDown' = [primaryDown EXCEPT !["cli"] = FALSE]
  /\ StartOp("cli", "adopt", Primary)
  /\ UNCHANGED <<siteVars, phase, stopping, checkVars, promoted, faults, starts>>

(***************************************************************************)
(* One command of an orchestration.                                        *)
(***************************************************************************)
Command(p) == Script(kind[p])[step[p]]

\* CheckWithRunner reads db_key_base on the primary, then on the secondary; keys
\* that differ or are not found are faults of the step.
DBKeyReadable(s) == reachable[Primary] /\ reachable[s]

\* Deliberate fault: commands run under a context of their own.
SucceedsDetached(p) ==
  LET s == target[p] IN
  IF Command(p) = "verify" THEN primaryDown[p]
  ELSE /\ reachable[s]
       /\ Command(p) = "promote" => pg[s] = "standby"
       /\ Command(p) = "basebackup" =>
            pg[s] = "empty" /\ reachable[First] /\ pg[First] # "empty"
       /\ Command(p) = "dbkey" => DBKeyReadable(s)

\* What makes the command exit 0.  verifyPrimaryDown is local; everything
\* else goes over SSH under the context of the process.
Succeeds(p) ==
  LET s == target[p] IN
  IF Command(p) = "verify" THEN primaryDown[p]
  ELSE /\ reachable[s]
       /\ ~ (p = "serve" /\ stopping)
       /\ Command(p) = "promote" => pg[s] = "standby"
       /\ Command(p) = "basebackup" =>
            pg[s] = "empty" /\ reachable[First] /\ pg[First] # "empty"
       /\ Command(p) = "dbkey" => DBKeyReadable(s)

\* What the command does to its host.  The rails runner of "storages" hides
\* its failure behind `|| true'; on a standby its UPDATE cannot succeed.
Effect(p) ==
  LET s == target[p]
      c == Command(p) IN
  /\ services' = CASE c = "stop"  -> [services EXCEPT ![s] = FALSE]
                   [] c = "start" -> [services EXCEPT ![s] = TRUE]
                   [] OTHER       -> services
  /\ pg' = CASE c = "promote"    -> [pg EXCEPT ![s] = "primary"]
             [] c = "basebackup" -> [pg EXCEPT ![s] = "standby"]
             [] OTHER            -> pg
  /\ ro' = IF c \in Restrictions /\ (c = "storages" => pg[s] = "primary")
           THEN [ro EXCEPT ![s] = IF kind[p] = "promote" THEN @ \ {c} ELSE @ \cup {c}]
           ELSE ro
  /\ UNCHANGED reachable

\* After the last command serve goes on to the next secondary, then to work;
\* a command of geoctl ends.
Finish(p) ==
  IF kind[p] = "readonly" /\ target[p] < NumSecondaries
    THEN StartOp(p, "readonly", target[p] + 1) /\ UNCHANGED phase
    ELSE /\ StartOp(p, "none", Primary)
         /\ phase' = IF kind[p] = "readonly" THEN "running" ELSE phase

\* Deliberate fault: one command too many.
AdvancePastEnd(p) ==
  IF step[p] <= Length(kind[p])
    THEN step' = [step EXCEPT ![p] = @ + 1] /\ UNCHANGED <<kind, target, phase>>
    ELSE Finish(p)

Advance(p) ==
  IF step[p] < Length(kind[p])
    THEN step' = [step EXCEPT ![p] = @ + 1] /\ UNCHANGED <<kind, target, phase>>
    ELSE Finish(p)

\* The first error ends the script.  When it is the read-only enforcement,
\* serve itself returns it and exits; the controller only logs it.
Abort(p) ==
  IF kind[p] = "readonly"
    THEN Gone
    ELSE /\ StartOp(p, "none", Primary)
         /\ UNCHANGED <<phase, stopping, checkVars, dry, primaryDown, promoted, starts>>

\* "failover complete" after the last command.
Report(p) ==
  promoted' = IF kind[p] = "promote" /\ step[p] = Length("promote")
              THEN promoted \cup {target[p]} ELSE promoted

StepOK(p) ==
  /\ kind[p] # "none" /\ ~ dry[p]
  /\ Succeeds(p)
  /\ Effect(p)
  /\ Report(p)
  /\ Advance(p)
  /\ UNCHANGED <<stopping, checkVars, dry, primaryDown, faults, starts>>

\* Deliberate fault: an error is logged and the script goes on.
StepFailsGoesOn(p) ==
  /\ kind[p] # "none" /\ ~ dry[p]
  /\ ~ Succeeds(p)
  /\ Report(p)
  /\ Advance(p)
  /\ UNCHANGED <<siteVars, stopping, checkVars, dry, primaryDown, faults, starts>>

StepFails(p) ==
  /\ kind[p] # "none" /\ ~ dry[p]
  /\ ~ Succeeds(p)
  /\ Abort(p)
  /\ UNCHANGED <<siteVars, faults>>

\* A command that could have succeeded does not (disk, sudo, key mismatch),
\* or it succeeds on the host and its connection breaks before the exit status.
StepFaulty(p) ==
  /\ kind[p] # "none" /\ ~ dry[p]
  /\ Command(p) # "verify"
  /\ Succeeds(p)
  /\ faults < MaxFaults
  /\ faults' = faults + 1
  /\ Effect(p) \/ UNCHANGED siteVars
  /\ Abort(p)

\* A dry run prints the command.
StepPrinted(p) ==
  /\ kind[p] # "none" /\ dry[p]
  /\ Advance(p)
  /\ UNCHANGED <<siteVars, stopping, checkVars, dry, primaryDown, promoted, faults,
                 starts>>

Step(p) == StepOK(p) \/ StepFails(p) \/ StepFaulty(p) \/ StepPrinted(p)

Check == PollOK \/ PollFails \/ RoundBad \/ RoundGood

Next ==
  \/ Environment
  \/ \E d \in BOOLEAN : ServeStart(d)
  \/ Signal \/ ServeExit
  \/ Check
  \/ \E d \in BOOLEAN : CliAdopt(d) \/ \E s \in Sites \ {Primary} : CliFailover(s, d)
  \/ \E p \in Procs : Step(p)

Spec == Init /\ [][Next]_vars

\* The ticker keeps ticking and the HTTP client of the polls has a timeout of
\* five seconds.  Remote commands have none (sshexec.go:49-70, the controller's
\* context has no deadline): that they return is not assumed here.
Fairness == WF_vars(Check)

FairSpec == Spec /\ Fairness

-----------------------------------------------------------------------------
\* The primary is declared down only on the evidence of the last three rounds,
\* none of which was good: no path (recovery, restart, shutdown, promotion)
\* leaves an older verdict standing.
DeclaredDownIsEarned ==
  primaryDown["serve"] => \A i \in 1..3 : history[i] # "good"

\* PostgreSQL is promoted only by the automatic failover, on the first
\* secondary, when a quorum of the health checks failed in each of the last
\* three rounds.  A round that failed because serve itself was being shut down
\* does not count, although check counts it.
PromotionJustified ==
  [][\A s \in Sites : pg[s] = "standby" /\ pg'[s] = "primary" =>
       /\ s = First
       /\ FailoverEnabled /\ AutoFailover /\ ~ dry["serve"]
       /\ \A i \in 1..3 : history[i] = "bad"]_vars

\* A promotion that is reported complete left its site serving, on a writable
\* PostgreSQL, with the registry and Sidekiq released; whatever failed in
\* earlier attempts.
CompletedPromotion ==
  [][\A s \in promoted' \ promoted :
       /\ services'[s]
       /\ pg'[s] = "primary"
       /\ {"registry", "sidekiq"} \cap ro'[s] = {}]_vars

\* Once serve runs with read_only_secondary, a secondary that still follows
\* the primary takes neither registry pushes nor Sidekiq jobs: the promotion
\* releases them after pg_ctl promote, never before, wherever it is cut off.
StandbysStayReadOnly ==
  phase = "running" /\ ReadOnlySecondary /\ ~ dry["serve"] =>
    \A s \in Sites \ {Primary} :
       pg[s] = "standby" => {"registry", "sidekiq"} \subseteq ro[s]

\* A role swap that is reported complete left the old primary serving as a
\* standby copied from the other site, with registry and Sidekiq restricted;
\* whatever failed, and whatever the controller did meanwhile.
CompletedSwap ==
  [][(/\ kind["cli"] = "adopt" /\ step["cli"] = Length("adopt") /\ ~ dry["cli"]
      /\ kind'["cli"] = "none"
      /\ Succeeds("cli") /\ faults' = faults) =>
       /\ services'[Primary]
       /\ pg'[Primary] = "standby"
       /\ {"registry", "sidekiq"} \subseteq ro'[Primary]]_vars

\* A promotion that serve began was cut off after pg_ctl promote, which cannot be
\* repeated.
Stranded ==
  /\ pg[First] = "primary" /\ First \notin promoted
  /\ ~ (kind["serve"] = "promote" /\ step["serve"] > 3)

\* If the primary stays down and serve stays up and reaches the first
\* secondary, automatic failover promotes it and completes the promotion,
\* whatever failed before ("will automatically promote the first secondary",
\* runbook.go:48), provided that no remote command hangs for ever: every
\* orchestration of serve comes to its end, good or bad.  What fails up to
\* pg_ctl promote is made good by a later round.  What fails after it is not:
\* a command, serve, or the way to one of the hosts, that of the old primary
\* included, whose db_key_base is read at the end.
OutageIsAnswered ==
  /\ <>[](/\ ~ PrimaryHealthy /\ reachable[First]
          /\ phase = "running" /\ ~ stopping /\ ~ dry["serve"])
  /\ []<>(kind["serve"] = "none")
  => <>(\/ First \in promoted
        \/ /\ Stranded
           /\ faults > 0 \/ starts > 1 \/ \E s \in Sites : ~ reachable[s])

-----------------------------------------------------------------------------
\* "After failover, the secondary is now the primary.  Verify: The web UI
\* loads on the secondary's URL." (testing-guide.md:232)
PromotedServes == \A s \in promoted : services[s]

\* "primary declared down; auto-failover disabled -- run `geoctl failover`
\* manually" (failover.go:100): the command then accepts the primary as down.
ManualFailoverProceeds ==
  /\ kind["cli"] = "promote" /\ Command("cli") = "verify" /\ ~ dry["cli"]
  /\ primaryDown["serve"]
  => Succeeds("cli")
=============================================================================
