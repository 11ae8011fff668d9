------------------------------ MODULE Standby ------------------------------
(***************************************************************************)
(* The PostgreSQL side of the secondaries: `geoctl pg setup', which makes  *)
(* a standby with pg_basebackup; the postgres reconciler as `geoctl pg     *)
(* status' calls it; and the checks of `geoctl doctor'.  An operator       *)
(* starts, stops and promotes servers and clears up after failed setups.   *)
(*                                                                         *)
(* Secondaries are numbered as in the configuration; 0 is the primary.  "" *)
(* is the empty string of the code.  One pg setup runs per secondary at a  *)
(* time, and one pg status or doctor in a behaviour.                       *)
(***************************************************************************)
EXTENDS Naturals, Sequences, FiniteSets

CONSTANTS
  Name,         \* names of the secondaries, in order
  Tool,         \* application_name of ReplicationDSN
  SlotConfigs,  \* slot_name of each secondary: the configurations considered
  MaxChange     \* bound: steps of others while pg status or doctor runs

N == Len(Name)
Secondaries == 1..N
Sites == 0..N

\* At least one secondary, no name empty or used twice.  Slot names are not
\* looked at.
validate(names) ==
  /\ names # <<>>
  /\ \A i, j \in DOMAIN names : names[i] # "" /\ (names[i] = names[j] => i = j)

ASSUME StandbyAssumption ==
  /\ Name \in Seq(STRING) /\ validate(Name)
  /\ Tool # ""
  /\ \A c \in SlotConfigs : DOMAIN c = Secondaries
  /\ MaxChange \in Nat

SlotNames == UNION {{c[i] : i \in Secondaries} : c \in SlotConfigs}
AppNames == {Name[i] : i \in Secondaries} \cup SlotNames \cup {Tool, ""}

VARIABLES
  slotName,   \* postgres.slot_name of each secondary
  \* the sites
  prepared,   \* replication role, wal_level and max_wal_senders of the primary
  slots,      \* replication slots on the primary
  dir,        \* PGDATA; "partial" is what a killed copy leaves
  conninfo,   \* primary_conninfo: the host is in it, the application name
  pg,         \* role of PostgreSQL
  setup,      \* pg setup for each secondary
  ready,      \* auxiliary: standbys whose setup was reported complete
  \* the command: pg status or doctor
  pc, at,     \* where it is, and the site it is at
  open,       \* sites whose pool is open
  expired,    \* its context timed out
  ok, remaining,  \* what Reconcile accumulates over the secondaries
  result,     \* OK and Remaining once Reconcile returned
  verdict,    \* auxiliary: what checkSecondary said of each; no step reads it
  outcomes,   \* doctor: the statuses of its checks so far
  changes,    \* steps of others since the command began
  lost        \* auxiliary: a query failed that the server could have answered

siteVars == <<slotName, prepared, slots, dir, conninfo, pg, setup, ready>>
loopVars == <<ok, remaining, verdict>>
cmdVars == <<pc, at, open, expired, loopVars, result, outcomes, lost>>
vars == <<siteVars, cmdVars, changes>>

\* No result yet, or OK and Remaining.
Results == {<<>>} \cup (BOOLEAN \X (0..N))

TypeOK ==
  /\ slotName \in SlotConfigs
  /\ prepared \in BOOLEAN
  /\ slots \subseteq SlotNames
  /\ dir \in [Secondaries -> {"empty", "foreign", "partial", "base"}]
  /\ conninfo \in [Secondaries -> [host : BOOLEAN, app : AppNames]]
  /\ pg \in [Secondaries -> {"down", "standby", "primary"}]
  /\ setup \in [Secondaries -> {"off", "copy", "name"}]
  /\ ready \subseteq Secondaries
  /\ pc \in {"idle", "open", "recovery", "row", "close",
             "control", "primary", "in_recovery", "tools", "s3", "checked", "done"}
  /\ at \in 0..(N + 1)
  /\ open \subseteq Sites
  /\ expired \in BOOLEAN
  /\ ok \in BOOLEAN /\ remaining \in 0..N
  /\ verdict \in [Secondaries -> {"none", "good", "bad"}]
  /\ result \in Results
  /\ outcomes \subseteq {"PASS", "WARN", "FAIL"}
  /\ changes \in 0..MaxChange
  /\ lost \in BOOLEAN

NoConninfo == [host |-> FALSE, app |-> ""]

\* A site to be made a secondary is bare or runs a GitLab of its own.
Init ==
  /\ slotName \in SlotConfigs
  /\ prepared \in BOOLEAN
  /\ slots = {}
  /\ dir \in [Secondaries -> {"empty", "foreign"}]
  /\ conninfo = [i \in Secondaries |-> NoConninfo]
  /\ pg = [i \in Secondaries |-> IF dir[i] = "foreign" THEN "primary" ELSE "down"]
  /\ setup = [i \in Secondaries |-> "off"]
  /\ ready = {}
  /\ pc = "idle" /\ at = 0
  /\ open = {} /\ expired = FALSE
  /\ ok = TRUE /\ remaining = 0
  /\ verdict = [i \in Secondaries |-> "none"]
  /\ result = <<>>
  /\ outcomes = {}
  /\ changes = 0 /\ lost = FALSE

\* A step beside the command; the model ends with the command.
Beside ==
  /\ pc \notin {"checked", "done"}
  /\ changes' = IF pc = "idle" THEN 0 ELSE changes + 1
  /\ changes' <= MaxChange
  /\ UNCHANGED <<slotName, cmdVars>>

(***************************************************************************)
(* geoctl pg setup.  A dry run ends after checkDataDir without a change.   *)
(***************************************************************************)
CheckDataDir(i) == dir[i] = "empty"

\* Deliberate fault: -S without --create-slot takes a slot that exists.
SlotIsAnyones(i) == TRUE

\* -S slot --create-slot, if a slot is configured.
SlotIsFree(i) == slotName[i] \notin slots

\* pg_basebackup connects, creates the slot and begins to write.  A setup that
\* is refused changes nothing.
SetupStart(i) ==
  /\ Beside
  /\ setup[i] = "off"
  /\ CheckDataDir(i)
  /\ prepared /\ SlotIsFree(i)
  /\ slots' = slots \cup ({slotName[i]} \ {""})
  /\ dir' = [dir EXCEPT ![i] = "partial"]
  /\ setup' = [setup EXCEPT ![i] = "copy"]
  /\ UNCHANGED <<prepared, conninfo, pg, ready>>

\* With -R it leaves a primary_conninfo, with or without the application name of
\* the DSN, or one that appendConnInfoAppname does not recognise.
BackupEnds(i) ==
  /\ Beside
  /\ setup[i] = "copy"
  /\ dir' = [dir EXCEPT ![i] = "base"]
  /\ \E line \in {NoConninfo, [host |-> TRUE, app |-> ""], [host |-> TRUE, app |-> Tool]} :
       conninfo' = [conninfo EXCEPT ![i] = line]
  /\ setup' = [setup EXCEPT ![i] = "name"]
  /\ UNCHANGED <<prepared, slots, pg, ready>>

\* It fails or is killed; the slot stays, files may.
BackupFails(i) ==
  /\ Beside
  /\ setup[i] = "copy"
  /\ \/ UNCHANGED dir
     \/ dir' = [dir EXCEPT ![i] = "empty"]
  /\ setup' = [setup EXCEPT ![i] = "off"]
  /\ UNCHANGED <<prepared, slots, conninfo, pg, ready>>

\* The line keeps its own application name, or is given the slot's.
Named(line, slot) ==
  IF slot = "" \/ line.app # "" THEN line ELSE [line EXCEPT !.app = slot]

AppendConnInfoAppname(i) ==
  /\ Beside
  /\ setup[i] = "name"
  /\ conninfo' = [conninfo EXCEPT ![i] = Named(@, slotName[i])]
  /\ setup' = [setup EXCEPT ![i] = "off"]
  /\ ready' = ready \cup {i}
  /\ UNCHANGED <<prepared, slots, dir, pg>>

\* The file cannot be read, or only its truncation gets to the disk.
AppendFails(i) ==
  /\ Beside
  /\ setup[i] = "name" /\ slotName[i] # ""
  /\ \/ UNCHANGED conninfo
     \/ conninfo' = [conninfo EXCEPT ![i] = NoConninfo]
  /\ setup' = [setup EXCEPT ![i] = "off"]
  /\ UNCHANGED <<prepared, slots, dir, pg, ready>>

Setup(i) ==
  \/ SetupStart(i) \/ BackupEnds(i) \/ BackupFails(i)
  \/ AppendConnInfoAppname(i) \/ AppendFails(i)

(***************************************************************************)
(* The operator.                                                           *)
(***************************************************************************)
\* standby.signal, which -R writes, makes the copy a standby.
StartPG(i) ==
  /\ Beside
  /\ setup[i] = "off" /\ pg[i] = "down" /\ dir[i] \in {"base", "foreign"}
  /\ pg' = [pg EXCEPT ![i] = IF dir[i] = "base" THEN "standby" ELSE "primary"]
  /\ UNCHANGED <<prepared, slots, dir, conninfo, setup, ready>>

StopPG(i) ==
  /\ Beside
  /\ pg[i] # "down"
  /\ pg' = [pg EXCEPT ![i] = "down"]
  /\ UNCHANGED <<prepared, slots, dir, conninfo, setup, ready>>

Promote(i) ==
  /\ Beside
  /\ pg[i] = "standby"
  /\ pg' = [pg EXCEPT ![i] = "primary"]
  /\ dir' = [dir EXCEPT ![i] = "foreign"]
  /\ ready' = ready \ {i}
  /\ UNCHANGED <<prepared, slots, conninfo, setup>>

WipeDir(i) ==
  /\ Beside
  /\ setup[i] = "off" /\ pg[i] = "down" /\ dir[i] # "empty"
  /\ dir' = [dir EXCEPT ![i] = "empty"]
  /\ conninfo' = [conninfo EXCEPT ![i] = NoConninfo]
  /\ ready' = ready \ {i}
  /\ UNCHANGED <<prepared, slots, pg, setup>>

\* A slot that no finished or running setup needs.
DropSlot(k) ==
  /\ Beside
  /\ k \in slots
  /\ \A i \in Secondaries : slotName[i] = k => i \notin ready /\ setup[i] = "off"
  /\ slots' = slots \ {k}
  /\ UNCHANGED <<prepared, dir, conninfo, pg, setup, ready>>

\* "Fix by setting application_name=<secondary_name>" (testing-guide.md:271).
Rename(i) ==
  /\ Beside
  /\ setup[i] = "off" /\ dir[i] = "base"
  /\ conninfo' = [conninfo EXCEPT ![i] = [host |-> TRUE, app |-> Name[i]]]
  /\ UNCHANGED <<prepared, slots, dir, pg, setup, ready>>

ConfigurePrimary ==
  /\ Beside
  /\ prepared' = ~ prepared
  /\ UNCHANGED <<slots, dir, conninfo, pg, setup, ready>>

Operator ==
  \/ \E i \in Secondaries : StartPG(i) \/ StopPG(i) \/ Promote(i) \/ WipeDir(i) \/ Rename(i)
  \/ \E k \in SlotNames : DropSlot(k)
  \/ ConfigurePrimary

(***************************************************************************)
(* geoctl pg status: New, one Reconcile within 10 seconds, Close.          *)
(***************************************************************************)
StatusStart ==
  /\ pc = "idle"
  /\ pc' = "open" /\ at' = 0
  /\ UNCHANGED <<siteVars, open, expired, loopVars, result, outcomes, lost, changes>>

\* Deliberate fault: one pool too many.
OpenPoolPast ==
  /\ pc = "open"
  /\ open' = open \cup {at}
  /\ IF at > N THEN pc' = "recovery" /\ at' = 1
               ELSE at' = at + 1 /\ UNCHANGED pc
  /\ UNCHANGED <<siteVars, expired, loopVars, result, outcomes, lost, changes>>

OpenPool ==
  /\ pc = "open"
  /\ open' = open \cup {at}
  /\ IF at = N THEN pc' = "recovery" /\ at' = 1
               ELSE at' = at + 1 /\ UNCHANGED pc
  /\ UNCHANGED <<siteVars, expired, loopVars, result, outcomes, lost, changes>>

\* Deliberate fault: only the primary's pool is closed when one cannot be opened.
OpenFailsLeaking ==
  /\ pc = "open"
  /\ open' = open \ {0}
  /\ pc' = "done"
  /\ UNCHANGED <<siteVars, at, expired, loopVars, result, outcomes, lost, changes>>

\* The pools opened before are closed and the command ends.
OpenFails ==
  /\ pc = "open"
  /\ open' = {}
  /\ pc' = "done"
  /\ UNCHANGED <<siteVars, at, expired, loopVars, result, outcomes, lost, changes>>

\* The servers in pg_stat_replication.  A standby's slot, if any, must exist.
Streams(j) ==
  /\ pg[j] = "standby"
  /\ conninfo[j].host
  /\ slotName[j] \in slots \cup {""}

RowFor(i) == \E j \in Secondaries : Streams(j) /\ conninfo[j].app = Name[i]

\* One round of the loop with what checkSecondary returned.
Tally(v) ==
  /\ verdict' = [verdict EXCEPT ![at] = v]
  /\ ok' = (ok /\ v = "good")
  /\ remaining' = IF v = "bad" THEN remaining + 1 ELSE remaining

\* Deliberate fault: the first error ends the loop.
JudgedEarly(v) ==
  /\ Tally(v)
  /\ pc' = "recovery"
  /\ at' = IF v = "bad" THEN N + 1 ELSE at + 1

\* Deliberate fault: ok is what the last secondary left in it.
JudgedForgetting(v) ==
  /\ verdict' = [verdict EXCEPT ![at] = v]
  /\ ok' = (v = "good")
  /\ remaining' = IF v = "bad" THEN remaining + 1 ELSE remaining
  /\ pc' = "recovery" /\ at' = at + 1

\* An error does not end the loop.
Judged(v) ==
  /\ Tally(v)
  /\ pc' = "recovery" /\ at' = at + 1

\* pg_is_in_recovery() answered.
AskRecovery ==
  /\ pc = "recovery" /\ at <= N /\ ~ expired
  /\ pg[at] # "down"
  /\ IF pg[at] = "standby"
       THEN pc' = "row" /\ UNCHANGED <<at, loopVars>>
       ELSE Judged("bad")
  /\ UNCHANGED <<siteVars, open, expired, result, outcomes, lost, changes>>

\* The primary answered whether it has a row of that name.
AskRow ==
  /\ pc = "row" /\ ~ expired
  /\ Judged(IF RowFor(at) THEN "good" ELSE "bad")
  /\ UNCHANGED <<siteVars, open, expired, result, outcomes, lost, changes>>

\* A query may fail; it does when nobody listens or the context is over.
QueryFails ==
  /\ pc \in {"recovery", "row"} /\ at <= N
  /\ Judged("bad")
  /\ lost' = (lost \/ pc = "row" \/ pg[at] # "down")
  /\ UNCHANGED <<siteVars, open, expired, result, outcomes, changes>>

Expire ==
  /\ pc \in {"open", "recovery", "row"} /\ ~ expired
  /\ expired' = TRUE
  /\ UNCHANGED <<siteVars, pc, at, open, loopVars, result, outcomes, lost, changes>>

Report ==
  /\ pc = "recovery" /\ at = N + 1
  /\ result' = <<ok, remaining>>
  /\ pc' = "close"
  /\ UNCHANGED <<siteVars, at, open, expired, loopVars, outcomes, lost, changes>>

Close ==
  /\ pc = "close"
  /\ open' = {}
  /\ pc' = "done"
  /\ UNCHANGED <<siteVars, at, expired, loopVars, result, outcomes, lost, changes>>

Status ==
  \/ StatusStart \/ OpenPool \/ OpenFails \/ AskRecovery \/ AskRow \/ QueryFails
  \/ Expire \/ Report \/ Close

(***************************************************************************)
(* geoctl doctor: of each site the control connection, what replication    *)
(* needs (settings of the primary, recovery of a secondary) and the checks *)
(* of host and secrets, on which no other part of this module depends.     *)
(* Each check opens and closes a pool of its own; none ends the list.      *)
(***************************************************************************)
DoctorStart ==
  /\ pc = "idle"
  /\ pc' = "control" /\ at' = 0
  /\ UNCHANGED <<siteVars, open, expired, loopVars, result, outcomes, lost, changes>>

\* Deliberate fault: each status takes the place of those before it.
AddsLast(outcome, next, site) ==
  /\ outcomes' = {outcome}
  /\ pc' = next /\ at' = site
  /\ UNCHANGED <<siteVars, open, expired, loopVars, result, lost, changes>>

\* add: whatever a check says, the next one follows.
Adds(outcome, next, site) ==
  /\ outcomes' = outcomes \cup {outcome}
  /\ pc' = next /\ at' = site
  /\ UNCHANGED <<siteVars, open, expired, loopVars, result, lost, changes>>

\* A query can always fail.  The primary is assumed to run.  So a secondary whose
\* server does not run FAILs here, although the next check only WARNs of it.
PgControlCheck(s) == IF s = 0 \/ pg[s] # "down" THEN {"PASS", "FAIL"} ELSE {"FAIL"}

PgPrimaryChecks == IF prepared THEN {"PASS", "FAIL"} ELSE {"FAIL"}

PgInRecoveryCheck(s) == IF pg[s] = "standby" THEN {"PASS", "WARN"} ELSE {"WARN"}

DoctorControl ==
  /\ pc = "control"
  /\ \E outcome \in PgControlCheck(at) :
       Adds(outcome, IF at = 0 THEN "primary" ELSE "in_recovery", at)

DoctorPrimary ==
  /\ pc = "primary"
  /\ \E outcome \in PgPrimaryChecks : Adds(outcome, "tools", at)

DoctorInRecovery ==
  /\ pc = "in_recovery"
  /\ \E outcome \in PgInRecoveryCheck(at) : Adds(outcome, "tools", at)

\* ssh, db_key_base and its parity, rsync, git, repos_path.
DoctorTools ==
  /\ pc = "tools"
  /\ \E outcome \in {"PASS", "WARN", "FAIL"} :
       IF at = N THEN Adds(outcome, "s3", at) ELSE Adds(outcome, "control", at + 1)

DoctorS3 ==
  /\ pc = "s3"
  /\ \E outcome \in {"PASS", "FAIL"} : Adds(outcome, "checked", at)

Doctor ==
  \/ DoctorStart \/ DoctorControl \/ DoctorPrimary \/ DoctorInRecovery
  \/ DoctorTools \/ DoctorS3

Next ==
  \/ \E i \in Secondaries : Setup(i)
  \/ Operator
  \/ Status
  \/ Doctor

Spec == Init /\ [][Next]_vars

\* The process is scheduled and its 10 seconds pass.  No server is assumed to
\* answer: a query that hangs ends with the context.
QueryEnds == expired /\ QueryFails

Fairness ==
  /\ WF_vars(Expire) /\ WF_vars(QueryEnds)
  /\ WF_vars(OpenPool) /\ WF_vars(Report) /\ WF_vars(Close)

FairSpec == Spec /\ Fairness

-----------------------------------------------------------------------------
Quiet == changes = 0 /\ ~ lost

\* A setup that reports completion, whatever failed, was killed or was run for
\* other secondaries before, has left a whole copy, and if a slot is configured
\* the slot is there, no other completed standby depends on it (validate lets
\* two secondaries name one slot) and the standby bears an application name.
CompletedSetup ==
  [][\A i \in ready' \ ready :
       /\ dir'[i] = "base"
       /\ slotName[i] # "" =>
            /\ slotName[i] \in slots'
            /\ \A j \in ready : slotName[j] # slotName[i]
            /\ conninfo'[i].app # ""]_vars

\* On sites that stand still the report is exact, errors of some secondaries
\* notwithstanding: it counts those that are not in recovery or whose name the
\* primary does not know.  The name may be borne by another standby.
QuietReportIsExact ==
  result # <<>> /\ Quiet =>
    LET behind == {i \in Secondaries : pg[i] # "standby" \/ ~ RowFor(i)}
    IN  result = <<behind = {}, Cardinality(behind)>>

Promise == INSTANCE ReconcileCall
             WITH Units <- Secondaries, units <- Secondaries, cancelled <- FALSE

\* Reconcile keeps the promise of reconciler.Result although it counts as it goes:
\* every secondary is judged, also when its context ends between two of them, and
\* ok and Remaining agree with all the verdicts, errors before good ones included.
ImplementsCall == Promise!Spec

\* pg status ends within its time, answer or no answer, and leaves no pool open,
\* wherever New failed.
StatusCleansUp == pc = "open" ~> pc = "done" /\ open = {}

\* "All checks passed. Ready to sync!" (doctor.go:404): on sites that stand still
\* the primary can be copied and every secondary is a running standby.  No
\* status is lost among those of the later checks.
AllPassedIsReady ==
  pc = "checked" /\ outcomes = {"PASS"} /\ Quiet =>
    /\ prepared
    /\ \A i \in Secondaries : pg[i] = "standby"
=============================================================================
