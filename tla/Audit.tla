-------------------------------- MODULE Audit --------------------------------
(***************************************************************************)
(* One Reconcile call of an auditing reconciler: consistency_sweep (table  *)
(* row estimates, then git fsck of a sample of repositories) or            *)
(* api_validator (X-Total of list endpoints).  Both read a number from the *)
(* primary, then the same number from the secondary, while the sites go on *)
(* changing; a read may fail.                                              *)
(***************************************************************************)
EXTENDS Integers, FiniteSets

CONSTANTS
  Kind,       \* "consistency" or "api"
  NTables,    \* bound: tables, or endpoints
  Counts,     \* numbers a site may report; reltuples is -1 before ANALYZE
  MaxChange,  \* bound: changes of the sites during the call
  NRepos,     \* bound: repositories below repos_path
  SamplePct   \* sync.consistency_sample_pct, in per cent

ASSUME AuditAssumption ==
  /\ Kind \in {"consistency", "api"}
  /\ NTables \in Nat \ {0} /\ MaxChange \in Nat /\ NRepos \in Nat
  /\ Counts \subseteq Int
  /\ SamplePct \in Int

Tables == 1..NTables
Repos == 1..NRepos
Sites == {"primary", "secondary"}

\* No row in pg_class, or no X-Total header; reltuples is at least -1.
NoRow == -2

\* rowCount takes a table that is missing for an empty one.
RowCount(v) == IF v = NoRow THEN 0 ELSE v

\* fetchCount takes a missing header for an error.
Readable(v) == Kind = "api" => v # NoRow

(***************************************************************************)
(* isApproxEqual                                                           *)
(***************************************************************************)
Abs(x) == IF x < 0 THEN 0 - x ELSE x

\* Go's integer division truncates towards zero.
Tenth(x) == IF x < 0 THEN 0 - ((0 - x) \div 10) ELSE x \div 10

\* Deliberate fault: the band is that of the smaller number.
ToleranceOfSmaller(a, b) ==
  LET t == IF b > a THEN Tenth(a) ELSE Tenth(b)
  IN  IF t < 5 THEN 5 ELSE t

Tolerance(a, b) ==
  LET t == IF b > a THEN Tenth(b) ELSE Tenth(a)
  IN  IF t < 5 THEN 5 ELSE t

isApproxEqual(a, b) == Abs(a - b) <= Tolerance(a, b)

\* What makes a pair of numbers a drift.
IsDrift(p, s) ==
  /\ p # s
  /\ Kind = "consistency" => ~ isApproxEqual(p, s)

(***************************************************************************)
(* sampleGitFsck                                                           *)
(***************************************************************************)
SampleSize ==
  IF Kind = "api" \/ SamplePct <= 0 \/ NRepos = 0 THEN 0
  ELSE LET n == (NRepos * SamplePct) \div 100 IN IF n < 1 THEN 1 ELSE n

VARIABLES
  pc,         \* of Reconcile
  i,          \* the table being compared
  pCount,     \* its number on the primary
  drifts, remaining,
  draw,       \* fsck runs so far
  result,
  cancelled,
  rows,       \* the numbers the sites would report now
  changes,
  corrupt,    \* repositories that git fsck rejects
  read,       \* auxiliary: tables read from both sites
  had,        \* auxiliary: numbers the sites had during the call
  checked,    \* auxiliary: repositories that were checked
  unrun       \* auxiliary: sound ones among them for which git gave an error

vars == <<pc, i, pCount, drifts, remaining, draw, result, cancelled, rows, changes,
          corrupt, read, had, checked, unrun>>
siteVars == <<rows, changes, corrupt, had>>

NoResult == [ok |-> FALSE, remaining |-> 0]

TypeOK ==
  /\ pc \in {"primary", "secondary", "fsck", "done"}
  /\ i \in 1..(NTables + 1)
  /\ pCount \in Counts \cup {0}
  /\ drifts \in 0..(NTables + SampleSize)
  /\ remaining \in 0..NTables
  /\ draw \in 0..SampleSize
  /\ result \in [ok : BOOLEAN, remaining : 0..NTables]
  /\ cancelled \in BOOLEAN
  /\ rows \in [Sites -> [Tables -> Counts]]
  /\ changes \in 0..MaxChange
  /\ corrupt \subseteq Repos
  /\ read \subseteq Tables
  /\ had \in [Sites -> [Tables -> SUBSET Counts]]
  /\ checked \subseteq Repos /\ unrun \subseteq Repos

Init ==
  /\ pc = "primary" /\ i = 1
  /\ pCount = 0 /\ drifts = 0 /\ remaining = 0 /\ draw = 0
  /\ result = NoResult
  /\ cancelled = FALSE
  /\ rows \in [Sites -> [Tables -> Counts]]
  /\ changes = 0
  /\ corrupt \in SUBSET Repos
  /\ read = {} /\ checked = {} /\ unrun = {}
  /\ had = [s \in Sites |-> [t \in Tables |-> {rows[s][t]}]]

(***************************************************************************)
(* The environment                                                         *)
(***************************************************************************)
\* Users, ANALYZE or replication change what a site reports.
SiteChanges(s, t, v) ==
  /\ pc # "done" /\ changes < MaxChange
  /\ v # rows[s][t]
  /\ rows' = [rows EXCEPT ![s][t] = v]
  /\ had' = [had EXCEPT ![s][t] = @ \cup {v}]
  /\ changes' = changes + 1
  /\ UNCHANGED <<pc, i, pCount, drifts, remaining, draw, result, cancelled, corrupt,
                 read, checked, unrun>>

Cancel ==
  /\ pc # "done" /\ ~ cancelled
  /\ cancelled' = TRUE
  /\ UNCHANGED <<pc, i, pCount, drifts, remaining, draw, result, siteVars, read, checked, unrun>>

(***************************************************************************)
(* Reconcile                                                               *)
(***************************************************************************)
\* The next table, the sample, or the end.
NextTable ==
  /\ i' = i + 1
  /\ pc' = IF i < NTables THEN "primary" ELSE "fsck"

ReadPrimary ==
  /\ pc = "primary" /\ ~ cancelled
  /\ Readable(rows["primary"][i])
  /\ pCount' = RowCount(rows["primary"][i])
  /\ pc' = "secondary"
  /\ UNCHANGED <<i, drifts, remaining, draw, result, cancelled, siteVars, read, checked, unrun>>

\* Deliberate fault: a site that cannot be read ends the loop.
ReadFailsBreaking ==
  /\ pc \in {"primary", "secondary"}
  /\ remaining' = remaining + 1
  /\ i' = i + 1 /\ pc' = "fsck"
  /\ UNCHANGED <<pCount, drifts, draw, result, cancelled, siteVars, read, checked, unrun>>

\* An error on either site, or a context that is done, is counted and the loop
\* continues with the next table.
ReadFails ==
  /\ pc \in {"primary", "secondary"}
  /\ remaining' = remaining + 1
  /\ NextTable
  /\ UNCHANGED <<pCount, drifts, draw, result, cancelled, siteVars, read, checked, unrun>>

\* Deliberate fault: a drift resets the count of the earlier ones.
CompareResetting ==
  /\ pc = "secondary" /\ ~ cancelled
  /\ Readable(rows["secondary"][i])
  /\ LET drift == IsDrift(pCount, RowCount(rows["secondary"][i]))
     IN  /\ drifts' = IF drift THEN drifts + 1 ELSE 0
         /\ remaining' = IF drift THEN remaining + 1 ELSE remaining
  /\ read' = read \cup {i}
  /\ NextTable
  /\ UNCHANGED <<pCount, draw, result, cancelled, siteVars, checked, unrun>>

\* Deliberate fault: a drift is counted in Remaining twice.
CompareTwice ==
  /\ pc = "secondary" /\ ~ cancelled
  /\ Readable(rows["secondary"][i])
  /\ LET drift == IsDrift(pCount, RowCount(rows["secondary"][i]))
     IN  /\ drifts' = IF drift THEN drifts + 1 ELSE drifts
         /\ remaining' = IF drift THEN remaining + 2 ELSE remaining
  /\ read' = read \cup {i}
  /\ NextTable
  /\ UNCHANGED <<pCount, draw, result, cancelled, siteVars, checked, unrun>>

\* The secondary answers and the two numbers are compared.
Compare ==
  /\ pc = "secondary" /\ ~ cancelled
  /\ Readable(rows["secondary"][i])
  /\ LET drift == IsDrift(pCount, RowCount(rows["secondary"][i]))
     IN  /\ drifts' = IF drift THEN drifts + 1 ELSE drifts
         /\ remaining' = IF drift THEN remaining + 1 ELSE remaining
  /\ read' = read \cup {i}
  /\ NextTable
  /\ UNCHANGED <<pCount, draw, result, cancelled, siteVars, checked, unrun>>

\* One repository, picked with replacement.  git gives an error for a broken one,
\* but also for one it will not open or that is gone since the walk, when it is
\* not installed, and under a context that is done; all of them count.
Fsck(r, ok) ==
  /\ pc = "fsck" /\ draw < SampleSize
  /\ ok => r \notin corrupt /\ ~ cancelled
  /\ drifts' = IF ok THEN drifts ELSE drifts + 1
  /\ draw' = draw + 1
  /\ checked' = checked \cup {r}
  /\ unrun' = IF ok \/ r \in corrupt THEN unrun ELSE unrun \cup {r}
  /\ UNCHANGED <<pc, i, pCount, remaining, result, cancelled, siteVars, read>>

Report ==
  /\ pc = "fsck" /\ draw = SampleSize
  /\ result' = [ok |-> drifts = 0, remaining |-> remaining]
  /\ pc' = "done"
  /\ UNCHANGED <<i, pCount, drifts, remaining, draw, cancelled, siteVars, read, checked, unrun>>

Next ==
  \/ ReadPrimary \/ ReadFails \/ Compare \/ Report
  \/ \E r \in Repos, ok \in BOOLEAN : Fsck(r, ok)
  \/ \E s \in Sites, t \in Tables, v \in Counts : SiteChanges(s, t, v)
  \/ Cancel

Spec == Init /\ [][Next]_vars

-----------------------------------------------------------------------------
\* Reference: numbers apart by at most 5, or by at most a tenth of the larger.
Close(p, s) ==
  \/ Abs(p - s) <= 5
  \/ 10 * Abs(p - s) <= p
  \/ 10 * Abs(p - s) <= s

Tolerated(v, w) ==
  \/ RowCount(v) = RowCount(w)
  \/ Kind = "consistency" /\ Close(RowCount(v), RowCount(w))

\* An OK audit has seen each table that both sites answered for within the
\* tolerance, and had git find no fault with any repository of its sample: no
\* later table, error or change of the sites hides a drift it met.
OKMeansTolerated ==
  pc = "done" /\ result.ok =>
    /\ \A t \in read :
         \E p \in had["primary"][t], s \in had["secondary"][t] : Tolerated(p, s)
    /\ checked \cap corrupt = {} /\ unrun = {}

\* An audit that is not OK has a reason: a table whose numbers were out of
\* tolerance during the call, a broken repository, or a git fsck that gave an
\* error about a sound one; tables that could not be read, a shutdown and
\* changes of the sites within the tolerance are none.
AlarmHasReason ==
  pc = "done" /\ ~ result.ok =>
    \/ \E t \in read :
         \E p \in had["primary"][t], s \in had["secondary"][t] : ~ Tolerated(p, s)
    \/ checked \cap corrupt # {}
    \/ unrun # {}

\* Remaining accounts for every table: those that no site answered for are all
\* in it, and on sites that stand still those out of tolerance and no other.
RemainingIsExact ==
  pc = "done" /\ changes = 0 =>
    result.remaining =
      Cardinality(Tables \ read)
      + Cardinality({t \in read : ~ Tolerated(rows["primary"][t], rows["secondary"][t])})
=============================================================================
