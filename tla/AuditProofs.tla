----------------------------- MODULE AuditProofs -----------------------------
(***************************************************************************)
(* Proofs about Audit: the tolerance band, and the two directions of the   *)
(* verdict and what Remaining counts, for any number of tables, counts and *)
(* repositories.                                                           *)
(***************************************************************************)
EXTENDS Audit, FiniteSetTheorems, TLAPS

\* isApproxEqual decides what its comment says, "a 10% tolerance band (minimum
\* 5 rows)" (consistency reconciler.go:126), for all integers: truncating
\* division and the choice of the larger number lose no case.
THEOREM ApproxIsClose ==
  ASSUME NEW a \in Int, NEW b \in Int
  PROVE  isApproxEqual(a, b) <=> Close(a, b)
BY DEF isApproxEqual, Close, Tolerance, Tenth, Abs

\* The order of the two sites does not matter to isApproxEqual.
THEOREM ApproxIsSymmetric ==
  ASSUME NEW a \in Int, NEW b \in Int
  PROVE  isApproxEqual(a, b) <=> isApproxEqual(b, a)
BY ApproxIsClose DEF Close, Abs

\* No gap in the band of isApproxEqual: numbers between two that are
\* approximately equal are approximately equal, so a replica that catches up
\* never turns from tolerated into drifted.
THEOREM ApproxIsConvex ==
  ASSUME NEW a \in Int, NEW b \in Int, NEW x \in Int, NEW y \in Int,
         a <= x, x <= y, y <= b, isApproxEqual(a, b)
  PROVE  isApproxEqual(x, y)
BY ApproxIsClose DEF Close, Abs
-----------------------------------------------------------------------------
\* A drift of the code is a pair that the reference does not tolerate.
LEMMA DriftIsIntolerable ==
  ASSUME NEW v \in Counts, NEW w \in Counts
  PROVE  IsDrift(RowCount(v), RowCount(w)) <=> ~ Tolerated(v, w)
<1>1. RowCount(v) \in Int /\ RowCount(w) \in Int
  BY AuditAssumption DEF RowCount
<1>2. isApproxEqual(RowCount(v), RowCount(w)) <=> Close(RowCount(v), RowCount(w))
  BY <1>1, ApproxIsClose
<1> QED
  BY <1>2 DEF IsDrift, Tolerated

LEMMA SampleSizeNat == SampleSize \in Nat
BY AuditAssumption DEF SampleSize

(***************************************************************************)
(* The inductive invariant.                                                *)
(***************************************************************************)
\* Where the loop stands, and what bounds its counters.
Position ==
  /\ pc \in {"primary", "secondary"} => i \in Tables
  /\ pc \in {"fsck", "done"} => i = NTables + 1
  /\ remaining < i
  /\ drifts < i + draw

\* The sites' present numbers are among those they had; so was the one that
\* the primary gave for the current table.
Observed ==
  /\ \A s \in Sites, t \in Tables : rows[s][t] \in had[s][t]
  /\ pc = "secondary" => \E v \in had["primary"][i] : pCount = RowCount(v)

SomeTolerated(t) ==
  \E p \in had["primary"][t], s \in had["secondary"][t] : Tolerated(p, s)

SomeIntolerable(t) ==
  \E p \in had["primary"][t], s \in had["secondary"][t] : ~ Tolerated(p, s)

\* The counter of drifts is zero exactly while nothing was found.
DriftsCounted ==
  /\ drifts = 0 =>
       (\A t \in read : SomeTolerated(t)) /\ checked \cap corrupt = {} /\ unrun = {}
  /\ drifts # 0 =>
       (\E t \in read : SomeIntolerable(t)) \/ checked \cap corrupt # {} \/ unrun # {}

Reported == pc = "done" => (result.ok <=> drifts = 0)

IInv == TypeOK /\ Position /\ Observed /\ DriftsCounted /\ Reported

LEMMA InitIInv == Init => IInv
<1> SUFFICES ASSUME Init PROVE IInv
  OBVIOUS
<1> USE AuditAssumption, SampleSizeNat DEF Init
<1>1. TypeOK
  <2>1. had \in [Sites -> [Tables -> SUBSET Counts]]
    OBVIOUS
  <2>2. result \in [ok : BOOLEAN, remaining : 0..NTables]
    BY DEF NoResult
  <2>3. i \in 1..(NTables + 1) /\ pCount \in Counts \cup {0}
    OBVIOUS
  <2>4. /\ drifts \in 0..(NTables + SampleSize) /\ remaining \in 0..NTables
        /\ draw \in 0..SampleSize /\ changes \in 0..MaxChange
    OBVIOUS
  <2> QED
    BY <2>1, <2>2, <2>3, <2>4 DEF TypeOK
<1>2. Position
  BY DEF Position, Tables
<1>3. Observed
  BY DEF Observed
<1>4. DriftsCounted
  BY DEF DriftsCounted
<1>5. Reported
  BY DEF Reported
<1> QED
  BY <1>1, <1>2, <1>3, <1>4, <1>5 DEF IInv
LEMMA NextIInv == IInv /\ [Next]_vars => IInv'
<1> SUFFICES ASSUME IInv, [Next]_vars PROVE IInv'
  OBVIOUS
<1> USE AuditAssumption, SampleSizeNat
<1>t. TypeOK /\ Position /\ Observed /\ DriftsCounted /\ Reported
  BY DEF IInv
<1>1. CASE ReadPrimary
  <2> USE <1>1 DEF ReadPrimary
  <2>1. i \in Tables /\ rows["primary"][i] \in Counts /\ pCount' \in Counts \cup {0}
    BY <1>t DEF TypeOK, Position, Sites, RowCount
  <2>2. TypeOK'
    BY <1>t, <2>1 DEF TypeOK, siteVars
  <2>3. Position'
    BY <1>t, <2>1 DEF Position, TypeOK, siteVars
  <2>4. Observed'
    BY <1>t, <2>1 DEF Observed, siteVars, Sites
  <2>5. DriftsCounted'
    BY <1>t DEF DriftsCounted, SomeTolerated, SomeIntolerable, siteVars
  <2> QED
    BY <2>2, <2>3, <2>4, <2>5 DEF IInv, Reported
<1>2. CASE ReadFails
  <2> USE <1>2 DEF ReadFails, NextTable
  <2>1. i \in Tables /\ remaining < i
    BY <1>t DEF Position
  <2>2. i' \in 1..(NTables + 1) /\ remaining' \in 0..NTables
    BY <1>t, <2>1 DEF TypeOK, Tables
  <2>3. TypeOK'
    BY <1>t, <2>2 DEF TypeOK, siteVars
  <2>4. Position'
    BY <1>t, <2>1 DEF Position, TypeOK, Tables
  <2>5. Observed'
    BY <1>t DEF Observed, siteVars
  <2>6. DriftsCounted'
    BY <1>t DEF DriftsCounted, SomeTolerated, SomeIntolerable, siteVars
  <2> QED
    BY <2>3, <2>4, <2>5, <2>6 DEF IInv, Reported
<1>3. CASE Compare
  <2> DEFINE w == rows["secondary"][i]
  <2> USE <1>3 DEF Compare, NextTable
  <2>1. i \in Tables /\ remaining < i /\ drifts < i + draw
    BY <1>t DEF Position
  <2>2. w \in Counts /\ w \in had["secondary"][i]
    BY <1>t, <2>1 DEF TypeOK, Observed, Sites
  <2>3. PICK v \in had["primary"][i] : pCount = RowCount(v)
    BY <1>t DEF Observed
  <2>4. v \in Counts
    BY <1>t, <2>1, <2>3 DEF TypeOK, Sites
  <2>5. IsDrift(pCount, RowCount(w)) <=> ~ Tolerated(v, w)
    BY <2>2, <2>3, <2>4, DriftIsIntolerable
  <2>6. /\ IsDrift(pCount, RowCount(w)) => drifts' = drifts + 1 /\ remaining' = remaining + 1
        /\ ~ IsDrift(pCount, RowCount(w)) => drifts' = drifts /\ remaining' = remaining
    OBVIOUS
  <2>7. drifts \in Nat /\ draw \in 0..SampleSize /\ remaining \in Nat
    BY <1>t DEF TypeOK
  <2>8. i' \in 1..(NTables + 1) /\ remaining' \in 0..NTables /\ drifts' \in 0..(NTables + SampleSize)
    <3> HIDE DEF w
    <3> QED
      BY <2>1, <2>6, <2>7 DEF Tables
  <2>9. TypeOK'
    BY <1>t, <2>1, <2>8 DEF TypeOK, siteVars
  <2>10. Position'
    <3>1. i' = i + 1 /\ draw' = draw
      OBVIOUS
    <3>2. pc' \in {"primary", "fsck"} /\ (pc' = "primary" <=> i < NTables)
      OBVIOUS
    <3> HIDE DEF w
    <3> QED
      BY <2>1, <2>6, <2>7, <3>1, <3>2 DEF Position, Tables
  <2>11. Observed'
    BY <1>t DEF Observed, siteVars
  <2>12. DriftsCounted'
    <3>1. read' = read \cup {i} /\ had' = had /\ checked' = checked /\ corrupt' = corrupt
          /\ unrun' = unrun
      BY DEF siteVars
    <3>2. Tolerated(v, w) => SomeTolerated(i)
      BY <2>2, <2>3 DEF SomeTolerated
    <3>3. ~ Tolerated(v, w) => SomeIntolerable(i)
      BY <2>2, <2>3 DEF SomeIntolerable
    <3>4. \A t : (SomeTolerated(t))' = SomeTolerated(t) /\ (SomeIntolerable(t))' = SomeIntolerable(t)
      BY <3>1 DEF SomeTolerated, SomeIntolerable
    <3>5. CASE Tolerated(v, w)
      BY <1>t, <2>5, <2>6, <3>1, <3>2, <3>4, <3>5 DEF DriftsCounted
    <3>6. CASE ~ Tolerated(v, w)
      <4>1. drifts' # 0
        BY <2>5, <2>6, <2>7, <3>6
      <4>2. \E t \in read' : (SomeIntolerable(t))'
        BY <3>1, <3>3, <3>4, <3>6
      <4> QED
        BY <4>1, <4>2 DEF DriftsCounted
    <3> QED
      BY <3>5, <3>6
  <2> QED
    BY <2>9, <2>10, <2>11, <2>12 DEF IInv, Reported
<1>4. CASE Report
  <2> USE <1>4 DEF Report
  <2>1. TypeOK'
    BY <1>t DEF TypeOK, siteVars
  <2>2. Position' /\ Observed'
    BY <1>t DEF Position, Observed, siteVars
  <2>3. DriftsCounted'
    BY <1>t DEF DriftsCounted, SomeTolerated, SomeIntolerable, siteVars
  <2>4. Reported'
    BY DEF Reported
  <2> QED
    BY <2>1, <2>2, <2>3, <2>4 DEF IInv
<1>5. ASSUME NEW r \in Repos, NEW ok \in BOOLEAN, Fsck(r, ok) PROVE IInv'
  <2> USE <1>5 DEF Fsck
  <2>1. i = NTables + 1 /\ drifts < i + draw /\ drifts \in Nat /\ draw \in 0..SampleSize
    BY <1>t DEF Position, TypeOK
  <2>2. draw' \in 0..SampleSize /\ drifts' \in 0..(NTables + SampleSize)
    BY <2>1
  <2>3. TypeOK'
    BY <1>t, <2>2 DEF TypeOK, siteVars
  <2>4. Position'
    BY <1>t, <2>1 DEF Position
  <2>5. Observed'
    BY <1>t DEF Observed, siteVars
  <2>6. DriftsCounted'
    <3>1. \A t : (SomeTolerated(t))' = SomeTolerated(t) /\ (SomeIntolerable(t))' = SomeIntolerable(t)
      BY DEF SomeTolerated, SomeIntolerable, siteVars
    <3>2. read' = read /\ corrupt' = corrupt /\ checked' = checked \cup {r}
      BY DEF siteVars
    <3>3. CASE ~ ok
      <4>1. drifts' # 0
        BY <2>1, <3>3
      <4>2. (checked \cap corrupt # {})' \/ unrun' # {}
        BY <3>2, <3>3
      <4> QED
        BY <4>1, <4>2 DEF DriftsCounted
    <3>4. CASE ok
      <4>1. drifts' = drifts /\ unrun' = unrun
        BY <3>4
      <4>2. checked' \cap corrupt' = checked \cap corrupt
        BY <3>2, <3>4
      <4> QED
        BY <1>t, <3>1, <3>2, <4>1, <4>2 DEF DriftsCounted
    <3> QED
      BY <3>3, <3>4
  <2> QED
    BY <2>3, <2>4, <2>5, <2>6 DEF IInv, Reported
<1>6. ASSUME NEW s \in Sites, NEW t \in Tables, NEW v \in Counts, SiteChanges(s, t, v)
      PROVE  IInv'
  <2> USE <1>6 DEF SiteChanges
  <2>1. had' \in [Sites -> [Tables -> SUBSET Counts]] /\ rows' \in [Sites -> [Tables -> Counts]]
    BY <1>t DEF TypeOK
  <2>2. TypeOK'
    BY <1>t, <2>1 DEF TypeOK
  <2>3. \A p \in Sites, q \in Tables : had[p][q] \subseteq had'[p][q]
    BY <1>t DEF TypeOK
  <2>4. Position'
    BY <1>t DEF Position
  <2>5. Observed'
    <3>1. \A p \in Sites, q \in Tables : rows'[p][q] \in had'[p][q]
      BY <1>t DEF Observed, TypeOK
    <3>2. pc = "secondary" => \E u \in had'["primary"][i] : pCount = RowCount(u)
      BY <1>t, <2>3 DEF Observed, Position, Sites
    <3> QED
      BY <3>1, <3>2 DEF Observed
  <2>6. DriftsCounted'
    <3>1. \A q \in Tables : /\ SomeTolerated(q) => (SomeTolerated(q))'
                            /\ SomeIntolerable(q) => (SomeIntolerable(q))'
      BY <2>3 DEF SomeTolerated, SomeIntolerable, Sites
    <3>2. read \subseteq Tables
      BY <1>t DEF TypeOK
    <3> QED
      BY <1>t, <3>1, <3>2 DEF DriftsCounted
  <2>7. Reported'
    BY DEF Reported
  <2> QED
    BY <2>2, <2>4, <2>5, <2>6, <2>7 DEF IInv
<1>7. CASE Cancel
  <2> USE <1>7 DEF Cancel
  <2>1. TypeOK' /\ Position' /\ Observed' /\ Reported'
    BY <1>t DEF TypeOK, Position, Observed, Reported, siteVars
  <2>2. DriftsCounted'
    BY <1>t DEF DriftsCounted, SomeTolerated, SomeIntolerable, siteVars
  <2> QED
    BY <2>1, <2>2 DEF IInv
<1>8. CASE UNCHANGED vars
  BY <1>t, <1>8 DEF vars, IInv, TypeOK, Position, Observed, Reported, DriftsCounted,
                    SomeTolerated, SomeIntolerable
<1> QED
  BY <1>1, <1>2, <1>3, <1>4, <1>5, <1>6, <1>7, <1>8 DEF Next

-----------------------------------------------------------------------------
\* The strengthened invariant of a Reconcile call of consistency or
\* apivalidator holds in every reachable state.
THEOREM Inductive == Spec => []IInv
BY InitIInv, NextIInv, PTL DEF Spec

\* Type correctness: the counters of consistency's and apivalidator's loops
\* stay within the tables and the sample.
THEOREM TypeCorrect == Spec => []TypeOK
<1>1. IInv => TypeOK
  BY DEF IInv
<1> QED
  BY <1>1, Inductive, PTL

\* An OK of consistency or apivalidator never hides a drift that the call met,
\* whatever failed or changed during it.
THEOREM OKIsTolerated == Spec => []OKMeansTolerated
<1>1. IInv => OKMeansTolerated
  BY DEF IInv, DriftsCounted, Reported, OKMeansTolerated, SomeTolerated
<1> QED
  BY <1>1, Inductive, PTL

\* Consistency and apivalidator raise no alarm without a reason.
THEOREM AlarmsHaveReason == Spec => []AlarmHasReason
<1>1. IInv => AlarmHasReason
  BY DEF IInv, DriftsCounted, Reported, AlarmHasReason, SomeIntolerable
<1> QED
  BY <1>1, Inductive, PTL

-----------------------------------------------------------------------------
(***************************************************************************)
(* Remaining on sites that stand still.                                    *)
(***************************************************************************)
\* The tables passed without two answers, and those out of tolerance.
Unread == {t \in Tables : t < i /\ t \notin read}
Drifted == {t \in read : ~ Tolerated(rows["primary"][t], rows["secondary"][t])}

Accounted ==
  /\ \A t \in read : t < i
  /\ pc = "done" => result.remaining = remaining
  /\ changes = 0 =>
       /\ pc = "secondary" => pCount = RowCount(rows["primary"][i])
       /\ remaining = Cardinality(Unread) + Cardinality(Drifted)

LEMMA TableSets ==
  ASSUME NEW S \in SUBSET Tables
  PROVE  IsFiniteSet(S) /\ Cardinality(S) \in Nat
<1>1. IsFiniteSet(Tables)
  BY FS_Interval, AuditAssumption DEF Tables
<1> QED
  BY <1>1, FS_Subset, FS_CardinalityType

\* Passing table i without two answers adds it to the unread ones; comparing it
\* adds it to the drifted ones if it is out of tolerance.
LEMMA AccountedStep == IInv /\ Accounted /\ [Next]_vars => Accounted'
<1> SUFFICES ASSUME IInv, Accounted, [Next]_vars PROVE Accounted'
  OBVIOUS
<1>1. /\ read \subseteq Tables /\ (pc \in {"primary", "secondary"} => i \in Tables)
      /\ changes \in Nat
  BY AuditAssumption DEF IInv, TypeOK, Position
<1>2. Unread \in SUBSET Tables /\ Drifted \in SUBSET Tables
  BY <1>1 DEF Unread, Drifted
<1>3. ASSUME UNCHANGED <<i, remaining, read, rows, changes>>,
             pc' # "done", pc' = "secondary" => pc = "secondary" /\ UNCHANGED pCount
      PROVE  Accounted'
  BY <1>3 DEF Accounted, Unread, Drifted
<1>4. CASE ReadPrimary
  <2>1. UNCHANGED <<i, remaining, read, rows, changes>>
    BY <1>4 DEF ReadPrimary, siteVars
  <2> QED
    BY <1>4, <2>1 DEF ReadPrimary, Accounted, Unread, Drifted
<1>5. CASE ReadFails
  <2>1. /\ i \in Tables /\ i' = i + 1 /\ pc' \in {"primary", "fsck"}
        /\ remaining' = remaining + 1 /\ UNCHANGED <<read, rows, changes>>
    BY <1>1, <1>5 DEF ReadFails, NextTable, siteVars
  <2>2. i \notin Unread /\ i \notin read
    BY <2>1 DEF Unread, Accounted, Tables
  <2>3. Unread' = Unread \cup {i}
    <3>1. ASSUME NEW t \in Tables PROVE t < i + 1 <=> t < i \/ t = i
      BY <2>1 DEF Tables
    <3> QED
      BY <2>1, <2>2, <3>1 DEF Unread
  <2>4. Cardinality(Unread') = Cardinality(Unread) + 1
    BY <1>2, <2>2, <2>3, TableSets, FS_AddElement
  <2>5. Drifted' = Drifted
    BY <2>1 DEF Drifted
  <2>6. \A t \in read' : t < i'
    BY <1>1, <2>1 DEF Accounted, Tables
  <2>7. Cardinality(Unread) \in Nat /\ Cardinality(Drifted) \in Nat
    BY <1>2, TableSets
  <2> QED
    BY <2>1, <2>4, <2>5, <2>6, <2>7 DEF Accounted
<1>6. CASE Compare
  <2> DEFINE w == rows["secondary"][i]
  <2>1. /\ i \in Tables /\ i' = i + 1 /\ pc' \in {"primary", "fsck"} /\ pc = "secondary"
        /\ read' = read \cup {i} /\ UNCHANGED <<rows, changes>>
        /\ remaining' = IF IsDrift(pCount, RowCount(w)) THEN remaining + 1 ELSE remaining
    BY <1>1, <1>6 DEF Compare, NextTable, siteVars
  <2>2. i \notin read
    BY <2>1 DEF Accounted, Tables
  <2>3. \A t \in Tables : t < i + 1 <=> t < i \/ t = i
    BY <2>1 DEF Tables
  <2>4. Unread' = Unread
    BY <2>1, <2>2, <2>3 DEF Unread, Tables
  <2>5. \A t \in read' : t < i'
    BY <1>1, <2>1, <2>3 DEF Accounted
  <2>6. ASSUME changes = 0
        PROVE  remaining' = Cardinality(Unread) + Cardinality(Drifted')
    <3>1. IsDrift(pCount, RowCount(w)) <=> ~ Tolerated(rows["primary"][i], w)
      <4>1. rows["primary"][i] \in Counts /\ w \in Counts
        BY <2>1 DEF IInv, TypeOK, Sites
      <4>2. pCount = RowCount(rows["primary"][i])
        BY <2>1, <2>6 DEF Accounted
      <4> QED
        BY <4>1, <4>2, DriftIsIntolerable
    <3>2. remaining = Cardinality(Unread) + Cardinality(Drifted)
      BY <2>6 DEF Accounted
    <3>3. Cardinality(Unread) \in Nat /\ Cardinality(Drifted) \in Nat
      BY <1>2, TableSets
    <3>4. CASE Tolerated(rows["primary"][i], w)
      <4>1. Drifted' = Drifted
        BY <2>1, <3>4 DEF Drifted
      <4> QED
        BY <2>1, <3>1, <3>2, <3>4, <4>1
    <3>5. CASE ~ Tolerated(rows["primary"][i], w)
      <4>1. Drifted' = Drifted \cup {i} /\ i \notin Drifted
        BY <2>1, <2>2, <3>5 DEF Drifted
      <4>2. Cardinality(Drifted') = Cardinality(Drifted) + 1
        BY <1>2, <4>1, TableSets, FS_AddElement
      <4>3. remaining' = remaining + 1
        BY <2>1, <3>1, <3>5
      <4> QED
        BY <3>2, <3>3, <4>2, <4>3
    <3> QED
      BY <3>4, <3>5
  <2> QED
    BY <2>1, <2>4, <2>5, <2>6 DEF Accounted
<1>7. ASSUME NEW r \in Repos, NEW ok \in BOOLEAN, Fsck(r, ok) PROVE Accounted'
  BY <1>3, <1>7 DEF Fsck, siteVars
<1>8. CASE Report
  BY <1>8 DEF Report, siteVars, Accounted, Unread, Drifted
<1>9. ASSUME NEW s \in Sites, NEW t \in Tables, NEW v \in Counts, SiteChanges(s, t, v)
      PROVE  Accounted'
  <2>1. changes' # 0 /\ pc' # "done" /\ UNCHANGED <<i, read, pc>>
    BY <1>1, <1>9 DEF SiteChanges
  <2> QED
    BY <2>1 DEF Accounted
<1>10. CASE Cancel
  BY <1>3, <1>10 DEF Cancel, siteVars
<1>11. CASE UNCHANGED vars
  BY <1>11 DEF vars, Accounted, Unread, Drifted
<1> QED
  BY <1>4, <1>5, <1>6, <1>7, <1>8, <1>9, <1>10, <1>11 DEF Next

\* On sites that stand still Remaining counts each table once: those without two
\* answers and those out of tolerance, whatever number of them there is.
THEOREM RemainingExact == Spec => []RemainingIsExact
<1>1. Init => Accounted
  <2> SUFFICES ASSUME Init PROVE Accounted
    OBVIOUS
  <2>1. Unread = {} /\ Drifted = {}
    BY DEF Init, Unread, Drifted, Tables
  <2> QED
    BY <2>1, FS_EmptySet DEF Init, Accounted
<1>2. IInv /\ Accounted => RemainingIsExact
  <2> SUFFICES ASSUME IInv, Accounted, pc = "done", changes = 0
               PROVE  result.remaining =
                        Cardinality(Tables \ read)
                        + Cardinality({t \in read : ~ Tolerated(rows["primary"][t], rows["secondary"][t])})
    BY DEF RemainingIsExact
  <2>1. i = NTables + 1 /\ \A t \in Tables : t < NTables + 1
    BY AuditAssumption DEF IInv, Position, Tables
  <2>2. Unread = Tables \ read
    BY <2>1 DEF Unread
  <2> QED
    BY <2>2 DEF Accounted, Drifted
<1> QED
  BY <1>1, <1>2, AccountedStep, Inductive, PTL DEF Spec
=============================================================================
