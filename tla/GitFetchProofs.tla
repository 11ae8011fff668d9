--------------------------- MODULE GitFetchProofs ---------------------------
(***************************************************************************)
(* Proofs about one Reconcile call of git_fetch, for every number of       *)
(* projects and pushes and every maxParallel.                              *)
(*                                                                         *)
(* IInv adds to the types: goroutines exist exactly for the rows the loop  *)
(* has passed (Launched), the counters count their outcomes (Counted), at  *)
(* most Parallel of them run (Bounded), the call returns after the last    *)
(* one and is OK only if none failed (Reported), and what a fetch is about *)
(* to write is not older than the list of projects, unless a webhook began *)
(* it before (Fresh).                                                      *)
(***************************************************************************)
EXTENDS GitFetch, FiniteSetTheorems, TLAPS

RowsIn(s) == {i \in Rows : job[i] = s}

Launched ==
  /\ next <= n + 1
  /\ phase = "idle" => next = 1
  /\ phase = "go" => next <= n
  /\ phase = "wait" => next > n \/ cancelled
  /\ \A i \in Rows : job[i] # "none" <=> i < next

Counted ==
  /\ failed = Cardinality(RowsIn("failed"))
  /\ repaired = Cardinality(RowsIn("ok"))

Bounded == Cardinality(Active) <= Parallel

Reported ==
  phase = "done" =>
    /\ Active = {}
    /\ result.ok /\ ~ cancelled => \A i \in 1..n : job[i] = "ok"

\* Row i has at least the pushes of the list, or a webhook may undo it.
UpToDate(i) == i \in early \/ replica[i] >= base[i]

Fresh ==
  /\ \A i \in Rows : base[i] <= primary[i]
  /\ hook # <<>> => hook[1] \in early \/ hook[2] >= base[hook[1]]
  /\ \A i \in Rows : job[i] = "fetching" => snap[i] >= base[i]
  /\ \A i \in Rows : job[i] = "ok" /\ ~ dryRun => UpToDate(i)

IInv == TypeOK /\ Launched /\ Counted /\ Bounded /\ Reported /\ Fresh

-----------------------------------------------------------------------------
\* A set of rows is finite and no larger than the table.
LEMMA RowSets ==
  ASSUME NEW S \in SUBSET Rows
  PROVE  IsFiniteSet(S) /\ Cardinality(S) \in 0..MaxProjects
<1>1. IsFiniteSet(Rows) /\ Cardinality(Rows) = MaxProjects
  BY FS_Interval, GitFetchAssumption DEF Rows
<1> QED
  BY <1>1, FS_Subset, FS_CardinalityType, GitFetchAssumption

\* No fetch of a webhook is <<>>, and any other is a row with its pushes.
LEMMA HookIs ==
  /\ <<>> \in Hooks
  /\ \A i \in Rows, v \in 0..MaxPush : <<i, v>> \in Hooks
  /\ \A h \in Hooks : h # <<>> => h[1] \in Rows /\ h[2] \in 0..MaxPush
<1>1. <<>> \in Hooks
  BY Zenon DEF Hooks
<1>2. \A i \in Rows, v \in 0..MaxPush : <<i, v>> \in Hooks
  BY DEF Hooks
<1>3. \A h \in Rows \X (0..MaxPush) : h[1] \in Rows /\ h[2] \in 0..MaxPush
  OBVIOUS
<1>4. \A h \in Hooks : h # <<>> => h \in Rows \X (0..MaxPush)
  BY Zenon DEF Hooks
<1> QED
  BY <1>1, <1>2, <1>3, <1>4

\* The pool has room for one goroutine at least, whatever maxParallel is, and
\* for no more than there are rows.
LEMMA ParallelBounds ==
  TypeOK => Parallel \in 0..n /\ (n > 0 => Parallel > 0)
  BY GitFetchAssumption DEF TypeOK, Parallel

\* What a step does to the goroutines and their counters: nothing, the next one
\* is started, a git fetch begins, or one comes to its end and is counted.
Starts ==
  /\ next \in Rows /\ job[next] = "none"
  /\ Cardinality(Active) < Parallel
  /\ job' = [job EXCEPT ![next] = "running"]
  /\ next' = next + 1
  /\ UNCHANGED <<n, failed, repaired>>

Ends(i, good) ==
  /\ job[i] \in {"running", "fetching"}
  /\ JobEnds(i, good)
  /\ UNCHANGED <<recVars, n, phase, next, result>>

LEMMA JobMoves ==
  TypeOK /\ Launched /\ [Next]_vars =>
    \/ UNCHANGED <<job, failed, repaired>>
    \/ phase = "go" /\ Starts /\ UNCHANGED <<recVars, result>>
    \/ \E i \in Rows : FetchStart(i)
    \/ \E i \in Rows : Ends(i, TRUE) \/ Ends(i, FALSE)
<1> SUFFICES ASSUME TypeOK, Launched, [Next]_vars
             PROVE  \/ UNCHANGED <<job, failed, repaired>>
                    \/ phase = "go" /\ Starts /\ UNCHANGED <<recVars, result>>
                    \/ \E i \in Rows : FetchStart(i)
                    \/ \E i \in Rows : Ends(i, TRUE) \/ Ends(i, FALSE)
  OBVIOUS
<1>1. ASSUME NEW i \in Rows, Job(i)
      PROVE  FetchStart(i) \/ Ends(i, TRUE) \/ Ends(i, FALSE)
  <2>1. CASE JobDry(i)
    BY <2>1 DEF JobDry, Ends, recVars
  <2>2. CASE FetchOK(i)
    BY <2>2 DEF FetchOK, Ends, recVars
  <2>3. CASE FetchFails(i)
    BY <2>3 DEF FetchFails, Ends, recVars
  <2> QED
    BY <1>1, <2>1, <2>2, <2>3 DEF Job
<1>2. ASSUME NEW i \in Rows, Push(i) \/ HookStart(i)
      PROVE  UNCHANGED <<job, failed, repaired>>
  BY <1>2 DEF Push, HookStart
<1>3. CASE HookEnds \/ Cancel \/ ListFails \/ ListProjects \/ LoopCheck \/ Finish
  BY <1>3 DEF HookEnds, Cancel, ListFails, ListProjects, LoopCheck, Finish
<1>4. CASE Go
  <2>1. next \in Rows /\ job[next] = "none"
    BY <1>4, GitFetchAssumption DEF Go, Launched, TypeOK, Rows
  <2> QED
    BY <1>4, <2>1 DEF Go, Starts, recVars
<1>5. CASE UNCHANGED vars
  BY <1>5 DEF vars
<1> QED
  BY <1>1, <1>2, <1>3, <1>4, <1>5 DEF Next, Loop

\* Nothing a call does changes the limit it works with.
LEMMA LimitKept == [Next]_vars => UNCHANGED <<maxParallel, dryRun, n>>
  BY DEF Next, Loop, Job, Push, HookStart, HookEnds, Cancel, ListFails, ListProjects,
       LoopCheck, Go, Finish, JobDry, FetchStart, FetchOK, FetchFails, recVars, vars

\* A goroutine that starts or begins to fetch is not counted, and one that ends
\* is counted once, with its own outcome.
LEMMA CountStep == TypeOK /\ Launched /\ Counted /\ [Next]_vars => Counted'
<1> SUFFICES ASSUME TypeOK, Launched, Counted, [Next]_vars PROVE Counted'
  OBVIOUS
<1>1. \A s : IsFiniteSet(RowsIn(s)) /\ Cardinality(RowsIn(s)) \in Nat
  BY RowSets DEF RowsIn
<1>2. CASE UNCHANGED <<job, failed, repaired>>
  BY <1>2 DEF Counted, RowsIn
<1>3. CASE Starts \/ \E i \in Rows : FetchStart(i)
  <2>1. RowsIn("failed")' = RowsIn("failed") /\ RowsIn("ok")' = RowsIn("ok")
    BY <1>3 DEF Starts, FetchStart, RowsIn, TypeOK
  <2> QED
    BY <1>3, <2>1 DEF Counted, Starts, FetchStart
<1>4. ASSUME NEW i \in Rows, Ends(i, TRUE) PROVE Counted'
  <2>1. /\ RowsIn("failed")' = RowsIn("failed")
        /\ RowsIn("ok")' = RowsIn("ok") \cup {i} /\ i \notin RowsIn("ok")
    BY <1>4 DEF Ends, JobEnds, RowsIn, TypeOK
  <2>2. Cardinality(RowsIn("ok") \cup {i}) = Cardinality(RowsIn("ok")) + 1
    BY <1>1, <2>1, FS_AddElement
  <2> QED
    BY <1>4, <2>1, <2>2 DEF Counted, Ends, JobEnds
<1>5. ASSUME NEW i \in Rows, Ends(i, FALSE) PROVE Counted'
  <2>1. /\ RowsIn("ok")' = RowsIn("ok")
        /\ RowsIn("failed")' = RowsIn("failed") \cup {i} /\ i \notin RowsIn("failed")
    BY <1>5 DEF Ends, JobEnds, RowsIn, TypeOK
  <2>2. Cardinality(RowsIn("failed") \cup {i}) = Cardinality(RowsIn("failed")) + 1
    BY <1>1, <2>1, FS_AddElement
  <2> QED
    BY <1>5, <2>1, <2>2 DEF Counted, Ends, JobEnds
<1> QED
  BY <1>2, <1>3, <1>4, <1>5, JobMoves

\* The pool never has more goroutines than its limit.
LEMMA BoundStep == TypeOK /\ Launched /\ Bounded /\ [Next]_vars => Bounded'
<1> SUFFICES ASSUME TypeOK, Launched, Bounded, [Next]_vars PROVE Bounded'
  OBVIOUS
<1>1. IsFiniteSet(Active) /\ Cardinality(Active) \in Nat
  BY RowSets DEF Active
<1>2. Parallel' = Parallel /\ Parallel \in Nat
  BY LimitKept, ParallelBounds DEF Parallel, TypeOK
<1>3. CASE Active' = Active
  BY <1>2, <1>3 DEF Bounded
<1>4. CASE Starts
  <2>1. Active' = Active \cup {next}
    BY <1>4 DEF Starts, Active, TypeOK
  <2>2. Cardinality(Active \cup {next}) \in {Cardinality(Active), Cardinality(Active) + 1}
    BY <1>1, FS_AddElement
  <2> QED
    BY <1>1, <1>2, <1>4, <2>1, <2>2 DEF Bounded, Starts
<1>5. ASSUME NEW i \in Rows, Ends(i, TRUE) \/ Ends(i, FALSE) PROVE Bounded'
  <2>1. Active' = Active \ {i}
    BY <1>5 DEF Ends, JobEnds, Active, TypeOK
  <2>2. Cardinality(Active \ {i}) <= Cardinality(Active)
    BY <1>1, FS_RemoveElement
  <2>3. Cardinality(Active \ {i}) \in Nat
    BY <1>1, FS_RemoveElement, FS_CardinalityType
  <2> QED
    BY <1>1, <1>2, <2>1, <2>2, <2>3 DEF Bounded
<1>6. ASSUME NEW i \in Rows, FetchStart(i) PROVE Active' = Active
  BY <1>6 DEF FetchStart, Active, TypeOK
<1>7. UNCHANGED job => Active' = Active
  BY DEF Active
<1> QED
  BY <1>3, <1>4, <1>5, <1>6, <1>7, JobMoves

\* Typing is preserved; the counters stay within the table because they count
\* rows.
LEMMA TypeStep == TypeOK /\ Launched /\ Counted /\ [Next]_vars => TypeOK'
<1> SUFFICES ASSUME TypeOK, Launched, Counted, [Next]_vars PROVE TypeOK'
  OBVIOUS
<1> USE DEF TypeOK
<1>1. failed' \in 0..MaxProjects /\ repaired' \in 0..MaxProjects
  <2>1. Counted'
    BY CountStep
  <2>2. RowsIn("failed")' \in SUBSET Rows /\ RowsIn("ok")' \in SUBSET Rows
    BY DEF RowsIn
  <2> QED
    BY <2>1, <2>2, RowSets DEF Counted
<1>2. ASSUME NEW i \in Rows, Push(i) \/ HookStart(i) PROVE TypeOK'
  <2>1. CASE Push(i)
    <3>1. primary[i] \in 0..MaxPush /\ primary[i] + 1 \in 0..MaxPush
      BY <2>1, GitFetchAssumption DEF Push
    <3> QED
      BY <2>1, <3>1 DEF Push, recVars
  <2>2. CASE HookStart(i)
    BY <2>2, HookIs DEF HookStart, recVars
  <2> QED
    BY <1>2, <2>1, <2>2
<1>3. CASE HookEnds
  BY <1>3, HookIs DEF HookEnds, recVars
<1>4. CASE Cancel \/ LoopCheck
  BY <1>4 DEF Cancel, LoopCheck, recVars, repoVars
<1>5. CASE ListFails \/ ListProjects \/ Finish
  <2>1. CASE ListFails
    BY GitFetchAssumption, <2>1 DEF ListFails, Report, recVars, repoVars
  <2>2. CASE ListProjects
    <3>1. n = 0 => /\ phase' = "done"
                   /\ result' = [ok |-> TRUE, remaining |-> 0, lastSync |-> FALSE]
      BY <2>2 DEF ListProjects, Report
    <3>2. n # 0 => phase' = "launch" /\ result' = result
      BY <2>2 DEF ListProjects
    <3>3. [ok |-> TRUE, remaining |-> 0, lastSync |-> FALSE]
            \in [ok : BOOLEAN, remaining : 0..(MaxProjects + 1), lastSync : BOOLEAN]
      <4>1. 0 \in 0..(MaxProjects + 1)
        BY GitFetchAssumption
      <4> HIDE DEF TypeOK
      <4> QED
        BY <4>1
    <3>4. result' \in [ok : BOOLEAN, remaining : 0..(MaxProjects + 1), lastSync : BOOLEAN]
      BY Zenon, <3>1, <3>2, <3>3 DEF TypeOK
    <3>5. phase' \in {"idle", "launch", "go", "wait", "done"}
      BY <3>1, <3>2
    <3>6. base' = primary /\ early' \subseteq Rows
      BY <2>2 DEF ListProjects
    <3> QED
      BY <2>2, <3>4, <3>5, <3>6 DEF ListProjects, recVars
  <2>3. CASE Finish
    BY GitFetchAssumption, <2>3 DEF Finish, Report, recVars, repoVars
  <2> QED
    BY <1>5, <2>1, <2>2, <2>3
<1>7. CASE Go
  <2>1. next \in Rows /\ next + 1 \in 1..(MaxProjects + 1)
    BY <1>7, GitFetchAssumption DEF Go, Launched, Rows
  <2> QED
    BY <1>7, <2>1 DEF Go, recVars, repoVars
<1>8. ASSUME NEW i \in Rows, Job(i) PROVE TypeOK'
  <2>1. CASE JobDry(i)
    BY <1>1, <2>1 DEF JobDry, JobEnds, recVars, repoVars
  <2>2. CASE FetchStart(i)
    BY <2>2 DEF FetchStart, recVars, repoVars
  <2>3. CASE FetchOK(i)
    BY <1>1, <2>3 DEF FetchOK, JobEnds, recVars
  <2>4. CASE FetchFails(i)
    BY <1>1, <2>4 DEF FetchFails, JobEnds, recVars, repoVars
  <2> QED
    BY <1>8, <2>1, <2>2, <2>3, <2>4 DEF Job
<1>9. CASE UNCHANGED vars
  BY <1>9 DEF vars, recVars
<1> QED
  BY <1>2, <1>3, <1>4, <1>5, <1>7, <1>8, <1>9 DEF Next, Loop

\* A goroutine exists for a row exactly when the loop has passed it.
LEMMA LaunchStep == TypeOK /\ Launched /\ [Next]_vars => Launched'
<1> SUFFICES ASSUME TypeOK, Launched, [Next]_vars PROVE Launched'
  OBVIOUS
<1> USE DEF TypeOK, Launched
<1>1. ASSUME NEW i \in Rows, Push(i) \/ HookStart(i) PROVE Launched'
  BY <1>1 DEF Push, HookStart
<1>2. CASE HookEnds \/ Cancel \/ LoopCheck
  BY <1>2 DEF HookEnds, Cancel, LoopCheck, recVars
<1>3. CASE ListFails \/ ListProjects \/ Finish
  BY <1>3 DEF ListFails, ListProjects, Finish, Report
<1>4. CASE Go
  BY <1>4, GitFetchAssumption DEF Rows, Go
<1>5. ASSUME NEW i \in Rows, Job(i) PROVE Launched'
  <2>1. /\ job[i] # "none" /\ UNCHANGED <<n, next, phase, cancelled>>
        /\ \E s \in {"fetching", "ok", "failed"} : job' = [job EXCEPT ![i] = s]
    <3>1. JobDry(i) \/ FetchStart(i) \/ FetchOK(i) \/ FetchFails(i)
      BY <1>5 DEF Job
    <3> QED
      BY <3>1 DEF JobDry, FetchStart, FetchOK, FetchFails, JobEnds
  <2> QED
    BY <2>1
<1>6. CASE UNCHANGED vars
  BY <1>6 DEF vars
<1> QED
  BY <1>1, <1>2, <1>3, <1>4, <1>5, <1>6 DEF Next, Loop

\* Reconcile reports after the last goroutine, and then none is left to change
\* what it said.
LEMMA ReportStep ==
  TypeOK /\ Launched /\ Counted /\ Reported /\ [Next]_vars => Reported'
<1> SUFFICES ASSUME TypeOK, Launched, Counted, Reported, [Next]_vars PROVE Reported'
  OBVIOUS
<1> USE DEF TypeOK, Reported, Active
<1>1. ASSUME NEW i \in Rows, Push(i) \/ HookStart(i) PROVE Reported'
  BY <1>1 DEF Push, HookStart
<1>2. CASE HookEnds \/ Cancel \/ LoopCheck
  BY <1>2 DEF HookEnds, Cancel, LoopCheck, repoVars
<1>3. CASE ListFails \/ ListProjects
  <2>1. phase = "idle" /\ job' = job /\ \A i \in Rows : job[i] = "none"
    BY <1>3, GitFetchAssumption DEF Rows, ListFails, ListProjects, Launched
  <2>2. phase' = "done" => ~ result'.ok \/ n = 0
    BY <1>3 DEF ListFails, ListProjects, Report
  <2>3. UNCHANGED n
    BY <1>3 DEF ListFails, ListProjects
  <2> QED
    BY <2>1, <2>2, <2>3
<1>4. CASE Finish
  <2>1. failed = 0 => RowsIn("failed") = {}
    BY RowSets, FS_EmptySet DEF Counted, RowsIn
  <2>2. /\ result'.ok <=> failed = 0
        /\ Active = {} /\ UNCHANGED <<job, n, cancelled>>
        /\ next > n \/ cancelled
    BY <1>4 DEF Finish, Report, Launched
  <2>3. ASSUME failed = 0, ~ cancelled, NEW i \in 1..n PROVE job[i] = "ok"
    <3>1. i \in Rows /\ i < next
      BY <2>2, <2>3, GitFetchAssumption DEF Rows
    <3>2. job[i] \notin {"none", "failed", "running", "fetching"}
      BY <2>1, <2>2, <2>3, <3>1 DEF Launched, RowsIn
    <3> QED
      BY <3>1, <3>2
  <2> QED
    BY <2>2, <2>3
<1>5. CASE Go
  BY <1>5 DEF Go
<1>6. ASSUME NEW i \in Rows, Job(i) PROVE Reported'
  BY <1>6 DEF Job, JobDry, FetchStart, FetchOK, FetchFails, JobEnds
<1>7. CASE UNCHANGED vars
  BY <1>7 DEF vars
<1> QED
  BY <1>1, <1>2, <1>3, <1>4, <1>5, <1>6, <1>7 DEF Next, Loop

\* Nothing that is written after the list was read is older than the list, but
\* for the webhook's fetch that was under way then.
LEMMA FreshStep == TypeOK /\ Launched /\ Fresh /\ [Next]_vars => Fresh'
<1> SUFFICES ASSUME TypeOK, Launched, Fresh, [Next]_vars PROVE Fresh'
  OBVIOUS
<1> USE DEF TypeOK, Fresh, UpToDate
<1>1. ASSUME NEW i \in Rows, Push(i) PROVE Fresh'
  <2>1. /\ \A k \in Rows : primary[k] <= primary'[k]
        /\ UNCHANGED <<phase, dryRun, job, snap, base, replica, hook, early>>
    BY <1>1 DEF Push, recVars
  <2>2. \A k \in Rows : base[k] \in Int /\ primary[k] \in Int /\ primary'[k] \in Int
    BY <1>1 DEF Push
  <2>3. (\A k \in Rows : base[k] <= primary[k])'
    BY <2>1, <2>2
  <2> QED
    BY <2>1, <2>3
<1>2. ASSUME NEW i \in Rows, HookStart(i) PROVE Fresh'
  BY <1>2 DEF HookStart, recVars
<1>3. CASE HookEnds
  <2>1. /\ hook # <<>> /\ hook[1] \in Rows /\ hook[2] \in Int
        /\ hook' = <<>> /\ UNCHANGED <<phase, dryRun, job, snap, base, primary, early>>
        /\ \/ replica' = replica
           \/ replica' = [replica EXCEPT ![hook[1]] = hook[2]]
    BY <1>3, HookIs DEF HookEnds, recVars
  <2>2. ASSUME NEW i \in Rows, job[i] = "ok", ~ dryRun PROVE UpToDate(i)'
    <3>1. UpToDate(i) /\ phase # "idle"
      BY <2>2, GitFetchAssumption DEF Rows, Launched
    <3> QED
      BY <2>1, <2>2, <3>1
  <2> QED
    BY <2>1, <2>2
<1>4. CASE Cancel \/ LoopCheck \/ Go
  BY <1>4 DEF Cancel, LoopCheck, Go, recVars, repoVars
<1>5. CASE ListFails \/ Finish
  <2>1. UNCHANGED <<dryRun, job, snap, base, primary, replica, hook, early>>
    BY <1>5 DEF ListFails, Finish, Report, recVars, repoVars
  <2> QED
    BY <2>1
<1>6. CASE ListProjects
  <2>1. /\ base' = primary
        /\ hook # <<>> => hook[1] \in early'
        /\ UNCHANGED <<dryRun, job, snap, primary, replica, hook>>
    BY <1>6, HookIs DEF ListProjects, recVars
  <2>2. \A i \in Rows : job[i] = "none"
    BY <1>6, GitFetchAssumption DEF ListProjects, Launched, Rows
  <2>3. \A i \in Rows : primary[i] \in Int
    OBVIOUS
  <2>4. (\A i \in Rows : base[i] <= primary[i])'
    BY <2>1, <2>3
  <2>5. (hook # <<>> => hook[1] \in early)'
    BY <2>1
  <2> QED
    BY <2>1, <2>2, <2>4, <2>5
<1>7. ASSUME NEW i \in Rows, Job(i) PROVE Fresh'
  <2>1. CASE JobDry(i) \/ FetchFails(i)
    BY <2>1 DEF JobDry, FetchFails, JobEnds, recVars, repoVars
  <2>2. CASE FetchStart(i)
    BY <2>2 DEF FetchStart, recVars, repoVars
  <2>3. CASE FetchOK(i)
    BY <2>3 DEF FetchOK, JobEnds, recVars
  <2> QED
    BY <1>7, <2>1, <2>2, <2>3 DEF Job
<1>8. CASE UNCHANGED vars
  BY <1>8 DEF vars, recVars
<1> QED
  BY <1>1, <1>2, <1>3, <1>4, <1>5, <1>6, <1>7, <1>8 DEF Next, Loop

\* Every call begins with no goroutine, nothing pushed and nothing counted.
LEMMA InitIInv == Init => IInv
<1> SUFFICES ASSUME Init PROVE IInv
  OBVIOUS
<1>1. \A s : s # "none" => RowsIn(s) = {}
  BY DEF Init, RowsIn
<1>2. Active = {} /\ Parallel \in Nat
  BY GitFetchAssumption DEF Init, Active, Parallel
<1>3. TypeOK
  <2>1. /\ {0, 1} \subseteq 0..(MaxProjects + 1) /\ 0 \in 0..MaxPush
        /\ 0 \in 0..MaxProjects /\ 1 \in 1..(MaxProjects + 1)
    BY GitFetchAssumption
  <2>2. result \in [ok : BOOLEAN, remaining : 0..(MaxProjects + 1), lastSync : BOOLEAN]
    BY <2>1 DEF Init, NoResult
  <2> QED
    BY <2>1, <2>2, HookIs DEF Init, TypeOK
<1>4. Launched
  BY GitFetchAssumption DEF Init, Launched, Rows
<1>5. Counted /\ Bounded
  <2>1. RowsIn("failed") = {} /\ RowsIn("ok") = {} /\ Cardinality({}) = 0
    BY <1>1, FS_EmptySet
  <2> QED
    <3>1. Counted
      BY <2>1 DEF Init, Counted
    <3>2. Cardinality(Active) = 0
      BY <1>2, <2>1
    <3> QED
      BY <1>2, <3>1, <3>2 DEF Bounded
<1>6. Reported /\ Fresh
  BY GitFetchAssumption DEF Init, Reported, Fresh
<1> QED
  BY <1>3, <1>4, <1>5, <1>6 DEF IInv

\* The inductive invariant holds in every state of every call.
LEMMA Inductive == Spec => []IInv
<1>1. IInv /\ [Next]_vars => IInv'
  BY TypeStep, LaunchStep, CountStep, BoundStep, ReportStep, FreshStep DEF IInv
<1> QED
  BY InitIInv, <1>1, PTL DEF Spec

\* The variables of one Reconcile call stay within their types; in particular
\* neither counter ever exceeds the number of projects.
THEOREM TypeCorrect == Spec => []TypeOK
  BY Inductive, PTL DEF IInv

\* A report of OK after a sweep that was not cancelled means that every
\* repository is at least as the primary had it when the list was read.
THEOREM OKIsFetched == Spec => []OKMeansFetched
<1>1. IInv => OKMeansFetched
  <2> SUFFICES ASSUME IInv, phase = "done", result.ok, ~ cancelled, ~ dryRun,
                      NEW i \in 1..n
               PROVE  UpToDate(i)
    BY DEF OKMeansFetched, UpToDate
  <2>1. i \in Rows
    BY GitFetchAssumption DEF IInv, TypeOK, Rows
  <2>2. job[i] = "ok"
    BY DEF IInv, Reported
  <2> QED
    BY <2>1, <2>2 DEF IInv, Fresh
<1> QED
  BY Inductive, <1>1, PTL

\* The errgroup implements the abstract pool of slots: each goroutine takes one
\* place when it starts and returns it when it ends, and never more than
\* Parallel run.
THEOREM PoolImplemented == Spec => ImplementsPool
<1>1. Init => Pool!Init
  BY GitFetchAssumption DEF Init, Pool!Init, Active, Parallel
<1>2. TypeOK /\ Launched /\ [Next]_vars => [Pool!Next]_(Pool!vars)
  <2> SUFFICES ASSUME TypeOK, Launched, [Next]_vars
               PROVE  [Pool!Next]_(Pool!vars)
    OBVIOUS
  <2>1. Parallel' = Parallel
    BY LimitKept DEF Parallel
  <2>2. CASE Active' = Active
    BY <2>1, <2>2 DEF Pool!vars
  <2>3. CASE Starts
    <3>1. Pool!Cardinality(Active) = Cardinality(Active)
      BY Zenon DEF Pool!Cardinality, Cardinality
    <3>2. next \notin Active /\ Active' = Active \cup {next} /\ next \in Rows
      BY <2>3 DEF Starts, Active, TypeOK
    <3>3. Pool!Acquire(next)
      BY <2>1, <2>3, <3>1, <3>2 DEF Starts, Pool!Acquire
    <3> QED
      BY <3>2, <3>3 DEF Pool!Next
  <2>4. ASSUME NEW i \in Rows, Ends(i, TRUE) \/ Ends(i, FALSE) PROVE Pool!Release(i)
    <3>1. i \in Active /\ Active' = Active \ {i}
      BY <2>4 DEF Ends, JobEnds, Active, TypeOK
    <3> QED
      BY <2>1, <3>1 DEF Pool!Release
  <2>5. ASSUME NEW i \in Rows, FetchStart(i) PROVE Active' = Active
    BY <2>5 DEF FetchStart, Active, TypeOK
  <2>6. UNCHANGED job => Active' = Active
    BY DEF Active
  <2> QED
    BY <2>2, <2>3, <2>4, <2>5, <2>6, JobMoves DEF Pool!Next
<1> QED
  BY <1>1, <1>2, Inductive, PTL DEF Spec, ImplementsPool, Pool!Spec, IInv

Verdicts == [i \in Rows |-> VerdictOf(i)]
Answer == IF phase = "done" THEN <<result.ok, result.remaining>> ELSE <<>>

\* A step leaves the list of rows alone, and the context unless it cancels it.
LEMMA ContextMoves ==
  [Next]_vars => UNCHANGED n /\ (Cancel \/ UNCHANGED cancelled)
<1> SUFFICES ASSUME [Next]_vars PROVE UNCHANGED n /\ (Cancel \/ UNCHANGED cancelled)
  OBVIOUS
<1>1. ASSUME NEW i \in Rows, Push(i) \/ HookStart(i) \/ Job(i)
      PROVE  UNCHANGED <<n, cancelled>>
  BY <1>1 DEF Push, HookStart, Job, JobDry, FetchStart, FetchOK, FetchFails
<1>2. CASE HookEnds \/ UNCHANGED vars
  BY <1>2 DEF HookEnds, vars
<1>3. CASE Cancel
  BY <1>3 DEF Cancel
<1>4. CASE Loop
  BY <1>4 DEF Loop, ListFails, ListProjects, LoopCheck, Go, Finish
<1> QED
  BY <1>1, <1>2, <1>3, <1>4 DEF Next

\* What a step does to the answer: it leaves it alone, or gives it once, as the
\* query fails or with the count of the failed rows, when every row has come to
\* its end or the call is cancelled.
AllEnded == \A i \in 1..n : job[i] \in {"ok", "failed"}

LEMMA AnswerMoves ==
  IInv /\ [Next]_vars =>
    \/ UNCHANGED <<phase, result>>
    \/ phase # "done" /\ phase' # "done" /\ UNCHANGED result
    \/ /\ phase = "idle" /\ phase' = "done" /\ UNCHANGED job
       /\ result'.ok = FALSE /\ result'.remaining = 1
    \/ /\ phase # "done" /\ phase' = "done" /\ UNCHANGED job
       /\ result'.ok = (failed = 0) /\ result'.remaining = failed
       /\ AllEnded \/ cancelled
<1> SUFFICES ASSUME IInv, [Next]_vars
             PROVE  \/ UNCHANGED <<phase, result>>
                    \/ phase # "done" /\ phase' # "done" /\ UNCHANGED result
                    \/ /\ phase = "idle" /\ phase' = "done" /\ UNCHANGED job
                       /\ result'.ok = FALSE /\ result'.remaining = 1
                    \/ /\ phase # "done" /\ phase' = "done" /\ UNCHANGED job
                       /\ result'.ok = (failed = 0) /\ result'.remaining = failed
                       /\ AllEnded \/ cancelled
  OBVIOUS
<1>1. ASSUME NEW i \in Rows, Push(i) \/ HookStart(i) \/ Job(i)
      PROVE  UNCHANGED <<phase, result>>
  BY <1>1 DEF Push, HookStart, Job, JobDry, FetchStart, FetchOK, FetchFails
<1>2. CASE HookEnds \/ Cancel \/ UNCHANGED vars
  BY <1>2 DEF HookEnds, Cancel, vars
<1>3. CASE LoopCheck \/ Go
  BY <1>3 DEF LoopCheck, Go
<1>4. CASE ListFails
  BY <1>4 DEF ListFails, Report
<1>5. CASE ListProjects
  <2>1. RowsIn("failed") = {}
    BY <1>5, GitFetchAssumption DEF ListProjects, IInv, Launched, RowsIn, Rows
  <2>2. failed = 0
    BY <2>1, FS_EmptySet DEF IInv, Counted
  <2> QED
    <3>1. CASE n = 0
      <4>1. /\ phase = "idle" /\ phase' = "done" /\ UNCHANGED job
            /\ result' = [ok |-> TRUE, remaining |-> 0, lastSync |-> FALSE]
        BY <1>5, <3>1 DEF ListProjects, Report
      <4>2. result'.ok = (failed = 0) /\ result'.remaining = failed
        BY <2>2, <4>1
      <4>3. AllEnded
        BY <3>1 DEF AllEnded
      <4> QED
        BY <4>1, <4>2, <4>3
    <3>2. CASE n # 0
      BY <1>5, <3>2 DEF ListProjects
    <3> QED
      BY <3>1, <3>2
<1>6. CASE Finish
  <2>1. ASSUME ~ cancelled PROVE AllEnded
    <3> SUFFICES ASSUME NEW i \in 1..n PROVE job[i] \in {"ok", "failed"}
      BY DEF AllEnded
    <3>1. i \in Rows /\ i < next
      BY <1>6, <2>1, GitFetchAssumption DEF Finish, IInv, TypeOK, Launched, Rows
    <3>2. job[i] # "none" /\ i \notin Active
      BY <1>6, <3>1 DEF Finish, IInv, Launched
    <3> QED
      BY <3>1, <3>2 DEF IInv, TypeOK, Active
  <2> QED
    BY <1>6, <2>1 DEF Finish, Report
<1> QED
  BY <1>1, <1>2, <1>3, <1>4, <1>5, <1>6 DEF Next, Loop

\* A Reconcile call that is not cancelled implements the promise of Result: its
\* goroutines judge every row of the list, once and before the report, which
\* counts exactly the bad ones; a cancelled call counts those it has judged.
THEOREM CallImplemented == Spec => ImplementsCall
<1>1. Init => Promise!Init
  BY GitFetchAssumption DEF Init, Promise!Init, VerdictOf, Rows
<1>2. IInv /\ [Next]_vars => [Promise!Next]_(Promise!vars)
  <2> SUFFICES ASSUME IInv, [Next]_vars
               PROVE  [Promise!Next]_<<1..n, Verdicts, cancelled, Answer>>
    BY DEF Promise!vars, Verdicts, Answer
  <2>1. Promise!Bad = RowsIn("failed") /\ Promise!Cardinality(RowsIn("failed")) = failed
    <3>1. Promise!Cardinality(RowsIn("failed")) = Cardinality(RowsIn("failed"))
      BY Zenon DEF Promise!Cardinality, Cardinality
    <3> QED
      BY <3>1 DEF Promise!Bad, VerdictOf, RowsIn, IInv, Counted, TypeOK
  <2>2. RowsIn("failed") = {} <=> failed = 0
    BY RowSets, FS_EmptySet DEF RowsIn, IInv, Counted
  <2>3. UNCHANGED job => UNCHANGED Verdicts
    BY DEF Verdicts, VerdictOf
  <2>4. CASE Cancel
    <3>1. UNCHANGED <<n, job, phase, result>> /\ ~ cancelled /\ cancelled' = TRUE
      BY <2>4 DEF Cancel, repoVars
    <3> QED
      BY <2>3, <3>1 DEF Promise!Next, Promise!Cancel, Verdicts, Answer
  <2>5. CASE UNCHANGED cancelled
    <3>1. UNCHANGED <<1..n, cancelled>>
      BY <2>5, ContextMoves
    <3>2. ASSUME NEW i \in Rows, Ends(i, TRUE) \/ Ends(i, FALSE)
          PROVE  i \in 1..n /\ Promise!Judge(i)
      <4>1. phase # "done" /\ UNCHANGED <<phase, result>>
        BY <3>2 DEF Ends, IInv, Reported, Active
      <4>2. Verdicts[i] = "none"
        BY <3>2 DEF Ends, Verdicts, VerdictOf
      <4>3. i \in 1..n
        <5>1. i < next /\ next <= n + 1
          BY <3>2 DEF Ends, IInv, Launched
        <5>2. next \in Nat /\ n \in Nat
          BY GitFetchAssumption DEF IInv, TypeOK
        <5> QED
          BY <5>1, <5>2 DEF Rows
      <4>4. ASSUME NEW v \in {"good", "bad"},
                   job' = [job EXCEPT ![i] = IF v = "good" THEN "ok" ELSE "failed"]
            PROVE  Verdicts' = [Verdicts EXCEPT ![i] = v]
        BY <4>4 DEF Verdicts, VerdictOf, IInv, TypeOK
      <4>5. \E v \in {"good", "bad"} : Verdicts' = [Verdicts EXCEPT ![i] = v]
        BY <3>2, <4>4 DEF Ends, JobEnds
      <4> QED
        BY <3>1, <4>1, <4>2, <4>3, <4>5 DEF Promise!Judge, Verdicts
    <3>3. ASSUME NEW i \in Rows, FetchStart(i)
          PROVE  UNCHANGED <<Verdicts, Answer>>
      BY <3>3 DEF FetchStart, Verdicts, VerdictOf, Answer, IInv, TypeOK
    <3>4. CASE phase = "go" /\ Starts /\ UNCHANGED <<recVars, result>>
      <4>1. UNCHANGED Verdicts
        BY <3>4 DEF Starts, Verdicts, VerdictOf, IInv, TypeOK
      <4>2. job' # job
        BY <3>4 DEF Starts, IInv, TypeOK
      <4> QED
        BY <3>1, <3>4, <4>1, <4>2, AnswerMoves DEF Answer
    <3>5. CASE UNCHANGED job
      <4>1. CASE UNCHANGED Answer
        BY <2>3, <3>1, <3>5, <4>1
      <4>2. CASE phase = "idle" /\ Answer' = <<FALSE, 1>>
        <5>1. \A i \in Rows : Verdicts[i] = "none"
          BY <4>2, GitFetchAssumption DEF Verdicts, VerdictOf, IInv, Launched, Rows
        <5>2. Promise!Cardinality(Rows) \in Nat
          <6>1. Promise!Cardinality(Rows) = Cardinality(Rows)
            BY Zenon DEF Promise!Cardinality, Cardinality
          <6> QED
            BY <6>1, RowSets, GitFetchAssumption
        <5>3. 1 \in 1..(1 + 2 * Promise!Cardinality(Rows))
          BY <5>2
        <5> QED
          BY <2>3, <3>1, <3>5, <4>2, <5>1, <5>3
             DEF Promise!GiveUp, Promise!Next, Verdicts, Answer
      <4>3. CASE phase # "done" /\ Answer' = <<failed = 0, failed>> /\ (AllEnded \/ cancelled)
        <5>1. AllEnded => \A i \in 1..n : Verdicts[i] # "none"
          BY GitFetchAssumption DEF AllEnded, Verdicts, VerdictOf, IInv, TypeOK, Rows
        <5>2. Promise!Unjudged = {} \/ cancelled
          BY <4>3, <5>1 DEF Promise!Unjudged, Verdicts
        <5> QED
          BY <2>1, <2>2, <2>3, <3>1, <3>5, <4>3, <5>2
             DEF Promise!Return, Promise!Next, Verdicts, Answer
      <4> QED
        BY <4>1, <4>2, <4>3, AnswerMoves DEF Answer
    <3> QED
      BY <3>1, <3>2, <3>3, <3>4, <3>5, JobMoves DEF Promise!Next, IInv
  <2> QED
    BY <2>4, <2>5, ContextMoves
<1> QED
  BY <1>1, <1>2, Inductive, PTL DEF Spec, ImplementsCall, Promise!Spec
=============================================================================
