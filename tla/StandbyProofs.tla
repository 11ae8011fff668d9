---------------------------- MODULE StandbyProofs ----------------------------
(***************************************************************************)
(* Proofs about pg setup, pg status and doctor, for every list of          *)
(* secondaries, every choice of slot names and every step beside them.     *)
(*                                                                         *)
(* IInv adds to the types: what is in the data directory of a server that  *)
(* runs or was set up (Directories), that finished and running setups      *)
(* share no slot (Owners), where pg status stands and which verdicts it    *)
(* has given (Position), that the counters of the loop agree with all of   *)
(* them (Accumulated), that the report counts the bad ones (Reported) and, *)
(* as long as the sites stand still, that the verdicts are right (Exact)   *)
(* and what a doctor whose checks all passed has seen (Found).             *)
(***************************************************************************)
EXTENDS Standby, FiniteSetTheorems, SequenceTheorems, TLAPS

InStatus == pc \in {"open", "recovery", "row", "close", "done"}
InDoctor == pc \in {"control", "primary", "in_recovery", "tools", "s3", "checked"}

Directories ==
  \A i \in Secondaries :
    /\ pg[i] # "down" => dir[i] \in {"base", "foreign"}
    /\ i \in ready => dir[i] = "base" /\ setup[i] = "off"
    /\ setup[i] = "copy" => dir[i] = "partial"
    /\ setup[i] = "name" => dir[i] = "base"
    /\ setup[i] # "off" => pg[i] = "down"

\* Secondary i has been set up or is being set up with a slot.
Holds(i) == (i \in ready \/ setup[i] # "off") /\ slotName[i] # ""

Owners ==
  \A i \in Secondaries :
    Holds(i) =>
      /\ slotName[i] \in slots
      /\ \A j \in Secondaries : Holds(j) /\ j # i => slotName[j] # slotName[i]

Position ==
  /\ pc \in {"recovery", "row"} => at >= 1
  /\ pc = "row" => at <= N
  /\ InDoctor \/ pc = "open" => at <= N
  /\ pc = "primary" => at = 0
  /\ pc = "in_recovery" => at # 0
  /\ pc \in {"recovery", "row"} => \A i \in Secondaries : verdict[i] = "none" <=> i >= at
  /\ pc \in {"idle", "open"} \/ InDoctor => \A i \in Secondaries : verdict[i] = "none"
  /\ pc \notin {"close", "done"} => result = <<>>

Bad == {i \in Secondaries : verdict[i] = "bad"}

Accumulated == ok = (Bad = {}) /\ remaining = Cardinality(Bad)

Reported ==
  result # <<>> =>
    /\ result = <<Bad = {}, Cardinality(Bad)>>
    /\ \A i \in Secondaries : verdict[i] # "none"

InSync(i) == pg[i] = "standby" /\ RowFor(i)

Exact ==
  Quiet /\ pc # "idle" =>
    /\ pc = "row" => pg[at] = "standby"
    /\ \A i \in Secondaries : /\ verdict[i] = "good" => InSync(i)
                              /\ verdict[i] = "bad" => ~ InSync(i)

\* What replication needs of site s was checked.
Checked(s) == s < at \/ (s = at /\ pc \notin {"control", "primary", "in_recovery"})

Found ==
  InDoctor /\ outcomes \subseteq {"PASS"} /\ Quiet =>
    /\ pc \in {"s3", "checked"} => at = N
    /\ Checked(0) => prepared
    /\ \A i \in Secondaries : Checked(i) => pg[i] = "standby"

IInv == TypeOK /\ Directories /\ Owners /\ Position /\ Accumulated /\ Reported
        /\ Exact /\ Found

-----------------------------------------------------------------------------
\* There is a secondary, and a set of them is finite.
LEMMA Numbers == N \in Nat /\ N >= 1
<1>1. Name \in Seq(STRING) /\ Name # <<>>
  BY StandbyAssumption DEF validate
<1> QED
  BY <1>1, EmptySeq DEF N

LEMMA SecondarySets ==
  ASSUME NEW S \in SUBSET Secondaries
  PROVE  IsFiniteSet(S) /\ Cardinality(S) \in 0..N
<1>1. IsFiniteSet(Secondaries) /\ Cardinality(Secondaries) = N
  BY FS_Interval, Numbers DEF Secondaries
<1> QED
  BY <1>1, FS_Subset, FS_CardinalityType, Numbers

\* A step is taken beside the command, which it leaves alone, or by the command,
\* which leaves the sites alone.
SiteStep == (\E i \in Secondaries : Setup(i)) \/ Operator
CmdStep == Status \/ Doctor

LEMMA SiteSteps ==
  ASSUME SiteStep
  PROVE  /\ UNCHANGED <<slotName, cmdVars>> /\ pc \notin {"checked", "done"}
         /\ changes' = IF pc = "idle" THEN 0 ELSE changes + 1
         /\ changes' <= MaxChange
<1>1. Beside
  BY DEF SiteStep, Setup, SetupStart, BackupEnds, BackupFails, AppendConnInfoAppname,
     AppendFails, Operator, StartPG, StopPG, Promote, WipeDir, Rename, DropSlot,
     ConfigurePrimary
<1> QED
  BY <1>1 DEF Beside

LEMMA CmdSteps ==
  ASSUME CmdStep
  PROVE  UNCHANGED <<siteVars, changes>>
<1>1. CASE Status
  BY <1>1 DEF Status, StatusStart, OpenPool, OpenFails, AskRecovery, AskRow, QueryFails,
     Expire, Report, Close
<1>2. CASE Doctor
  BY <1>2 DEF Doctor, DoctorStart, DoctorControl, DoctorPrimary, DoctorInRecovery,
     DoctorTools, DoctorS3, Adds
<1> QED
  BY <1>1, <1>2 DEF CmdStep

\* Slot names and what a primary_conninfo can hold.
LEMMA Lines ==
  ASSUME TypeOK, NEW i \in Secondaries
  PROVE  /\ slotName[i] \in SlotNames
         /\ NoConninfo \in [host : BOOLEAN, app : AppNames]
         /\ \A a \in {"", Tool} : [host |-> TRUE, app |-> a] \in [host : BOOLEAN, app : AppNames]
         /\ [host |-> TRUE, app |-> Name[i]] \in [host : BOOLEAN, app : AppNames]
         /\ Named(conninfo[i], slotName[i]) \in [host : BOOLEAN, app : AppNames]
<1>1. slotName[i] \in SlotNames
  BY DEF TypeOK, SlotNames
<1>2. /\ "" \in AppNames /\ Tool \in AppNames /\ Name[i] \in AppNames
      /\ slotName[i] \in AppNames
  BY <1>1 DEF AppNames
<1>3. conninfo[i] \in [host : BOOLEAN, app : AppNames]
  BY DEF TypeOK
<1> QED
  BY <1>1, <1>2, <1>3 DEF NoConninfo, Named

LEMMA ResultsAre ==
  /\ <<>> \in Results
  /\ \A b \in BOOLEAN, k \in 0..N : <<b, k>> \in Results /\ <<b, k>> # <<>>
  BY DEF Results

\* What a step beside the command does to the sites it touches.
LEMMA SiteTypes == TypeOK /\ SiteStep => TypeOK'
<1> SUFFICES ASSUME TypeOK, SiteStep PROVE TypeOK'
  OBVIOUS
<1> DEFINE SitesOK == /\ prepared \in BOOLEAN
                      /\ slots \subseteq SlotNames
                      /\ dir \in [Secondaries -> {"empty", "foreign", "partial", "base"}]
                      /\ conninfo \in [Secondaries -> [host : BOOLEAN, app : AppNames]]
                      /\ pg \in [Secondaries -> {"down", "standby", "primary"}]
                      /\ setup \in [Secondaries -> {"off", "copy", "name"}]
                      /\ ready \subseteq Secondaries
<1>1. SitesOK
  BY DEF TypeOK
<1>2. changes' \in 0..MaxChange
  <2>1. changes \in 0..MaxChange
    BY DEF TypeOK
  <2>2. MaxChange \in Nat
    BY StandbyAssumption
  <2>3. changes \in Nat
    BY <2>1, <2>2
  <2> QED
    BY <2>2, <2>3, SiteSteps
<1>3. SitesOK' => TypeOK'
  BY <1>2, SiteSteps DEF TypeOK, cmdVars, loopVars
<1>4. ASSUME NEW i \in Secondaries, Setup(i) PROVE SitesOK'
  <2>1. CASE SetupStart(i)
    BY <1>1, <2>1, Lines DEF SetupStart
  <2>2. CASE BackupEnds(i)
    BY <1>1, <2>2, Lines DEF BackupEnds
  <2>3. CASE BackupFails(i)
    BY <1>1, <2>3 DEF BackupFails
  <2>4. CASE AppendConnInfoAppname(i)
    BY <1>1, <2>4, Lines DEF AppendConnInfoAppname
  <2>5. CASE AppendFails(i)
    BY <1>1, <2>5, Lines DEF AppendFails
  <2> QED
    BY <1>4, <2>1, <2>2, <2>3, <2>4, <2>5 DEF Setup
<1>5. ASSUME NEW i \in Secondaries, StartPG(i) \/ StopPG(i) \/ Promote(i) PROVE SitesOK'
  BY <1>1, <1>5 DEF StartPG, StopPG, Promote
<1>6. ASSUME NEW i \in Secondaries, WipeDir(i) \/ Rename(i) PROVE SitesOK'
  <2>1. \E line \in [host : BOOLEAN, app : AppNames] : conninfo' = [conninfo EXCEPT ![i] = line]
    BY <1>6, Lines DEF WipeDir, Rename
  <2>2. dir' \in [Secondaries -> {"empty", "foreign", "partial", "base"}]
    BY <1>1, <1>6 DEF WipeDir, Rename
  <2>3. UNCHANGED <<prepared, slots, pg, setup>> /\ ready' \subseteq ready
    BY <1>6 DEF WipeDir, Rename
  <2>4. conninfo' \in [Secondaries -> [host : BOOLEAN, app : AppNames]]
    BY <1>1, <2>1
  <2> QED
    BY <1>1, <2>2, <2>3, <2>4
<1>7. ASSUME NEW k \in SlotNames, DropSlot(k) PROVE SitesOK'
  BY <1>1, <1>7 DEF DropSlot
<1>8. ASSUME ConfigurePrimary PROVE SitesOK'
  BY <1>1, <1>8 DEF ConfigurePrimary
<1> QED
  BY <1>3, <1>4, <1>5, <1>6, <1>7, <1>8 DEF SiteStep, Operator

\* A query of the loop is about a secondary without a verdict.
LEMMA InLoop ==
  ASSUME TypeOK, Position, AskRecovery \/ AskRow \/ QueryFails
  PROVE  /\ at \in Secondaries /\ verdict[at] = "none" /\ at + 1 \in 0..(N + 1)
         /\ \/ pc' = "row" /\ UNCHANGED <<at, loopVars>>
            \/ \E v \in {"good", "bad"} : Judged(v)
<1>1. at \in Secondaries /\ at + 1 \in 0..(N + 1)
  BY Numbers DEF AskRecovery, AskRow, QueryFails, Position, Secondaries, TypeOK
<1>2. at >= at
  BY <1>1, Numbers DEF Secondaries
<1>3. verdict[at] = "none"
  BY <1>1, <1>2 DEF AskRecovery, AskRow, QueryFails, Position
<1>4. \/ pc' = "row" /\ UNCHANGED <<at, loopVars>>
      \/ \E v \in {"good", "bad"} : Judged(v)
  BY DEF AskRecovery, AskRow, QueryFails
<1> QED
  BY <1>1, <1>3, <1>4

\* One round of the loop keeps ok and remaining in step with the verdicts: a bad
\* secondary was not counted before.
LEMMA TallyCounts ==
  ASSUME TypeOK, Accumulated, at \in Secondaries, verdict[at] = "none",
         NEW v \in {"good", "bad"}, Judged(v)
  PROVE  Accumulated' /\ remaining' \in 0..N
<1>1. verdict' = [verdict EXCEPT ![at] = v] /\ verdict \in [Secondaries -> {"none", "good", "bad"}]
  BY DEF Judged, Tally, TypeOK
<1>2. /\ ok' = (ok /\ v = "good")
      /\ remaining' = IF v = "bad" THEN remaining + 1 ELSE remaining
  BY DEF Judged, Tally
<1>3. IsFiniteSet(Bad) /\ Cardinality(Bad) \in 0..N /\ Bad' \in SUBSET Secondaries
  BY SecondarySets DEF Bad
<1>4. Cardinality(Bad') \in 0..N
  <2> DEFINE S == Bad'
  <2>1. S \in SUBSET Secondaries
    BY <1>3
  <2> HIDE DEF S
  <2>2. Cardinality(S) \in 0..N
    BY <2>1, SecondarySets
  <2> QED
    BY <2>2 DEF S
<1>5. CASE v = "bad"
  <2>1. Bad' = Bad \cup {at} /\ at \notin Bad
    BY <1>1, <1>5 DEF Bad
  <2>2. Cardinality(Bad \cup {at}) = Cardinality(Bad) + 1
    BY <1>3, <2>1, FS_AddElement
  <2>3. ok' = (Bad' = {})
    BY <1>2, <1>5, <2>1
  <2>4. remaining' = Cardinality(Bad')
    BY <1>2, <1>5, <2>1, <2>2 DEF Accumulated
  <2> QED
    BY <1>4, <2>3, <2>4 DEF Accumulated
<1>6. CASE v = "good"
  <2>1. Bad' = Bad
    BY <1>1, <1>6 DEF Bad
  <2>2. UNCHANGED <<ok, remaining>>
    BY <1>2, <1>6 DEF TypeOK
  <2> QED
    BY <1>4, <2>1, <2>2 DEF Accumulated
<1> QED
  BY <1>5, <1>6

\* Typing is preserved by the commands: they stop at the last secondary.
LEMMA TypeStep == TypeOK /\ Position /\ Accumulated /\ [Next]_vars => TypeOK'
<1> SUFFICES ASSUME TypeOK, Position, Accumulated, [Next]_vars PROVE TypeOK'
  OBVIOUS
<1> DEFINE CmdOK ==
      /\ pc \in {"idle", "open", "recovery", "row", "close",
                 "control", "primary", "in_recovery", "tools", "s3", "checked", "done"}
      /\ at \in 0..(N + 1)
      /\ open \subseteq Sites
      /\ expired \in BOOLEAN
      /\ ok \in BOOLEAN /\ remaining \in 0..N
      /\ verdict \in [Secondaries -> {"none", "good", "bad"}]
      /\ result \in Results
      /\ outcomes \subseteq {"PASS", "WARN", "FAIL"}
      /\ lost \in BOOLEAN
<1>1. CmdOK
  BY DEF TypeOK
<1>2. CASE SiteStep
  BY <1>2, SiteTypes
<1>3. CmdStep /\ CmdOK' => TypeOK'
  BY CmdSteps DEF TypeOK, siteVars
<1>4. ASSUME StatusStart \/ DoctorStart PROVE CmdOK'
  <2>1. 0 \in 0..(N + 1)
    BY Numbers
  <2> QED
    BY <1>1, <1>4, <2>1 DEF StatusStart, DoctorStart, loopVars
<1>5. ASSUME OpenPool PROVE CmdOK'
  <2>1. at \in Sites /\ at + 1 \in 0..(N + 1) /\ 1 \in 0..(N + 1)
    BY <1>1, <1>5, Numbers DEF OpenPool, Position, Sites
  <2> QED
    BY <1>1, <1>5, <2>1 DEF OpenPool, loopVars
<1>6. ASSUME OpenFails \/ Close PROVE CmdOK'
  BY <1>1, <1>6 DEF OpenFails, Close, loopVars
<1>7. ASSUME AskRecovery \/ AskRow \/ QueryFails PROVE CmdOK'
  <2>1. UNCHANGED <<open, expired, result, outcomes>> /\ lost' \in BOOLEAN
    BY <1>1, <1>7 DEF AskRecovery, AskRow, QueryFails
  <2>2. CASE pc' = "row" /\ UNCHANGED <<at, loopVars>>
    BY <1>1, <2>1, <2>2 DEF loopVars
  <2>3. ASSUME NEW v \in {"good", "bad"}, Judged(v) PROVE CmdOK'
    <3>1. /\ remaining' \in 0..N /\ ok' \in BOOLEAN
          /\ verdict' \in [Secondaries -> {"none", "good", "bad"}]
          /\ pc' = "recovery" /\ at' = at + 1 /\ at + 1 \in 0..(N + 1)
      BY <1>1, <1>7, <2>3, InLoop, TallyCounts DEF Judged, Tally
    <3> QED
      BY <1>1, <2>1, <3>1
  <2> HIDE DEF CmdOK
  <2> QED
    BY <1>7, <2>2, <2>3, InLoop
<1>8. ASSUME Expire PROVE CmdOK'
  BY <1>1, <1>8 DEF Expire, loopVars
<1>9. ASSUME Report PROVE CmdOK'
  <2>1. <<ok, remaining>> \in Results
    BY <1>1, ResultsAre
  <2> QED
    BY <1>1, <1>9, <2>1 DEF Report, loopVars
<1>10. ASSUME Doctor PROVE CmdOK'
  <2>1. ASSUME NEW o \in {"PASS", "WARN", "FAIL"}, NEW p, NEW s \in 0..(N + 1), Adds(o, p, s),
               p \in {"control", "primary", "in_recovery", "tools", "s3", "checked"}
        PROVE  CmdOK'
    BY <1>1, <2>1 DEF Adds, loopVars
  <2>2. at \in 0..(N + 1) /\ (pc = "tools" => at + 1 \in 0..(N + 1))
    BY <1>1, Numbers DEF Position, InDoctor
  <2> HIDE DEF CmdOK
  <2>3. CASE DoctorControl \/ DoctorPrimary \/ DoctorInRecovery \/ DoctorS3
    BY <2>1, <2>2, <2>3 DEF DoctorControl, DoctorPrimary, DoctorInRecovery, DoctorS3,
       PgControlCheck, PgPrimaryChecks, PgInRecoveryCheck
  <2>4. CASE DoctorTools
    BY <2>1, <2>2, <2>4 DEF DoctorTools
  <2> QED
    BY <1>4, <1>10, <2>3, <2>4 DEF Doctor
<1>11. CASE UNCHANGED vars
  BY <1>11 DEF TypeOK, vars, siteVars, cmdVars, loopVars
<1> HIDE DEF CmdOK
<1> QED
  BY <1>2, <1>3, <1>4, <1>5, <1>6, <1>7, <1>8, <1>9, <1>10, <1>11
     DEF Next, Status, Doctor, SiteStep, CmdStep

-----------------------------------------------------------------------------
\* No step of the command touches a site.
LEMMA SitesStay ==
  ASSUME TypeOK, CmdStep \/ UNCHANGED vars
  PROVE  UNCHANGED <<siteVars, changes>>
  BY CmdSteps DEF vars, siteVars, cmdVars

LEMMA DirectoriesStep == TypeOK /\ Directories /\ [Next]_vars => Directories'
<1> SUFFICES ASSUME TypeOK, Directories, [Next]_vars, NEW j \in Secondaries
             PROVE  /\ pg'[j] # "down" => dir'[j] \in {"base", "foreign"}
                    /\ j \in ready' => dir'[j] = "base" /\ setup'[j] = "off"
                    /\ setup'[j] = "copy" => dir'[j] = "partial"
                    /\ setup'[j] = "name" => dir'[j] = "base"
                    /\ setup'[j] # "off" => pg'[j] = "down"
  BY DEF Directories
<1> DEFINE Fits == /\ pg[j] # "down" => dir[j] \in {"base", "foreign"}
                   /\ j \in ready => dir[j] = "base" /\ setup[j] = "off"
                   /\ setup[j] = "copy" => dir[j] = "partial"
                   /\ setup[j] = "name" => dir[j] = "base"
                   /\ setup[j] # "off" => pg[j] = "down"
<1>1. Fits /\ \A i \in Secondaries : i = j \/ i # j
  BY DEF Directories
<1>2. /\ dir \in [Secondaries -> {"empty", "foreign", "partial", "base"}]
      /\ pg \in [Secondaries -> {"down", "standby", "primary"}]
      /\ setup \in [Secondaries -> {"off", "copy", "name"}]
      /\ ready \subseteq Secondaries
  BY DEF TypeOK
<1>3. ASSUME NEW i \in Secondaries, Setup(i) PROVE Fits'
  <2>1. CASE SetupStart(i)
    <3>1. pg[i] = "down" /\ i \notin ready
      BY <2>1 DEF SetupStart, CheckDataDir, Directories
    <3> QED
      BY <1>1, <1>2, <2>1, <3>1 DEF SetupStart
  <2>2. CASE BackupEnds(i)
    BY <1>1, <1>2, <2>2 DEF BackupEnds
  <2>3. CASE BackupFails(i)
    <3>1. dir[i] = "partial" /\ pg[i] = "down" /\ i \notin ready
      BY <1>2, <2>3 DEF BackupFails, Directories
    <3> QED
      BY <1>1, <1>2, <2>3, <3>1 DEF BackupFails
  <2>4. CASE AppendConnInfoAppname(i)
    BY <1>1, <1>2, <2>4 DEF AppendConnInfoAppname
  <2>5. CASE AppendFails(i)
    BY <1>1, <1>2, <2>5 DEF AppendFails
  <2> QED
    BY <1>3, <2>1, <2>2, <2>3, <2>4, <2>5 DEF Setup
<1>4. ASSUME NEW i \in Secondaries, StartPG(i) \/ StopPG(i) PROVE Fits'
  BY <1>1, <1>2, <1>4 DEF StartPG, StopPG
<1>5. ASSUME NEW i \in Secondaries, Promote(i) PROVE Fits'
  <2>1. setup[i] = "off"
    BY <1>5 DEF Promote, Directories
  <2> QED
    BY <1>1, <1>2, <1>5, <2>1 DEF Promote
<1>6. ASSUME NEW i \in Secondaries, WipeDir(i) \/ Rename(i) PROVE Fits'
  BY <1>1, <1>2, <1>6 DEF WipeDir, Rename
<1>7. ASSUME NEW k \in SlotNames, DropSlot(k) PROVE Fits'
  BY <1>1, <1>7 DEF DropSlot
<1>8. ASSUME ConfigurePrimary PROVE Fits'
  BY <1>1, <1>8 DEF ConfigurePrimary
<1>9. ASSUME CmdStep \/ UNCHANGED vars PROVE Fits'
  BY <1>1, <1>9, SitesStay DEF siteVars
<1> QED
  BY <1>3, <1>4, <1>5, <1>6, <1>7, <1>8, <1>9 DEF Next, Operator, CmdStep

\* SetupStart is refused a slot that exists, and DropSlot one that is needed.
LEMMA OwnersStep == TypeOK /\ Directories /\ Owners /\ [Next]_vars => Owners'
<1> SUFFICES ASSUME TypeOK, Directories, Owners, [Next]_vars PROVE Owners'
  OBVIOUS
<1>1. UNCHANGED slotName
  <2>1. CASE SiteStep
    BY <2>1, SiteSteps
  <2>2. CASE CmdStep \/ UNCHANGED vars
    BY <2>2, SitesStay DEF siteVars
  <2> QED
    BY <2>1, <2>2 DEF Next, SiteStep, CmdStep
<1>2. /\ setup \in [Secondaries -> {"off", "copy", "name"}]
      /\ ready \subseteq Secondaries
  BY DEF TypeOK
<1>3. ASSUME slots \subseteq slots', \A j \in Secondaries : Holds(j)' => Holds(j)
      PROVE  Owners'
  BY <1>1, <1>3 DEF Owners
<1>4. ASSUME NEW i \in Secondaries, Setup(i) PROVE Owners'
  <2>1. CASE SetupStart(i)
    <3>1. ASSUME NEW j \in Secondaries, j # i PROVE Holds(j)' <=> Holds(j)
      BY <1>1, <1>2, <2>1, <3>1 DEF SetupStart, Holds
    <3>2. Holds(i)' => slotName[i] \in slots' /\ slotName[i] \notin slots
      BY <1>1, <2>1 DEF SetupStart, SlotIsFree, Holds
    <3>3. slots \subseteq slots'
      BY <2>1 DEF SetupStart
    <3>4. ASSUME NEW j \in Secondaries, Holds(j)' PROVE slotName[j] \in slots'
      BY <3>1, <3>2, <3>3, <3>4 DEF Owners
    <3>5. ASSUME NEW j \in Secondaries, NEW k \in Secondaries, Holds(j)', Holds(k)', j # k
          PROVE  slotName[j] # slotName[k]
      <4>1. CASE j # i /\ k # i
        BY <3>1, <3>5, <4>1 DEF Owners
      <4>2. CASE j = i
        BY <3>1, <3>2, <3>5, <4>2 DEF Owners
      <4>3. CASE k = i
        BY <3>1, <3>2, <3>5, <4>3 DEF Owners
      <4> QED
        BY <4>1, <4>2, <4>3
    <3> QED
      BY <1>1, <3>4, <3>5 DEF Owners
  <2>2. CASE BackupEnds(i)
    BY <1>1, <1>2, <1>3, <2>2 DEF BackupEnds, Holds
  <2>3. CASE BackupFails(i)
    BY <1>1, <1>2, <1>3, <2>3 DEF BackupFails, Holds
  <2>4. CASE AppendConnInfoAppname(i)
    BY <1>1, <1>2, <1>3, <2>4 DEF AppendConnInfoAppname, Holds
  <2>5. CASE AppendFails(i)
    BY <1>1, <1>2, <1>3, <2>5 DEF AppendFails, Holds
  <2> QED
    BY <1>4, <2>1, <2>2, <2>3, <2>4, <2>5 DEF Setup
<1>5. ASSUME NEW i \in Secondaries,
             StartPG(i) \/ StopPG(i) \/ Promote(i) \/ WipeDir(i) \/ Rename(i)
      PROVE  Owners'
  BY <1>1, <1>3, <1>5 DEF StartPG, StopPG, Promote, WipeDir, Rename, Holds
<1>6. ASSUME NEW k \in SlotNames, DropSlot(k) PROVE Owners'
  <2>1. \A j \in Secondaries : (Holds(j)' <=> Holds(j)) /\ (Holds(j) => slotName[j] # k)
    BY <1>1, <1>6 DEF DropSlot, Holds
  <2> QED
    BY <1>1, <1>6, <2>1 DEF DropSlot, Owners
<1>7. ASSUME ConfigurePrimary PROVE Owners'
  BY <1>1, <1>3, <1>7 DEF ConfigurePrimary, Holds
<1>8. ASSUME CmdStep \/ UNCHANGED vars PROVE Owners'
  BY <1>1, <1>3, <1>8, SitesStay DEF siteVars, Holds
<1> QED
  BY <1>4, <1>5, <1>6, <1>7, <1>8 DEF Next, Operator, CmdStep

-----------------------------------------------------------------------------
\* What a step beside the command or a stuttering step leaves.
LEMMA CmdStays ==
  ASSUME SiteStep \/ UNCHANGED vars
  PROVE  UNCHANGED cmdVars /\ UNCHANGED loopVars
  BY SiteSteps DEF vars, cmdVars

LEMMA PositionStep == TypeOK /\ Position /\ [Next]_vars => Position'
<1> SUFFICES ASSUME TypeOK, Position, [Next]_vars PROVE Position'
  OBVIOUS
<1>1. /\ at \in 0..(N + 1) /\ at \in Nat
      /\ verdict \in [Secondaries -> {"none", "good", "bad"}]
  BY Numbers DEF TypeOK
<1>2. N \in Nat /\ N >= 1 /\ Secondaries = 1..N
  BY Numbers DEF Secondaries
<1>3. CASE SiteStep \/ UNCHANGED vars
  BY <1>3, CmdStays DEF cmdVars, loopVars, Position, InDoctor
<1>4. CASE StatusStart \/ DoctorStart
  BY <1>2, <1>4 DEF StatusStart, DoctorStart, loopVars, Position, InDoctor
<1>5. CASE OpenPool
  <2>1. UNCHANGED <<verdict, result>> /\ \A i \in Secondaries : verdict[i] = "none"
    BY <1>5 DEF OpenPool, loopVars, Position
  <2>2. /\ result = <<>>
        /\ \/ pc' = "open" /\ at' = at + 1 /\ at # N /\ at <= N
           \/ pc' = "recovery" /\ at' = 1
    BY <1>5 DEF OpenPool, Position
  <2> QED
    BY <1>1, <1>2, <2>1, <2>2 DEF Position, InDoctor
<1>6. CASE OpenFails \/ Close \/ Expire
  BY <1>6 DEF OpenFails, Close, Expire, loopVars, Position, InDoctor
<1>7. CASE AskRecovery \/ AskRow \/ QueryFails
  <2>1. /\ at \in Secondaries /\ result = <<>> /\ UNCHANGED result
        /\ \A i \in Secondaries : verdict[i] = "none" <=> i >= at
    BY <1>1, <1>2, <1>7 DEF AskRecovery, AskRow, QueryFails, Position
  <2>2. CASE pc' = "row" /\ UNCHANGED <<at, loopVars>>
    BY <1>2, <2>1, <2>2 DEF loopVars, Position, InDoctor
  <2>3. ASSUME NEW v \in {"good", "bad"}, Judged(v) PROVE Position'
    <3>1. ASSUME NEW i \in Secondaries PROVE verdict'[i] = "none" <=> i >= at + 1
      BY <1>1, <1>2, <2>1, <2>3 DEF Judged, Tally
    <3> QED
      BY <1>1, <1>2, <2>1, <2>3, <3>1 DEF Judged, Position, InDoctor
  <2> QED
    BY <1>7, <2>2, <2>3, InLoop
<1>8. CASE Report
  BY <1>8 DEF Report, loopVars, Position, InDoctor
<1>9. CASE DoctorControl \/ DoctorPrimary \/ DoctorInRecovery \/ DoctorTools \/ DoctorS3
  <2>1. /\ InDoctor /\ InDoctor' /\ UNCHANGED <<verdict, result>> /\ at' <= N
        /\ pc' = "primary" => at' = 0
        /\ pc' = "in_recovery" => at' # 0
    BY <1>1, <1>2, <1>9 DEF DoctorControl, DoctorPrimary, DoctorInRecovery, DoctorTools, DoctorS3,
       Adds, loopVars, InDoctor, Position
  <2> QED
    BY <2>1 DEF Position, InDoctor
<1> QED
  BY <1>3, <1>4, <1>5, <1>6, <1>7, <1>8, <1>9 DEF Next, SiteStep, Status, Doctor

LEMMA AccumulatedStep == TypeOK /\ Position /\ Accumulated /\ [Next]_vars => Accumulated'
<1> SUFFICES ASSUME TypeOK, Position, Accumulated, [Next]_vars PROVE Accumulated'
  OBVIOUS
<1>1. CASE UNCHANGED loopVars
  BY <1>1 DEF loopVars, Accumulated, Bad
<1>2. CASE AskRecovery \/ AskRow \/ QueryFails
  BY <1>1, <1>2, InLoop, TallyCounts
<1>3. CASE SiteStep \/ UNCHANGED vars
  BY <1>1, <1>3, CmdStays
<1>4. CASE StatusStart \/ OpenPool \/ OpenFails \/ Expire \/ Report \/ Close
  BY <1>1, <1>4 DEF StatusStart, OpenPool, OpenFails, Expire, Report, Close
<1>5. CASE Doctor
  BY <1>1, <1>5 DEF Doctor, DoctorStart, DoctorControl, DoctorPrimary, DoctorInRecovery,
     DoctorTools, DoctorS3, Adds
<1> QED
  BY <1>2, <1>3, <1>4, <1>5 DEF Next, SiteStep, Status

LEMMA ReportedStep == TypeOK /\ Position /\ Accumulated /\ Reported /\ [Next]_vars => Reported'
<1> SUFFICES ASSUME TypeOK, Position, Accumulated, Reported, [Next]_vars PROVE Reported'
  OBVIOUS
<1>1. CASE UNCHANGED <<verdict, result>>
  BY <1>1 DEF Reported, Bad
<1>2. CASE AskRecovery \/ AskRow \/ QueryFails
  <2>1. result = <<>> /\ UNCHANGED result
    BY <1>2 DEF AskRecovery, AskRow, QueryFails, Position
  <2> QED
    BY <2>1 DEF Reported
<1>3. CASE Report
  <2>1. \A i \in Secondaries : i < N + 1 /\ ~ (i >= N + 1)
    BY Numbers DEF Secondaries
  <2>2. \A i \in Secondaries : verdict[i] # "none"
    BY <1>3, <2>1 DEF Report, Position
  <2> QED
    BY <1>3, <2>2 DEF Report, loopVars, Accumulated, Reported, Bad
<1>4. CASE SiteStep \/ UNCHANGED vars
  BY <1>1, <1>4, CmdStays DEF cmdVars, loopVars
<1>5. CASE StatusStart \/ OpenPool \/ OpenFails \/ Expire \/ Close
  BY <1>1, <1>5 DEF StatusStart, OpenPool, OpenFails, Expire, Close, loopVars
<1>6. CASE Doctor
  BY <1>1, <1>6 DEF Doctor, DoctorStart, DoctorControl, DoctorPrimary, DoctorInRecovery,
     DoctorTools, DoctorS3, Adds, loopVars
<1> QED
  BY <1>2, <1>3, <1>4, <1>5, <1>6 DEF Next, SiteStep, Status

-----------------------------------------------------------------------------
\* Once a command runs, a site that changes ends the quiet.
LEMMA QuietSteps ==
  ASSUME TypeOK, [Next]_vars, Quiet', pc' # "idle"
  PROVE  UNCHANGED <<siteVars, changes>>
<1>1. CASE SiteStep
  <2>1. changes \in 0..MaxChange /\ MaxChange \in Nat
    BY StandbyAssumption DEF TypeOK
  <2>2. changes + 1 # 0
    BY <2>1
  <2>3. pc = "idle"
    BY <1>1, <2>2, SiteSteps DEF Quiet
  <2> QED
    BY <1>1, <2>3, SiteSteps DEF cmdVars
<1>2. CASE CmdStep \/ UNCHANGED vars
  BY <1>2, SitesStay
<1> QED
  BY <1>1, <1>2 DEF Next, SiteStep, CmdStep

\* On sites that stand still a secondary is in sync or not once and for all.
LEMMA SyncStays ==
  ASSUME UNCHANGED siteVars, NEW i \in Secondaries
  PROVE  InSync(i)' <=> InSync(i)
  BY DEF siteVars, InSync, RowFor, Streams

LEMMA ExactStep == TypeOK /\ Position /\ Exact /\ [Next]_vars => Exact'
<1> SUFFICES ASSUME TypeOK, Position, Exact, [Next]_vars, Quiet', pc' # "idle"
             PROVE  /\ pc' = "row" => pg'[at'] = "standby"
                    /\ \A i \in Secondaries : /\ verdict'[i] = "good" => InSync(i)
                                              /\ verdict'[i] = "bad" => ~ InSync(i)
  BY QuietSteps, SyncStays DEF Exact
<1> DEFINE Right(v) == \A i \in Secondaries : /\ v[i] = "good" => InSync(i)
                                              /\ v[i] = "bad" => ~ InSync(i)
<1>1. UNCHANGED <<siteVars, changes>>
  BY QuietSteps
<1>2. UNCHANGED pg /\ verdict \in [Secondaries -> {"none", "good", "bad"}] /\ lost \in BOOLEAN
  BY <1>1 DEF siteVars, TypeOK
<1>3. ASSUME pc = "idle" PROVE Right(verdict)
  BY <1>3 DEF Position
<1>4. CASE StatusStart \/ DoctorStart
  BY <1>3, <1>4 DEF StatusStart, DoctorStart, loopVars
<1>5. ASSUME pc # "idle", ~ lost PROVE Right(verdict) /\ (pc = "row" => pg[at] = "standby")
  BY <1>1, <1>5 DEF Exact, Quiet
<1>6. ASSUME UNCHANGED <<pc, at, verdict, lost>>
      PROVE  Right(verdict') /\ (pc' = "row" => pg'[at'] = "standby")
  BY <1>2, <1>5, <1>6 DEF Quiet
<1>7. CASE SiteStep \/ UNCHANGED vars \/ Expire
  BY <1>6, <1>7, CmdStays DEF cmdVars, loopVars, Expire
<1>8. CASE OpenPool \/ OpenFails \/ Report \/ Close
  BY <1>5, <1>8 DEF OpenPool, OpenFails, Report, Close, loopVars, Quiet
<1>9. CASE Doctor /\ ~ DoctorStart
  <2>1. InDoctor /\ pc' # "row" /\ UNCHANGED verdict
    BY <1>9 DEF Doctor, DoctorControl, DoctorPrimary, DoctorInRecovery, DoctorTools, DoctorS3,
       Adds, loopVars, InDoctor
  <2> QED
    BY <2>1 DEF InDoctor, Position
<1>10. ASSUME NEW v \in {"good", "bad"}, Judged(v), Right(verdict), at \in Secondaries,
              v = "good" <=> InSync(at)
       PROVE  Right(verdict') /\ pc' # "row"
  BY <1>2, <1>10 DEF Judged, Tally
<1>11. CASE AskRecovery
  <2>1. Right(verdict) /\ at \in Secondaries
    BY <1>5, <1>11, Numbers DEF AskRecovery, Quiet, Position, Secondaries, TypeOK
  <2>2. CASE pg[at] = "standby"
    BY <1>2, <1>11, <2>1, <2>2 DEF AskRecovery, loopVars
  <2>3. CASE pg[at] # "standby"
    BY <1>10, <1>11, <2>1, <2>3 DEF AskRecovery, InSync
  <2> QED
    BY <2>2, <2>3
<1>12. CASE AskRow
  <2>1. Right(verdict) /\ at \in Secondaries /\ pg[at] = "standby"
    BY <1>5, <1>12, Numbers DEF AskRow, Quiet, Position, Secondaries, TypeOK
  <2> QED
    BY <1>10, <1>12, <2>1 DEF AskRow, InSync
<1>13. CASE QueryFails
  <2>1. ~ lost /\ pc = "recovery" /\ pg[at] = "down"
    BY <1>13 DEF QueryFails, Quiet
  <2>2. Right(verdict) /\ at \in Secondaries
    BY <1>5, <1>13, <2>1, Numbers DEF QueryFails, Position, Secondaries, TypeOK
  <2> QED
    BY <1>10, <1>13, <2>1, <2>2 DEF QueryFails, InSync
<1> QED
  BY <1>4, <1>7, <1>8, <1>9, <1>11, <1>12, <1>13 DEF Next, SiteStep, Status, Doctor

-----------------------------------------------------------------------------
LEMMA FoundStep == TypeOK /\ Position /\ Found /\ [Next]_vars => Found'
<1> SUFFICES ASSUME TypeOK, Position, Found, [Next]_vars, InDoctor', (outcomes \subseteq {"PASS"})', Quiet'
             PROVE  /\ pc' \in {"s3", "checked"} => at' = N
                    /\ Checked(0)' => prepared'
                    /\ \A i \in Secondaries : Checked(i)' => pg'[i] = "standby"
  BY DEF Found
<1>1. UNCHANGED <<siteVars, changes>> /\ UNCHANGED <<prepared, pg>>
  BY QuietSteps DEF InDoctor, siteVars
<1>2. N \in Nat /\ N >= 1 /\ Secondaries = 1..N /\ at \in 0..(N + 1) /\ 0 \notin Secondaries
  BY Numbers DEF Secondaries, TypeOK
<1>3. ASSUME InDoctor, outcomes \subseteq {"PASS"}, UNCHANGED lost
      PROVE  /\ pc \in {"s3", "checked"} => at = N
             /\ Checked(0) => prepared
             /\ \A i \in Secondaries : Checked(i) => pg[i] = "standby"
  BY <1>1, <1>3 DEF Found, Quiet
<1>4. CASE DoctorStart
  BY <1>2, <1>4 DEF DoctorStart, Checked
<1>5. CASE SiteStep \/ UNCHANGED vars
  BY <1>1, <1>3, <1>5, CmdStays DEF cmdVars, InDoctor, Checked
<1>6. CASE Status
  <2>1. ~ InDoctor'
    BY <1>6 DEF Status, StatusStart, OpenPool, OpenFails, AskRecovery, AskRow, QueryFails,
       Expire, Report, Close, Judged, InDoctor
  <2> QED
    BY <2>1
<1>7. CASE DoctorControl
  <2>1. PICK o \in PgControlCheck(at) :
          Adds(o, IF at = 0 THEN "primary" ELSE "in_recovery", at)
    BY <1>7 DEF DoctorControl
  <2>2. o = "PASS" /\ outcomes \subseteq {"PASS"} /\ UNCHANGED lost /\ InDoctor
    BY <1>7, <2>1 DEF Adds, DoctorControl, InDoctor
  <2> QED
    BY <1>1, <1>2, <1>3, <1>7, <2>1, <2>2 DEF Adds, DoctorControl, Checked
<1>8. CASE DoctorPrimary
  <2>1. PICK o \in PgPrimaryChecks : Adds(o, "tools", at)
    BY <1>8 DEF DoctorPrimary
  <2>2. o = "PASS" /\ outcomes \subseteq {"PASS"} /\ UNCHANGED lost /\ InDoctor /\ at = 0
    BY <1>8, <2>1 DEF Adds, DoctorPrimary, InDoctor, Position
  <2>3. prepared
    BY <2>1, <2>2 DEF PgPrimaryChecks
  <2> QED
    BY <1>1, <1>2, <1>3, <1>8, <2>1, <2>2, <2>3 DEF Adds, DoctorPrimary, Checked
<1>9. CASE DoctorInRecovery
  <2>1. PICK o \in PgInRecoveryCheck(at) : Adds(o, "tools", at)
    BY <1>9 DEF DoctorInRecovery
  <2>2. /\ o = "PASS" /\ outcomes \subseteq {"PASS"} /\ UNCHANGED lost /\ InDoctor
        /\ at # 0
    BY <1>9, <2>1 DEF Adds, DoctorInRecovery, InDoctor, Position
  <2>3. pg[at] = "standby"
    BY <2>1, <2>2 DEF PgInRecoveryCheck
  <2>4. pc = "in_recovery" /\ UNCHANGED at /\ pc' = "tools"
    BY <1>9, <2>1 DEF Adds, DoctorInRecovery
  <2> QED
    BY <1>1, <1>2, <1>3, <2>2, <2>3, <2>4 DEF Checked
<1>10. CASE DoctorTools
  <2>1. /\ outcomes \subseteq {"PASS"} /\ UNCHANGED lost /\ pc = "tools"
        /\ \/ at = N /\ pc' = "s3" /\ at' = at
           \/ at # N /\ pc' = "control" /\ at' = at + 1
    BY <1>10 DEF DoctorTools, Adds
  <2> QED
    BY <1>1, <1>2, <1>3, <2>1 DEF InDoctor, Checked
<1>11. CASE DoctorS3
  <2>1. outcomes \subseteq {"PASS"} /\ UNCHANGED <<at, lost>> /\ pc = "s3" /\ pc' = "checked"
    BY <1>11 DEF DoctorS3, Adds
  <2> QED
    BY <1>1, <1>2, <1>3, <2>1 DEF InDoctor, Checked
<1> QED
  BY <1>4, <1>5, <1>6, <1>7, <1>8, <1>9, <1>10, <1>11 DEF Next, SiteStep, Doctor

-----------------------------------------------------------------------------
LEMMA InitIInv == Init => IInv
<1> SUFFICES ASSUME Init PROVE IInv
  OBVIOUS
<1>1. TypeOK
  <2>1. /\ NoConninfo \in [host : BOOLEAN, app : AppNames]
        /\ 0 \in 0..(N + 1)
    BY Numbers DEF NoConninfo, AppNames
  <2>2. 0 \in 0..MaxChange /\ 0 \in 0..N
    <3>1. MaxChange \in Nat
      BY StandbyAssumption
    <3> QED
      BY <3>1, Numbers
  <2>3. pg \in [Secondaries -> {"down", "standby", "primary"}]
    BY DEF Init
  <2> QED
    BY <2>1, <2>2, <2>3, ResultsAre DEF Init, TypeOK
<1>2. Directories
  BY DEF Init, Directories
<1>3. Owners
  BY DEF Init, Owners, Holds
<1>4. Position /\ Reported
  BY Numbers DEF Init, Position, InDoctor, Reported
<1>5. Accumulated
  <2>1. Bad = {} /\ Cardinality({}) = 0
    BY FS_EmptySet DEF Init, Bad
  <2> QED
    BY <2>1 DEF Init, Accumulated
<1>6. Exact /\ Found
  BY DEF Init, Exact, Found, InDoctor
<1> QED
  BY <1>1, <1>2, <1>3, <1>4, <1>5, <1>6 DEF IInv

LEMMA NextIInv == IInv /\ [Next]_vars => IInv'
  BY TypeStep, DirectoriesStep, OwnersStep, PositionStep, AccumulatedStep, ReportedStep,
     ExactStep, FoundStep DEF IInv

LEMMA Inductive == Spec => []IInv
  BY InitIInv, NextIInv, PTL DEF Spec

\* Setups, operators, pg status and doctor keep every variable in its type.
THEOREM TypeCorrect == Spec => []TypeOK
<1>1. IInv => TypeOK
  BY DEF IInv
<1> QED
  BY <1>1, Inductive, PTL

\* Whatever setups failed or were killed before, in whatever order operators
\* and setups of other secondaries took their steps: a setup reported complete
\* has left a whole copy, its slot exists and no other completed standby depends
\* on that slot, and its line bears an application name.
THEOREM SetupIsComplete == Spec => CompletedSetup
<1> DEFINE Complete ==
      \A i \in ready' \ ready :
        /\ dir'[i] = "base"
        /\ slotName[i] # "" =>
             /\ slotName[i] \in slots'
             /\ \A j \in ready : slotName[j] # slotName[i]
             /\ conninfo'[i].app # ""
<1>1. ASSUME IInv, [Next]_vars PROVE [Complete]_vars
  <2> SUFFICES ASSUME NEW i \in ready' \ ready
               PROVE  /\ dir'[i] = "base"
                      /\ slotName[i] # "" =>
                           /\ slotName[i] \in slots'
                           /\ \A j \in ready : slotName[j] # slotName[i]
                           /\ conninfo'[i].app # ""
    OBVIOUS
  <2> USE <1>1 DEF IInv
  <2>1. i \in Secondaries /\ AppendConnInfoAppname(i)
    <3>1. \E k \in Secondaries : AppendConnInfoAppname(k)
      <4>1. CASE Operator
        BY <4>1 DEF Operator, StartPG, StopPG, Promote, WipeDir, Rename, DropSlot, ConfigurePrimary
      <4>2. ASSUME NEW k \in Secondaries, Setup(k) PROVE AppendConnInfoAppname(k)
        BY <4>2 DEF Setup, SetupStart, BackupEnds, BackupFails, AppendFails
      <4>3. CASE CmdStep \/ UNCHANGED vars
        BY <4>3, SitesStay DEF siteVars
      <4> QED
        BY <4>1, <4>2, <4>3 DEF Next, CmdStep
    <3> QED
      BY <3>1 DEF AppendConnInfoAppname
  <2>2. setup[i] = "name" /\ dir[i] = "base" /\ UNCHANGED <<slots, dir>>
    BY <2>1 DEF AppendConnInfoAppname, Directories
  <2>3. ASSUME slotName[i] # ""
        PROVE  slotName[i] \in slots /\ \A j \in ready : slotName[j] # slotName[i]
    <3>1. Holds(i)
      BY <2>2, <2>3 DEF Holds
    <3>2. ASSUME NEW j \in ready, slotName[j] = slotName[i] PROVE FALSE
      <4>1. j \in Secondaries /\ j # i /\ Holds(j)
        BY <2>3, <3>2 DEF Holds, TypeOK
      <4> QED
        BY <2>1, <3>1, <3>2, <4>1 DEF Owners
    <3> QED
      BY <2>1, <3>1, <3>2 DEF Owners
  <2>4. ASSUME slotName[i] # "" PROVE conninfo'[i].app # ""
    <3>1. conninfo' = [conninfo EXCEPT ![i] = Named(conninfo[i], slotName[i])]
      BY <2>1 DEF AppendConnInfoAppname
    <3>2. conninfo'[i] = Named(conninfo[i], slotName[i])
      BY <2>1, <3>1 DEF TypeOK
    <3>3. conninfo[i] \in [host : BOOLEAN, app : AppNames]
      BY <2>1 DEF TypeOK
    <3> QED
      BY <2>4, <3>2, <3>3 DEF Named
  <2> QED
    BY <2>2, <2>3, <2>4
<1> QED
  BY <1>1, Inductive, PTL DEF Spec, CompletedSetup

\* If nothing changed and no query was lost while pg status ran, it counts
\* exactly the secondaries that are not in recovery or that the primary does not
\* know by their name.
THEOREM ReportIsExact == Spec => []QuietReportIsExact
<1>1. IInv => QuietReportIsExact
  <2> SUFFICES ASSUME IInv, result # <<>>, Quiet
               PROVE  LET behind == {i \in Secondaries : pg[i] # "standby" \/ ~ RowFor(i)}
                      IN  result = <<behind = {}, Cardinality(behind)>>
    BY DEF QuietReportIsExact
  <2>1. pc # "idle" /\ result = <<Bad = {}, Cardinality(Bad)>>
    BY DEF IInv, Position, Reported
  <2>2. ASSUME NEW i \in Secondaries PROVE verdict[i] = "bad" <=> pg[i] # "standby" \/ ~ RowFor(i)
    <3>1. verdict[i] \in {"good", "bad"}
      BY DEF IInv, TypeOK, Reported
    <3> QED
      BY <2>1, <3>1 DEF IInv, Exact, InSync
  <2>3. Bad = {i \in Secondaries : pg[i] # "standby" \/ ~ RowFor(i)}
    BY <2>2 DEF Bad
  <2> QED
    BY <2>1, <2>3
<1> QED
  BY <1>1, Inductive, PTL

\* A doctor whose checks all passed, on sites that stood still, has seen a primary
\* that can be copied and a running standby at every secondary: none of its
\* statuses is lost among the later ones.
THEOREM DoctorIsReady == Spec => []AllPassedIsReady
<1>1. IInv => AllPassedIsReady
  <2> SUFFICES ASSUME IInv, pc = "checked", outcomes = {"PASS"}, Quiet
               PROVE  /\ prepared
                      /\ \A i \in Secondaries : pg[i] = "standby"
    BY DEF AllPassedIsReady
  <2>1. at = N
    BY DEF IInv, Found, InDoctor
  <2>2. Checked(0) /\ \A i \in Secondaries : Checked(i)
    BY <2>1, Numbers DEF Checked, Secondaries
  <2> QED
    BY <2>2 DEF IInv, Found, InDoctor
<1> QED
  BY <1>1, Inductive, PTL

\* A call of the postgres reconciler judges each secondary once, whichever
\* queries fail and whenever its context ends, and the counters it returns agree
\* with all of its verdicts.
THEOREM CallImplemented == Spec => ImplementsCall
<1>1. Init => Promise!Init
  BY DEF Init, Promise!Init
<1>2. IInv /\ [Next]_vars => [Promise!Next]_(Promise!vars)
  <2> SUFFICES ASSUME IInv, [Next]_vars
               PROVE  [Promise!Next]_<<Secondaries, verdict, FALSE, result>>
    BY DEF Promise!vars
  <2>1. CASE AskRecovery \/ AskRow \/ QueryFails
    <3>1. result = <<>> /\ UNCHANGED result
      BY <2>1 DEF AskRecovery, AskRow, QueryFails, IInv, Position
    <3>2. at \in Secondaries /\ verdict[at] = "none"
      BY <2>1, InLoop DEF IInv
    <3>3. \/ UNCHANGED verdict
          \/ \E v \in {"good", "bad"} : verdict' = [verdict EXCEPT ![at] = v]
      BY <2>1, InLoop DEF IInv, Judged, Tally, loopVars
    <3> QED
      BY <3>1, <3>2, <3>3 DEF Promise!Next, Promise!Judge
  <2>2. CASE Report
    <3>1. result = <<>> /\ result' = <<ok, remaining>> /\ UNCHANGED verdict
      BY <2>2 DEF Report, loopVars, IInv, Position
    <3>2. Promise!Bad = Bad
      BY DEF Promise!Bad, Bad
    <3>3. Promise!Cardinality(Bad) = Cardinality(Bad)
      BY Zenon DEF Promise!Cardinality, Cardinality
    <3>4. <<ok, remaining>> = <<Bad = {}, Promise!Cardinality(Bad)>>
      BY <3>3 DEF IInv, Accumulated
    <3>5. \A i \in Secondaries : verdict[i] # "none"
      <4>1. \A i \in Secondaries : ~ (i >= N + 1)
        BY Numbers DEF Secondaries
      <4> QED
        BY <2>2, <4>1 DEF Report, IInv, Position
    <3> QED
      BY <3>1, <3>2, <3>4, <3>5 DEF Promise!Next, Promise!Return, Promise!Unjudged
  <2>3. CASE SiteStep \/ UNCHANGED vars
    BY <2>3, CmdStays DEF cmdVars, loopVars
  <2>4. CASE StatusStart \/ OpenPool \/ OpenFails \/ Expire \/ Close
    BY <2>4 DEF StatusStart, OpenPool, OpenFails, Expire, Close, loopVars
  <2>5. CASE Doctor
    BY <2>5 DEF Doctor, DoctorStart, DoctorControl, DoctorPrimary, DoctorInRecovery,
       DoctorTools, DoctorS3, Adds, loopVars
  <2> QED
    BY <2>1, <2>2, <2>3, <2>4, <2>5 DEF Next, SiteStep, Status
<1> QED
  BY <1>1, <1>2, Inductive, PTL DEF Spec, ImplementsCall, Promise!Spec
=============================================================================
