--------------------------- MODULE FailoverProofs ---------------------------
(***************************************************************************)
(* Proofs about the failover controller, for every number of secondaries   *)
(* and health URLs, every quorum, and any number of faults and restarts.   *)
(*                                                                         *)
(* The inductive invariant IInv has three parts besides the types.  Window *)
(* ties the counter to the recorded verdicts and says that a round counts  *)
(* as spoilt only once serve is stopping.  Ops says which orchestration    *)
(* which process can be in: only serve gets past verifyPrimaryDown, with   *)
(* the first secondary as its target.  Progress says how far the sites are *)
(* when a script has reached a given command; Swapping, proved from IInv,  *)
(* says the same of a role swap.                                           *)
(***************************************************************************)
EXTENDS Failover, TLAPS

Window ==
  /\ \A i \in 1..3 : i > 3 - consecutiveFails =>
       history[i] # "good" /\ (~ stopping => history[i] = "bad")
  /\ primaryDown["serve"] => consecutiveFails = 3
  /\ ~ stopping => genuine = fails

Ops ==
  /\ ~ primaryDown["cli"]
  /\ kind["serve"] \in {"none", "promote", "readonly"}
  /\ kind["cli"] \in {"none", "promote", "adopt"}
  /\ kind["serve"] = "promote" =>
       /\ phase = "running" /\ primaryDown["serve"]
       /\ target["serve"] = First
       /\ AutoFailover /\ FailoverEnabled
  /\ kind["serve"] = "readonly" => phase = "starting" /\ target["serve"] # Primary
  /\ phase = "starting" => kind["serve"] = "readonly" /\ ReadOnlySecondary
  /\ phase = "off" => kind["serve"] = "none" /\ ~ stopping /\ consecutiveFails = 0
  /\ kind["cli"] = "promote" => step["cli"] = 1 \/ dry["cli"]
  /\ kind["cli"] = "adopt" => target["cli"] = Primary

\* Site s takes neither registry pushes nor Sidekiq jobs while it follows.
Held(s) == pg[s] = "standby" => {"registry", "sidekiq"} \subseteq ro[s]

Progress ==
  ~ dry["serve"] =>
    /\ kind["serve"] = "promote" =>
         /\ step["serve"] >= 4 => pg[First] = "primary"
         /\ step["serve"] >= 5 => "registry" \notin ro[First]
         /\ step["serve"] >= 6 => "sidekiq" \notin ro[First]
         /\ step["serve"] >= 8 => services[First]
    /\ ReadOnlySecondary /\ phase = "starting" =>
         /\ \A s \in Sites \ {Primary} : s < target["serve"] => Held(s)
         /\ step["serve"] >= 2 => "registry" \in ro[target["serve"]]
         /\ step["serve"] >= 3 => "sidekiq" \in ro[target["serve"]]
    /\ ReadOnlySecondary /\ phase = "running" =>
         \A s \in Sites \ {Primary} : Held(s)

IInv == TypeOK /\ Window /\ Ops /\ Progress

-----------------------------------------------------------------------------
\* The scripts, command by command.
LEMMA Scripts ==
  /\ Length("promote") = 8 /\ Length("adopt") = 6
  /\ Length("readonly") = 3
  /\ Script("promote")[1] = "verify" /\ Script("promote")[2] = "stop"
  /\ Script("promote")[3] = "promote" /\ Script("promote")[4] = "registry"
  /\ Script("promote")[5] = "sidekiq" /\ Script("promote")[6] = "storages"
  /\ Script("promote")[7] = "start" /\ Script("promote")[8] = "dbkey"
  /\ Script("adopt")[1] = "stop" /\ Script("adopt")[2] = "basebackup"
  /\ Script("adopt")[3] = "registry" /\ Script("adopt")[4] = "sidekiq"
  /\ Script("adopt")[5] = "storages" /\ Script("adopt")[6] = "start"
  /\ Script("readonly")[1] = "registry" /\ Script("readonly")[2] = "sidekiq"
  /\ Script("readonly")[3] = "storages"
  BY DEF Script, Length

\* Every script has between one and eight commands.
LEMMA ScriptLen == \A k \in Kinds : Length(k) \in 1..8
<1> SUFFICES ASSUME NEW k \in Kinds PROVE Length(k) \in 1..8
  OBVIOUS
<1>1. k = "promote" \/ k = "adopt" \/ k = "readonly"
  BY DEF Kinds
<1> QED
  BY <1>1, Scripts

\* The sites are numbered from 0 and there is a first secondary.
LEMMA SiteNumbers == Primary \in Sites /\ First \in Sites /\ First # Primary
  BY FailoverAssumption DEF Primary, First, Sites

\* Typing of the orchestration in progress.
OpType ==
  /\ kind \in [Procs -> Kinds \cup {"none"}]
  /\ target \in [Procs -> Sites]
  /\ step \in [Procs -> 1..8]
  /\ \A p \in Procs : kind[p] # "none" => step[p] <= Length(kind[p])

\* Starting an orchestration, or none, keeps the bookkeeping well typed.
LEMMA StartOpType ==
  ASSUME OpType, NEW p \in Procs, NEW k \in Kinds \cup {"none"}, NEW s \in Sites,
         StartOp(p, k, s)
  PROVE  OpType'
<1>1. /\ kind' \in [Procs -> Kinds \cup {"none"}]
      /\ target' \in [Procs -> Sites]
      /\ step' \in [Procs -> 1..8]
  BY DEF OpType, StartOp
<1>2. ASSUME NEW q \in Procs, kind'[q] # "none"
      PROVE  step'[q] <= Length(kind'[q])
  <2>1. CASE q = p
    <3>1. kind'[q] \in Kinds /\ step'[q] = 1
      BY <1>2, <2>1 DEF OpType, StartOp
    <3>2. Length(kind'[q]) \in 1..8
      BY <3>1, ScriptLen
    <3> QED
      BY <3>1, <3>2
  <2>2. CASE q # p
    <3>1. kind'[q] = kind[q] /\ step'[q] = step[q]
      BY <2>2 DEF OpType, StartOp
    <3> QED
      BY <1>2, <3>1 DEF OpType
  <2> QED
    BY <2>1, <2>2
<1> QED
  BY <1>1, <1>2 DEF OpType

\* So does going on to the next command.
LEMMA AdvanceType ==
  ASSUME OpType, NEW p \in Procs, kind[p] # "none", Advance(p),
         phase \in {"off", "starting", "running"}
  PROVE  OpType' /\ phase' \in {"off", "starting", "running"}
<1>1. CASE step[p] < Length(kind[p])
  <2>1. Length(kind[p]) \in 1..8
    BY ScriptLen DEF OpType
  <2>2. step' = [step EXCEPT ![p] = @ + 1] /\ UNCHANGED <<kind, target, phase>>
    BY <1>1 DEF Advance
  <2>3. step' \in [Procs -> 1..8]
    BY <1>1, <2>1, <2>2 DEF OpType
  <2>4. ASSUME NEW q \in Procs, kind'[q] # "none"
        PROVE  step'[q] <= Length(kind'[q])
    <3>1. kind'[q] = kind[q]
      BY <2>2
    <3>2. CASE q = p
      <4>1. step'[q] = step[p] + 1 /\ step[p] \in 1..8
        BY <2>2, <3>2 DEF OpType
      <4> QED
        BY <1>1, <2>1, <3>1, <3>2, <4>1
    <3>3. CASE q # p
      <4>1. step'[q] = step[q]
        BY <2>2, <3>3 DEF OpType
      <4> QED
        BY <2>4, <3>1, <4>1 DEF OpType
    <3> QED
      BY <3>2, <3>3
  <2> QED
    BY <2>2, <2>3, <2>4 DEF OpType
<1>2. CASE ~ (step[p] < Length(kind[p]))
  <2>1. Finish(p)
    BY <1>2 DEF Advance
  <2>2. CASE kind[p] = "readonly" /\ target[p] < NumSecondaries
    <3>1. target[p] + 1 \in Sites
      BY <2>2, FailoverAssumption DEF OpType, Sites
    <3> QED
      BY <2>1, <2>2, <3>1, StartOpType DEF Finish, Kinds
  <2>3. CASE ~ (kind[p] = "readonly" /\ target[p] < NumSecondaries)
    BY <2>1, <2>3, StartOpType, SiteNumbers DEF Finish
  <2> QED
    BY <2>2, <2>3
<1> QED
  BY <1>1, <1>2

\* The part of TypeOK about the sites.
SiteType ==
  /\ reachable \in [Sites -> BOOLEAN]
  /\ services \in [Sites -> BOOLEAN]
  /\ pg \in [Sites -> {"primary", "standby", "empty"}]
  /\ ro \in [Sites -> SUBSET Restrictions]

\* A command leaves the sites well typed.
LEMMA EffectType ==
  ASSUME SiteType, OpType, NEW p \in Procs, Effect(p)
  PROVE  SiteType'
<1>1. target[p] \in Sites
  BY DEF OpType
<1>2. services' \in [Sites -> BOOLEAN] /\ reachable' \in [Sites -> BOOLEAN]
  BY <1>1 DEF SiteType, Effect
<1>3. pg' \in [Sites -> {"primary", "standby", "empty"}]
  BY <1>1 DEF SiteType, Effect
<1>4. ro' \in [Sites -> SUBSET Restrictions]
  BY <1>1 DEF SiteType, Effect
<1> QED
  BY <1>2, <1>3, <1>4 DEF SiteType

\* The memory of a serve process that is gone is well typed.
LEMMA GoneType ==
  ASSUME TypeOK, Gone, SiteType', faults' \in 0..MaxFaults
  PROVE  TypeOK'
<1>1. kind' \in [Procs -> Kinds \cup {"none"}]
  BY DEF TypeOK, Gone
<1>2. target' \in [Procs -> Sites]
  BY SiteNumbers DEF TypeOK, Gone
<1>3. step' \in [Procs -> 1..8]
  BY DEF TypeOK, Gone, Procs
<1>4. ASSUME NEW q \in Procs, kind'[q] # "none" PROVE step'[q] <= Length(kind'[q])
  <2>1. q # "serve" /\ kind'[q] = kind[q] /\ step'[q] = step[q]
    BY <1>4 DEF TypeOK, Gone
  <2> QED
    BY <1>4, <2>1 DEF TypeOK
<1>5. primaryDown' \in [Procs -> BOOLEAN] /\ dry' \in [Procs -> BOOLEAN]
  BY DEF TypeOK, Gone
<1>6. /\ polls' \in 0..NumURLs /\ fails' \in 0..polls' /\ genuine' \in 0..fails'
      /\ consecutiveFails' \in 0..3
  BY FailoverAssumption DEF Gone
<1>7. /\ phase' \in {"off", "starting", "running"} /\ stopping' \in BOOLEAN
      /\ history' \in [1..3 -> {"good", "bad", "spoilt"}]
      /\ promoted' \subseteq Sites /\ starts' \in 0..MaxStarts
  BY DEF TypeOK, Gone
<1> QED
  BY <1>1, <1>2, <1>3, <1>4, <1>5, <1>6, <1>7 DEF TypeOK, SiteType

\* Ending a script at its first error keeps everything well typed, whatever
\* the failing command did to its host.
LEMMA AbortType ==
  ASSUME TypeOK, NEW p \in Procs, Abort(p), SiteType', faults' \in 0..MaxFaults
  PROVE  TypeOK'
<1>0. OpType
  BY DEF TypeOK, OpType
<1>1. CASE kind[p] = "readonly"
  BY <1>1, GoneType DEF Abort
<1>2. CASE kind[p] # "readonly"
  <2>1. StartOp(p, "none", Primary)
        /\ UNCHANGED <<phase, stopping, checkVars, dry, primaryDown, promoted, starts>>
    BY <1>2 DEF Abort
  <2>2. OpType'
    BY <1>0, <2>1, StartOpType, SiteNumbers
  <2> QED
    BY <2>1, <2>2 DEF TypeOK, OpType, SiteType, checkVars
<1> QED
  BY <1>1, <1>2

-----------------------------------------------------------------------------
\* Typing is preserved by every step.
LEMMA TypeStep == TypeOK /\ [Next]_vars => TypeOK'
<1> SUFFICES ASSUME TypeOK, [Next]_vars PROVE TypeOK'
  OBVIOUS
<1>0. OpType /\ SiteType
  BY DEF TypeOK, OpType, SiteType
<1> USE FailoverAssumption, SiteNumbers
<1>1. CASE Environment
  <2>1. ASSUME NEW s \in Sites, Connectivity(s) PROVE TypeOK'
    BY <2>1 DEF TypeOK, Connectivity, checkVars, opVars
  <2>2. CASE PrimaryService
    BY <2>2 DEF TypeOK, PrimaryService, checkVars, opVars
  <2>3. CASE WipeData
    BY <2>3 DEF TypeOK, WipeData, checkVars, opVars
  <2> QED
    BY <1>1, <2>1, <2>2, <2>3 DEF Environment
<1>2. ASSUME NEW d \in BOOLEAN, ServeStart(d) PROVE TypeOK'
  <2>1. OpType'
    <3>1. CASE ReadOnlySecondary
      BY <1>0, <1>2, <3>1, StartOpType DEF ServeStart, Procs, Kinds
    <3>2. CASE ~ ReadOnlySecondary
      BY <1>0, <1>2, <3>2 DEF ServeStart, opVars, OpType
    <3> QED
      BY <3>1, <3>2
  <2>2. dry' \in [Procs -> BOOLEAN]
    BY <1>2 DEF ServeStart, TypeOK
  <2> QED
    BY <1>2, <2>1, <2>2 DEF ServeStart, TypeOK, OpType, checkVars, siteVars
<1>3. CASE Signal
  BY <1>3 DEF Signal, TypeOK, checkVars, siteVars, opVars
<1>4. CASE ServeExit
  BY <1>4, <1>0, GoneType DEF ServeExit, TypeOK, SiteType, siteVars
<1>5. CASE PollOK \/ PollFails
  BY <1>5 DEF PollOK, PollFails, TypeOK, siteVars, opVars
<1>6. CASE RoundBad
  <2>1. OpType'
    <3>1. CASE consecutiveFails' >= 3 /\ AutoFailover /\ (dry["serve"] \/ FailoverEnabled)
      BY <1>0, <1>6, <3>1, StartOpType DEF RoundBad, AutoPromote, Procs, Kinds
    <3>2. CASE ~ (consecutiveFails' >= 3 /\ AutoFailover /\ (dry["serve"] \/ FailoverEnabled))
      BY <1>0, <1>6, <3>2 DEF RoundBad, AutoPromote, opVars, OpType
    <3> QED
      BY <3>1, <3>2
  <2>2. primaryDown' \in [Procs -> BOOLEAN]
    BY <1>6 DEF RoundBad, TypeOK
  <2>3. history' \in [1..3 -> {"good", "bad", "spoilt"}]
    BY <1>6 DEF RoundBad, TypeOK, Record
  <2>4. consecutiveFails' \in 0..3
    BY <1>6 DEF RoundBad, TypeOK
  <2> QED
    BY <1>6, <2>1, <2>2, <2>3, <2>4 DEF RoundBad, EndRound, TypeOK, OpType, siteVars
<1>7. CASE RoundGood
  <2>1. primaryDown' \in [Procs -> BOOLEAN]
    BY <1>7 DEF RoundGood, TypeOK
  <2>2. history' \in [1..3 -> {"good", "bad", "spoilt"}]
    BY <1>7 DEF RoundGood, TypeOK, Record
  <2> QED
    BY <1>7, <2>1, <2>2 DEF RoundGood, EndRound, TypeOK, siteVars, opVars
<1>8. ASSUME NEW s \in Sites \ {Primary}, NEW d \in BOOLEAN, CliFailover(s, d) PROVE TypeOK'
  <2>1. OpType'
    BY <1>0, <1>8, StartOpType DEF CliFailover, Procs, Kinds
  <2> QED
    BY <1>8, <2>1 DEF CliFailover, TypeOK, OpType, checkVars, siteVars
<1>9. ASSUME NEW d \in BOOLEAN, CliAdopt(d) PROVE TypeOK'
  <2>1. OpType'
    BY <1>0, <1>9, StartOpType DEF CliAdopt, Procs, Kinds
  <2> QED
    BY <1>9, <2>1 DEF CliAdopt, TypeOK, OpType, checkVars, siteVars
<1>10. ASSUME NEW p \in Procs, StepOK(p) PROVE TypeOK'
  <2>1. OpType' /\ phase' \in {"off", "starting", "running"}
    BY <1>0, <1>10, AdvanceType DEF StepOK, TypeOK
  <2>2. SiteType'
    BY <1>0, <1>10, EffectType DEF StepOK
  <2>3. promoted' \subseteq Sites
    BY <1>10 DEF StepOK, Report, TypeOK
  <2> QED
    BY <1>10, <2>1, <2>2, <2>3 DEF StepOK, TypeOK, OpType, SiteType, checkVars
<1>11. ASSUME NEW p \in Procs, StepFails(p) PROVE TypeOK'
  <2>1. SiteType' /\ faults' \in 0..MaxFaults
    BY <1>11 DEF StepFails, TypeOK, SiteType, siteVars
  <2> QED
    BY <1>11, <2>1, AbortType DEF StepFails
<1>12. ASSUME NEW p \in Procs, StepFaulty(p) PROVE TypeOK'
  <2>1. SiteType'
    <3>1. CASE Effect(p)
      BY <1>0, <3>1, EffectType
    <3>2. CASE UNCHANGED siteVars
      BY <1>0, <3>2 DEF SiteType, siteVars
    <3> QED
      BY <1>12, <3>1, <3>2 DEF StepFaulty
  <2>2. faults' \in 0..MaxFaults
    BY <1>12 DEF StepFaulty, TypeOK
  <2> QED
    BY <1>12, <2>1, <2>2, AbortType DEF StepFaulty
<1>13. ASSUME NEW p \in Procs, StepPrinted(p) PROVE TypeOK'
  <2>1. OpType' /\ phase' \in {"off", "starting", "running"}
    BY <1>0, <1>13, AdvanceType DEF StepPrinted, TypeOK
  <2> QED
    BY <1>13, <2>1 DEF StepPrinted, TypeOK, OpType, siteVars, checkVars
<1>14. CASE UNCHANGED vars
  BY <1>14 DEF vars, TypeOK, siteVars, checkVars, opVars
<1> QED
  BY <1>1, <1>2, <1>3, <1>4, <1>5, <1>6, <1>7, <1>8, <1>9, <1>10, <1>11, <1>12,
     <1>13, <1>14 DEF Next, Check, Step

-----------------------------------------------------------------------------
\* The counter and the verdict follow the recorded rounds.
LEMMA WindowStep == TypeOK /\ Window /\ [Next]_vars => Window'
<1> SUFFICES ASSUME TypeOK, Window, [Next]_vars PROVE Window'
  OBVIOUS
<1> USE FailoverAssumption
<1>1. ASSUME UNCHANGED <<stopping, checkVars>>, primaryDown'["serve"] = primaryDown["serve"]
      PROVE  Window'
  BY <1>1 DEF Window, checkVars
<1>2. ASSUME Gone PROVE Window'
  BY <1>2 DEF Gone, Window, TypeOK, Procs
<1>3. CASE Environment \/ (\E d \in BOOLEAN : ServeStart(d)) \/ UNCHANGED vars
  BY <1>1, <1>3 DEF Environment, Connectivity, PrimaryService, WipeData, ServeStart, vars
<1>4. CASE \E d \in BOOLEAN : CliAdopt(d) \/ \E s \in Sites \ {Primary} : CliFailover(s, d)
  BY <1>1, <1>4 DEF CliAdopt, CliFailover, TypeOK, Procs
<1>5. CASE Signal
  BY <1>5 DEF Signal, Window, checkVars
<1>6. CASE ServeExit
  BY <1>2, <1>6 DEF ServeExit
<1>7. CASE PollOK \/ PollFails
  BY <1>7 DEF PollOK, PollFails, Window, TypeOK
<1>8. CASE RoundBad
  <2>1. ~ stopping => genuine >= Quorum
    BY <1>8 DEF RoundBad, Window
  <2>2. /\ history'[3] = IF genuine >= Quorum THEN "bad" ELSE "spoilt"
        /\ history'[2] = history[3] /\ history'[1] = history[2]
    BY <1>8 DEF RoundBad, Record
  <2>3. /\ stopping' = stopping /\ genuine' = fails'
        /\ consecutiveFails' = IF consecutiveFails < 3 THEN consecutiveFails + 1 ELSE 3
    BY <1>8 DEF RoundBad, EndRound
  <2>4. \A i \in 1..3 : i > 3 - consecutiveFails' =>
          history'[i] # "good" /\ (~ stopping' => history'[i] = "bad")
    BY <2>1, <2>2, <2>3 DEF Window, TypeOK
  <2>5. primaryDown'["serve"] => consecutiveFails' = 3
    BY <1>8, <2>3 DEF RoundBad, Window, TypeOK
  <2> QED
    BY <2>3, <2>4, <2>5 DEF Window
<1>9. CASE RoundGood
  BY <1>9 DEF RoundGood, EndRound, Window, TypeOK, Procs
<1>10. ASSUME NEW p \in Procs, StepOK(p) \/ StepPrinted(p) PROVE Window'
  BY <1>1, <1>10 DEF StepOK, StepPrinted
<1>11. ASSUME NEW p \in Procs, StepFails(p) \/ StepFaulty(p) PROVE Window'
  BY <1>1, <1>2, <1>11 DEF StepFails, StepFaulty, Abort
<1> QED
  BY <1>3, <1>4, <1>5, <1>6, <1>7, <1>8, <1>9, <1>10, <1>11 DEF Next, Check, Step

-----------------------------------------------------------------------------
\* A command of geoctl that is not a dry run never gets past verifyPrimaryDown.
LEMMA CliRefused ==
  ASSUME TypeOK, Ops, ~ dry["cli"], Succeeds("cli"), kind["cli"] # "none"
  PROVE  kind["cli"] = "adopt" /\ target["cli"] = Primary
<1>1. CASE kind["cli"] = "promote"
  <2>1. Command("cli") = "verify"
    BY <1>1, Scripts DEF Ops, Command
  <2> QED
    BY <2>1 DEF Succeeds, Ops
<1> QED
  BY <1>1 DEF Ops

\* Which process is in which orchestration.
LEMMA OpsStep == TypeOK /\ Ops /\ [Next]_vars => Ops'
<1> SUFFICES ASSUME TypeOK, Ops, [Next]_vars PROVE Ops'
  OBVIOUS
<1> USE FailoverAssumption, SiteNumbers
<1>1. ASSUME UNCHANGED <<phase, stopping, consecutiveFails, dry, primaryDown, opVars>>
      PROVE  Ops'
  BY <1>1 DEF Ops, opVars
<1>2. ASSUME Gone PROVE Ops'
  BY <1>2 DEF Gone, Ops, TypeOK, Procs
<1>3. CASE Environment \/ UNCHANGED vars
  BY <1>1, <1>3 DEF Environment, Connectivity, PrimaryService, WipeData, vars, checkVars
<1>4. ASSUME NEW d \in BOOLEAN, ServeStart(d) PROVE Ops'
  BY <1>4 DEF ServeStart, StartOp, Ops, TypeOK, Procs, opVars, checkVars
<1>5. CASE Signal
  BY <1>5 DEF Signal, Ops, checkVars, opVars
<1>6. CASE ServeExit
  BY <1>2, <1>6 DEF ServeExit
<1>7. CASE PollOK \/ PollFails
  BY <1>1, <1>7 DEF PollOK, PollFails
<1>8. CASE RoundBad
  <2>1. /\ phase = "running" /\ phase' = phase /\ stopping' = stopping
        /\ kind["serve"] = "none" /\ FailoverEnabled
    BY <1>8 DEF RoundBad, EndRound, CanPoll
  <2>2. /\ kind'["cli"] = kind["cli"] /\ target'["cli"] = target["cli"] /\ dry' = dry
        /\ step'["cli"] = step["cli"] /\ primaryDown'["cli"] = primaryDown["cli"]
    BY <1>8 DEF RoundBad, AutoPromote, StartOp, opVars, TypeOK, Procs
  <2>3. \/ kind'["serve"] = "none"
        \/ /\ kind'["serve"] = "promote" /\ target'["serve"] = First
           /\ primaryDown'["serve"] /\ AutoFailover
    BY <1>8, <2>1 DEF RoundBad, AutoPromote, StartOp, opVars, TypeOK, Procs
  <2> QED
    BY <2>1, <2>2, <2>3 DEF Ops
<1>9. CASE RoundGood
  BY <1>9 DEF RoundGood, EndRound, CanPoll, opVars, Ops, TypeOK, Procs
<1>10. ASSUME NEW s \in Sites \ {Primary}, NEW d \in BOOLEAN, CliFailover(s, d) PROVE Ops'
  BY <1>10 DEF CliFailover, StartOp, checkVars, Ops, TypeOK, Procs
<1>11. ASSUME NEW d \in BOOLEAN, CliAdopt(d) PROVE Ops'
  BY <1>11 DEF CliAdopt, StartOp, checkVars, Ops, TypeOK, Procs
<1>12. ASSUME NEW p \in Procs, kind[p] # "none", Advance(p),
              UNCHANGED <<stopping, consecutiveFails, dry, primaryDown>>,
              dry[p] \/ Succeeds(p)
       PROVE  Ops'
  <2>1. CASE p = "serve" /\ kind[p] = "promote"
    BY <1>12, <2>1 DEF Advance, Finish, StartOp, Ops, TypeOK, Procs
  <2>2. CASE p = "serve" /\ kind[p] = "readonly"
    <3>1. target[p] \in Nat /\ target[p] + 1 # Primary
      BY DEF TypeOK, Sites, Primary
    <3> QED
      BY <1>12, <2>2, <3>1 DEF Advance, Finish, StartOp, Ops, TypeOK, Procs
  <2>3. CASE p = "cli" /\ kind[p] = "adopt"
    BY <1>12, <2>3 DEF Advance, Finish, StartOp, Ops, TypeOK, Procs
  <2>4. CASE p = "cli" /\ kind[p] = "promote"
    <3>1. dry["cli"]
      BY <1>12, <2>4, CliRefused
    <3> QED
      BY <1>12, <2>4, <3>1 DEF Advance, Finish, StartOp, Ops, TypeOK, Procs
  <2> QED
    BY <1>12, <2>1, <2>2, <2>3, <2>4 DEF Ops, Procs
<1>13. ASSUME NEW p \in Procs, StepOK(p) \/ StepPrinted(p) PROVE Ops'
  BY <1>12, <1>13 DEF StepOK, StepPrinted, checkVars
<1>14. ASSUME NEW p \in Procs, kind[p] # "none", Abort(p) PROVE Ops'
  <2>1. CASE kind[p] = "readonly"
    BY <1>2, <1>14, <2>1 DEF Abort
  <2>2. CASE kind[p] # "readonly"
    BY <1>14, <2>2 DEF Abort, StartOp, checkVars, Ops, TypeOK, Procs
  <2> QED
    BY <2>1, <2>2
<1>15. ASSUME NEW p \in Procs, StepFails(p) \/ StepFaulty(p) PROVE Ops'
  BY <1>14, <1>15 DEF StepFails, StepFaulty
<1> QED
  BY <1>3, <1>4, <1>5, <1>6, <1>7, <1>8, <1>9, <1>10, <1>11, <1>13, <1>15
     DEF Next, Check, Step

-----------------------------------------------------------------------------
\* A command changes its own host only.
LEMMA EffectLocal ==
  ASSUME TypeOK, NEW p \in Procs, Effect(p), NEW s \in Sites, s # target[p]
  PROVE  pg'[s] = pg[s] /\ ro'[s] = ro[s] /\ services'[s] = services[s]
<1>1. target[p] \in Sites
  BY DEF TypeOK
<1> QED
  BY <1>1 DEF Effect, TypeOK

\* What each command of a promotion by serve does to the first secondary.
LEMMA PromoteEffect ==
  ASSUME TypeOK, Ops, Progress, ~ dry["serve"], kind["serve"] = "promote", Effect("serve")
  PROVE  /\ step["serve"] >= 3 => pg'[First] = "primary"
         /\ step["serve"] < 3 => pg'[First] = pg[First]
         /\ step["serve"] < 4 => ro'[First] = ro[First]
         /\ step["serve"] >= 4 => "registry" \notin ro'[First]
         /\ step["serve"] >= 5 => "sidekiq" \notin ro'[First]
         /\ step["serve"] >= 7 => services'[First]
<1> DEFINE i == step["serve"]
<1>0. /\ target["serve"] = First /\ First \in Sites /\ i \in 1..8
      /\ Command("serve") = Script("promote")[i]
  BY SiteNumbers DEF Ops, TypeOK, Command, Procs
<1>1. i = 1 \/ i = 2 \/ i = 3 \/ i = 4 \/ i = 5 \/ i = 6 \/ i = 7 \/ i = 8
  BY <1>0
<1>2. CASE i = 1 \/ i = 2
  BY <1>0, <1>2, Scripts DEF Effect, TypeOK, Restrictions
<1>3. CASE i = 3
  BY <1>0, <1>3, Scripts DEF Effect, TypeOK, Restrictions
<1>4. CASE i = 4
  BY <1>0, <1>4, Scripts DEF Effect, TypeOK, Restrictions, Progress
<1>5. CASE i = 5
  BY <1>0, <1>5, Scripts DEF Effect, TypeOK, Restrictions, Progress
<1>6. CASE i = 6
  BY <1>0, <1>6, Scripts DEF Effect, TypeOK, Restrictions, Progress
<1>7. CASE i = 7
  BY <1>0, <1>7, Scripts DEF Effect, TypeOK, Restrictions, Progress
<1>8. CASE i = 8
  BY <1>0, <1>8, Scripts DEF Effect, TypeOK, Restrictions, Progress
<1> QED
  BY <1>1, <1>2, <1>3, <1>4, <1>5, <1>6, <1>7, <1>8

\* What each command of the read-only enforcement does to its secondary.
LEMMA EnableEffect ==
  ASSUME TypeOK, Ops, kind["serve"] = "readonly", Effect("serve")
  PROVE  LET t == target["serve"] IN
         /\ pg' = pg
         /\ ro[t] \subseteq ro'[t]
         /\ step["serve"] = 1 => "registry" \in ro'[t]
         /\ step["serve"] = 2 => "sidekiq" \in ro'[t]
<1> DEFINE i == step["serve"]
<1>0. /\ target["serve"] \in Sites /\ i \in 1..3
      /\ Command("serve") = Script("readonly")[i]
  BY Scripts DEF TypeOK, Command, Procs
<1>1. i = 1 \/ i = 2 \/ i = 3
  BY <1>0
<1>2. CASE i = 1
  BY <1>0, <1>2, Scripts DEF Effect, TypeOK, Restrictions
<1>3. CASE i = 2
  BY <1>0, <1>3, Scripts DEF Effect, TypeOK, Restrictions
<1>4. CASE i = 3
  BY <1>0, <1>4, Scripts DEF Effect, TypeOK, Restrictions
<1> QED
  BY <1>1, <1>2, <1>3, <1>4

\* Nothing but serve's own orchestrations touches a secondary.
LEMMA ProgressKept ==
  ASSUME TypeOK, Progress, phase' = phase, dry'["serve"] = dry["serve"], kind'["serve"] = kind["serve"],
         target'["serve"] = target["serve"], step'["serve"] = step["serve"],
         kind["serve"] = "readonly" => target["serve"] # Primary,
         phase = "starting" => kind["serve"] = "readonly",
         \A s \in Sites \ {Primary} :
            pg'[s] = pg[s] /\ ro'[s] = ro[s] /\ services'[s] = services[s]
  PROVE  Progress'
<1>1. target["serve"] \in Sites
  BY DEF TypeOK, Procs
<1> QED
  BY <1>1, SiteNumbers DEF Progress, Held

\* How far the sites are when a script has reached a command.
LEMMA ProgressStep == TypeOK /\ Ops /\ Progress /\ [Next]_vars => Progress'
<1> SUFFICES ASSUME TypeOK, Ops, Progress, [Next]_vars, ~ dry'["serve"] PROVE Progress'
  BY DEF Progress
<1> USE FailoverAssumption, SiteNumbers
<1>4. ASSUME NEW d \in BOOLEAN, ServeStart(d) PROVE Progress'
  <2>1. CASE ReadOnlySecondary
    <3>1. /\ phase' = "starting" /\ kind'["serve"] = "readonly"
          /\ target'["serve"] = First /\ step'["serve"] = 1
      BY <1>4, <2>1 DEF ServeStart, StartOp, TypeOK, Procs
    <3>2. ~ \E s \in Sites \ {Primary} : s < First
      BY DEF Sites, Primary, First
    <3> QED
      BY <3>1, <3>2 DEF Progress
  <2>2. CASE ~ ReadOnlySecondary
    BY <1>4, <2>2 DEF ServeStart, opVars, Progress, Ops
  <2> QED
    BY <2>1, <2>2
<1> SUFFICES ASSUME ~ \E d \in BOOLEAN : ServeStart(d) PROVE Progress'
  BY <1>4
\* No other step gives serve another flag.
<1> dry'["serve"] = dry["serve"] /\ ~ dry["serve"]
  BY DEF Next, Environment, Connectivity, PrimaryService, WipeData, Signal, ServeExit,
         Gone, Check, PollOK, PollFails, RoundBad, RoundGood, CliAdopt, CliFailover,
         Step, StepOK, StepFails, StepFaulty, StepPrinted, Abort, TypeOK, Procs, vars
<1>0. /\ kind["serve"] = "readonly" => target["serve"] # Primary
      /\ phase = "starting" => kind["serve"] = "readonly"
  BY DEF Ops
<1>1. ASSUME phase' = "off", kind'["serve"] = "none" PROVE Progress'
  BY <1>1 DEF Progress
<1>2. ASSUME Gone PROVE Progress'
  BY <1>1, <1>2 DEF Gone, TypeOK, Procs
<1>3. CASE Environment
  <2>1. UNCHANGED <<phase, opVars>>
    BY <1>3 DEF Environment, Connectivity, PrimaryService, WipeData
  <2>2. \A s \in Sites \ {Primary} :
           pg'[s] = pg[s] /\ ro'[s] = ro[s] /\ services'[s] = services[s]
    BY <1>3 DEF Environment, Connectivity, PrimaryService, WipeData, TypeOK
  <2> QED
    BY <1>0, <2>1, <2>2, ProgressKept DEF opVars
<1>5. CASE Signal \/ PollOK \/ PollFails \/ RoundGood \/ UNCHANGED vars
  BY <1>0, <1>5, ProgressKept
     DEF Signal, PollOK, PollFails, RoundGood, vars, siteVars, opVars
<1>6. CASE ServeExit
  BY <1>2, <1>6 DEF ServeExit
<1>7. CASE RoundBad
  <2>1. /\ phase = "running" /\ phase' = phase /\ UNCHANGED siteVars
        /\ kind["serve"] = "none"
    BY <1>7 DEF RoundBad, EndRound, CanPoll
  <2>2. kind'["serve"] = "none" \/ step'["serve"] = 1
    BY <1>7, <2>1 DEF RoundBad, AutoPromote, StartOp, opVars, TypeOK, Procs
  <2> QED
    BY <2>1, <2>2 DEF Progress, Held, siteVars
<1>8. CASE \E d \in BOOLEAN : CliAdopt(d) \/ \E s \in Sites \ {Primary} : CliFailover(s, d)
  <2>1. /\ kind'["serve"] = kind["serve"] /\ target'["serve"] = target["serve"]
        /\ step'["serve"] = step["serve"] /\ UNCHANGED <<phase, siteVars>>
    BY <1>8 DEF CliAdopt, CliFailover, StartOp, TypeOK, Procs
  <2> QED
    BY <1>0, <2>1, ProgressKept DEF siteVars
\* Commands of the command line reach the primary only.
<1>9. ASSUME kind["cli"] # "none", ~ dry["cli"], Effect("cli"), Succeeds("cli"), Advance("cli") \/ Abort("cli")
      PROVE  Progress'
  <2>1. kind["cli"] = "adopt" /\ target["cli"] = Primary
    BY <1>9, CliRefused
  <2>2. \A s \in Sites \ {Primary} :
           pg'[s] = pg[s] /\ ro'[s] = ro[s] /\ services'[s] = services[s]
    BY <1>9, <2>1, EffectLocal DEF Procs
  <2>3. /\ kind'["serve"] = kind["serve"] /\ target'["serve"] = target["serve"]
        /\ step'["serve"] = step["serve"] /\ phase' = phase
    BY <1>9, <2>1 DEF Advance, Abort, Finish, StartOp, TypeOK, Procs
  <2> QED
    BY <1>0, <2>2, <2>3, ProgressKept
<1>10. ASSUME UNCHANGED siteVars, NEW p \in Procs, kind[p] # "none", Abort(p)
       PROVE  Progress'
  <2>1. CASE kind[p] = "readonly"
    BY <1>2, <1>10, <2>1 DEF Abort
  <2>2. CASE kind[p] # "readonly" /\ p = "cli"
    <3>1. /\ kind'["serve"] = kind["serve"] /\ target'["serve"] = target["serve"]
          /\ step'["serve"] = step["serve"] /\ phase' = phase
      BY <1>10, <2>2 DEF Abort, StartOp, TypeOK, Procs
    <3> QED
      BY <1>0, <1>10, <3>1, ProgressKept DEF siteVars
  <2>3. CASE kind[p] # "readonly" /\ p = "serve"
    <3>1. kind'["serve"] = "none" /\ phase' = phase /\ phase = "running"
      BY <1>10, <2>3 DEF Abort, StartOp, TypeOK, Procs, Ops
    <3> QED
      BY <1>10, <3>1 DEF Progress, Held, siteVars
  <2> QED
    BY <1>10, <2>1, <2>2, <2>3 DEF Procs
\* serve promotes: the first secondary changes, and stays or becomes Held.
<1>11. ASSUME kind["serve"] = "promote", Effect("serve")
       PROVE  \A s \in Sites \ {Primary} : Held(s) => Held(s)'
  <2> SUFFICES ASSUME NEW s \in Sites \ {Primary}, Held(s) PROVE Held(s)'
    OBVIOUS
  <2>1. CASE s = First
    <3>1. step["serve"] \in 1..8
      BY DEF TypeOK, Procs
    <3> QED
      BY <1>11, <2>1, <3>1, PromoteEffect DEF Held
  <2>2. CASE s # First
    BY <1>11, <2>2, EffectLocal DEF Held, Ops, Procs
  <2> QED
    BY <2>1, <2>2
<1>12. ASSUME kind["serve"] = "promote", Effect("serve"), Advance("serve") PROVE Progress'
  <2>1. step["serve"] \in 1..8 /\ phase = "running"
    BY <1>12 DEF TypeOK, Procs, Ops
  <2>2. phase' = phase
    BY <1>12 DEF Advance, Finish
  <2>3. \/ kind'["serve"] = "none"
        \/ kind'["serve"] = "promote" /\ step'["serve"] = step["serve"] + 1
    BY <1>12 DEF Advance, Finish, StartOp, TypeOK, Procs
  <2> QED
    BY <1>11, <1>12, <2>1, <2>2, <2>3, PromoteEffect DEF Progress
<1>13. ASSUME kind["serve"] = "promote", Effect("serve"), Abort("serve") PROVE Progress'
  <2>1. kind'["serve"] = "none" /\ phase' = phase /\ phase = "running"
    BY <1>13 DEF Abort, StartOp, TypeOK, Procs, Ops
  <2> QED
    BY <1>11, <1>13, <2>1 DEF Progress
<1>14. ASSUME kind["serve"] = "readonly", Effect("serve"), Advance("serve") PROVE Progress'
  <2> DEFINE i == step["serve"]
  <2>0. PICK t \in Sites : t = target["serve"]
    BY DEF TypeOK, Procs
  <2>1. /\ phase = "starting" /\ ReadOnlySecondary /\ t \in Sites \ {Primary}
        /\ i \in 1..3
    BY <1>14, <2>0, Scripts DEF TypeOK, Procs, Ops
  <2>2. \A s \in Sites \ {Primary} : s < t => Held(s)'
    BY <1>14, <2>0, <2>1, EffectLocal DEF Progress, Held, Sites, Procs
  <2>3. /\ i >= 1 => "registry" \in ro'[t]
        /\ i >= 2 => "sidekiq" \in ro'[t]
    BY <1>14, <2>0, <2>1, EnableEffect DEF Progress
  <2>4. CASE i < 3
    <3>1. /\ step'["serve"] = i + 1 /\ kind'["serve"] = "readonly"
          /\ target'["serve"] = t /\ phase' = phase
      BY <1>14, <2>0, <2>4, Scripts DEF Advance, TypeOK, Procs
    <3> QED
      BY <2>1, <2>2, <2>3, <3>1 DEF Progress
  <2>5. CASE i = 3
    <3>1. Held(t)'
      BY <2>3, <2>5 DEF Held
    <3>2. Finish("serve")
      BY <1>14, <2>5, Scripts DEF Advance
    <3>3. CASE t < NumSecondaries
      <4>1. /\ step'["serve"] = 1 /\ kind'["serve"] = "readonly"
            /\ target'["serve"] = t + 1 /\ phase' = phase
        BY <1>14, <2>0, <3>2, <3>3 DEF Finish, StartOp, TypeOK, Procs
      <4>2. \A s \in Sites \ {Primary} : s < t + 1 => Held(s)'
        BY <2>1, <2>2, <3>1 DEF Sites
      <4> QED
        BY <2>1, <4>1, <4>2 DEF Progress
    <3>4. CASE ~ (t < NumSecondaries)
      <4>1. kind'["serve"] = "none" /\ phase' = "running"
        BY <1>14, <2>0, <3>2, <3>4 DEF Finish, StartOp, TypeOK, Procs
      <4>2. \A s \in Sites \ {Primary} : Held(s)'
        BY <2>1, <2>2, <3>1, <3>4 DEF Sites
      <4> QED
        BY <4>1, <4>2 DEF Progress
    <3> QED
      BY <3>3, <3>4
  <2> QED
    BY <2>1, <2>4, <2>5
<1>15. ASSUME NEW p \in Procs, StepOK(p) PROVE Progress'
  <2>1. kind[p] # "none" /\ ~ dry[p] /\ Succeeds(p) /\ Effect(p) /\ Advance(p)
    BY <1>15 DEF StepOK
  <2>2. CASE p = "cli"
    BY <1>9, <2>1, <2>2
  <2>3. CASE p = "serve"
    BY <1>12, <1>14, <2>1, <2>3 DEF Ops
  <2> QED
    BY <2>2, <2>3 DEF Procs
<1>16. ASSUME NEW p \in Procs, StepFails(p) PROVE Progress'
  BY <1>10, <1>16 DEF StepFails
<1>17. ASSUME NEW p \in Procs, StepFaulty(p) PROVE Progress'
  <2>1. kind[p] # "none" /\ ~ dry[p] /\ Succeeds(p) /\ Abort(p)
    BY <1>17 DEF StepFaulty
  <2>2. CASE UNCHANGED siteVars
    BY <1>10, <2>1, <2>2
  <2>3. CASE Effect(p) /\ p = "cli"
    BY <1>9, <2>1, <2>3
  <2>4. CASE Effect(p) /\ p = "serve"
    <3>1. CASE kind["serve"] = "readonly"
      BY <1>2, <2>1, <2>4, <3>1 DEF Abort
    <3> QED
      BY <1>13, <2>1, <2>4, <3>1 DEF Ops
  <2> QED
    BY <1>17, <2>2, <2>3, <2>4 DEF StepFaulty, Procs
<1>18. ASSUME NEW p \in Procs, StepPrinted(p) PROVE Progress'
  <2>1. p = "cli" /\ kind[p] # "none" /\ kind[p] # "readonly" /\ Advance(p) /\ UNCHANGED siteVars
    BY <1>18 DEF StepPrinted, Ops, Procs
  <2>2. /\ kind'["serve"] = kind["serve"] /\ target'["serve"] = target["serve"]
        /\ step'["serve"] = step["serve"] /\ phase' = phase
    BY <2>1 DEF Advance, Finish, StartOp, TypeOK, Procs
  <2> QED
    BY <1>0, <2>1, <2>2, ProgressKept DEF siteVars
<1> QED
  BY <1>3, <1>5, <1>6, <1>7, <1>8, <1>15, <1>16, <1>17, <1>18 DEF Next, Check, Step

-----------------------------------------------------------------------------
\* Everything starts in order: no verdict, no orchestration.
LEMMA InitIInv == Init => IInv
<1> SUFFICES ASSUME Init PROVE IInv
  OBVIOUS
<1> USE FailoverAssumption, SiteNumbers
<1>1. TypeOK
  <2>1. SiteType
    BY DEF Init, SiteType
  <2>2. OpType
    BY DEF Init, OpType
  <2>3. /\ polls \in 0..NumURLs /\ fails \in 0..polls /\ genuine \in 0..fails
        /\ consecutiveFails \in 0..3 /\ history \in [1..3 -> {"good", "bad", "spoilt"}]
        /\ primaryDown \in [Procs -> BOOLEAN] /\ dry \in [Procs -> BOOLEAN]
    BY DEF Init
  <2>4. stopping \in BOOLEAN /\ phase \in {"off", "starting", "running"}
    BY Zenon DEF Init
  <2>5. faults \in 0..MaxFaults /\ starts \in 0..MaxStarts /\ promoted \subseteq Sites
    <3>1. faults = 0 /\ starts = 0 /\ promoted = {}
      BY DEF Init
    <3> QED
      BY <3>1
  <2> QED
    BY <2>1, <2>2, <2>3, <2>4, <2>5 DEF TypeOK, SiteType, OpType
<1>2. Window /\ Ops
  BY DEF Init, Window, Ops, Procs
<1>3. Progress
  BY DEF Init, Progress, Procs
<1> QED
  BY <1>1, <1>2, <1>3 DEF IInv

\* IInv is inductive.
THEOREM Inductive == Spec => []IInv
<1>1. IInv /\ [Next]_vars => IInv'
  BY TypeStep, WindowStep, OpsStep, ProgressStep DEF IInv
<1> QED
  BY InitIInv, <1>1, PTL DEF Spec

\* Every variable of the failover model keeps its type.
THEOREM TypeCorrect == Spec => []TypeOK
  BY Inductive, PTL DEF IInv

\* The primary is never declared down on fewer than three bad rounds in a row.
THEOREM VerdictEarned == Spec => []DeclaredDownIsEarned
<1>1. IInv => DeclaredDownIsEarned
  BY DEF IInv, Window, DeclaredDownIsEarned
<1> QED
  BY <1>1, Inductive, PTL

\* A secondary that still follows the primary stays read-only under serve.
THEOREM StandbysReadOnly == Spec => []StandbysStayReadOnly
<1>1. IInv => StandbysStayReadOnly
  BY DEF IInv, Progress, Held, StandbysStayReadOnly
<1> QED
  BY <1>1, Inductive, PTL

\* The only command that turns a standby into a primary is serve's, after
\* verifyPrimaryDown, and its SSH session needs a context that is alive.
LEMMA PromotingCommand ==
  ASSUME IInv, NEW p \in Procs, kind[p] # "none", ~ dry[p], Succeeds(p), Effect(p),
         NEW s \in Sites, pg[s] = "standby", pg'[s] = "primary"
  PROVE  p = "serve" /\ kind[p] = "promote" /\ s = First /\ ~ stopping
<1> USE DEF IInv
<1>1. Command(p) = "promote" /\ s = target[p]
  BY DEF Effect, TypeOK
<1>2. kind[p] = "promote"
  <2>1. CASE kind[p] = "adopt"
    <3>1. step[p] \in 1..6
      BY <2>1, Scripts DEF TypeOK
    <3>2. step[p] = 1 \/ step[p] = 2 \/ step[p] = 3 \/ step[p] = 4
          \/ step[p] = 5 \/ step[p] = 6
      BY <3>1
    <3> QED
      BY <1>1, <2>1, <3>2, Scripts DEF Command
  <2>2. CASE kind[p] = "readonly"
    <3>1. step[p] = 1 \/ step[p] = 2 \/ step[p] = 3
      BY <2>2, Scripts DEF TypeOK
    <3> QED
      BY <1>1, <2>2, <3>1, Scripts DEF Command
  <2> QED
    BY <2>1, <2>2 DEF TypeOK, Kinds
<1>3. p = "serve"
  BY <1>2, CliRefused DEF Procs
<1> QED
  BY <1>1, <1>2, <1>3 DEF Succeeds, Ops

\* PostgreSQL is promoted only by automatic failover, on the first secondary,
\* after three rounds of health checks that failed for a reason other than the
\* shutdown of serve.
THEOREM PromotionIsJustified == Spec => PromotionJustified
<1> DEFINE A == \A s \in Sites : pg[s] = "standby" /\ pg'[s] = "primary" =>
                  /\ s = First
                  /\ FailoverEnabled /\ AutoFailover /\ ~ dry["serve"]
                  /\ \A i \in 1..3 : history[i] = "bad"
<1>1. ASSUME IInv, [Next]_vars PROVE [A]_vars
  <2> SUFFICES ASSUME NEW s \in Sites, pg[s] = "standby", pg'[s] = "primary"
               PROVE  /\ s = First
                      /\ FailoverEnabled /\ AutoFailover /\ ~ dry["serve"]
                      /\ \A i \in 1..3 : history[i] = "bad"
    OBVIOUS
  <2>1. pg' # pg
    OBVIOUS
  <2>2. ~ WipeData
    BY <1>1, SiteNumbers DEF WipeData, IInv, TypeOK
  <2>3. PICK p \in Procs : StepOK(p) \/ StepFaulty(p)
    <3>1. ~ (Signal \/ ServeExit \/ Check)
          /\ ~ \E d \in BOOLEAN : ServeStart(d) \/ CliAdopt(d)
      BY <2>1 DEF ServeStart, Signal, ServeExit, Check, PollOK, PollFails,
           RoundBad, RoundGood, CliAdopt, siteVars
    <3>2. ~ (\E t \in Sites \ {Primary}, d \in BOOLEAN : CliFailover(t, d)) /\ ~ Environment
      BY <2>1, <2>2 DEF CliFailover, Environment, Connectivity, PrimaryService, siteVars
    <3>3. ~ (\E q \in Procs : StepFails(q) \/ StepPrinted(q)) /\ vars' # vars
      BY <2>1 DEF StepFails, StepPrinted, siteVars, vars
    <3> QED
      BY <1>1, <3>1, <3>2, <3>3 DEF Next, Step
  <2>4. kind[p] # "none" /\ ~ dry[p] /\ Succeeds(p) /\ Effect(p)
    BY <2>1, <2>3 DEF StepOK, StepFaulty, siteVars
  <2>5. p = "serve" /\ kind[p] = "promote" /\ s = First /\ ~ stopping
    BY <1>1, <2>4, PromotingCommand
  <2> QED
    BY <1>1, <2>4, <2>5 DEF IInv, Ops, Window
<1> QED
  BY <1>1, Inductive, PTL DEF Spec, PromotionJustified

\* A promotion reported complete has left a serving, writable site behind.
THEOREM PromotionComplete == Spec => CompletedPromotion
<1> DEFINE A == \A s \in promoted' \ promoted :
                  /\ services'[s]
                  /\ pg'[s] = "primary"
                  /\ {"registry", "sidekiq"} \cap ro'[s] = {}
<1>1. ASSUME IInv, [Next]_vars PROVE [A]_vars
  <2> SUFFICES ASSUME NEW s \in promoted' \ promoted
               PROVE  /\ services'[s]
                      /\ pg'[s] = "primary"
                      /\ {"registry", "sidekiq"} \cap ro'[s] = {}
    OBVIOUS
  <2>1. promoted' # promoted
    OBVIOUS
  <2>2. PICK p \in Procs : StepOK(p)
    <3>1. ~ (Signal \/ ServeExit \/ Check)
          /\ ~ \E d \in BOOLEAN : ServeStart(d) \/ CliAdopt(d)
      BY <2>1 DEF ServeStart, Signal, ServeExit, Gone, Check, PollOK, PollFails,
           RoundBad, RoundGood, CliAdopt
    <3>2. ~ (\E t \in Sites \ {Primary}, d \in BOOLEAN : CliFailover(t, d)) /\ ~ Environment
      BY <2>1 DEF CliFailover, Environment, Connectivity, PrimaryService, WipeData
    <3>3. ~ (\E q \in Procs : StepFails(q) \/ StepFaulty(q) \/ StepPrinted(q))
          /\ vars' # vars
      BY <2>1 DEF StepFails, StepFaulty, StepPrinted, Abort, Gone, vars
    <3> QED
      BY <1>1, <3>1, <3>2, <3>3 DEF Next, Step
  <2>3. kind[p] = "promote" /\ step[p] = 8 /\ s = target[p]
    BY <2>2, Scripts DEF StepOK, Report
  <2>4. kind[p] # "none" /\ ~ dry[p] /\ Succeeds(p) /\ Effect(p)
    BY <2>2 DEF StepOK
  <2>5. p = "serve"
    BY <1>1, <2>3, <2>4, CliRefused DEF IInv, Procs
  <2>6. s = First
    BY <1>1, <2>3, <2>5 DEF IInv, Ops
  <2> QED
    BY <1>1, <2>3, <2>4, <2>5, <2>6, PromoteEffect DEF IInv
<1> QED
  BY <1>1, Inductive, PTL DEF Spec, CompletedPromotion

-----------------------------------------------------------------------------
\* How far the old primary is when adopt-as-secondary has reached a command.
Swapping ==
  kind["cli"] = "adopt" /\ ~ dry["cli"] =>
    /\ step["cli"] >= 3 => pg[Primary] = "standby"
    /\ step["cli"] >= 4 => "registry" \in ro[Primary]
    /\ step["cli"] >= 5 => "sidekiq" \in ro[Primary]

\* What each command of a role swap does to the old primary.
LEMMA AdoptEffect ==
  ASSUME TypeOK, Ops, Swapping, ~ dry["cli"], kind["cli"] = "adopt", Effect("cli")
  PROVE  /\ step["cli"] >= 2 => pg'[Primary] = "standby"
         /\ step["cli"] >= 3 => "registry" \in ro'[Primary]
         /\ step["cli"] >= 4 => "sidekiq" \in ro'[Primary]
         /\ step["cli"] = 6 => services'[Primary]
<1> DEFINE i == step["cli"]
<1>0. /\ target["cli"] = Primary /\ Primary \in Sites /\ i \in 1..6
      /\ Command("cli") = Script("adopt")[i]
  BY SiteNumbers, Scripts DEF Ops, TypeOK, Command, Procs
<1>1. i = 1 \/ i = 2 \/ i = 3 \/ i = 4 \/ i = 5 \/ i = 6
  BY <1>0
<1>2. CASE i = 1
  BY <1>0, <1>2
<1>3. CASE i = 2
  BY <1>0, <1>3, Scripts DEF Effect, TypeOK, Restrictions
<1>4. CASE i = 3
  BY <1>0, <1>4, Scripts DEF Effect, TypeOK, Restrictions, Swapping
<1>5. CASE i = 4
  BY <1>0, <1>5, Scripts DEF Effect, TypeOK, Restrictions, Swapping
<1>6. CASE i = 5
  BY <1>0, <1>6, Scripts DEF Effect, TypeOK, Restrictions, Swapping
<1>7. CASE i = 6
  BY <1>0, <1>7, Scripts DEF Effect, TypeOK, Restrictions, Swapping
<1> QED
  BY <1>1, <1>2, <1>3, <1>4, <1>5, <1>6, <1>7

\* The controller of serve commands other sites, and no one wipes the old
\* primary during a role swap.
LEMMA SwappingStep == TypeOK /\ Ops /\ Swapping /\ [Next]_vars => Swapping'
<1> SUFFICES ASSUME TypeOK, Ops, Swapping, [Next]_vars PROVE Swapping'
  OBVIOUS
<1>1. ASSUME kind'["cli"] = kind["cli"], step'["cli"] = step["cli"], dry'["cli"] = dry["cli"],
             pg'[Primary] = pg[Primary], ro'[Primary] = ro[Primary]
      PROVE  Swapping'
  BY <1>1 DEF Swapping
<1>2. ASSUME kind'["cli"] # "adopt" PROVE Swapping'
  BY <1>2 DEF Swapping
<1>3. CASE Environment \/ UNCHANGED vars
  BY <1>1, <1>2, <1>3
     DEF Environment, Connectivity, PrimaryService, WipeData, vars, siteVars, opVars
<1>4. CASE (\E d \in BOOLEAN : ServeStart(d)) \/ Signal \/ ServeExit \/ Check
  <2>1. /\ kind'["cli"] = kind["cli"] /\ step'["cli"] = step["cli"] /\ dry'["cli"] = dry["cli"]
        /\ UNCHANGED siteVars
    BY <1>4 DEF ServeStart, Signal, ServeExit, Gone, Check, PollOK, PollFails, RoundBad,
       RoundGood, AutoPromote, StartOp, opVars, TypeOK, Procs
  <2> QED
    BY <1>1, <2>1 DEF siteVars
<1>5. ASSUME NEW s \in Sites \ {Primary}, NEW d \in BOOLEAN, CliFailover(s, d) PROVE Swapping'
  BY <1>2, <1>5 DEF CliFailover, StartOp, TypeOK, Procs
<1>6. ASSUME NEW d \in BOOLEAN, CliAdopt(d) PROVE Swapping'
  <2>1. step'["cli"] = 1
    BY <1>6 DEF CliAdopt, StartOp, TypeOK, Procs
  <2> QED
    BY <2>1 DEF Swapping
<1>7. CASE Step("serve")
  <2>1. /\ kind'["cli"] = kind["cli"] /\ step'["cli"] = step["cli"] /\ dry'["cli"] = dry["cli"]
    BY <1>7 DEF Step, StepOK, StepFails, StepFaulty, StepPrinted, Advance, Abort, Gone, Finish,
       StartOp, TypeOK, Procs
  <2>2. Effect("serve") \/ UNCHANGED siteVars
    BY <1>7 DEF Step, StepOK, StepFails, StepFaulty, StepPrinted
  <2>3. kind["serve"] # "none" => target["serve"] # Primary
    BY SiteNumbers DEF Ops
  <2>4. pg'[Primary] = pg[Primary] /\ ro'[Primary] = ro[Primary]
    <3>1. CASE UNCHANGED siteVars
      BY <3>1 DEF siteVars
    <3>2. CASE Effect("serve")
      <4>1. target["serve"] # Primary
        BY <1>7, <2>3 DEF Step, StepOK, StepFails, StepFaulty, StepPrinted
      <4> QED
        BY <3>2, <4>1, EffectLocal, SiteNumbers DEF Procs
    <3> QED
      BY <2>2, <3>1, <3>2
  <2> QED
    BY <1>1, <2>1, <2>4
<1>8. CASE StepOK("cli")
  <2>1. CASE kind["cli"] = "adopt"
    <3>1. /\ ~ dry["cli"] /\ Effect("cli") /\ step["cli"] \in 1..6
          /\ \/ kind'["cli"] = "none"
             \/ step'["cli"] = step["cli"] + 1
      BY <1>8, <2>1, Scripts DEF StepOK, Advance, Finish, StartOp, TypeOK, Procs
    <3> QED
      BY <2>1, <3>1, AdoptEffect DEF Swapping
  <2>2. CASE kind["cli"] # "adopt"
    <3>1. kind'["cli"] # "adopt"
      BY <1>8, <2>2 DEF StepOK, Advance, Finish, StartOp, TypeOK, Procs
    <3> QED
      BY <1>2, <3>1
  <2> QED
    BY <2>1, <2>2
<1>9. CASE StepFails("cli") \/ StepFaulty("cli")
  <2>1. kind'["cli"] = "none"
    BY <1>9 DEF StepFails, StepFaulty, Abort, StartOp, Ops, TypeOK, Procs
  <2> QED
    BY <1>2, <2>1
<1>10. CASE StepPrinted("cli")
  BY <1>10 DEF StepPrinted, Swapping
<1> QED
  BY <1>3, <1>4, <1>5, <1>6, <1>7, <1>8, <1>9, <1>10 DEF Next, Step, Procs

\* A role swap that reaches its end without an error has left the old primary
\* serving as a standby with registry and Sidekiq restricted, whatever the
\* controller of serve did to the other sites meanwhile.
THEOREM SwapComplete == Spec => CompletedSwap
<1> DEFINE A == (/\ kind["cli"] = "adopt" /\ step["cli"] = Length("adopt") /\ ~ dry["cli"]
                 /\ kind'["cli"] = "none"
                 /\ Succeeds("cli") /\ faults' = faults) =>
                /\ services'[Primary]
                /\ pg'[Primary] = "standby"
                /\ {"registry", "sidekiq"} \subseteq ro'[Primary]
<1>1. Init => Swapping
  BY DEF Init, Swapping, Procs
<1>2. ASSUME IInv, Swapping, [Next]_vars PROVE [A]_vars
  <2> SUFFICES ASSUME kind["cli"] = "adopt", step["cli"] = Length("adopt"), ~ dry["cli"],
                      kind'["cli"] = "none", Succeeds("cli"), faults' = faults
               PROVE  /\ services'[Primary]
                      /\ pg'[Primary] = "standby"
                      /\ {"registry", "sidekiq"} \subseteq ro'[Primary]
    OBVIOUS
  <2> USE <1>2 DEF IInv
  <2>1. ~ (Environment \/ UNCHANGED vars)
    BY DEF Environment, Connectivity, PrimaryService, WipeData, vars, opVars
  <2>2. ~ ((\E d \in BOOLEAN : ServeStart(d)) \/ Signal \/ ServeExit \/ Check)
    BY DEF ServeStart, Signal, ServeExit, Gone, Check, PollOK, PollFails, RoundBad,
       RoundGood, AutoPromote, StartOp, opVars, TypeOK, Procs
  <2>3. ~ \E d \in BOOLEAN : CliAdopt(d) \/ \E s \in Sites \ {Primary} : CliFailover(s, d)
    BY DEF CliAdopt, CliFailover
  <2>4. ~ Step("serve")
    BY DEF Step, StepOK, StepFails, StepFaulty, StepPrinted, Advance, Abort, Gone, Finish,
       StartOp, TypeOK, Procs
  <2>5. ~ (StepFails("cli") \/ StepPrinted("cli"))
    BY DEF StepFails, StepPrinted
  <2>6. ~ StepFaulty("cli")
    <3>1. faults \in Nat
      BY FailoverAssumption DEF TypeOK
    <3> QED
      BY <3>1 DEF StepFaulty
  <2>7. StepOK("cli")
    BY <2>1, <2>2, <2>3, <2>4, <2>5, <2>6 DEF Next, Step, Procs
  <2>8. Effect("cli") /\ step["cli"] = 6
    BY <2>7, Scripts DEF StepOK
  <2> QED
    BY <2>8, AdoptEffect
<1>3. Spec => []Swapping
  <2>1. IInv /\ Swapping /\ [Next]_vars => Swapping'
    BY SwappingStep DEF IInv
  <2> QED
    BY <1>1, <2>1, Inductive, PTL DEF Spec
<1> QED
  BY <1>2, <1>3, Inductive, PTL DEF Spec, CompletedSwap
=============================================================================
