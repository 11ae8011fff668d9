----------------------------- MODULE SweepProofs -----------------------------
(***************************************************************************)
(* Proofs about the runner and the two mirroring reconcilers, for every    *)
(* configuration, every set of trees and items, and every schedule.        *)
(*                                                                         *)
(* IInv adds to the types: where the loops stand (Position), that a sweep  *)
(* has called the reconcilers it has passed and no other, and is cut short *)
(* by the cancellation alone (Passed), how many calls can still begin      *)
(* after it (Late), what the trees have to do with the rsync that runs     *)
(* (Window) and what the paths that are over hold (Copied).                *)
(***************************************************************************)
EXTENDS Sweep, SequenceTheorems, TLAPS

InBody == pc \in {"pair", "start", "rsync"}
CallTrees == IF InBody THEN RangeOf(Targets(Rec)) ELSE {}

Position ==
  /\ pc = "call" \/ InBody => cur \in Steps
  /\ InBody => Rec \in Mirrors
  /\ InBody /\ Rec = "git_rsync" => pc # "pair" /\ pair = 1
  /\ InBody /\ Rec = "fs_storage" =>
       failed < pair /\ (pc # "pair" => pair \in DOMAIN PathPairs)

Passed ==
  /\ \A j \in Steps : ran[j] = IF j < cur \/ (j = cur /\ InBody) THEN 1 ELSE 0
  /\ pc = "select" => serve /\ (cur > Len(Plan) \/ cancelled)
  /\ pc = "stopped" /\ ~ serve => cur > Len(Plan)

Late ==
  /\ late # 0 => cancelled
  /\ serve => late <= 1 /\ (pc = "call" => late = 0)
  /\ ~ serve => late <= IF InBody THEN cur ELSE cur - 1

\* Both sides of tree t agree with what the running call has promised.
Mirrored(t) == steady[t] \subseteq dst[t] /\ dst[t] \subseteq seen[t]

Window ==
  /\ \A t \in NoSrc : src[t] = {} /\ dst[t] \subseteq local[t]
  /\ \A t \in CallTrees :
       steady[t] \subseteq src[t] /\ src[t] \cup local[t] \subseteq seen[t]
  /\ pc = "rsync" => steady[Tree] \subseteq must /\ must \subseteq may /\ may \subseteq seen[Tree]

Copied ==
  InBody /\ Rec = "fs_storage" /\ failed = 0 /\ ~ dryRun =>
    \A k \in DOMAIN PathPairs :
      k < pair /\ PathPairs[k] \notin forgiven => Mirrored(PathPairs[k])

IInv == TypeOK /\ Position /\ Passed /\ Late /\ Window /\ Copied

-----------------------------------------------------------------------------
\* What buildReconcilers makes of any configuration: there is something to run,
\* and every reconciler that mirrors has a list of trees.
LEMMA Configuration ==
  /\ Len(Plan) \in Nat /\ Len(Plan) >= 1 /\ Steps = 1..Len(Plan)
  /\ Len(PathPairs) \in Nat /\ DOMAIN PathPairs = 1..Len(PathPairs)
  /\ Targets("git_rsync") = <<"repos">> /\ Targets("fs_storage") = PathPairs
  /\ \A j \in Steps : RangeOf(Targets(Plan[j])) \subseteq Trees
<1> DEFINE Names == STRING \cup {"postgres", "git_rsync", "git_fetch", "object_storage",
                                "fs_storage", "registry", "consistency_sweep",
                                "api_validator", "registry_path"}
<1>1. \A S : \A x \in S : <<x>> \in Seq(S) /\ Len(<<x>>) = 1
  OBVIOUS
<1>2. \A x \in Names : <<x>> \in Seq(Names) /\ Len(<<x>>) = 1
  BY <1>1
<1>3. <<>> \in Seq(Names)
  BY EmptySeq
<1>4. \A s, t \in Seq(Names) : s \o t \in Seq(Names) /\ Len(s \o t) = Len(s) + Len(t)
  OBVIOUS
<1>5. \A s \in Seq(Names) : Len(s) \in Nat /\ DOMAIN s = 1..Len(s)
  OBVIOUS
<1>6. Plan \in Seq(Names) /\ Len(Plan) >= 1
  <2> DEFINE git == IF GitMode = "rsync" THEN <<"git_rsync">> ELSE <<"git_fetch">>
             storage == CASE Backend = "s3" -> <<"object_storage">>
                          [] Backend = "fs" -> <<"fs_storage">>
                          [] OTHER -> <<>>
             registry == IF HasRegistry THEN <<"registry">> ELSE <<>>
             api == IF ApiEnabled THEN <<"api_validator">> ELSE <<>>
             first == <<"postgres">>
             sweep == <<"consistency_sweep">>
  <2>1. /\ git \in Seq(Names) /\ first \in Seq(Names) /\ sweep \in Seq(Names)
        /\ Len(first) = 1
    BY <1>2
  <2>2. storage \in Seq(Names)
    BY <1>2, <1>3
  <2>3. registry \in Seq(Names) /\ api \in Seq(Names)
    BY <1>2, <1>3
  <2>4. Plan = first \o git \o storage \o registry \o sweep \o api
    BY Zenon DEF Plan
  <2> HIDE DEF git, storage, registry, api, first, sweep, Names
  <2>5. first \o git \in Seq(Names) /\ Len(first \o git) >= 1
    <3>1. Len(first \o git) = 1 + Len(git) /\ Len(git) \in Nat
      BY <1>4, <1>5, <2>1
    <3>2. first \o git \in Seq(Names)
      BY <1>4, <2>1
    <3> QED
      BY <3>1, <3>2
  <2>6. first \o git \o storage \in Seq(Names) /\ Len(first \o git \o storage) >= 1
    BY <1>4, <1>5, <2>2, <2>5
  <2>7. /\ first \o git \o storage \o registry \in Seq(Names)
        /\ Len(first \o git \o storage \o registry) >= 1
    BY <1>4, <1>5, <2>3, <2>6
  <2>8. /\ first \o git \o storage \o registry \o sweep \in Seq(Names)
        /\ Len(first \o git \o storage \o registry \o sweep) >= 1
    BY <1>4, <1>5, <2>1, <2>7
  <2> QED
    BY <1>4, <1>5, <2>3, <2>4, <2>8
<1>7. PathPairs \in Seq(Names)
  <2>1. FSPaths \in Seq(Names)
    BY SweepAssumption, SeqMonotonic
  <2>2. (IF HasRegistry /\ RegistryFS THEN <<"registry_path">> ELSE <<>>) \in Seq(Names)
    BY <1>2, <1>3
  <2> QED
    BY <1>4, <2>1, <2>2 DEF PathPairs
<1>8. \A j \in Steps : RangeOf(Targets(Plan[j])) \subseteq Trees
  BY DEF Trees
<1> QED
  BY <1>5, <1>6, <1>7, <1>8 DEF Steps, Targets

\* The running rsync is at one of the trees of the call, which are trees.
LEMMA TreeIs ==
  ASSUME TypeOK, Position
  PROVE  /\ CallTrees \subseteq Trees
         /\ pc \in {"start", "rsync"} => Tree \in CallTrees
         /\ InBody /\ Rec = "git_rsync" => Tree = "repos" /\ CallTrees = {"repos"}
         /\ InBody /\ Rec = "fs_storage" => CallTrees = RangeOf(PathPairs) /\ Tree = PathPairs[pair]
<1>1. CallTrees \subseteq Trees
  BY Configuration DEF CallTrees, Position, InBody, Rec
<1>2. ASSUME InBody, Rec = "git_rsync" PROVE Tree = "repos" /\ CallTrees = {"repos"}
  BY <1>2, Configuration DEF Tree, CallTrees, Position, RangeOf
<1>3. ASSUME InBody, Rec = "fs_storage"
      PROVE  CallTrees = RangeOf(PathPairs) /\ Tree = PathPairs[pair]
  BY <1>3, Configuration DEF Tree, CallTrees
<1>4. ASSUME pc \in {"start", "rsync"} PROVE Tree \in CallTrees
  <2>1. InBody /\ (Rec = "git_rsync" \/ Rec = "fs_storage")
    BY <1>4 DEF Position, InBody, Mirrors
  <2> QED
    BY <1>2, <1>3, <1>4, <2>1 DEF RangeOf, Position
<1> QED
  BY <1>1, <1>2, <1>3, <1>4

\* Two groups of steps that leave the trees and the loops alone.
Signals == Promote \/ Tick \/ Cancel
Checks == SweepStart \/ Stop \/ LoopCheck

\* The users of both sites change trees only.
Users(t, x) == Write(t, x) \/ Remove(t, x) \/ LocalWrite(t, x)

LEMMA UsersKeep ==
  ASSUME NEW t, NEW x, Users(t, x)
  PROVE  UNCHANGED <<serve, dryRun, pc, cur, pair, failed, ran, late, report, tick, cancelled,
                     promoted, forgiven>>
  BY DEF Users, Write, Remove, LocalWrite, cmdVars, loopVars, logVars

\* The trees of the model are mappings to sets of items.
Mapped(f) == f \in [Trees -> SUBSET Items]

\* TypeOK tree by tree.
Typed ==
  /\ serve \in BOOLEAN /\ dryRun \in BOOLEAN
  /\ pc \in {"loop", "call", "pair", "start", "rsync", "select", "stopped"}
  /\ cur \in 1..(Len(Plan) + 1)
  /\ pair \in 1..(Len(PathPairs) + 1)
  /\ failed \in 0..Len(PathPairs)
  /\ tick \in BOOLEAN /\ cancelled \in BOOLEAN
  /\ ran \in [Steps -> 0..1]
  /\ late \in 0..Len(Plan)
  /\ report \in BOOLEAN
  /\ Mapped(src) /\ Mapped(dst) /\ Mapped(steady) /\ Mapped(seen) /\ Mapped(local)
  /\ must \subseteq Items /\ may \subseteq Items
  /\ forgiven \subseteq Trees
  /\ promoted \in BOOLEAN

LEMMA TypedIs == TypeOK <=> Typed
  BY DEF TypeOK, Typed, Mapped

LEMMA Mappings ==
  /\ Mapped(Empty)
  /\ \A f : Mapped(f) => \A t \in Trees, T \in SUBSET Items : Mapped([f EXCEPT ![t] = T])
  /\ \A f : Mapped(f) => \A t \in Trees : f[t] \in SUBSET Items
  BY DEF Mapped, Empty

\* A rsync that is over returns from git_rsync or goes on with the next path of
\* fs_storage; at most its own tree has changed.
RsyncStep == RsyncOK \/ RsyncNotStarted \/ \E worded \in BOOLEAN : RsyncFails(worded)

LEMMA RsyncOver ==
  ASSUME TypeOK, Position, RsyncStep
  PROVE  /\ pc \in {"start", "rsync"} /\ cur \in Steps
         /\ UNCHANGED <<cmdVars, tick, cancelled, ran, late, src, promoted, local>>
         /\ \E good \in BOOLEAN, F \in SUBSET Trees : RsyncEnds(good, F)
         /\ \E T \in SUBSET Items : dst' = dst \/ dst' = [dst EXCEPT ![Tree] = T]
         /\ must' \subseteq Items /\ may' \subseteq Items
<1>1. Tree \in Trees
  BY TreeIs DEF RsyncStep, RsyncOK, RsyncFails, RsyncNotStarted
<1>2. dst[Tree] \subseteq Items /\ may \subseteq Items /\ forgiven \subseteq Trees
  BY <1>1, TypedIs, Mappings DEF Typed
<1>3. CASE RsyncOK
  BY <1>2, <1>3 DEF RsyncOK, Copy, Position, InBody
<1>4. ASSUME NEW worded \in BOOLEAN, RsyncFails(worded)
      PROVE  /\ pc \in {"start", "rsync"} /\ cur \in Steps
             /\ UNCHANGED <<cmdVars, tick, cancelled, ran, late, src, promoted, local>>
             /\ \E good \in BOOLEAN, F \in SUBSET Trees : RsyncEnds(good, F)
             /\ \E T \in SUBSET Items : dst' = dst \/ dst' = [dst EXCEPT ![Tree] = T]
             /\ must' \subseteq Items /\ may' \subseteq Items
  <2> DEFINE drop == worded /\ Rec = "fs_storage"
             F == IF drop THEN forgiven \cup {Tree} ELSE forgiven
  <2>1. drop \in BOOLEAN /\ F \in SUBSET Trees /\ RsyncEnds(drop, F)
    BY <1>1, <1>2, <1>4 DEF RsyncFails
  <2>2. \E T \in SUBSET Items : dst' = dst \/ dst' = [dst EXCEPT ![Tree] = T]
    BY <1>2, <1>4 DEF RsyncFails, Copy, treeVars
  <2>3. UNCHANGED <<src, promoted, local>>
    BY <1>4 DEF RsyncFails, Copy, treeVars
  <2> HIDE DEF drop, F
  <2> QED
    BY <1>4, <2>1, <2>2, <2>3 DEF RsyncFails, Position, InBody
<1>5. CASE RsyncNotStarted
  BY <1>2, <1>5 DEF RsyncNotStarted, treeVars, rsyncVars, Position, InBody, TypeOK
<1> QED
  BY <1>3, <1>4, <1>5 DEF RsyncStep

\* Typing is preserved: no sweep runs past the plan, no call past its paths, and
\* fs_storage counts a path at most once as failed.
LEMMA TypeStep == TypeOK /\ Position /\ Late /\ Passed /\ [Next]_vars => TypeOK'
<1> SUFFICES ASSUME TypeOK, Position, Late, Passed, [Next]_vars PROVE Typed'
  BY DEF TypeOK, Typed, Mapped
<1> USE Configuration DEF Typed
<1>0. Typed
  BY TypedIs
<1>1. ASSUME NEW t \in Trees, NEW x \in Items, Users(t, x) PROVE Typed'
  <2>1. /\ Mapped(src') /\ Mapped(dst') /\ Mapped(steady') /\ Mapped(seen') /\ Mapped(local')
        /\ must' \subseteq Items /\ may' \subseteq Items
    <3>1. CASE Write(t, x)
      BY <1>0, <1>1, <3>1, Mappings DEF Write, Appears
    <3>2. CASE Remove(t, x)
      BY <1>0, <1>1, <3>2, Mappings DEF Remove
    <3>3. CASE LocalWrite(t, x)
      BY <1>0, <1>1, <3>3, Mappings DEF LocalWrite, Appears
    <3> QED
      BY <1>0, <1>1, <3>1, <3>2, <3>3 DEF Users
  <2> QED
    BY <1>0, <1>1, <2>1, UsersKeep
<1>2. CASE Signals
  BY <1>0, <1>2 DEF Signals, Promote, Tick, Cancel, cmdVars, loopVars, logVars, dataVars, treeVars,
              callVars, rsyncVars
<1>3. CASE Checks
  <2>1. CASE SweepStart
    <3>1. ran' \in [Steps -> 0..1] /\ 1 \in 1..(Len(Plan) + 1)
      BY <2>1 DEF SweepStart
    <3> QED
      BY <1>0, <2>1, <3>1 DEF SweepStart, cmdVars, dataVars, treeVars, callVars, rsyncVars
  <2>2. CASE Stop \/ LoopCheck
    <3>1. pc' \in {"stopped", "select", "call"}
      BY <2>2 DEF Stop, LoopCheck, SweepEnds
    <3>2. UNCHANGED <<cmdVars, cur, pair, failed, tick, cancelled, logVars, dataVars>>
      BY <2>2 DEF Stop, LoopCheck
    <3> QED
      BY <1>0, <3>1, <3>2 DEF cmdVars, logVars, dataVars, treeVars, callVars, rsyncVars
  <2> QED
    BY <1>3, <2>1, <2>2 DEF Checks
<1>4. ASSUME NEW ok \in BOOLEAN, Observe(ok) PROVE Typed'
  <2>1. cur \in Steps /\ ran[cur] = 0 /\ cur + 1 \in 1..(Len(Plan) + 1)
    BY <1>0, <1>4 DEF Observe, Position, Passed, InBody
  <2>2. ran' \in [Steps -> 0..1] /\ late' \in 0..Len(Plan)
    BY <1>0, <1>4, <2>1 DEF Observe, Called, Late, InBody
  <2> QED
    BY <1>0, <1>4, <2>1, <2>2, Mappings DEF Observe, Returns, cmdVars, treeVars, rsyncVars
<1>5. CASE CallMirror
  <2>1. cur \in Steps /\ ran[cur] = 0
    BY <1>0, <1>5 DEF CallMirror, Position, Passed, InBody
  <2>2. ran' \in [Steps -> 0..1] /\ late' \in 0..Len(Plan)
    BY <1>0, <1>5, <2>1 DEF CallMirror, Called, Late, InBody
  <2>3. Mapped(steady') /\ Mapped(seen')
    BY <1>0, <1>5 DEF CallMirror, Mapped
  <2> QED
    BY <1>0, <1>5, <2>1, <2>2, <2>3 DEF CallMirror, cmdVars, treeVars, rsyncVars
<1>6. CASE NextPair
  BY <1>0, <1>6 DEF NextPair, cmdVars, logVars, dataVars, treeVars, callVars, rsyncVars
<1>7. CASE PairsCancelled \/ PairsDone
  <2>1. cur + 1 \in 1..(Len(Plan) + 1)
    <3>1. cur \in Steps
      BY <1>7 DEF PairsCancelled, PairsDone, Position, InBody
    <3> QED
      BY <3>1
  <2> QED
    BY <1>0, <1>7, <2>1, Mappings
       DEF PairsCancelled, PairsDone, Returns, cmdVars, treeVars, rsyncVars
<1>8. CASE RsyncStart
  <2>1. src[Tree] \subseteq Items
    BY <1>0, <1>8, TreeIs, Mappings DEF RsyncStart
  <2> QED
    BY <1>0, <1>8, <2>1 DEF RsyncStart, cmdVars, logVars, treeVars, callVars
<1>9. CASE RsyncStep
  <2>1. /\ pc \in {"start", "rsync"} /\ cur \in Steps /\ Tree \in Trees
        /\ UNCHANGED <<cmdVars, tick, cancelled, ran, late, src, promoted, local>>
        /\ must' \subseteq Items /\ may' \subseteq Items
    BY <1>0, <1>9, RsyncOver, TreeIs
  <2>2. Mapped(dst')
    <3>1. PICK T \in SUBSET Items : dst' = dst \/ dst' = [dst EXCEPT ![Tree] = T]
      BY <1>9, RsyncOver
    <3>2. Mapped([dst EXCEPT ![Tree] = T])
      BY <1>0, <2>1, Mappings
    <3> QED
      BY <1>0, <3>1, <3>2
  <2>3. PICK good \in BOOLEAN, F \in SUBSET Trees : RsyncEnds(good, F)
    BY <1>0, <1>9, RsyncOver
  <2>4. CASE Rec = "git_rsync"
    BY <1>0, <2>1, <2>2, <2>3, <2>4, Mappings DEF RsyncEnds, Returns, cmdVars
  <2>5. CASE Rec = "fs_storage"
    <3>1. failed < pair /\ pair \in 1..Len(PathPairs)
      BY <1>0, <2>1, <2>5 DEF Position, InBody
    <3>2. pair + 1 \in 1..(Len(PathPairs) + 1) /\ failed + 1 \in 0..Len(PathPairs)
      BY <1>0, <3>1
    <3> QED
      BY <1>0, <2>1, <2>2, <2>3, <2>5, <3>1, <3>2 DEF RsyncEnds, callVars, cmdVars
  <2> QED
    BY <1>0, <2>1, <2>4, <2>5 DEF Position, InBody, Mirrors
<1>10. CASE UNCHANGED vars
  BY <1>0, <1>10 DEF vars, cmdVars, loopVars, logVars, dataVars, treeVars, callVars, rsyncVars
<1> QED
  BY <1>0, <1>1, <1>2, <1>3, <1>4, <1>5, <1>6, <1>7, <1>8, <1>9, <1>10
     DEF Next, Runner, Environment, Signals, Checks, Users, RsyncStep

\* The loops stand where they should, and a sweep has called what it has passed.
LEMMA LoopStep ==
  TypeOK /\ Position /\ Passed /\ [Next]_vars => Position' /\ Passed'
<1> SUFFICES ASSUME TypeOK, Position, Passed, [Next]_vars PROVE Position' /\ Passed'
  OBVIOUS
<1> USE DEF Position, Passed, InBody, Rec
<1>0. Typed
  BY TypedIs
<1>1. ASSUME NEW t \in Trees, NEW x \in Items, Users(t, x) PROVE Position' /\ Passed'
  BY <1>1, UsersKeep
<1>2. CASE Signals
  BY <1>2 DEF Signals, Promote, Tick, Cancel, cmdVars, loopVars, logVars
<1>3. CASE SweepStart
  BY <1>3, Configuration DEF SweepStart, cmdVars
<1>4. CASE Stop
  BY <1>4 DEF Stop, cmdVars, logVars
<1>5. CASE LoopCheck
  BY <1>0, <1>5, Configuration DEF LoopCheck, SweepEnds, cmdVars, logVars, Typed
<1>6. ASSUME NEW ok \in BOOLEAN, Observe(ok) PROVE Position' /\ Passed'
  <2>1. /\ pc' = "loop" /\ cur' = cur + 1 /\ ran' = [ran EXCEPT ![cur] = @ + 1]
        /\ cur \in Steps /\ pc = "call"
    BY <1>6 DEF Observe, Called, Returns
  <2>2. ran[cur] = 0
    BY <1>0, <2>1, Configuration DEF Typed
  <2> QED
    BY <1>0, <2>1, <2>2, Configuration DEF Typed
<1>7. CASE CallMirror
  <2>1. /\ cur' = cur /\ ran' = [ran EXCEPT ![cur] = @ + 1]
        /\ pc' = IF Rec = "git_rsync" THEN "start" ELSE "pair"
        /\ cur \in Steps /\ pc = "call" /\ Rec \in {"git_rsync", "fs_storage"}
        /\ pair' = 1 /\ failed' = 0
    BY <1>7 DEF CallMirror, Called, Mirrors
  <2>2. ran[cur] = 0
    BY <1>0, <2>1, Configuration DEF Typed
  <2>3. Passed'
    BY <1>0, <2>1, <2>2, Configuration DEF Typed
  <2>4. Position'
    BY <2>1, Configuration DEF Mirrors
  <2> QED
    BY <2>3, <2>4
<1>8. CASE NextPair
  BY <1>0, <1>8, Configuration DEF NextPair, cmdVars, logVars, Typed
<1>9. CASE PairsCancelled \/ PairsDone
  <2>1. pc = "pair" /\ pc' = "loop" /\ cur' = cur + 1 /\ ran' = ran
    BY <1>9 DEF PairsCancelled, PairsDone, Returns
  <2> QED
    BY <1>0, <2>1, Configuration DEF Typed
<1>10. CASE RsyncStart
  BY <1>10 DEF RsyncStart, cmdVars, logVars
<1>11. CASE RsyncStep
  <2>1. /\ pc \in {"start", "rsync"} /\ cur \in Steps
        /\ UNCHANGED <<cmdVars, tick, cancelled, ran, late, src, promoted, local>>
    BY <1>11, RsyncOver
  <2>2. PICK good \in BOOLEAN, F \in SUBSET Trees : RsyncEnds(good, F)
    BY <1>11, RsyncOver
  <2>3. CASE Rec = "git_rsync"
    <3>1. pc' = "loop" /\ cur' = cur + 1
      BY <2>2, <2>3 DEF RsyncEnds, Returns
    <3> QED
      BY <1>0, <2>1, <3>1, Configuration DEF Typed
  <2>4. CASE Rec = "fs_storage"
    <3>1. pc' = "pair" /\ cur' = cur /\ pair' = pair + 1 /\ failed' \in {failed, failed + 1}
      BY <2>2, <2>4 DEF RsyncEnds
    <3> QED
      BY <1>0, <2>1, <2>4, <3>1, Configuration DEF Typed
  <2> QED
    BY <2>1, <2>3, <2>4 DEF Mirrors
<1>12. CASE UNCHANGED vars
  BY <1>12 DEF vars, cmdVars, loopVars, logVars
<1> QED
  BY <1>1, <1>2, <1>3, <1>4, <1>5, <1>6, <1>7, <1>8, <1>9, <1>10, <1>11, <1>12
     DEF Next, Runner, Environment, Signals, Users, RsyncStep

\* A call that begins after the cancellation is the last one of serve; of sync
\* no more can than it has called.
LEMMA LateStep == TypeOK /\ Position /\ Passed /\ Late /\ [Next]_vars => Late'
<1> SUFFICES ASSUME TypeOK, Position, Passed, Late, [Next]_vars PROVE Late'
  OBVIOUS
<1> USE Configuration DEF Late, InBody
<1>0. Typed
  BY TypedIs
<1>1. ASSUME NEW t \in Trees, NEW x \in Items, Users(t, x) PROVE Late'
  BY <1>1, UsersKeep
<1>2. CASE Signals
  BY <1>2 DEF Signals, Promote, Tick, Cancel, cmdVars, loopVars, logVars
<1>3. CASE SweepStart \/ Stop \/ LoopCheck
  <2>1. CASE SweepStart
    BY <2>1 DEF SweepStart, cmdVars, Passed
  <2>2. CASE Stop
    BY <2>2 DEF Stop, cmdVars, logVars
  <2>3. CASE LoopCheck
    BY <1>0, <2>3 DEF LoopCheck, SweepEnds, cmdVars, logVars, Typed
  <2> QED
    BY <1>3, <2>1, <2>2, <2>3
<1>4. ASSUME NEW ok \in BOOLEAN, Observe(ok) PROVE Late'
  BY <1>0, <1>4 DEF Observe, Called, Returns, cmdVars, Typed
<1>5. CASE CallMirror
  BY <1>0, <1>5 DEF CallMirror, Called, cmdVars, Typed
<1>6. CASE NextPair \/ RsyncStart
  BY <1>6 DEF NextPair, RsyncStart, cmdVars, logVars
<1>7. CASE PairsCancelled \/ PairsDone
  BY <1>0, <1>7 DEF PairsCancelled, PairsDone, Returns, cmdVars, Typed
<1>8. CASE RsyncStep
  <2>1. /\ pc \in {"start", "rsync"} /\ UNCHANGED <<cmdVars, cancelled, late>>
        /\ \/ pc' = "loop" /\ cur' = cur + 1
           \/ pc' = "pair" /\ cur' = cur
    BY <1>8, RsyncOver DEF RsyncEnds, Returns
  <2> QED
    BY <1>0, <2>1 DEF cmdVars, Typed
<1>9. CASE UNCHANGED vars
  BY <1>9 DEF vars, cmdVars, loopVars, logVars
<1> QED
  BY <1>1, <1>2, <1>3, <1>4, <1>5, <1>6, <1>7, <1>8, <1>9
     DEF Next, Runner, Environment, Signals, Users, RsyncStep

\* As long as a call runs, the primary holds what was steady, whatever users do,
\* and neither side holds on the primary's behalf what was not seen.
LEMMA WindowStep == TypeOK /\ Position /\ Window /\ [Next]_vars => Window'
<1> SUFFICES ASSUME TypeOK, Position, Window, [Next]_vars PROVE Window'
  OBVIOUS
<1>0. /\ Typed /\ CallTrees \subseteq Trees
      /\ (pc = "rsync" => Tree \in Trees) /\ NoSrc \subseteq Trees
  BY TypedIs, TreeIs, SweepAssumption
<1>1. ASSUME NEW u \in Trees, NEW x \in Items, Users(u, x) PROVE Window'
  <2>1. CallTrees' = CallTrees /\ Tree' = Tree /\ pc' = pc
    BY <1>1, UsersKeep DEF CallTrees, Tree, Rec, InBody
  <2>2. Syncing(u) <=> (pc = "rsync" /\ Tree = u)
    BY DEF Syncing
  <2>3. InCall(u) <=> u \in CallTrees
    BY DEF InCall, CallTrees, InBody
  <2>4. CASE Write(u, x)
    <3>1. /\ u \notin NoSrc /\ src' = [src EXCEPT ![u] = @ \cup {x}]
          /\ UNCHANGED <<dst, must, steady, local>>
          /\ seen' = IF u \in CallTrees THEN [seen EXCEPT ![u] = @ \cup {x}] ELSE seen
          /\ may' = IF pc = "rsync" /\ Tree = u THEN may \cup {x} ELSE may
      BY <2>2, <2>3, <2>4 DEF Write, Appears
    <3>2. \A t \in Trees : /\ src'[t] = IF t = u THEN src[t] \cup {x} ELSE src[t]
                           /\ t \in CallTrees => seen'[t] = IF t = u THEN seen[t] \cup {x}
                                                          ELSE seen[t]
      BY <1>0, <3>1 DEF Typed, Mapped
    <3>3. \A t \in NoSrc : src'[t] = {} /\ dst'[t] \subseteq local'[t]
      BY <1>0, <3>1, <3>2 DEF Window
    <3>4. \A t \in CallTrees :
            steady'[t] \subseteq src'[t] /\ src'[t] \cup local'[t] \subseteq seen'[t]
      BY <1>0, <3>1, <3>2 DEF Window
    <3>5. pc = "rsync" =>
            steady'[Tree] \subseteq must' /\ must' \subseteq may' /\ may' \subseteq seen'[Tree]
      BY <1>0, <3>1, <3>2, TreeIs DEF Window
    <3> QED
      BY <2>1, <3>3, <3>4, <3>5 DEF Window
  <2>5. CASE Remove(u, x)
    <3>1. /\ src' = [src EXCEPT ![u] = @ \ {x}] /\ steady' = [steady EXCEPT ![u] = @ \ {x}]
          /\ UNCHANGED <<dst, may, seen, local>>
          /\ must' = IF pc = "rsync" /\ Tree = u THEN must \ {x} ELSE must
      BY <2>2, <2>5 DEF Remove
    <3> QED
      BY <1>0, <2>1, <3>1 DEF Window, Typed, Mapped, CallTrees, InBody
  <2>6. CASE LocalWrite(u, x)
    <3>1. UNCHANGED <<src, must, steady>>
      BY <2>6 DEF LocalWrite
    <3>2. may' = IF pc = "rsync" /\ Tree = u THEN may \cup {x} ELSE may
      BY <2>2, <2>6 DEF LocalWrite, Appears
    <3>3. ASSUME NEW t \in Trees
          PROVE  /\ dst'[t] = IF t = u THEN dst[t] \cup {x} ELSE dst[t]
                 /\ local'[t] = IF t = u THEN local[t] \cup {x} ELSE local[t]
                 /\ t \in CallTrees =>
                      seen'[t] = IF t = u THEN seen[t] \cup {x} ELSE seen[t]
      BY <1>0, <2>3, <2>6 DEF LocalWrite, Appears, Typed, Mapped
    <3>4. ASSUME NEW t \in NoSrc PROVE src'[t] = {} /\ dst'[t] \subseteq local'[t]
      <4>1. t \in Trees /\ src[t] = {} /\ dst[t] \subseteq local[t]
        BY <1>0 DEF Window
      <4> QED
        BY <3>1, <3>3, <4>1
    <3>5. ASSUME NEW t \in CallTrees
          PROVE  steady'[t] \subseteq src'[t] /\ src'[t] \cup local'[t] \subseteq seen'[t]
      <4>1. /\ t \in Trees
            /\ steady[t] \subseteq src[t] /\ src[t] \cup local[t] \subseteq seen[t]
        BY <1>0 DEF Window
      <4> QED
        BY <3>1, <3>3, <4>1
    <3>6. ASSUME pc = "rsync"
          PROVE  /\ steady'[Tree] \subseteq must'
                 /\ must' \subseteq may' /\ may' \subseteq seen'[Tree]
      <4>1. Tree \in CallTrees /\ Tree \in Trees
        BY <1>0, <3>6, TreeIs
      <4>2. steady[Tree] \subseteq must /\ must \subseteq may /\ may \subseteq seen[Tree]
        BY <3>6 DEF Window
      <4> QED
        BY <3>1, <3>2, <3>3, <3>6, <4>1, <4>2
    <3> QED
      BY <2>1, <3>4, <3>5, <3>6 DEF Window
  <2> QED
    BY <1>1, <2>4, <2>5, <2>6 DEF Users
<1>2. CASE UNCHANGED <<pc, cur, pair, dataVars>>
  BY <1>2 DEF Window, CallTrees, InBody, Rec, Tree, dataVars, treeVars, callVars, rsyncVars
<1>3. CASE UNCHANGED treeVars /\ pc' \notin {"pair", "start", "rsync"}
  BY <1>3 DEF Window, CallTrees, InBody, treeVars
<1>4. CASE CallMirror
  <2> DEFINE T == RangeOf(Targets(Rec))
  <2>1. /\ pc' # "rsync" /\ UNCHANGED <<src, dst, local>> /\ Rec' = Rec
        /\ steady' = [t \in Trees |-> IF t \in T THEN src[t] ELSE steady[t]]
        /\ seen' = [t \in Trees |-> IF t \in T THEN src[t] \cup local[t] ELSE seen[t]]
    BY <1>4 DEF CallMirror, Rec, treeVars
  <2>2. CallTrees' \subseteq T /\ T \subseteq Trees
    BY <1>4, <2>1, Configuration DEF CallTrees, CallMirror, Position, Rec
  <2>3. \A t \in CallTrees' : steady'[t] = src'[t] /\ seen'[t] = src'[t] \cup local'[t]
    BY <2>1, <2>2
  <2> QED
    BY <2>1, <2>3 DEF Window
<1>5. CASE NextPair
  BY <1>5 DEF NextPair, Window, CallTrees, InBody, Rec, dataVars, treeVars, callVars
<1>6. CASE RsyncStart
  <2>1. /\ pc = "start" /\ pc' = "rsync" /\ UNCHANGED <<cur, pair, treeVars, callVars>>
        /\ must' = src[Tree] /\ may' = src[Tree]
    BY <1>6 DEF RsyncStart
  <2>2. Tree' = Tree /\ CallTrees' = CallTrees /\ Tree \in CallTrees
    BY <2>1, TreeIs DEF Tree, Rec, CallTrees, InBody
  <2> QED
    BY <2>1, <2>2 DEF Window, treeVars, callVars
<1>7. CASE RsyncStep
  <2>1. \A t \in NoSrc : dst'[t] = dst[t]
    <3>1. CASE RsyncNotStarted
      BY <3>1 DEF RsyncNotStarted, treeVars
    <3>2. CASE RsyncOK \/ \E worded \in BOOLEAN : RsyncFails(worded)
      BY <1>0, <3>2 DEF RsyncOK, RsyncFails, Copy, Absent, treeVars, Typed, Mapped
    <3> QED
      BY <1>7, <3>1, <3>2 DEF RsyncStep
  <2>2. /\ UNCHANGED <<src, local>>
        /\ pc' \in {"loop", "pair"}
        /\ pc' = "pair" => UNCHANGED <<cur, steady, seen>> /\ pc \in {"start", "rsync"}
    BY <1>7, RsyncOver DEF RsyncEnds, Returns, callVars
  <2> QED
    BY <2>1, <2>2 DEF Window, CallTrees, InBody, Rec
<1>8. CASE UNCHANGED vars
  BY <1>2, <1>8 DEF vars, loopVars
<1>9. CASE Signals
  BY <1>9 DEF Signals, Promote, Tick, Cancel, loopVars, dataVars, treeVars, callVars,
     rsyncVars, Window, CallTrees, InBody, Rec, Tree
<1>10. CASE Checks
  BY <1>3, <1>10 DEF Checks, SweepStart, Stop, LoopCheck, SweepEnds, dataVars
<1>11. CASE PairsCancelled \/ PairsDone \/ \E ok \in BOOLEAN : Observe(ok)
  BY <1>3, <1>11 DEF PairsCancelled, PairsDone, Observe, Returns
<1> QED
  BY <1>1, <1>4, <1>5, <1>6, <1>7, <1>8, <1>9, <1>10, <1>11
     DEF Next, Runner, Environment, Signals, Checks, Users, RsyncStep

\* A path that rsync did without error is mirrored, users cannot undo it, and a
\* path with an error is counted or forgiven.
LEMMA CopiedStep ==
  TypeOK /\ Position /\ Window /\ Copied /\ [Next]_vars => Copied'
<1> SUFFICES ASSUME TypeOK, Position, Window, Copied, [Next]_vars PROVE Copied'
  OBVIOUS
<1>0. Typed /\ CallTrees \subseteq Trees /\ (pc = "rsync" => Tree \in Trees)
  BY TypedIs, TreeIs
<1>1. ASSUME NEW u \in Trees, NEW x \in Items, Users(u, x) PROVE Copied'
  <2>1. UNCHANGED <<pc, cur, pair, failed, dryRun, forgiven>>
    BY <1>1, UsersKeep
  <2>2. InCall(u) <=> u \in CallTrees
    BY DEF InCall, CallTrees, InBody
  <2>3. ASSUME NEW t \in CallTrees, Mirrored(t) PROVE Mirrored(t)'
    <3>1. CASE Write(u, x)
      BY <1>0, <2>2, <2>3, <3>1 DEF Write, Appears, Mirrored, Typed, Mapped
    <3>2. CASE Remove(u, x)
      BY <1>0, <2>3, <3>2 DEF Remove, Mirrored, Typed, Mapped
    <3>3. CASE LocalWrite(u, x)
      BY <1>0, <2>2, <2>3, <3>3 DEF LocalWrite, Appears, Mirrored, Typed, Mapped
    <3> QED
      BY <1>1, <3>1, <3>2, <3>3 DEF Users
  <2>4. InBody /\ Rec = "fs_storage" => \A k \in DOMAIN PathPairs : PathPairs[k] \in CallTrees
    BY TreeIs DEF RangeOf
  <2> QED
    BY <2>1, <2>3, <2>4 DEF Copied, InBody, Rec
<1>2. CASE UNCHANGED <<pc, cur, pair, failed, dryRun, dst, callVars>>
  BY <1>2 DEF Copied, InBody, Rec, Mirrored, callVars
<1>3. CASE pc' \notin {"pair", "start", "rsync"}
  BY <1>3 DEF Copied, InBody
<1>4. CASE CallMirror
  <2>1. pair' = 1
    BY <1>4 DEF CallMirror
  <2> QED
    BY <2>1, Configuration DEF Copied
<1>5. CASE NextPair \/ RsyncStart
  BY <1>5 DEF NextPair, RsyncStart, Copied, InBody, Rec, Mirrored, cmdVars, dataVars, treeVars,
              callVars
<1>6. CASE RsyncStep
  <2> SUFFICES ASSUME InBody', Rec' = "fs_storage", failed' = 0, ~ dryRun',
                      NEW k \in DOMAIN PathPairs, k < pair', PathPairs[k] \notin forgiven'
               PROVE  Mirrored(PathPairs[k])'
    BY DEF Copied
  <2>1. pc \in {"start", "rsync"} /\ UNCHANGED <<cmdVars, src, local>>
    BY <1>6, RsyncOver
  <2>2. PICK good \in BOOLEAN, F \in SUBSET Trees : RsyncEnds(good, F)
    BY <1>6, RsyncOver
  <2>3. /\ Rec = "fs_storage" /\ pair' = pair + 1 /\ UNCHANGED <<cur, steady, seen>>
        /\ failed = 0 /\ ~ dryRun
    BY <1>0, <2>1, <2>2 DEF RsyncEnds, Returns, InBody, Rec, callVars, cmdVars, Typed
  <2>4. Tree = PathPairs[pair] /\ Tree \in CallTrees /\ PathPairs[k] \in CallTrees
    BY <2>1, <2>3, TreeIs DEF InBody, RangeOf
  <2>5. pair \in Nat /\ k \in Nat
    BY <1>0, Configuration DEF Typed
  <2>6. k # pair /\ PathPairs[k] \notin forgiven => Mirrored(PathPairs[k])
    BY <2>1, <2>3, <2>5 DEF Copied, InBody
  <2>7. CASE RsyncNotStarted
    BY <1>0, <2>3, <2>7 DEF RsyncNotStarted, RsyncEnds, Typed
  <2>8. ASSUME NEW worded \in BOOLEAN, RsyncFails(worded) PROVE Mirrored(PathPairs[k])'
    <3>1. forgiven' = forgiven \cup {Tree}
      BY <1>0, <2>3, <2>8 DEF RsyncFails, RsyncEnds, Typed
    <3>2. \A t \in Trees \ {Tree} : dst'[t] = dst[t]
      BY <1>0, <2>8 DEF RsyncFails, Copy, treeVars, Typed, Mapped
    <3> QED
      BY <1>0, <2>3, <2>4, <2>6, <3>1, <3>2 DEF Mirrored
  <2>9. CASE RsyncOK
    <3>1. PICK T : must \subseteq T /\ T \subseteq may /\ dst' = [dst EXCEPT ![Tree] = T]
      BY <2>3, <2>9 DEF RsyncOK, Copy
    <3>2. forgiven' = forgiven
      BY <2>3, <2>9 DEF RsyncOK, RsyncEnds
    <3>3. PathPairs[k] = Tree => Mirrored(PathPairs[k])'
      BY <1>0, <2>3, <2>4, <2>9, <3>1 DEF RsyncOK, Window, Mirrored, Typed, Mapped
    <3>4. PathPairs[k] # Tree => Mirrored(PathPairs[k])'
      BY <1>0, <2>3, <2>4, <2>6, <3>1, <3>2 DEF Mirrored, Typed, Mapped
    <3> QED
      BY <3>3, <3>4
  <2> QED
    BY <1>6, <2>7, <2>8, <2>9 DEF RsyncStep
<1>7. CASE Signals \/ UNCHANGED vars
  BY <1>2, <1>7 DEF Signals, Promote, Tick, Cancel, vars, cmdVars, loopVars, dataVars, treeVars,
     callVars
<1>8. CASE Checks \/ PairsCancelled \/ PairsDone \/ \E ok \in BOOLEAN : Observe(ok)
  BY <1>3, <1>8 DEF Checks, SweepStart, Stop, LoopCheck, SweepEnds, PairsCancelled, PairsDone,
     Observe, Returns
<1> QED
  BY <1>1, <1>4, <1>5, <1>6, <1>7, <1>8
     DEF Next, Runner, Environment, Signals, Checks, Users, RsyncStep

\* The runner starts with nothing called, and with trees that are equal.
LEMMA InitIInv == Init => IInv
<1> SUFFICES ASSUME Init PROVE IInv
  OBVIOUS
<1> USE Configuration
<1>1. Typed
  <2>1. /\ 1 \in 1..(Len(Plan) + 1) /\ 1 \in 1..(Len(PathPairs) + 1)
        /\ 0 \in 0..Len(PathPairs) /\ 0 \in 0..Len(Plan)
    OBVIOUS
  <2>2. [j \in Steps |-> 0] \in [Steps -> 0..1]
    OBVIOUS
  <2> QED
    BY <2>1, <2>2, Mappings DEF Init, Typed
<1>2. Position /\ Passed /\ Late
  BY DEF Init, Position, Passed, Late, InBody
<1>3. \A t \in NoSrc : Empty[t] = {}
  BY SweepAssumption DEF Empty
<1>4. Window /\ Copied
  BY <1>3 DEF Init, Window, Copied, CallTrees, InBody
<1> QED
  BY <1>1, <1>2, <1>4, TypedIs DEF IInv

\* The inductive invariant holds in every state of every run.
LEMMA Inductive == Spec => []IInv
<1>1. IInv /\ [Next]_vars => IInv'
  BY TypeStep, LoopStep, LateStep, WindowStep, CopiedStep DEF IInv
<1> QED
  BY InitIInv, <1>1, PTL DEF Spec

\* The variables of the runner and its mirrors stay within their types; in
\* particular no reconciler is called twice in a sweep.
THEOREM TypeCorrect == Spec => []TypeOK
  BY Inductive, PTL DEF IInv

\* A sweep that was left to end has called every reconciler of the plan once,
\* whatever each of them returned.
THEOREM CompleteSweep == Spec => []SweepIsComplete
<1>1. IInv => SweepIsComplete
  BY TypedIs, Configuration DEF IInv, Passed, SweepIsComplete, InBody, Typed
<1> QED
  BY Inductive, <1>1, PTL

\* After the cancellation of serve at most one more reconciler is entered.
THEOREM LastCall == Spec => []OneCallAfterCancel
  BY Inductive, PTL DEF IInv, Late, OneCallAfterCancel

\* A mirroring reconciler that returns OK leaves an exact mirror, up to what
\* users changed during the call and to the trees whose rsync error it let pass.
THEOREM OKIsMirrored == Spec => OKMeansMirrored
<1>1. ASSUME IInv, [Next]_vars
      PROVE  [~ dryRun /\ pc \in {"pair", "start", "rsync"} /\ pc' = "loop" /\ report' =>
                \A t \in RangeOf(Targets(Rec)) \ forgiven :
                  steady[t] \subseteq dst'[t] /\ dst'[t] \subseteq seen[t]]_vars
  <2> SUFFICES ASSUME Next, ~ dryRun, InBody, pc' = "loop", report', NEW t \in CallTrees,
                      t \notin forgiven
               PROVE  steady[t] \subseteq dst'[t] /\ dst'[t] \subseteq seen[t]
    BY <1>1 DEF InBody, CallTrees
  <2>0. Typed /\ TypeOK /\ Position /\ Window /\ Copied
    BY <1>1, TypedIs DEF IInv
  <2>1. PairsDone \/ RsyncStep
    <3>1. ~ (\E u \in Trees, x \in Items : Users(u, x))
      BY UsersKeep DEF InBody
    <3>2. ~ (Signals \/ Checks \/ PairsCancelled \/ CallMirror \/ NextPair \/ RsyncStart)
      BY DEF Signals, Promote, Tick, Cancel, Checks, SweepStart, Stop, LoopCheck,
         PairsCancelled, Returns, CallMirror, NextPair, RsyncStart, InBody, loopVars
    <3>3. ~ (\E ok \in BOOLEAN : Observe(ok))
      BY DEF Observe, InBody
    <3> QED
      BY <3>1, <3>2, <3>3 DEF Next, Runner, Environment, Signals, Checks, Users, RsyncStep
  <2>2. CASE PairsDone
    <3>1. pc = "pair" /\ pair > Len(PathPairs) /\ failed = 0 /\ dst' = dst
      BY <2>2 DEF PairsDone, Returns, treeVars
    <3>2. Rec = "fs_storage" /\ CallTrees = RangeOf(PathPairs)
      BY <2>0, <3>1, TreeIs DEF Position, InBody, Mirrors
    <3>3. PICK k \in DOMAIN PathPairs : t = PathPairs[k]
      BY <3>2 DEF RangeOf
    <3>4. k < pair
      BY <2>0, <3>1, <3>3, Configuration DEF Typed
    <3> QED
      BY <2>0, <3>1, <3>2, <3>3, <3>4 DEF Copied, Mirrored
  <2>3. CASE RsyncStep
    <3>1. PICK good \in BOOLEAN, F \in SUBSET Trees : RsyncEnds(good, F)
      BY <2>0, <2>3, RsyncOver
    <3>2. Rec = "git_rsync"
      BY <3>1 DEF RsyncEnds
    <3>3. Tree = "repos" /\ CallTrees = {"repos"}
      BY <2>0, <3>2, TreeIs
    <3>4. RsyncOK
      BY <2>3, <3>2 DEF RsyncStep, RsyncFails, RsyncNotStarted, RsyncEnds, Returns
    <3>5. PICK T : must \subseteq T /\ T \subseteq may /\ dst' = [dst EXCEPT ![Tree] = T]
      BY <3>4 DEF RsyncOK, Copy
    <3>6. Tree = t /\ Tree \in Trees
      BY <2>0, <3>3, TreeIs
    <3> QED
      BY <2>0, <3>4, <3>5, <3>6 DEF RsyncOK, Window, Typed, Mapped
  <2> QED
    BY <2>1, <2>2, <2>3
<1> QED
  BY Inductive, <1>1, PTL DEF Spec, OKMeansMirrored
=============================================================================
