-------------------------------- MODULE Sweep --------------------------------
(***************************************************************************)
(* The runner of `geoctl serve' (and the single sweep of `geoctl sync')    *)
(* over the reconcilers that the configuration enables, with the two that  *)
(* mirror file trees from the primary: git_rsync and fs_storage.  The      *)
(* other reconcilers only observe, or have a module of their own; here     *)
(* they return some verdict.                                               *)
(*                                                                         *)
(* A tree is the set of items it holds.  While rsync runs users go on      *)
(* adding and removing items, so what it copies is not one snapshot.       *)
(***************************************************************************)
EXTENDS Naturals, Sequences

CONSTANTS
  GitMode,      \* primary.git.mode
  Backend,      \* primary.object_storage.backend
  HasRegistry,  \* primary.registry is configured
  RegistryFS,   \* ... with mode fs and a path
  ApiEnabled,   \* api_validator.enabled
  FSPaths,      \* primary.object_storage.fs_paths
  Items,        \* what a tree can hold
  NoSrc, NoDst  \* trees whose directory is missing on a side

\* buildReconcilers; the configuration is one that validate accepts.
Plan ==
  <<"postgres">>
  \o (IF GitMode = "rsync" THEN <<"git_rsync">> ELSE <<"git_fetch">>)
  \o (CASE Backend = "s3" -> <<"object_storage">>
        [] Backend = "fs" -> <<"fs_storage">>
        [] OTHER -> <<>>)
  \o (IF HasRegistry THEN <<"registry">> ELSE <<>>)
  \o <<"consistency_sweep">>
  \o (IF ApiEnabled THEN <<"api_validator">> ELSE <<>>)

\* The path pairs of fsstorage.New.
PathPairs ==
  FSPaths \o (IF HasRegistry /\ RegistryFS THEN <<"registry_path">> ELSE <<>>)

\* The trees a reconciler mirrors, in order.
Targets(r) ==
  CASE r = "git_rsync" -> <<"repos">>
    [] r = "fs_storage" -> PathPairs
    [] OTHER -> <<>>

Mirrors == {"git_rsync", "fs_storage"}
Steps == 1..Len(Plan)
RangeOf(s) == {s[i] : i \in DOMAIN s}
Trees == UNION {RangeOf(Targets(Plan[j])) : j \in Steps}

ASSUME SweepAssumption ==
  /\ GitMode \in {"rsync", "fetch"}
  /\ HasRegistry \in BOOLEAN /\ RegistryFS \in BOOLEAN /\ ApiEnabled \in BOOLEAN
  /\ FSPaths \in Seq(STRING)
  /\ \A i, j \in DOMAIN FSPaths : FSPaths[i] = FSPaths[j] => i = j
  /\ NoSrc \subseteq Trees /\ NoDst \subseteq Trees

VARIABLES
  serve,      \* `geoctl serve' or `geoctl sync'
  dryRun,     \* --dry-run
  pc,         \* of Run and sweep
  cur,        \* loop variable of sweep
  pair,       \* loop variable of fsstorage's Reconcile
  failed,     \* its counter
  tick,       \* ticker.C holds a tick
  cancelled,  \* the context
  ran,        \* auxiliary: calls of each reconciler in this sweep
  late,       \* auxiliary: calls begun after the cancellation
  report,     \* Result.OK of the last call
  src, dst,   \* the trees on the primary and on this secondary
  must, may,  \* the running rsync: items it cannot miss, items it can see
  steady,     \* auxiliary: items on the primary throughout the running call
  seen,       \* auxiliary: items some side had since that call began
  forgiven,   \* auxiliary: its trees whose rsync failed without being counted
  promoted,   \* this secondary was made the primary
  local       \* auxiliary: items written here since

cmdVars == <<serve, dryRun>>
loopVars == <<pc, cur, pair, failed>>
logVars == <<ran, late, report>>
treeVars == <<src, dst, promoted, local>>
callVars == <<steady, seen, forgiven>>
rsyncVars == <<must, may>>
dataVars == <<treeVars, callVars, rsyncVars>>
vars == <<cmdVars, loopVars, logVars, dataVars, tick, cancelled>>

Rec == Plan[cur]
Tree == Targets(Rec)[pair]

TypeOK ==
  /\ serve \in BOOLEAN /\ dryRun \in BOOLEAN
  /\ pc \in {"loop", "call", "pair", "start", "rsync", "select", "stopped"}
  /\ cur \in 1..(Len(Plan) + 1)
  /\ pair \in 1..(Len(PathPairs) + 1)
  /\ failed \in 0..Len(PathPairs)
  /\ tick \in BOOLEAN /\ cancelled \in BOOLEAN
  /\ ran \in [Steps -> 0..1]
  /\ late \in 0..Len(Plan)
  /\ report \in BOOLEAN
  /\ {src, dst, steady, seen, local} \subseteq [Trees -> SUBSET Items]
  /\ must \subseteq Items /\ may \subseteq Items
  /\ forgiven \subseteq Trees
  /\ promoted \in BOOLEAN

Empty == [t \in Trees |-> {}]

\* Run sweeps once before it waits for a tick.  The trees start equal.
Init ==
  /\ serve \in BOOLEAN /\ dryRun \in BOOLEAN
  /\ pc = "loop" /\ cur = 1
  /\ pair = 1 /\ failed = 0
  /\ tick = FALSE /\ cancelled = FALSE
  /\ ran = [j \in Steps |-> 0]
  /\ late = 0
  /\ report = FALSE
  /\ src = Empty /\ dst = Empty
  /\ must = {} /\ may = {}
  /\ steady = Empty /\ seen = Empty /\ forgiven = {}
  /\ promoted = FALSE /\ local = Empty

(***************************************************************************)
(* The environment                                                         *)
(***************************************************************************)
Syncing(t) == pc = "rsync" /\ Tree = t
InCall(t) == pc \in {"pair", "start", "rsync"} /\ t \in RangeOf(Targets(Rec))

\* Item x has appeared on a side of t.
Appears(t, x) ==
  /\ seen' = IF InCall(t) THEN [seen EXCEPT ![t] = @ \cup {x}] ELSE seen
  /\ may' = IF Syncing(t) THEN may \cup {x} ELSE may

\* Users of the primary add and remove items.
Write(t, x) ==
  /\ t \notin NoSrc
  /\ x \notin src[t]
  /\ src' = [src EXCEPT ![t] = @ \cup {x}]
  /\ Appears(t, x)
  /\ UNCHANGED <<cmdVars, loopVars, tick, cancelled, logVars,
                 dst, must, steady, forgiven, promoted, local>>

Remove(t, x) ==
  /\ x \in src[t]
  /\ src' = [src EXCEPT ![t] = @ \ {x}]
  /\ steady' = [steady EXCEPT ![t] = @ \ {x}]
  /\ must' = IF Syncing(t) THEN must \ {x} ELSE must
  /\ UNCHANGED <<cmdVars, loopVars, tick, cancelled, logVars,
                 dst, may, seen, forgiven, promoted, local>>

\* The failover controller, or an operator, promotes this secondary ...
Promote ==
  /\ serve /\ ~ promoted
  /\ promoted' = TRUE
  /\ UNCHANGED <<cmdVars, loopVars, tick, cancelled, logVars,
                 src, dst, rsyncVars, callVars, local>>

\* ... and users write here.
LocalWrite(t, x) ==
  /\ promoted /\ t \notin NoDst
  /\ x \notin dst[t] \cup src[t]
  /\ dst' = [dst EXCEPT ![t] = @ \cup {x}]
  /\ local' = [local EXCEPT ![t] = @ \cup {x}]
  /\ Appears(t, x)
  /\ UNCHANGED <<cmdVars, loopVars, tick, cancelled, logVars,
                 src, must, steady, forgiven, promoted>>

\* The channel of a time.Ticker holds one tick and drops the others.
Tick ==
  /\ serve /\ ~ tick /\ pc # "stopped"
  /\ tick' = TRUE
  /\ UNCHANGED <<cmdVars, loopVars, cancelled, logVars, dataVars>>

\* SIGTERM; for sync also its five-minute timeout.
Cancel ==
  /\ ~ cancelled
  /\ cancelled' = TRUE
  /\ UNCHANGED <<cmdVars, loopVars, tick, logVars, dataVars>>

(***************************************************************************)
(* Run                                                                     *)
(***************************************************************************)
\* The select of Run takes either case when both are ready.
SweepStart ==
  /\ pc = "select" /\ tick
  /\ tick' = FALSE
  /\ pc' = "loop" /\ cur' = 1
  /\ ran' = [j \in Steps |-> 0]
  /\ UNCHANGED <<cmdVars, pair, failed, cancelled, late, report, dataVars>>

\* Deliberate fault: a pending tick is served first.
StopUnlessTick ==
  /\ pc = "select" /\ cancelled /\ ~ tick
  /\ pc' = "stopped"
  /\ UNCHANGED <<cmdVars, cur, pair, failed, tick, cancelled, logVars, dataVars>>

Stop ==
  /\ pc = "select" /\ cancelled
  /\ pc' = "stopped"
  /\ UNCHANGED <<cmdVars, cur, pair, failed, tick, cancelled, logVars, dataVars>>

(***************************************************************************)
(* sweep, or the loop of newSyncCmd, which does not look at the context.   *)
(***************************************************************************)
SweepEnds == pc' = IF serve THEN "select" ELSE "stopped"

\* Deliberate fault: the context is not looked at between reconcilers.
LoopCheckDeaf ==
  /\ pc = "loop"
  /\ IF cur > Len(Plan) THEN SweepEnds ELSE pc' = "call"
  /\ UNCHANGED <<cmdVars, cur, pair, failed, tick, cancelled, logVars, dataVars>>

\* Deliberate fault: a reconciler that is not OK ends the sweep.
LoopCheckAborting ==
  /\ pc = "loop"
  /\ IF \/ cur > Len(Plan)
        \/ cancelled /\ serve
        \/ cur > 1 /\ ~ report
       THEN SweepEnds
       ELSE pc' = "call"
  /\ UNCHANGED <<cmdVars, cur, pair, failed, tick, cancelled, logVars, dataVars>>

LoopCheck ==
  /\ pc = "loop"
  /\ IF cur > Len(Plan) \/ (cancelled /\ serve) THEN SweepEnds ELSE pc' = "call"
  /\ UNCHANGED <<cmdVars, cur, pair, failed, tick, cancelled, logVars, dataVars>>

\* Reconcile is called.
Called ==
  /\ ran' = [ran EXCEPT ![cur] = @ + 1]
  /\ late' = IF cancelled THEN late + 1 ELSE late

\* Reconcile returns; whatever the Result, the loop goes on.
Returns(ok) ==
  /\ report' = ok
  /\ steady' = Empty /\ seen' = Empty /\ forgiven' = {}
  /\ cur' = cur + 1
  /\ pc' = "loop"

\* A reconciler that this module does not look into.
Observe(ok) ==
  /\ pc = "call" /\ Rec \notin Mirrors
  /\ Called
  /\ Returns(ok)
  /\ UNCHANGED <<cmdVars, pair, failed, tick, cancelled, treeVars, rsyncVars>>

(***************************************************************************)
(* gitrsync's and fsstorage's Reconcile                                    *)
(***************************************************************************)
\* Deliberate fault: the counter of failed paths survives the call.
CallMirrorCounting ==
  /\ pc = "call" /\ Rec \in Mirrors
  /\ Called
  /\ LET T == RangeOf(Targets(Rec))
     IN  /\ steady' = [t \in Trees |-> IF t \in T THEN src[t] ELSE steady[t]]
         /\ seen' = [t \in Trees |-> IF t \in T THEN src[t] \cup local[t] ELSE seen[t]]
  /\ pair' = 1 /\ UNCHANGED failed
  /\ pc' = IF Rec = "git_rsync" THEN "start" ELSE "pair"
  /\ UNCHANGED <<cmdVars, cur, tick, cancelled, report, treeVars, rsyncVars, forgiven>>

\* The call begins.
CallMirror ==
  /\ pc = "call" /\ Rec \in Mirrors
  /\ Called
  /\ LET T == RangeOf(Targets(Rec))
     IN  /\ steady' = [t \in Trees |-> IF t \in T THEN src[t] ELSE steady[t]]
         /\ seen' = [t \in Trees |-> IF t \in T THEN src[t] \cup local[t] ELSE seen[t]]
  /\ pair' = 1 /\ failed' = 0
  /\ pc' = IF Rec = "git_rsync" THEN "start" ELSE "pair"
  /\ UNCHANGED <<cmdVars, cur, tick, cancelled, report, treeVars, rsyncVars, forgiven>>

\* The head of fsstorage's loop over its path pairs.
NextPair ==
  /\ pc = "pair"
  /\ ~ cancelled /\ pair <= Len(PathPairs)
  /\ pc' = "start"
  /\ UNCHANGED <<cmdVars, cur, pair, failed, tick, cancelled, logVars, dataVars>>

PairsCancelled ==
  /\ pc = "pair"
  /\ cancelled /\ pair <= Len(PathPairs)
  /\ Returns(FALSE)
  /\ UNCHANGED <<cmdVars, pair, failed, tick, cancelled, ran, late, treeVars, rsyncVars>>

\* Deliberate fault: partial success is success.
PairsDoneLenient ==
  /\ pc = "pair"
  /\ pair > Len(PathPairs)
  /\ Returns(failed < Len(PathPairs))
  /\ UNCHANGED <<cmdVars, pair, failed, tick, cancelled, ran, late, treeVars, rsyncVars>>

PairsDone ==
  /\ pc = "pair"
  /\ pair > Len(PathPairs)
  /\ Returns(failed = 0)
  /\ UNCHANGED <<cmdVars, pair, failed, tick, cancelled, ran, late, treeVars, rsyncVars>>

\* A process is not started under a context that is done.
RsyncStart ==
  /\ pc = "start" /\ ~ cancelled
  /\ must' = src[Tree] /\ may' = src[Tree]
  /\ pc' = "rsync"
  /\ UNCHANGED <<cmdVars, cur, pair, failed, tick, cancelled, logVars, treeVars, callVars>>

\* rsync of the current tree is over: git_rsync returns, fs_storage counts the
\* path and goes on, F being the trees whose errors it let pass.
RsyncEnds(good, F) ==
  IF Rec = "git_rsync"
    THEN Returns(good) /\ UNCHANGED <<pair, failed>>
    ELSE /\ pair' = pair + 1
         /\ failed' = IF good THEN failed ELSE failed + 1
         /\ pc' = "pair"
         /\ forgiven' = F
         /\ UNCHANGED <<cur, report, steady, seen>>

\* The destination becomes T.
Copy(T) ==
  /\ dst' = IF dryRun THEN dst ELSE [dst EXCEPT ![Tree] = T]
  /\ UNCHANGED <<src, promoted, local>>

Absent == Tree \in NoSrc \cup NoDst

\* --delete makes the destination a mirror of what rsync saw.
RsyncOK ==
  /\ pc = "rsync" /\ ~ Absent
  /\ \E T \in SUBSET may : must \subseteq T /\ Copy(T)
  /\ RsyncEnds(TRUE, forgiven)
  /\ must' = {} /\ may' = {}
  /\ UNCHANGED <<cmdVars, tick, cancelled, ran, late>>

\* rsync exits with an error, or the context kills it; part of the work may have
\* been done.  Whatever the error is, rsyncPath returns nil when the output says
\* somewhere "No such file or directory" or "change_dir" (worded), as it does
\* for a missing directory, but also for one that may not be entered or a
\* missing ssh identity; gitrsync returns every error.
RsyncFails(worded) ==
  /\ pc = "rsync"
  /\ IF Absent
       THEN UNCHANGED treeVars
       ELSE \E T \in SUBSET (may \cup dst[Tree]) : must \cap dst[Tree] \subseteq T /\ Copy(T)
  /\ LET drop == worded /\ Rec = "fs_storage"
     IN  RsyncEnds(drop, IF drop THEN forgiven \cup {Tree} ELSE forgiven)
  /\ must' = {} /\ may' = {}
  /\ UNCHANGED <<cmdVars, tick, cancelled, ran, late>>

RsyncNotStarted ==
  /\ pc = "start" /\ cancelled
  /\ RsyncEnds(FALSE, forgiven)
  /\ UNCHANGED <<cmdVars, tick, cancelled, ran, late, treeVars, rsyncVars>>

Runner ==
  \/ SweepStart \/ Stop \/ LoopCheck
  \/ \E ok \in BOOLEAN : Observe(ok)
  \/ CallMirror
  \/ NextPair \/ PairsCancelled \/ PairsDone
  \/ RsyncStart \/ RsyncNotStarted
  \/ RsyncOK \/ \E worded \in BOOLEAN : RsyncFails(worded)

Environment ==
  \/ \E t \in Trees, x \in Items : Write(t, x) \/ Remove(t, x) \/ LocalWrite(t, x)
  \/ Promote \/ Tick \/ Cancel

Next == Runner \/ Environment

Spec == Init /\ [][Next]_vars

\* The goroutine of Run is scheduled and the ticker fires; a select picks among
\* its ready cases at random, so a case that is ready again and again is taken
\* in the end.  A Reconcile call is assumed to return.
Fairness == WF_vars(Runner) /\ SF_vars(Stop) /\ WF_vars(Tick)

FairSpec == Spec /\ Fairness

-----------------------------------------------------------------------------
\* "a single sweep failure does not abort the others": whatever the results, a
\* sweep that was left to end has called every reconciler once; `sync' does so
\* even past its timeout.
SweepIsComplete ==
  (pc = "select" /\ ~ cancelled) \/ (pc = "stopped" /\ ~ serve) =>
    \A j \in Steps : ran[j] = 1

\* Shutdown of serve: however the cancellation falls between the check, the
\* call and the select of Run, at most one more reconciler is entered.
OneCallAfterCancel == serve => late <= 1

\* "an exact mirror": a mirroring reconciler that returns OK has brought over
\* all that was on the primary throughout the call and has left nothing that
\* neither side's users had since, in every tree but those whose rsync error
\* fs_storage let pass for its wording; rsync may run beside writes, and a path
\* that failed for another reason is never lost among the ones that did not.
OKMeansMirrored ==
  [][ ~ dryRun /\ pc \in {"pair", "start", "rsync"} /\ pc' = "loop" /\ report' =>
        \A t \in RangeOf(Targets(Rec)) \ forgiven :
          steady[t] \subseteq dst'[t] /\ dst'[t] \subseteq seen[t] ]_vars

\* No reconciler of serve starves: until shutdown each one is called again and
\* again, whatever the others return; and shutdown ends the runner, although the
\* select of Run may take a tick first.
KeepsSweeping ==
  /\ serve => \A j \in Steps : []<>(pc = "call" /\ cur = j) \/ <>cancelled
  /\ cancelled ~> pc = "stopped"

-----------------------------------------------------------------------------
\* "the secondary is now the primary ... You can create projects/issues"
\* (testing-guide.md:232-234), repairs are done "when safe" (runner.go:3): what
\* users wrote on the promoted site is still there after later sweeps.
PromotedWritesSurvive == \A t \in Trees : local[t] \subseteq dst[t]
=============================================================================
