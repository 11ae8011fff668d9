------------------------------ MODULE Registry ------------------------------
(***************************************************************************)
(* One Reconcile call of the registry reconciler: the catalogs of the two  *)
(* sites, then, if they agree, the tag lists of each repository.  Images   *)
(* are pushed and replicated while the call goes through its requests.     *)
(***************************************************************************)
EXTENDS Naturals, FiniteSets

CONSTANTS
  NRepos,     \* bound: repositories, numbered in catalog order
  Tags,
  CatalogMax, \* the n of /_catalog?n=, 1000 in the code
  MaxChange   \* bound: changes of the registries during the call

ASSUME RegistryAssumption ==
  /\ NRepos \in Nat /\ CatalogMax \in Nat /\ MaxChange \in Nat

Repos == 1..NRepos
Sites == {"primary", "secondary"}

VARIABLES
  pc,         \* of Reconcile
  has,        \* repositories of each site
  repo,       \* their tags; the reconciler reads no digest
  needsAuth,  \* sites that answer 401
  pSet, sSet, \* the catalogs that were read
  todo,       \* repositories of pSet not yet compared
  cur,        \* the one being compared
  pTags,      \* its tags on the primary
  driftRepos,
  result,     \* Result.OK and Result.Remaining; skipped for want of a token
  changes,
  clean       \* auxiliary: repositories whose tag lists were read and equal

vars == <<pc, has, repo, needsAuth, pSet, sSet, todo, cur, pTags, driftRepos, result,
          changes, clean>>
siteVars == <<has, repo, needsAuth, changes>>

Verdict(ok, remaining) == [ok |-> ok, remaining |-> remaining, skipped |-> FALSE]
Skipped == [ok |-> TRUE, remaining |-> 0, skipped |-> TRUE]

TypeOK ==
  /\ pc \in {"listPrimary", "listSecondary", "pick", "tagsPrimary", "tagsSecondary", "done"}
  /\ has \in [Sites -> SUBSET Repos]
  /\ repo \in [Sites -> [Repos -> SUBSET Tags]]
  /\ needsAuth \subseteq Sites
  /\ pSet \subseteq Repos /\ sSet \subseteq Repos
  /\ todo \subseteq pSet /\ clean \subseteq pSet
  /\ cur \in Repos \cup {0}
  /\ pTags \subseteq Tags
  /\ driftRepos \in 0..NRepos
  /\ result \in [ok : BOOLEAN, remaining : 0..(2 * NRepos + 1), skipped : BOOLEAN]
  /\ changes \in 0..MaxChange

Init ==
  /\ pc = "listPrimary"
  /\ has \in [Sites -> SUBSET Repos]
  /\ repo \in [Sites -> [Repos -> SUBSET Tags]]
  /\ needsAuth \in SUBSET Sites
  /\ pSet = {} /\ sSet = {} /\ todo = {} /\ clean = {}
  /\ cur = 0 /\ pTags = {}
  /\ driftRepos = 0
  /\ result = Verdict(FALSE, 0)
  /\ changes = 0

\* The environment: a push, a deletion or replication changes a site.
SiteChanges(s, r, T) ==
  /\ pc # "done" /\ changes < MaxChange
  /\ \/ /\ repo' = [repo EXCEPT ![s][r] = T]
        /\ has' = [has EXCEPT ![s] = @ \cup {r}]
     \/ /\ has' = [has EXCEPT ![s] = @ \ {r}]
        /\ UNCHANGED repo
  /\ changes' = changes + 1
  /\ UNCHANGED <<pc, needsAuth, pSet, sSet, todo, cur, pTags, driftRepos, result, clean>>

Gives(res) ==
  /\ pc' = "done"
  /\ result' = res

-----------------------------------------------------------------------------
\* listRepositories asks for one page.
Catalog(s) == {r \in has[s] : Cardinality({q \in has[s] : q < r}) < CatalogMax}

\* setDiff both ways: missing and extra.
ListDrift(p, s) == (p \ s) \cup (s \ p)

ListSite(s) == pc = IF s = "primary" THEN "listPrimary" ELSE "listSecondary"

ListPrimary ==
  /\ ListSite("primary") /\ "primary" \notin needsAuth
  /\ pSet' = Catalog("primary")
  /\ pc' = "listSecondary"
  /\ UNCHANGED <<siteVars, sSet, todo, cur, pTags, driftRepos, result, clean>>

\* The catalogs differ, or the deep check begins.
ListSecondary ==
  /\ ListSite("secondary") /\ "secondary" \notin needsAuth
  /\ sSet' = Catalog("secondary")
  /\ LET drift == ListDrift(pSet, sSet')
     IN  IF drift = {}
           THEN pc' = "pick" /\ todo' = pSet /\ UNCHANGED result
           ELSE Gives(Verdict(FALSE, Cardinality(drift))) /\ UNCHANGED todo
  /\ UNCHANGED <<siteVars, pSet, cur, pTags, driftRepos, clean>>

ListAuth(s) ==
  /\ ListSite(s) /\ s \in needsAuth
  /\ Gives(Skipped)
  /\ UNCHANGED <<siteVars, pSet, sSet, todo, cur, pTags, driftRepos, clean>>

\* Deliberate fault: nothing remains when nothing could be listed.
ListFailsEmpty(s) ==
  /\ ListSite(s)
  /\ Gives(Verdict(FALSE, 0))
  /\ UNCHANGED <<siteVars, pSet, sSet, todo, cur, pTags, driftRepos, clean>>

ListFails(s) ==
  /\ ListSite(s)
  /\ Gives(Verdict(FALSE, 1))
  /\ UNCHANGED <<siteVars, pSet, sSet, todo, cur, pTags, driftRepos, clean>>

\* The deep check takes the repositories in the order of a Go map.
Pick(r) ==
  /\ pc = "pick" /\ r \in todo
  /\ cur' = r /\ todo' = todo \ {r}
  /\ pc' = "tagsPrimary"
  /\ UNCHANGED <<siteVars, pSet, sSet, pTags, driftRepos, result, clean>>

\* listTags of a repository that is gone meanwhile fails.
TagsPrimary ==
  /\ pc = "tagsPrimary"
  /\ cur \in has["primary"]
  /\ pTags' = repo["primary"][cur]
  /\ pc' = "tagsSecondary"
  /\ UNCHANGED <<siteVars, pSet, sSet, todo, cur, driftRepos, result, clean>>

equalSet(a, b) == a = b

TagsSecondary ==
  /\ pc = "tagsSecondary"
  /\ cur \in has["secondary"]
  /\ IF equalSet(pTags, repo["secondary"][cur])
       THEN clean' = clean \cup {cur} /\ UNCHANGED driftRepos
       ELSE driftRepos' = driftRepos + 1 /\ UNCHANGED clean
  /\ pc' = "pick"
  /\ UNCHANGED <<siteVars, pSet, sSet, todo, cur, pTags, result>>

\* Deliberate fault: a repository whose tags cannot be listed is passed over.
TagsFailSilently ==
  /\ pc \in {"tagsPrimary", "tagsSecondary"}
  /\ pc' = "pick"
  /\ UNCHANGED <<siteVars, pSet, sSet, todo, cur, pTags, driftRepos, result, clean>>

\* Deliberate fault: the repository is tried again and counted again.
TagsFailRequeued ==
  /\ pc \in {"tagsPrimary", "tagsSecondary"}
  /\ driftRepos' = driftRepos + 1
  /\ todo' = todo \cup {cur}
  /\ pc' = "pick"
  /\ UNCHANGED <<siteVars, pSet, sSet, cur, pTags, result, clean>>

TagsFail ==
  /\ pc \in {"tagsPrimary", "tagsSecondary"}
  /\ driftRepos' = driftRepos + 1
  /\ pc' = "pick"
  /\ UNCHANGED <<siteVars, pSet, sSet, todo, cur, pTags, result, clean>>

Report ==
  /\ pc = "pick" /\ todo = {}
  /\ Gives(Verdict(driftRepos = 0, driftRepos))
  /\ UNCHANGED <<siteVars, pSet, sSet, todo, cur, pTags, driftRepos, clean>>

Next ==
  \/ ListPrimary \/ ListSecondary
  \/ \E s \in Sites : ListAuth(s) \/ ListFails(s)
  \/ \E r \in Repos : Pick(r)
  \/ TagsPrimary \/ TagsSecondary \/ TagsFail
  \/ Report
  \/ \E s \in Sites, r \in Repos, T \in SUBSET Tags : SiteChanges(s, r, T)

Spec == Init /\ [][Next]_vars

-----------------------------------------------------------------------------
\* "in sync" is said only after every repository of the primary's catalog was
\* found on both sites and had both of its tag lists read and found equal, in
\* whatever order the map gave them and whatever failed on the way.  If the
\* registries stood still and their catalogs fit a page, they are the same.
OKMeansAllCompared ==
  pc = "done" /\ result.ok /\ ~ result.skipped =>
    /\ pSet = sSet /\ clean = pSet
    /\ changes = 0 /\ (\A s \in Sites : Cardinality(has[s]) <= CatalogMax) =>
         /\ has["primary"] = has["secondary"]
         /\ \A r \in has["primary"] : repo["primary"][r] = repo["secondary"][r]

\* Repositories whose comparison is over: all that were picked but the current.
Compared ==
  IF pSet # sSet THEN {}
  ELSE pSet \ (todo \cup (IF pc \in {"tagsPrimary", "tagsSecondary"} THEN {cur} ELSE {}))

VerdictOf(r) ==
  CASE r \in clean -> "good"
    [] r \in Compared \ clean -> "bad"
    [] OTHER -> "none"

Promise == INSTANCE ReconcileCall WITH
  Units <- Repos,
  units <- IF pSet = sSet THEN pSet ELSE {},
  verdict <- [r \in Repos |-> VerdictOf(r)],
  cancelled <- FALSE,
  result <- IF pc = "done" THEN <<result.ok, result.remaining>> ELSE <<>>

\* The call keeps the promise of reconciler.Result: once the catalogs agree,
\* every repository is judged, and once, whatever fails and in whatever order,
\* the report is OK if none is bad and counts exactly the bad ones, and a call
\* that could not compare says that something remains.
ImplementsCall == Promise!Spec
=============================================================================
