--------------------------- MODULE RegistryProofs ---------------------------
(***************************************************************************)
(* Proofs about one Reconcile call of the registry reconciler, for every   *)
(* number of repositories, page size and change of the registries.         *)
(*                                                                         *)
(* IInv adds to the types: nothing is compared before both catalogs are    *)
(* read and equal (Phases), the repository being compared is neither to do *)
(* nor clean (Current), the clean ones are over and driftRepos counts the  *)
(* others that are (Counted), a report of OK follows a complete comparison *)
(* (Reported), and as long as the registries stand still what was read is  *)
(* what they hold (Still).                                                 *)
(***************************************************************************)
EXTENDS Registry, FiniteSetTheorems, TLAPS

Listing == pc \in {"listPrimary", "listSecondary"}
Comparing == pc \in {"tagsPrimary", "tagsSecondary"}

Phases ==
  /\ Listing => sSet = {} /\ todo = {} /\ clean = {} /\ driftRepos = 0
  /\ pc = "listPrimary" => pSet = {}
  /\ pc = "pick" \/ Comparing => pSet = sSet

Current == Comparing => cur \in pSet \ (todo \cup clean)

Counted ==
  /\ clean \subseteq Compared
  /\ driftRepos = Cardinality(Compared \ clean)

Reported ==
  pc = "done" /\ result.ok /\ ~ result.skipped => pSet = sSet /\ clean = pSet

Still ==
  changes = 0 =>
    /\ pc = "listSecondary" => pSet = Catalog("primary")
    /\ pc = "pick" \/ Comparing \/ (pc = "done" /\ result.ok /\ ~ result.skipped) =>
         pSet = Catalog("primary") /\ sSet = Catalog("secondary")
    /\ pc = "tagsSecondary" => pTags = repo["primary"][cur]
    /\ \A r \in clean : repo["primary"][r] = repo["secondary"][r]

IInv == TypeOK /\ Phases /\ Current /\ Counted /\ Reported /\ Still

-----------------------------------------------------------------------------
\* A set of repositories is finite and no larger than all of them.
LEMMA RepoSets ==
  ASSUME NEW S \in SUBSET Repos
  PROVE  IsFiniteSet(S) /\ Cardinality(S) \in 0..NRepos
<1>1. IsFiniteSet(Repos) /\ Cardinality(Repos) = NRepos
  BY FS_Interval, RegistryAssumption DEF Repos
<1> QED
  BY <1>1, FS_Subset, FS_CardinalityType, RegistryAssumption

\* A page of the catalog lists repositories, and all of those of a site that has
\* no more than the page holds.
LEMMA CatalogOf ==
  ASSUME TypeOK, NEW s \in Sites
  PROVE  /\ Catalog(s) \in SUBSET Repos
         /\ Cardinality(has[s]) <= CatalogMax => Catalog(s) = has[s]
<1>1. has[s] \in SUBSET Repos
  BY DEF TypeOK
<1>2. IsFiniteSet(has[s]) /\ Cardinality(has[s]) \in Nat
  BY <1>1, RepoSets
<1>3. ASSUME Cardinality(has[s]) <= CatalogMax, NEW r \in has[s]
      PROVE  Cardinality({q \in has[s] : q < r}) < CatalogMax
  <2> DEFINE before == {q \in has[s] : q < r}
  <2>1. before \in SUBSET has[s] /\ r \notin before
    BY <1>1, RegistryAssumption DEF Repos
  <2>2. Cardinality(before) <= Cardinality(has[s]) /\ Cardinality(before) # Cardinality(has[s])
    BY <1>2, <2>1, FS_Subset
  <2>3. Cardinality(before) \in Nat
    BY <1>1, <2>1, RepoSets
  <2> QED
    BY <1>2, <1>3, <2>2, <2>3, RegistryAssumption
<1> QED
  BY <1>1, <1>3 DEF Catalog

\* What a step does to the comparison: nothing, or it ends that of the current
\* repository, which becomes clean or is counted as drift.
Judges ==
  /\ Comparing
  /\ cur \in Repos /\ cur \notin Compared /\ cur \notin clean
  /\ Compared' = Compared \cup {cur}
  /\ \/ clean' = clean \cup {cur} /\ driftRepos' = driftRepos
     \/ clean' = clean /\ driftRepos' = driftRepos + 1

LEMMA ComparedMoves ==
  TypeOK /\ Phases /\ Current /\ [Next]_vars =>
    \/ Compared' = Compared /\ UNCHANGED <<clean, driftRepos>>
    \/ Judges /\ UNCHANGED <<todo, pSet, sSet, result>> /\ pc' # "done"
<1> SUFFICES ASSUME TypeOK, Phases, Current, [Next]_vars
             PROVE  \/ Compared' = Compared /\ UNCHANGED <<clean, driftRepos>>
                    \/ Judges /\ UNCHANGED <<todo, pSet, sSet, result>> /\ pc' # "done"
  OBVIOUS
<1> USE DEF Compared, Comparing, Listing, Phases
<1>1. CASE ListPrimary
  BY <1>1, "listSecondary" # "pick" DEF ListPrimary, ListSite
<1>2. CASE ListSecondary
  BY <1>2 DEF ListSecondary, ListSite, ListDrift, Gives
<1>3. ASSUME NEW s \in Sites, ListAuth(s) \/ ListFails(s)
      PROVE  Compared' = Compared /\ UNCHANGED <<clean, driftRepos>>
  BY <1>3 DEF ListAuth, ListFails, ListSite, Gives
<1>4. ASSUME NEW r \in Repos, Pick(r)
      PROVE  Compared' = Compared /\ UNCHANGED <<clean, driftRepos>>
  BY <1>4 DEF Pick
<1>5. CASE TagsPrimary \/ Report
  BY <1>5 DEF TagsPrimary, Report, Gives
<1>6. CASE TagsSecondary \/ TagsFail
  <2>1. Comparing /\ cur \in pSet \ (todo \cup clean) /\ pSet = sSet /\ cur \in Repos
    BY <1>6 DEF TagsSecondary, TagsFail, Current, TypeOK
  <2>2. pc' = "pick" /\ UNCHANGED <<todo, pSet, sSet, result>>
    BY <1>6 DEF TagsSecondary, TagsFail
  <2>3. Compared' = Compared \cup {cur} /\ cur \notin Compared
    BY <2>1, <2>2
  <2>4. \/ clean' = clean \cup {cur} /\ driftRepos' = driftRepos
        \/ clean' = clean /\ driftRepos' = driftRepos + 1
    BY <1>6 DEF TagsSecondary, TagsFail
  <2> QED
    BY <2>1, <2>2, <2>3, <2>4 DEF Judges
<1>7. ASSUME NEW s \in Sites, NEW r \in Repos, NEW T \in SUBSET Tags, SiteChanges(s, r, T)
      PROVE  Compared' = Compared /\ UNCHANGED <<clean, driftRepos>>
  BY <1>7 DEF SiteChanges
<1>8. CASE UNCHANGED vars
  BY <1>8 DEF vars
<1> QED
  BY <1>1, <1>2, <1>3, <1>4, <1>5, <1>6, <1>7, <1>8 DEF Next

\* Each repository is counted once, as drift or as clean, when its comparison is
\* over.
LEMMA CountStep == TypeOK /\ Phases /\ Current /\ Counted /\ [Next]_vars => Counted'
<1> SUFFICES ASSUME TypeOK, Phases, Current, Counted, [Next]_vars PROVE Counted'
  OBVIOUS
<1>1. CASE Compared' = Compared /\ UNCHANGED <<clean, driftRepos>>
  BY <1>1 DEF Counted
<1>2. CASE Judges
  <2>1. IsFiniteSet(Compared \ clean) /\ Cardinality(Compared \ clean) \in Nat
    BY RepoSets DEF Compared, TypeOK
  <2>2. CASE clean' = clean \cup {cur} /\ driftRepos' = driftRepos
    <3>1. Compared' \ clean' = Compared \ clean
      BY <1>2, <2>2 DEF Judges
    <3> QED
      BY <1>2, <2>2, <3>1 DEF Judges, Counted
  <2>3. CASE clean' = clean /\ driftRepos' = driftRepos + 1
    <3>1. Compared' \ clean' = (Compared \ clean) \cup {cur} /\ cur \notin Compared \ clean
      BY <1>2, <2>3 DEF Judges
    <3>2. Cardinality((Compared \ clean) \cup {cur}) = Cardinality(Compared \ clean) + 1
      BY <2>1, <3>1, FS_AddElement
    <3> QED
      BY <1>2, <2>3, <3>1, <3>2 DEF Judges, Counted
  <2> QED
    BY <1>2, <2>2, <2>3 DEF Judges
<1> QED
  BY <1>1, <1>2, ComparedMoves

\* What can be reported is a result: the drift of two catalogs is no larger than
\* all repositories.
LEMMA Results ==
  /\ \A ok \in BOOLEAN, k \in 0..(2 * NRepos + 1), sk \in BOOLEAN :
       [ok |-> ok, remaining |-> k, skipped |-> sk]
         \in [ok : BOOLEAN, remaining : 0..(2 * NRepos + 1), skipped : BOOLEAN]
  /\ 0..NRepos \subseteq 0..(2 * NRepos + 1) /\ {0, 1} \subseteq 0..(2 * NRepos + 1)
  BY RegistryAssumption

\* Typing is preserved; driftRepos stays within the repositories because each is
\* counted at most once.
LEMMA TypeStep ==
  TypeOK /\ Phases /\ Current /\ Counted /\ [Next]_vars => TypeOK'
<1> SUFFICES ASSUME TypeOK, Phases, Current, Counted, [Next]_vars PROVE TypeOK'
  OBVIOUS
<1> USE DEF TypeOK
<1> DEFINE Result == [ok : BOOLEAN, remaining : 0..(2 * NRepos + 1), skipped : BOOLEAN]
<1> HIDE DEF Result
<1>1. ASSUME pSet' \subseteq Repos PROVE driftRepos' \in 0..NRepos
  <2>1. (Compared \ clean)' \in SUBSET Repos
    BY <1>1 DEF Compared
  <2>2. Counted'
    BY CountStep
  <2> QED
    BY <2>1, <2>2, RepoSets DEF Counted
<1>2. CASE ListPrimary
  BY <1>2, CatalogOf DEF ListPrimary, ListSite, Sites, Phases, Listing, siteVars
<1>3. CASE ListSecondary
  <2>1. sSet' \subseteq Repos /\ ListDrift(pSet, sSet') \in SUBSET Repos
    BY <1>3, CatalogOf DEF ListSecondary, ListDrift, Sites
  <2>2. \/ pc' = "pick" /\ todo' = pSet /\ UNCHANGED result
        \/ /\ pc' = "done" /\ UNCHANGED todo
           /\ result' = Verdict(FALSE, Cardinality(ListDrift(pSet, sSet')))
    BY <1>3 DEF ListSecondary, Gives
  <2>3. result' \in Result
    BY <2>1, <2>2, RepoSets, Results DEF Verdict, Result
  <2> QED
    BY <1>3, <2>1, <2>2, <2>3 DEF ListSecondary, siteVars, Result
<1>4. ASSUME NEW s \in Sites, ListAuth(s) \/ ListFails(s) PROVE TypeOK'
  <2>1. result' \in Result /\ pc' = "done"
    BY <1>4, Results DEF ListAuth, ListFails, Gives, Verdict, Skipped, Result
  <2> QED
    BY <1>4, <2>1 DEF ListAuth, ListFails, siteVars, Result
<1>5. ASSUME NEW r \in Repos, Pick(r) PROVE TypeOK'
  BY <1>5 DEF Pick, siteVars
<1>6. CASE TagsPrimary
  <2>1. cur \in Repos
    BY <1>6 DEF TagsPrimary, Current, Comparing
  <2> QED
    BY <1>6, <2>1 DEF TagsPrimary, siteVars, Sites
<1>7. CASE TagsSecondary \/ TagsFail
  <2>1. cur \in pSet
    BY <1>7 DEF TagsSecondary, TagsFail, Current, Comparing
  <2>2. UNCHANGED <<siteVars, pSet, sSet, todo, cur, pTags, result>> /\ pc' = "pick"
    BY <1>7 DEF TagsSecondary, TagsFail
  <2>3. clean' \subseteq pSet
    BY <1>7, <2>1 DEF TagsSecondary, TagsFail
  <2>4. driftRepos' \in 0..NRepos
    BY <1>1, <2>2
  <2> QED
    BY <2>2, <2>3, <2>4 DEF siteVars
<1>8. CASE Report
  <2>1. result' \in Result /\ pc' = "done"
    BY <1>8, Results DEF Report, Gives, Verdict, Result
  <2> QED
    BY <1>8, <2>1 DEF Report, siteVars, Result
<1>9. ASSUME NEW s \in Sites, NEW r \in Repos, NEW T \in SUBSET Tags, SiteChanges(s, r, T)
      PROVE  TypeOK'
  <2>1. changes' \in 0..MaxChange
    BY <1>9, RegistryAssumption DEF SiteChanges
  <2>2. has' \in [Sites -> SUBSET Repos] /\ repo' \in [Sites -> [Repos -> SUBSET Tags]]
    <3>1. has[s] \cup {r} \in SUBSET Repos /\ has[s] \ {r} \in SUBSET Repos
      BY <1>9
    <3>2. has' \in [Sites -> SUBSET Repos]
      BY <1>9, <3>1 DEF SiteChanges
    <3>3. [repo[s] EXCEPT ![r] = T] \in [Repos -> SUBSET Tags]
      BY <1>9
    <3>4. repo' = repo \/ repo' = [repo EXCEPT ![s] = [repo[s] EXCEPT ![r] = T]]
      BY <1>9 DEF SiteChanges
    <3> QED
      BY <3>2, <3>3, <3>4
  <2> QED
    BY <1>9, <2>1, <2>2 DEF SiteChanges
<1>10. CASE UNCHANGED vars
  BY <1>10 DEF vars
<1> QED
  BY <1>2, <1>3, <1>4, <1>5, <1>6, <1>7, <1>8, <1>9, <1>10 DEF Next

\* The order of Reconcile: both catalogs, their comparison, then the repositories
\* one by one, each taken once.
LEMMA PhaseStep ==
  TypeOK /\ Phases /\ Current /\ Counted /\ [Next]_vars => Phases' /\ Current'
<1> SUFFICES ASSUME TypeOK, Phases, Current, Counted, [Next]_vars
             PROVE  Phases' /\ Current'
  OBVIOUS
<1> USE DEF Phases, Current, Listing, Comparing
<1>1. CASE ListPrimary
  BY <1>1 DEF ListPrimary, ListSite
<1>2. CASE ListSecondary
  BY <1>2 DEF ListSecondary, ListSite, ListDrift, Gives
<1>3. ASSUME NEW s \in Sites, ListAuth(s) \/ ListFails(s) PROVE Phases' /\ Current'
  BY <1>3 DEF ListAuth, ListFails, ListSite, Gives
<1>4. ASSUME NEW r \in Repos, Pick(r) PROVE Phases' /\ Current'
  <2>1. pSet = sSet /\ r \in todo /\ r \notin clean /\ todo \subseteq pSet
    BY <1>4 DEF Pick, Counted, Compared, TypeOK
  <2> QED
    BY <1>4, <2>1 DEF Pick
<1>5. CASE TagsPrimary \/ TagsSecondary \/ TagsFail \/ Report
  BY <1>5 DEF TagsPrimary, TagsSecondary, TagsFail, Report, Gives
<1>6. ASSUME NEW s \in Sites, NEW r \in Repos, NEW T \in SUBSET Tags, SiteChanges(s, r, T)
      PROVE  Phases' /\ Current'
  BY <1>6 DEF SiteChanges
<1>7. CASE UNCHANGED vars
  BY <1>7 DEF vars
<1> QED
  BY <1>1, <1>2, <1>3, <1>4, <1>5, <1>6, <1>7 DEF Next

\* What a step does to the answer: it leaves it alone, or gives it once - that
\* nothing could be read, that the catalogs differ, or the count of drift.
LEMMA AnswerMoves ==
  TypeOK /\ [Next]_vars =>
    \/ UNCHANGED <<pc, result>>
    \/ pc # "done" /\ pc' # "done" /\ UNCHANGED result
    \/ /\ Listing /\ pc' = "done" /\ UNCHANGED clean
       /\ \/ result' = Skipped
          \/ \E k \in 1..(2 * NRepos + 1) : result' = Verdict(FALSE, k)
    \/ Report
<1> SUFFICES ASSUME TypeOK, [Next]_vars, ~ Report
             PROVE  \/ UNCHANGED <<pc, result>>
                    \/ pc # "done" /\ pc' # "done" /\ UNCHANGED result
                    \/ /\ Listing /\ pc' = "done" /\ UNCHANGED clean
                       /\ \/ result' = Skipped
                          \/ \E k \in 1..(2 * NRepos + 1) : result' = Verdict(FALSE, k)
  OBVIOUS
<1>1. CASE ListPrimary
  BY <1>1 DEF ListPrimary, ListSite
<1>2. CASE ListSecondary
  <2> DEFINE drift == ListDrift(pSet, sSet')
  <2>1. CASE drift = {}
    BY <1>2, <2>1 DEF ListSecondary, ListSite
  <2>2. CASE drift # {}
    <3>1. drift \in SUBSET Repos
      BY <1>2, CatalogOf DEF ListSecondary, ListDrift, Sites, TypeOK
    <3>2. Cardinality(drift) \in 1..(2 * NRepos + 1)
      BY <2>2, <3>1, RepoSets, FS_EmptySet, RegistryAssumption
    <3> QED
      BY <1>2, <2>2, <3>2 DEF ListSecondary, ListSite, Gives, Listing
  <2> QED
    BY <2>1, <2>2
<1>3. ASSUME NEW s \in Sites, ListAuth(s) \/ ListFails(s)
      PROVE  /\ Listing /\ pc' = "done" /\ UNCHANGED clean
             /\ \/ result' = Skipped
                \/ \E k \in 1..(2 * NRepos + 1) : result' = Verdict(FALSE, k)
  <2>1. 1 \in 1..(2 * NRepos + 1)
    BY RegistryAssumption
  <2> QED
    BY <1>3, <2>1 DEF ListAuth, ListFails, ListSite, Gives, Listing, Sites
<1>4. ASSUME NEW r \in Repos, Pick(r) PROVE pc # "done" /\ pc' # "done" /\ UNCHANGED result
  BY <1>4 DEF Pick
<1>5. CASE TagsPrimary \/ TagsSecondary \/ TagsFail
  BY <1>5 DEF TagsPrimary, TagsSecondary, TagsFail
<1>6. ASSUME NEW s \in Sites, NEW r \in Repos, NEW T \in SUBSET Tags, SiteChanges(s, r, T)
      PROVE  UNCHANGED <<pc, result>>
  BY <1>6 DEF SiteChanges
<1>7. CASE UNCHANGED vars
  BY <1>7 DEF vars
<1> QED
  BY <1>1, <1>2, <1>3, <1>4, <1>5, <1>6, <1>7 DEF Next

\* OK is reported only by the end of the deep check, when each repository was
\* compared and none counted.
LEMMA ReportStep ==
  TypeOK /\ Phases /\ Counted /\ Reported /\ [Next]_vars => Reported'
<1> SUFFICES ASSUME TypeOK, Phases, Counted, Reported, [Next]_vars PROVE Reported'
  OBVIOUS
<1>1. CASE Report
  <2>1. /\ pSet = sSet /\ Compared = pSet /\ UNCHANGED <<pSet, sSet, clean>>
        /\ result' = Verdict(driftRepos = 0, driftRepos)
    BY <1>1 DEF Report, Gives, Phases, Compared
  <2>2. driftRepos = 0 => pSet \ clean = {}
    BY <2>1, RepoSets, FS_EmptySet DEF Counted, TypeOK
  <2>3. clean \subseteq pSet
    BY DEF TypeOK
  <2> QED
    BY <2>1, <2>2, <2>3 DEF Reported, Verdict
<1>2. CASE UNCHANGED <<pc, result>>
  <2>1. pc = "done" => UNCHANGED <<pSet, sSet, clean>>
    BY DEF Next, ListPrimary, ListSecondary, ListSite, ListAuth, ListFails, Pick,
         TagsPrimary, TagsSecondary, TagsFail, Report, SiteChanges, vars, Sites
  <2> QED
    BY <1>2, <2>1 DEF Reported
<1> QED
  BY <1>1, <1>2, AnswerMoves DEF Reported, Verdict, Skipped

\* As long as the registries stand still, what Reconcile has read is what they
\* hold.
LEMMA StillStep ==
  TypeOK /\ Phases /\ Current /\ Counted /\ Still /\ [Next]_vars => Still'
<1> SUFFICES ASSUME TypeOK, Phases, Current, Counted, Still, [Next]_vars PROVE Still'
  OBVIOUS
<1> USE DEF Still, Comparing, Catalog
<1>1. CASE ListPrimary
  BY <1>1 DEF ListPrimary, ListSite, siteVars
<1>2. CASE ListSecondary
  BY <1>2 DEF ListSecondary, ListSite, Gives, Verdict, siteVars
<1>3. ASSUME NEW s \in Sites, ListAuth(s) \/ ListFails(s) PROVE Still'
  BY <1>3 DEF ListAuth, ListFails, ListSite, Gives, Verdict, Skipped, siteVars
<1>4. ASSUME NEW r \in Repos, Pick(r) PROVE Still'
  BY <1>4 DEF Pick, siteVars
<1>5. CASE TagsPrimary
  BY <1>5 DEF TagsPrimary, siteVars
<1>6. CASE TagsSecondary
  BY <1>6 DEF TagsSecondary, equalSet, siteVars
<1>7. CASE TagsFail \/ Report
  BY <1>7 DEF TagsFail, Report, Gives, siteVars
<1>8. ASSUME NEW s \in Sites, NEW r \in Repos, NEW T \in SUBSET Tags, SiteChanges(s, r, T)
      PROVE  Still'
  <2>1. changes' # 0
    BY <1>8 DEF SiteChanges, TypeOK
  <2> QED
    BY <2>1
<1>9. CASE UNCHANGED vars
  BY <1>9 DEF vars
<1> QED
  BY <1>1, <1>2, <1>3, <1>4, <1>5, <1>6, <1>7, <1>8, <1>9 DEF Next

\* A call begins with nothing read and nothing counted.
LEMMA InitIInv == Init => IInv
<1> SUFFICES ASSUME Init PROVE IInv
  OBVIOUS
<1>1. TypeOK
  BY Results, RegistryAssumption DEF Init, TypeOK, Verdict
<1>2. Compared = {} /\ Cardinality({}) = 0
  BY FS_EmptySet DEF Init, Compared
<1>3. Phases /\ Current /\ Counted
  BY <1>2 DEF Init, Phases, Current, Counted, Listing, Comparing
<1>4. Reported /\ Still
  BY DEF Init, Reported, Still, Comparing
<1> QED
  BY <1>1, <1>3, <1>4 DEF IInv

\* The inductive invariant holds in every state of every call.
LEMMA Inductive == Spec => []IInv
<1>1. IInv /\ [Next]_vars => IInv'
  BY TypeStep, PhaseStep, CountStep, ReportStep, StillStep DEF IInv
<1> QED
  BY InitIInv, <1>1, PTL DEF Spec

\* The variables of one Reconcile call stay within their types; in particular no
\* repository is counted twice as drift.
THEOREM TypeCorrect == Spec => []TypeOK
  BY Inductive, PTL DEF IInv

\* "in sync" is reported only after the tags of every repository of two equal
\* catalogs were found equal; if nothing changed meanwhile and the catalogs fit a
\* page, the two registries hold the same.
THEOREM OKIsCompared == Spec => []OKMeansAllCompared
<1>1. IInv => OKMeansAllCompared
  <2> SUFFICES ASSUME IInv, pc = "done", result.ok, ~ result.skipped
               PROVE  /\ pSet = sSet /\ clean = pSet
                      /\ changes = 0 /\ (\A s \in Sites : Cardinality(has[s]) <= CatalogMax) =>
                           /\ has["primary"] = has["secondary"]
                           /\ \A r \in has["primary"] :
                                repo["primary"][r] = repo["secondary"][r]
    BY DEF OKMeansAllCompared
  <2>1. pSet = sSet /\ clean = pSet
    BY DEF IInv, Reported
  <2>2. ASSUME changes = 0, \A s \in Sites : Cardinality(has[s]) <= CatalogMax
        PROVE  has["primary"] = pSet /\ has["secondary"] = sSet
    BY <2>2, CatalogOf DEF IInv, Still, Sites
  <2> QED
    BY <2>1, <2>2 DEF IInv, Still
<1> QED
  BY Inductive, <1>1, PTL

Verdicts == [r \in Repos |-> VerdictOf(r)]
Answer == IF pc = "done" THEN <<result.ok, result.remaining>> ELSE <<>>
Listed == IF pSet = sSet THEN pSet ELSE {}

\* The list of what there is to compare is settled by the second catalog, if it
\* agrees with the first, before anything is compared.
LEMMA ListedMoves ==
  TypeOK /\ Phases /\ [Next]_vars =>
    /\ Listing => Listed = {}
    /\ \/ UNCHANGED Listed
       \/ /\ Listing /\ pc' = "pick" /\ Listed' \in SUBSET Repos
          /\ UNCHANGED <<result, clean, driftRepos>>
<1> SUFFICES ASSUME TypeOK, Phases, [Next]_vars
             PROVE  /\ Listing => Listed = {}
                    /\ \/ UNCHANGED Listed
                       \/ /\ Listing /\ pc' = "pick" /\ Listed' \in SUBSET Repos
                          /\ UNCHANGED <<result, clean, driftRepos>>
  OBVIOUS
<1>1. Listing => Listed = {}
  BY DEF Phases, Listing, Listed
<1>2. CASE ListPrimary
  BY <1>2 DEF ListPrimary, ListSite, Phases, Listing, Listed
<1>3. CASE ListSecondary
  <2>1. Listing /\ pSet' = pSet /\ UNCHANGED <<clean, driftRepos>>
    BY <1>3 DEF ListSecondary, ListSite, Listing
  <2>2. CASE ListDrift(pSet, sSet') = {}
    <3>1. sSet' \in SUBSET Repos /\ pc' = "pick" /\ UNCHANGED result
      BY <1>3, <2>2, CatalogOf DEF ListSecondary, Sites
    <3>2. pSet' = sSet' /\ pSet' \in SUBSET Repos
      BY <2>1, <2>2, <3>1 DEF ListDrift, TypeOK
    <3> QED
      BY <1>1, <2>1, <3>1, <3>2 DEF Listed
  <2>3. CASE ListDrift(pSet, sSet') # {}
    <3>1. pSet' # sSet'
      BY <2>1, <2>3 DEF ListDrift
    <3> QED
      BY <1>1, <2>1, <3>1 DEF Listed
  <2> QED
    BY <1>1, <2>2, <2>3
<1>4. ASSUME NEW s \in Sites, ListAuth(s) \/ ListFails(s) PROVE UNCHANGED <<pSet, sSet>>
  BY <1>4 DEF ListAuth, ListFails
<1>5. ASSUME NEW r \in Repos, Pick(r) PROVE UNCHANGED <<pSet, sSet>>
  BY <1>5 DEF Pick
<1>6. ASSUME TagsPrimary \/ TagsSecondary \/ TagsFail \/ Report PROVE UNCHANGED <<pSet, sSet>>
  BY <1>6 DEF TagsPrimary, TagsSecondary, TagsFail, Report
<1>7. ASSUME NEW s \in Sites, NEW r \in Repos, NEW T \in SUBSET Tags, SiteChanges(s, r, T)
      PROVE  UNCHANGED <<pSet, sSet>>
  BY <1>7 DEF SiteChanges
<1>8. ASSUME UNCHANGED vars PROVE UNCHANGED <<pSet, sSet>>
  BY <1>8 DEF vars
<1> QED
  BY <1>1, <1>2, <1>3, <1>4, <1>5, <1>6, <1>7, <1>8 DEF Next, Listed

\* A Reconcile call implements the promise of Result: each listed repository is
\* judged, once and before the report, which counts exactly the bad ones; a call that
\* cannot begin says that something remains, or that there is nothing to compare.
THEOREM CallImplemented == Spec => ImplementsCall
<1>1. Init => Promise!Init
  BY DEF Init, Promise!Init, VerdictOf, Compared
<1>2. IInv /\ [Next]_vars => [Promise!Next]_(Promise!vars)
  <2> SUFFICES ASSUME IInv, [Next]_vars
               PROVE  [Promise!Next]_<<Listed, Verdicts, FALSE, Answer>>
    BY DEF Promise!vars, Listed, Verdicts, Answer
  <2>1. /\ Promise!Bad = Compared \ clean
        /\ Promise!Cardinality(Compared \ clean) = driftRepos
    <3>1. Promise!Cardinality(Compared \ clean) = Cardinality(Compared \ clean)
      BY Zenon DEF Promise!Cardinality, Cardinality
    <3>2. Compared \subseteq Repos
      BY DEF Compared, IInv, TypeOK
    <3> QED
      BY <3>1, <3>2 DEF Promise!Bad, VerdictOf, IInv, Counted
  <2>2. Compared \ clean = {} <=> driftRepos = 0
    BY RepoSets, FS_EmptySet DEF Compared, IInv, TypeOK, Counted
  <2>3. Listing => \A r \in Repos : Verdicts[r] = "none"
    BY DEF IInv, Phases, Listing, Compared, Verdicts, VerdictOf
  <2>4. CASE Judges /\ UNCHANGED <<todo, pSet, sSet, result>> /\ pc' # "done"
    <3>1. Verdicts[cur] = "none"
      BY <2>4 DEF Judges, Verdicts, VerdictOf
    <3>2. \/ Verdicts' = [Verdicts EXCEPT ![cur] = "good"]
          \/ Verdicts' = [Verdicts EXCEPT ![cur] = "bad"]
      BY <2>4 DEF Judges, Verdicts, VerdictOf
    <3>3. Answer = <<>> /\ Answer' = <<>>
      BY <2>4 DEF Answer, Judges, Comparing
    <3>4. cur \in Listed /\ UNCHANGED Listed
      BY <2>4 DEF Judges, IInv, Phases, Current, Listed
    <3>5. Promise!Judge(cur)
      BY <3>1, <3>2, <3>3, <3>4 DEF Promise!Judge, Verdicts, Answer, Listed
    <3> QED
      BY <3>4, <3>5 DEF Promise!Next, Listed
  <2>5. CASE Compared' = Compared /\ UNCHANGED <<clean, driftRepos>>
    <3>1. UNCHANGED Verdicts
      BY <2>5 DEF Verdicts, VerdictOf
    <3>2. CASE UNCHANGED <<Listed, Answer>>
      BY <3>1, <3>2
    <3>3. CASE /\ Listing /\ pc' = "pick" /\ Listed' \in SUBSET Repos
               /\ UNCHANGED <<result, clean, driftRepos>>
      <4>1. Answer = <<>> /\ Answer' = <<>>
        BY <3>3 DEF Answer, Listing
      <4> QED
        BY <2>3, <3>1, <3>3, <4>1 DEF Promise!Next, Promise!List, Verdicts, Answer, Listed
    <3>4. CASE Listing /\ UNCHANGED Listed /\ Answer = <<>> /\ Answer' = <<TRUE, 0>>
      <4>1. Compared = {} /\ driftRepos = 0
        BY <3>4 DEF IInv, Phases, Listing, Compared
      <4>2. Promise!Unjudged = {}
        BY <3>4, ListedMoves DEF Promise!Unjudged, Listed, IInv
      <4>3. Promise!Return
        BY <2>1, <2>2, <3>1, <3>4, <4>1, <4>2 DEF Promise!Return, Verdicts, Answer, Listed
      <4> QED
        BY <4>3 DEF Promise!Next
    <3>5. ASSUME Listing, UNCHANGED Listed, Answer = <<>>, NEW k \in 1..(2 * NRepos + 1),
                 Answer' = <<FALSE, k>>
          PROVE  Promise!GiveUp
      <4>1. \A r \in Repos : Verdicts[r] = "none"
        BY <2>3, <3>5
      <4>2. Promise!Cardinality(Repos) = NRepos
        <5>1. Promise!Cardinality(Repos) = Cardinality(Repos)
          BY Zenon DEF Promise!Cardinality, Cardinality
        <5> QED
          BY <5>1, FS_Interval, RegistryAssumption DEF Repos
      <4>3. k \in 1..(1 + 2 * Promise!Cardinality(Repos))
        BY <3>5, <4>2, RegistryAssumption
      <4> QED
        BY <3>1, <3>5, <4>1, <4>3 DEF Promise!GiveUp, Verdicts, Answer, Listed
    <3>6. CASE Report
      <4>1. Answer = <<>> /\ Answer' = <<driftRepos = 0, driftRepos>>
        BY <3>6 DEF Report, Gives, Verdict, Answer
      <4>2. Compared = pSet /\ Listed = pSet /\ pSet \subseteq Repos /\ UNCHANGED Listed
        BY <3>6 DEF Report, IInv, Phases, Compared, Listed, TypeOK
      <4>3. Promise!Unjudged = {}
        BY <4>2 DEF Promise!Unjudged, VerdictOf, Listed
      <4>4. Promise!Return
        BY <2>1, <2>2, <3>1, <4>1, <4>2, <4>3 DEF Promise!Return, Verdicts, Answer, Listed
      <4> QED
        BY <4>4 DEF Promise!Next
    <3> QED
      <4>1. TypeOK
        BY DEF IInv
      <4>2. CASE \/ UNCHANGED <<pc, result>>
                 \/ pc # "done" /\ pc' # "done" /\ UNCHANGED result
        BY <3>2, <3>3, <4>2, <4>1, ListedMoves DEF Answer, IInv
      <4>3. CASE Listing /\ pc' = "done" /\ result' = Skipped
        BY <3>4, <4>3, <4>1, ListedMoves DEF Answer, Listing, Skipped, IInv
      <4>4. ASSUME Listing, pc' = "done",
                   NEW k \in 1..(2 * NRepos + 1), result' = Verdict(FALSE, k)
            PROVE  Promise!Next
        <5>1. Answer = <<>> /\ Answer' = <<FALSE, k>>
          BY <4>4 DEF Answer, Listing, Verdict
        <5>2. UNCHANGED Listed
          BY <4>4, <4>1, ListedMoves DEF IInv
        <5> QED
          BY <3>5, <4>4, <5>1, <5>2 DEF Promise!Next
      <4>5. CASE Listing /\ pc' = "done"
                   /\ \E k \in 1..(2 * NRepos + 1) : result' = Verdict(FALSE, k)
        BY <4>4, <4>5
      <4> QED
        BY <3>6, <4>2, <4>3, <4>5, <4>1, AnswerMoves
  <2> QED
    BY <2>4, <2>5, ComparedMoves DEF IInv
<1> QED
  BY <1>1, <1>2, Inductive, PTL DEF Spec, ImplementsCall, Promise!Spec
=============================================================================
