------------------------- MODULE ObjectStorageProofs -------------------------
(***************************************************************************)
(* Proofs about the object_storage reconciler, for every number of keys,   *)
(* every choice of contents and sizes and every change of the buckets.     *)
(*                                                                         *)
(* IInv adds to the types: which buckets are listed at which point of the  *)
(* call (Phases), that Retry has counted the failures of the bucket it is  *)
(* at (Retries), that on quiet buckets the counters hold the totals of the *)
(* keys before the cursor, and the statistics those of whole buckets       *)
(* (Totalled), and what the result says (Answered).                        *)
(***************************************************************************)
EXTENDS ObjectStorage, FiniteSetTheorems, TLAPS

Listing == pc \in {"attempt", "page", "backoff"}

Phases ==
  /\ Listing => listed = IF side = "primary" THEN {} ELSE {"primary"}
  /\ pc = "compare" => listed = Sides

Retries ==
  /\ pc \in {"attempt", "page"} => fails[side] = attempt - 1
  /\ pc = "backoff" => fails[side] = attempt /\ attempt < MaxAttempts
  /\ Listing /\ side = "primary" => fails["replica"] = 0

\* The objects of a bucket whose keys come before n, and what a listing that got
\* as far as n has counted.
Seen(b, n) == {k \in Objects(b) : k < n}
BytesOf(b, K) == UNION {{k} \X (1..SizeOf[b[k]]) : k \in K}
Totals(b, n) == [count |-> Cardinality(Seen(b, n)), size |-> Cardinality(BytesOf(b, Seen(b, n)))]

Totalled ==
  quiet =>
    /\ pc = "page" =>
         /\ acc = Totals(bucket[side], cursor)
         /\ IsFiniteSet(BytesOf(bucket[side], Seen(bucket[side], cursor)))
    /\ \A s \in listed : stats[s] = Totals(bucket[s], NKeys + 1)

Answered ==
  pc = "done" =>
    /\ listed = Sides =>
         /\ result.ok <=> stats["primary"] = stats["replica"]
         /\ result.remaining = Delta(stats["primary"].count, stats["replica"].count)
    /\ result.ok => listed = Sides
    /\ ~ cancelled => listed = Sides \/ \E s \in Sides : fails[s] = MaxAttempts

IInv == TypeOK /\ Phases /\ Retries /\ Totalled /\ Answered

-----------------------------------------------------------------------------
\* The length of a listing.
LEMMA Cursors ==
  /\ NKeys \in Nat /\ MaxChange \in Nat
  /\ 1 \in 1..(NKeys + 1)
  /\ \A n \in 1..(NKeys + 1) : n <= NKeys => n \in Keys /\ n + 1 \in 1..(NKeys + 1)
  BY ObjectStorageAssumption DEF Keys

LEMMA SeenIsFinite ==
  ASSUME NEW b, NEW n
  PROVE  IsFiniteSet(Seen(b, n)) /\ Cardinality(Seen(b, n)) \in Nat
<1>1. IsFiniteSet(Keys)
  BY FS_Interval, Cursors DEF Keys
<1>2. Seen(b, n) \in SUBSET Keys
  BY DEF Seen, Objects
<1> QED
  BY <1>1, <1>2, FS_Subset, FS_CardinalityType

\* A listing begins with nothing.
LEMMA SeenNothing ==
  ASSUME NEW b
  PROVE  Totals(b, 1) = Zero /\ IsFiniteSet(BytesOf(b, Seen(b, 1)))
<1>1. Seen(b, 1) = {}
  BY DEF Seen, Objects, Keys
<1>2. BytesOf(b, Seen(b, 1)) = {}
  BY <1>1 DEF BytesOf
<1> QED
  BY <1>1, <1>2, FS_EmptySet DEF Totals, Zero

\* One more key adds its object, if there is one, and the bytes of that object,
\* none of which was counted before.
LEMMA SeenOneMore ==
  ASSUME NEW b \in Buckets, NEW n \in Keys, IsFiniteSet(BytesOf(b, Seen(b, n)))
  PROVE  /\ b[n] = 0 => Seen(b, n + 1) = Seen(b, n)
         /\ b[n] # 0 =>
              Totals(b, n + 1) = [count |-> Totals(b, n).count + 1,
                                  size |-> Totals(b, n).size + SizeOf[b[n]]]
         /\ IsFiniteSet(BytesOf(b, Seen(b, n + 1)))
<1> DEFINE Old == BytesOf(b, Seen(b, n))
           New == {n} \X (1..SizeOf[b[n]])
<1>1. n \in Nat /\ \A k \in Keys : k < n + 1 <=> k < n \/ k = n
  BY DEF Keys
<1>2. CASE b[n] = 0
  <2>1. Seen(b, n + 1) = Seen(b, n)
    BY <1>1, <1>2 DEF Seen, Objects
  <2> QED
    BY <1>2, <2>1
<1>3. CASE b[n] # 0
  <2>1. Seen(b, n + 1) = Seen(b, n) \cup {n} /\ n \notin Seen(b, n)
    <3>1. n \in Objects(b) /\ ~ (n < n) /\ Objects(b) \subseteq Keys
      BY <1>1, <1>3 DEF Objects
    <3>2. ASSUME NEW k PROVE k \in Seen(b, n + 1) <=> k \in Seen(b, n) \/ k = n
      BY <1>1, <3>1 DEF Seen
    <3> QED
      BY <3>1, <3>2 DEF Seen
  <2>2. SizeOf[b[n]] \in Nat
    BY <1>3, ObjectStorageAssumption DEF Buckets
  <2>3. BytesOf(b, Seen(b, n + 1)) = Old \cup New
    BY <2>1 DEF BytesOf
  <2>4. Old \cap New = {}
    BY <2>1 DEF BytesOf
  <2>5. IsFiniteSet(New) /\ Cardinality(New) = SizeOf[b[n]]
    <3>1. IsFiniteSet({n}) /\ Cardinality({n}) = 1
      BY FS_Singleton
    <3>2. IsFiniteSet(1..SizeOf[b[n]]) /\ Cardinality(1..SizeOf[b[n]]) = SizeOf[b[n]]
      <4>1. \A m \in Nat : IsFiniteSet(1..m) /\ Cardinality(1..m) = m
        BY FS_Interval
      <4> QED
        BY <2>2, <4>1
    <3>3. IsFiniteSet(New) /\ Cardinality(New) = Cardinality({n}) * Cardinality(1..SizeOf[b[n]])
      BY <3>1, <3>2, FS_Product
    <3> QED
      BY <2>2, <3>1, <3>2, <3>3
  <2>6. /\ IsFiniteSet(Old \cup New)
        /\ Cardinality(Old \cup New) = Cardinality(Old) + SizeOf[b[n]]
    <3>1. Cardinality(Old) \in Nat
      BY FS_CardinalityType
    <3>2. /\ IsFiniteSet(Old \cup New)
          /\ Cardinality(Old \cup New) = Cardinality(Old) + Cardinality(New) - Cardinality({})
      BY <2>4, <2>5, FS_Union
    <3> QED
      BY <2>2, <2>5, <3>1, <3>2, FS_EmptySet
  <2>7. Cardinality(Seen(b, n + 1)) = Cardinality(Seen(b, n)) + 1
    BY <2>1, SeenIsFinite, FS_AddElement
  <2> HIDE DEF Old, New
  <2> QED
    BY <1>3, <2>3, <2>6, <2>7 DEF Totals, Old
<1> QED
  BY <1>2, <1>3

\* A listing that reached the end has seen the bucket.
LEMMA SeenAll ==
  ASSUME NEW b
  PROVE  Totals(b, NKeys + 1) = [count |-> Count(b), size |-> Size(b)]
<1>1. Seen(b, NKeys + 1) = Objects(b)
  BY Cursors DEF Seen, Objects, Keys
<1> QED
  BY <1>1 DEF Totals, Count, Size, Bytes, BytesOf

-----------------------------------------------------------------------------
LEMMA InitIInv == Init => IInv
<1> SUFFICES ASSUME Init PROVE IInv
  OBVIOUS
<1>1. TypeOK
  <2>1. /\ 1 \in 1..(NKeys + 1) /\ 1 \in 1..MaxAttempts /\ 0 \in 0..MaxChange
        /\ 0 \in 0..MaxAttempts /\ Zero \in AllStats
    BY Cursors DEF MaxAttempts, AllStats, Zero
  <2>2. result \in [ok : BOOLEAN, remaining : Nat]
    BY DEF Init
  <2> QED
    BY <2>1, <2>2 DEF Init, TypeOK, Sides
<1>2. Phases /\ Retries /\ Answered
  BY DEF Init, Phases, Retries, Answered, Listing, Sides
<1>3. Totalled
  BY DEF Init, Totalled
<1> QED
  BY <1>1, <1>2, <1>3 DEF IInv

\* A step of users, of the provider or of the caller.
Beside ==
  \/ \E k \in Keys : Replicate(k) \/ \E c \in Contents \cup {0} : Change(k, c)
  \/ Cancel

LEMMA CallSteps ==
  ASSUME Call
  PROVE  UNCHANGED envVars
  BY DEF Call, Attempt, Page, ListOK, ListFails, BackoffOver, BackoffCancelled, Compare

LEMMA OtherSteps ==
  ASSUME Beside \/ UNCHANGED vars
  PROVE  /\ UNCHANGED callVars
         /\ quiet' => UNCHANGED <<quiet, bucket>>
         /\ pc = "done" => UNCHANGED cancelled
<1>1. CASE \E k \in Keys : Replicate(k) \/ \E c \in Contents \cup {0} : Change(k, c)
  BY <1>1 DEF Replicate, Change
<1>2. CASE Cancel
  BY <1>2 DEF Cancel
<1>3. CASE UNCHANGED vars
  BY <1>3 DEF vars, callVars
<1> QED
  BY <1>1, <1>2, <1>3 DEF Beside

LEMMA TypeStep == TypeOK /\ Retries /\ [Next]_vars => TypeOK'
<1> SUFFICES ASSUME TypeOK, Retries, [Next]_vars PROVE TypeOK'
  OBVIOUS
<1> DEFINE EnvOK == /\ cancelled \in BOOLEAN /\ quiet \in BOOLEAN
                    /\ bucket \in [Sides -> Buckets]
                    /\ changes \in 0..MaxChange
           CallOK == /\ pc \in {"attempt", "page", "backoff", "compare", "done"}
                     /\ side \in Sides
                     /\ attempt \in 1..MaxAttempts
                     /\ cursor \in 1..(NKeys + 1)
                     /\ acc \in AllStats
                     /\ stats \in [Sides -> AllStats]
                     /\ result \in [ok : BOOLEAN, remaining : Nat]
                     /\ listed \subseteq Sides
                     /\ fails \in [Sides -> 0..MaxAttempts]
<1>1. EnvOK /\ CallOK
  BY DEF TypeOK
<1>2. EnvOK' /\ CallOK' => TypeOK'
  BY DEF TypeOK
<1>3. CASE Beside \/ UNCHANGED vars
  <2>1. CallOK'
    BY <1>1, <1>3, OtherSteps DEF callVars
  <2>2. ASSUME NEW k \in Keys, NEW c \in Contents \cup {0}, Change(k, c) PROVE EnvOK'
    <3>1. changes' \in 0..MaxChange
      BY <1>1, <2>2, Cursors DEF Change
    <3>2. [bucket["primary"] EXCEPT ![k] = c] \in Buckets
      BY <1>1, <2>2 DEF Buckets, Sides
    <3> QED
      BY <1>1, <2>2, <3>1, <3>2 DEF Change
  <2>3. ASSUME NEW k \in Keys, Replicate(k) PROVE EnvOK'
    <3>1. [bucket["replica"] EXCEPT ![k] = bucket["primary"][k]] \in Buckets
      BY <1>1, <2>3 DEF Buckets, Sides
    <3> QED
      BY <1>1, <2>3, <3>1 DEF Replicate
  <2>4. CASE Cancel
    BY <1>1, <1>2, <2>1, <2>4 DEF Cancel
  <2>5. CASE UNCHANGED vars
    BY <1>1, <1>2, <2>1, <2>5 DEF vars
  <2> HIDE DEF EnvOK, CallOK
  <2> QED
    BY <1>2, <1>3, <2>1, <2>2, <2>3, <2>4, <2>5 DEF Beside
<1>4. ASSUME Call PROVE EnvOK'
  BY <1>1, <1>4, CallSteps DEF envVars
<1>5. ASSUME Attempt PROVE CallOK'
  BY <1>1, <1>5, Cursors DEF Attempt, AllStats, Zero
<1>6. ASSUME Page PROVE CallOK'
  <2>1. cursor \in Keys /\ cursor + 1 \in 1..(NKeys + 1)
    BY <1>1, <1>6, Cursors DEF Page
  <2>2. bucket[side][cursor] # 0 => SizeOf[bucket[side][cursor]] \in Nat
    <3>1. bucket[side] \in Buckets
      BY <1>1
    <3>2. bucket[side][cursor] \in Contents \cup {0}
      BY <2>1, <3>1 DEF Buckets
    <3> QED
      BY <3>2, ObjectStorageAssumption
  <2>3. acc' \in AllStats
    BY <1>1, <1>6, <2>2 DEF Page, AllStats
  <2> QED
    BY <1>1, <1>6, <2>1, <2>3 DEF Page
<1>7. ASSUME ListOK PROVE CallOK'
  BY <1>1, <1>7 DEF ListOK, Sides, MaxAttempts
<1>8. ASSUME ListFails PROVE CallOK'
  <2>1. Zero \in AllStats /\ fails[side] + 1 \in 0..MaxAttempts
    BY <1>1, <1>8 DEF ListFails, Retries, MaxAttempts, Zero, AllStats
  <2>2. pc' \in {"backoff", "done"} /\ result' \in [ok : BOOLEAN, remaining : Nat]
    <3>1. [ok |-> FALSE, remaining |-> 1] \in [ok : BOOLEAN, remaining : Nat]
      OBVIOUS
    <3> QED
      BY <1>1, <1>8, <3>1 DEF ListFails, Gives
  <2> QED
    BY <1>1, <1>8, <2>1, <2>2 DEF ListFails
<1>9. ASSUME BackoffOver PROVE CallOK'
  BY <1>1, <1>9 DEF BackoffOver, Retries, MaxAttempts
<1>10. ASSUME BackoffCancelled PROVE CallOK'
  BY <1>1, <1>10 DEF BackoffCancelled, Gives
<1>11. ASSUME Compare PROVE CallOK'
  <2>1. Delta(stats["primary"].count, stats["replica"].count) \in Nat
    BY <1>1 DEF Delta, AllStats, Sides
  <2>2. (stats["primary"] = stats["replica"]) \in BOOLEAN
    OBVIOUS
  <2>3. result' \in [ok : BOOLEAN, remaining : Nat]
    BY <1>11, <2>1, <2>2 DEF Compare, Gives
  <2> QED
    BY <1>1, <1>11, <2>3 DEF Compare, Gives
<1> HIDE DEF EnvOK, CallOK
<1> QED
  BY <1>2, <1>3, <1>4, <1>5, <1>6, <1>7, <1>8, <1>9, <1>10, <1>11 DEF Next, Call, Beside

LEMMA PhasesStep == TypeOK /\ Phases /\ [Next]_vars => Phases'
<1> SUFFICES ASSUME TypeOK, Phases, [Next]_vars PROVE Phases'
  OBVIOUS
<1>1. CASE Beside \/ UNCHANGED vars
  BY <1>1, OtherSteps DEF callVars, Phases, Listing
<1>2. CASE Attempt \/ Page \/ ListFails \/ BackoffOver \/ BackoffCancelled \/ Compare
  BY <1>2 DEF Attempt, Page, ListFails, BackoffOver, BackoffCancelled, Compare, Gives, Phases,
     Listing
<1>3. CASE ListOK
  BY <1>3 DEF ListOK, Phases, Listing, TypeOK, Sides
<1> QED
  BY <1>1, <1>2, <1>3 DEF Next, Call, Beside

LEMMA RetriesStep == TypeOK /\ Retries /\ [Next]_vars => Retries'
<1> SUFFICES ASSUME TypeOK, Retries, [Next]_vars PROVE Retries'
  OBVIOUS
<1>1. attempt \in 1..3 /\ MaxAttempts = 3 /\ fails \in [Sides -> 0..3] /\ side \in Sides
  BY DEF TypeOK, MaxAttempts
<1>2. CASE Beside \/ UNCHANGED vars
  BY <1>2, OtherSteps DEF callVars, Retries, Listing
<1>3. CASE Attempt \/ Page \/ BackoffCancelled \/ Compare
  BY <1>3 DEF Attempt, Page, BackoffCancelled, Compare, Gives, Retries, Listing
<1>4. CASE ListFails
  <2>1. fails'[side] = attempt /\ (side = "primary" => fails'["replica"] = 0)
    BY <1>1, <1>4 DEF ListFails, Retries, Listing, Sides
  <2> QED
    BY <1>1, <1>4, <2>1 DEF ListFails, Gives, Retries, Listing
<1>5. CASE BackoffOver
  BY <1>1, <1>5 DEF BackoffOver, Retries, Listing
<1>6. CASE ListOK
  BY <1>1, <1>6 DEF ListOK, Retries, Listing, Sides
<1> QED
  BY <1>2, <1>3, <1>4, <1>5, <1>6 DEF Next, Call, Beside

\* Only quiet buckets are kept track of, so a listing meets the same buckets at
\* every page.
LEMMA TotalledStep == TypeOK /\ Phases /\ Totalled /\ [Next]_vars => Totalled'
<1> SUFFICES ASSUME TypeOK, Phases, Totalled, [Next]_vars, quiet'
             PROVE  /\ pc' = "page" =>
                         /\ acc' = Totals(bucket'[side'], cursor')
                         /\ IsFiniteSet(BytesOf(bucket'[side'], Seen(bucket'[side'], cursor')))
                    /\ \A s \in listed' : stats'[s] = Totals(bucket'[s], NKeys + 1)
  BY DEF Totalled
<1>1. quiet /\ UNCHANGED bucket
  <2>1. CASE Call
    BY <2>1, CallSteps DEF envVars
  <2>2. CASE Beside \/ UNCHANGED vars
    BY <2>2, OtherSteps
  <2> QED
    BY <2>1, <2>2 DEF Next, Beside
<1>2. /\ pc = "page" =>
           /\ acc = Totals(bucket[side], cursor)
           /\ IsFiniteSet(BytesOf(bucket[side], Seen(bucket[side], cursor)))
      /\ \A s \in listed : stats[s] = Totals(bucket[s], NKeys + 1)
  BY <1>1 DEF Totalled
<1>3. CASE Beside \/ UNCHANGED vars
  BY <1>1, <1>2, <1>3, OtherSteps DEF callVars
<1>4. CASE Attempt
  <2>1. acc' = Totals(bucket[side], 1) /\ IsFiniteSet(BytesOf(bucket[side], Seen(bucket[side], 1)))
    BY <1>4, SeenNothing DEF Attempt
  <2> QED
    BY <1>1, <1>2, <1>4, <2>1 DEF Attempt
<1>5. CASE Page
  <2>1. cursor \in Keys /\ bucket[side] \in Buckets
    BY <1>5, Cursors DEF Page, TypeOK
  <2>2. /\ acc' = Totals(bucket[side], cursor + 1)
        /\ IsFiniteSet(BytesOf(bucket[side], Seen(bucket[side], cursor + 1)))
    <3>1. IsFiniteSet(BytesOf(bucket[side], Seen(bucket[side], cursor)))
      BY <1>2, <1>5 DEF Page
    <3>2. CASE bucket[side][cursor] = 0
      <4>1. Seen(bucket[side], cursor + 1) = Seen(bucket[side], cursor)
        BY <2>1, <3>1, <3>2, SeenOneMore
      <4> QED
        BY <1>2, <1>5, <3>1, <3>2, <4>1 DEF Page, Totals
    <3>3. CASE bucket[side][cursor] # 0
      <4>1. /\ Totals(bucket[side], cursor + 1) =
                 [count |-> Totals(bucket[side], cursor).count + 1,
                  size |-> Totals(bucket[side], cursor).size + SizeOf[bucket[side][cursor]]]
            /\ IsFiniteSet(BytesOf(bucket[side], Seen(bucket[side], cursor + 1)))
        BY <2>1, <3>1, <3>3, SeenOneMore
      <4> QED
        BY <1>2, <1>5, <3>3, <4>1 DEF Page
    <3> QED
      BY <3>2, <3>3
  <2> QED
    BY <1>1, <1>2, <1>5, <2>2 DEF Page
<1>6. CASE ListOK
  <2>1. cursor = NKeys + 1 /\ side \in Sides
    BY <1>6, Cursors DEF ListOK, TypeOK
  <2>2. stats' = [stats EXCEPT ![side] = Totals(bucket[side], NKeys + 1)]
    BY <1>2, <1>6, <2>1 DEF ListOK
  <2>3. \A s \in listed' : s \in Sides /\ (s \in listed \/ s = side)
    BY <1>6, <2>1 DEF ListOK, TypeOK
  <2>4. \A s \in listed' : stats'[s] = Totals(bucket[s], NKeys + 1)
    BY <1>2, <2>1, <2>2, <2>3 DEF TypeOK
  <2> QED
    BY <1>1, <1>6, <2>4 DEF ListOK
<1>7. CASE ListFails
  <2>1. side \notin listed /\ side \in Sides /\ listed \subseteq Sides
    BY <1>7 DEF ListFails, Phases, Listing, TypeOK, Sides
  <2>2. \A s \in listed : stats'[s] = stats[s]
    BY <1>7, <2>1 DEF ListFails, TypeOK
  <2> QED
    BY <1>1, <1>2, <1>7, <2>2 DEF ListFails, Gives
<1>8. CASE BackoffOver \/ BackoffCancelled \/ Compare
  BY <1>1, <1>2, <1>8 DEF BackoffOver, BackoffCancelled, Compare, Gives
<1> QED
  BY <1>3, <1>4, <1>5, <1>6, <1>7, <1>8 DEF Next, Call, Beside

LEMMA AnsweredStep == TypeOK /\ Phases /\ Retries /\ Answered /\ [Next]_vars => Answered'
<1> SUFFICES ASSUME TypeOK, Phases, Retries, Answered, [Next]_vars, pc' = "done" PROVE Answered'
  BY DEF Answered
<1>1. CASE Beside \/ UNCHANGED vars
  BY <1>1, OtherSteps DEF callVars, Answered
<1>2. CASE Attempt \/ Page \/ ListOK \/ BackoffOver
  BY <1>2 DEF Attempt, Page, ListOK, BackoffOver
<1>3. CASE ListFails
  <2>1. listed # Sides /\ UNCHANGED listed /\ result' = [ok |-> FALSE, remaining |-> 1]
    BY <1>3 DEF ListFails, Gives, Phases, Listing, Sides
  <2>2. attempt = MaxAttempts /\ fails[side] = attempt - 1
    BY <1>3 DEF ListFails, Retries
  <2>3. side \in Sides /\ fails'[side] = fails[side] + 1
    BY <1>3 DEF ListFails, TypeOK
  <2> QED
    BY <2>1, <2>2, <2>3 DEF Answered, MaxAttempts
<1>4. CASE BackoffCancelled
  <2>1. listed # Sides /\ UNCHANGED listed /\ result' = [ok |-> FALSE, remaining |-> 1]
    BY <1>4 DEF BackoffCancelled, Gives, Phases, Listing, Sides
  <2>2. cancelled /\ UNCHANGED cancelled
    BY <1>4, CallSteps DEF Call, BackoffCancelled, envVars
  <2> QED
    BY <2>1, <2>2 DEF Answered
<1>5. CASE Compare
  <2>1. listed' = Sides /\ UNCHANGED stats
    BY <1>5 DEF Compare, Phases
  <2>2. /\ result'.ok <=> stats["primary"] = stats["replica"]
        /\ result'.remaining = Delta(stats["primary"].count, stats["replica"].count)
    BY <1>5 DEF Compare, Gives
  <2> QED
    BY <2>1, <2>2 DEF Answered
<1> QED
  BY <1>1, <1>2, <1>3, <1>4, <1>5 DEF Next, Call, Beside

LEMMA Inductive == Spec => []IInv
<1>1. IInv /\ [Next]_vars => IInv'
  BY TypeStep, PhasesStep, RetriesStep, TotalledStep, AnsweredStep DEF IInv
<1> QED
  BY <1>1, InitIInv, PTL DEF Spec

-----------------------------------------------------------------------------
\* Listing, retrying and comparing keep every variable in its type.
THEOREM TypeCorrect == Spec => []TypeOK
<1>1. IInv => TypeOK
  BY DEF IInv
<1> QED
  BY <1>1, Inductive, PTL

\* Whatever pages failed and however often Retry began again, on buckets that
\* did not change the verdict compares their totals, however many keys they have.
THEOREM VerdictIsExact == Spec => []QuietVerdictIsExact
<1>1. IInv => QuietVerdictIsExact
  <2> SUFFICES ASSUME IInv, pc = "done", quiet, listed = Sides
               PROVE  LET p == bucket["primary"]
                          r == bucket["replica"]
                      IN  /\ result.ok <=> Count(p) = Count(r) /\ Size(p) = Size(r)
                          /\ result.remaining = Delta(Count(p), Count(r))
    BY DEF QuietVerdictIsExact
  <2>1. \A s \in Sides : stats[s] = [count |-> Count(bucket[s]), size |-> Size(bucket[s])]
    BY SeenAll DEF IInv, Totalled
  <2>2. /\ result.ok <=> stats["primary"] = stats["replica"]
        /\ result.remaining = Delta(stats["primary"].count, stats["replica"].count)
    BY DEF IInv, Answered
  <2> QED
    BY <2>1, <2>2 DEF Sides
<1> QED
  BY <1>1, Inductive, PTL

\* Retry gives up on a bucket at the third failure and not before, and what was
\* not listed is never reported to be the same.
THEOREM RetryIsExact == Spec => []RetryForgives
<1>1. IInv => RetryForgives
  BY DEF IInv, Answered, RetryForgives
<1> QED
  BY <1>1, Inductive, PTL
=============================================================================
