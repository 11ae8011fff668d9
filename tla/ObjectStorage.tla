---------------------------- MODULE ObjectStorage ----------------------------
(***************************************************************************)
(* One Reconcile call of the object_storage reconciler: list the primary   *)
(* bucket, list the replica bucket, each up to three times with backoff,   *)
(* and compare the number of objects and their total size.  A listing is   *)
(* paged, so uploads and the provider's replication go on between pages.   *)
(*                                                                         *)
(* An object is its content; 0 is no object.  Keys are numbered in listing *)
(* order and a page is one key, the finest interleaving there is.          *)
(***************************************************************************)
EXTENDS Naturals, FiniteSets

CONSTANTS
  NKeys,      \* bound: keys of a bucket
  Contents,   \* object contents
  SizeOf,     \* their sizes
  MaxChange   \* bound: changes of the primary bucket

ASSUME ObjectStorageAssumption ==
  /\ NKeys \in Nat /\ MaxChange \in Nat
  /\ Contents \subseteq Nat \ {0}
  /\ SizeOf \in [Contents -> Nat]

Keys == 1..NKeys
Sides == {"primary", "replica"}

\* The arguments that Reconcile gives to Retry.
MaxAttempts == 3

VARIABLES
  pc,         \* of Reconcile and Retry
  side,       \* the bucket being listed
  attempt,    \* of Retry
  cursor,     \* next key of the paginator
  acc,        \* count and totalSize of bucketStats
  stats,      \* what Reconcile has of each bucket
  result,     \* Result.OK and Result.Remaining
  cancelled,  \* the context
  listed,     \* auxiliary: buckets listed to the end
  fails,      \* auxiliary: listings of each bucket that failed
  quiet,      \* auxiliary: no bucket changed since the call began
  bucket,     \* contents
  changes

vars == <<pc, side, attempt, cursor, acc, stats, result, cancelled, listed, fails,
          quiet, bucket, changes>>
callVars == <<pc, side, attempt, cursor, acc, stats, result, listed, fails>>
envVars == <<cancelled, quiet, bucket, changes>>

Zero == [count |-> 0, size |-> 0]
Buckets == [Keys -> Contents \cup {0}]
AllStats == [count : Nat, size : Nat]

TypeOK ==
  /\ pc \in {"attempt", "page", "backoff", "compare", "done"}
  /\ side \in Sides
  /\ attempt \in 1..MaxAttempts
  /\ cursor \in 1..(NKeys + 1)
  /\ acc \in AllStats
  /\ stats \in [Sides -> AllStats]
  /\ result \in [ok : BOOLEAN, remaining : Nat]
  /\ cancelled \in BOOLEAN /\ quiet \in BOOLEAN
  /\ listed \subseteq Sides
  /\ fails \in [Sides -> 0..MaxAttempts]
  /\ bucket \in [Sides -> Buckets]
  /\ changes \in 0..MaxChange

Init ==
  /\ pc = "attempt" /\ side = "primary" /\ attempt = 1
  /\ cursor = 1 /\ acc = Zero
  /\ stats = [s \in Sides |-> Zero]
  /\ result = [ok |-> FALSE, remaining |-> 0]
  /\ cancelled = FALSE /\ quiet = TRUE
  /\ listed = {} /\ fails = [s \in Sides |-> 0]
  /\ bucket \in [Sides -> Buckets]
  /\ changes = 0

(***************************************************************************)
(* The environment: users, the provider's replication, time, the caller.   *)
(***************************************************************************)
\* An upload, or a deletion when c is 0.
Change(k, c) ==
  /\ pc # "done" /\ changes < MaxChange
  /\ bucket["primary"][k] # c
  /\ bucket' = [bucket EXCEPT !["primary"][k] = c]
  /\ changes' = changes + 1
  /\ quiet' = FALSE
  /\ UNCHANGED <<callVars, cancelled>>

Replicate(k) ==
  /\ pc # "done"
  /\ bucket["replica"][k] # bucket["primary"][k]
  /\ bucket' = [bucket EXCEPT !["replica"][k] = bucket["primary"][k]]
  /\ quiet' = FALSE
  /\ UNCHANGED <<callVars, cancelled, changes>>

Cancel ==
  /\ pc # "done" /\ ~ cancelled
  /\ cancelled' = TRUE
  /\ UNCHANGED <<callVars, quiet, bucket, changes>>

(***************************************************************************)
(* Retry around stats                                                      *)
(***************************************************************************)
\* Deliberate fault: the counters of bucketStats outlive a failed listing.
AttemptKeeping ==
  /\ pc = "attempt"
  /\ pc' = "page" /\ cursor' = 1
  /\ UNCHANGED <<side, attempt, acc, stats, result, listed, fails, envVars>>

\* fn: bucketStats starts from zero with a fresh paginator.
Attempt ==
  /\ pc = "attempt"
  /\ pc' = "page" /\ cursor' = 1 /\ acc' = Zero
  /\ UNCHANGED <<side, attempt, stats, result, listed, fails, envVars>>

Page ==
  /\ pc = "page" /\ cursor <= NKeys /\ ~ cancelled
  /\ LET c == bucket[side][cursor]
     IN  acc' = IF c = 0 THEN acc
                ELSE [count |-> acc.count + 1, size |-> acc.size + SizeOf[c]]
  /\ cursor' = cursor + 1
  /\ UNCHANGED <<pc, side, attempt, stats, result, listed, fails, envVars>>

\* fn returned nil: Reconcile goes on to the replica, or to the comparison.
ListOK ==
  /\ pc = "page" /\ cursor > NKeys
  /\ stats' = [stats EXCEPT ![side] = acc]
  /\ listed' = listed \cup {side}
  /\ IF side = "primary"
       THEN pc' = "attempt" /\ side' = "replica" /\ attempt' = 1
       ELSE pc' = "compare" /\ UNCHANGED <<side, attempt>>
  /\ UNCHANGED <<cursor, acc, result, fails, envVars>>

Gives(ok, remaining) ==
  /\ pc' = "done"
  /\ result' = [ok |-> ok, remaining |-> remaining]

\* Deliberate fault: one attempt too few.
ListFailsEarly ==
  /\ pc = "page" /\ cursor <= NKeys
  /\ stats' = [stats EXCEPT ![side] = Zero]
  /\ fails' = [fails EXCEPT ![side] = @ + 1]
  /\ IF attempt + 1 = MaxAttempts THEN Gives(FALSE, 1) ELSE pc' = "backoff" /\ UNCHANGED result
  /\ UNCHANGED <<side, attempt, cursor, acc, listed, envVars>>

\* A page request fails, or the context is done: stats returns 0, 0 and the
\* error.  The last attempt returns the error to Reconcile.
ListFails ==
  /\ pc = "page" /\ cursor <= NKeys
  /\ stats' = [stats EXCEPT ![side] = Zero]
  /\ fails' = [fails EXCEPT ![side] = @ + 1]
  /\ IF attempt = MaxAttempts THEN Gives(FALSE, 1) ELSE pc' = "backoff" /\ UNCHANGED result
  /\ UNCHANGED <<side, attempt, cursor, acc, listed, envVars>>

\* Deliberate fault: the retry counter is not advanced.
BackoffForever ==
  /\ pc = "backoff"
  /\ pc' = "attempt"
  /\ UNCHANGED <<attempt, side, cursor, acc, stats, result, listed, fails, envVars>>

\* time.After(delay)
BackoffOver ==
  /\ pc = "backoff"
  /\ pc' = "attempt" /\ attempt' = attempt + 1
  /\ UNCHANGED <<side, cursor, acc, stats, result, listed, fails, envVars>>

\* ctx.Done(): Retry returns the context's error.
BackoffCancelled ==
  /\ pc = "backoff" /\ cancelled
  /\ Gives(FALSE, 1)
  /\ UNCHANGED <<side, attempt, cursor, acc, stats, listed, fails, envVars>>

\* The distance of two counts.
Delta(a, b) == IF a > b THEN a - b ELSE b - a

Compare ==
  /\ pc = "compare"
  /\ LET p == stats["primary"]
         r == stats["replica"]
     IN  Gives(p = r, Delta(p.count, r.count))
  /\ UNCHANGED <<side, attempt, cursor, acc, stats, listed, fails, envVars>>

Call ==
  \/ Attempt \/ Page \/ ListOK \/ ListFails
  \/ BackoffOver \/ BackoffCancelled
  \/ Compare

Next ==
  \/ Call
  \/ \E k \in Keys : Replicate(k) \/ \E c \in Contents \cup {0} : Change(k, c)
  \/ Cancel

Spec == Init /\ [][Next]_vars

-----------------------------------------------------------------------------
\* Reference: the objects of a bucket and their bytes, each with its key.
Objects(b) == {k \in Keys : b[k] # 0}
Bytes(b) == UNION {{k} \X (1..SizeOf[b[k]]) : k \in Objects(b)}

Count(b) == Cardinality(Objects(b))
Size(b) == Cardinality(Bytes(b))

\* Pages, failed listings and retries notwithstanding: on buckets that did not
\* change during the call the verdict is that of the two totals, and no object
\* is counted twice or left out.
QuietVerdictIsExact ==
  pc = "done" /\ quiet /\ listed = Sides =>
    LET p == bucket["primary"]
        r == bucket["replica"]
    IN  /\ result.ok <=> Count(p) = Count(r) /\ Size(p) = Size(r)
        /\ result.remaining = Delta(Count(p), Count(r))

\* Retry forgives up to two failed listings of a bucket and gives up at the
\* third: unless it was cancelled, a call that saw fewer has listed the bucket;
\* one that could not list a bucket is not OK.
RetryForgives ==
  /\ pc = "done" /\ ~ cancelled =>
       \A s \in Sides : s \in listed \/ \E r \in Sides : fails[r] = MaxAttempts
  /\ pc = "done" /\ result.ok => listed = Sides
=============================================================================
