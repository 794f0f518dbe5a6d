----------------------------- MODULE RateLimiter -----------------------------
(***************************************************************************)
(* Per-identity rate limiting (proxy/src/resilience/ratelimit.rs): a table *)
(* from identities to token buckets, in a cache of bounded size.           *)
(*                                                                         *)
(* RateLimiter::check takes a bucket out of the table, making one if there *)
(* is none, and then draws on it.  In between the table may drop the       *)
(* bucket: the request keeps its Arc, and the next request of the same     *)
(* identity gets a new, full bucket.  The cache (moka) drops entries some  *)
(* time after it has grown beyond its capacity, of its own choosing; the   *)
(* bucket (governor) holds at most the burst and refills at a fixed rate.  *)
(***************************************************************************)
EXTENDS Naturals, FiniteSets

CONSTANTS
    Tasks,          \* concurrent requests
    Identities,     \* workload identities
    Buckets,        \* names for bucket objects, enough for all that are reachable
    NoBucket, NoOne,
    per_second,     \* RateLimitConfig::per_second, per unit of the model's time
    burst,          \* RateLimitConfig::burst
    max_identities, \* RateLimitConfig::max_identities
    Modulus,        \* the counters are AtomicU64 and wrap; 2^64 in the code
    MaxEvictions    \* bound: how often each identity's bucket is dropped

VARIABLES
    table,     \* RateLimiter::buckets
    level,     \* the tokens left in each bucket
    held,      \* the bucket that a request has taken out of the table
    user,      \* the identity that a request is checked for
    verdict,   \* what check has returned
    counts,    \* RateLimiter::allowed and rejected
    debt,      \* auxiliary: requests let through per identity, less the refill
    evicted    \* auxiliary: how often the bucket of an identity was dropped

limiterVars == <<table, level, held, user, verdict, counts, debt, evicted>>

\* What the theorems assume of the configuration: nothing but types.
Configured ==
    /\ IsFiniteSet(Tasks)
    /\ per_second \in Nat /\ burst \in Nat /\ max_identities \in Nat
    /\ MaxEvictions \in Nat /\ Modulus \in Nat \ {0}
    /\ NoBucket \notin Buckets /\ NoOne \notin Identities

\* RateLimiter::new: a configured zero is taken for one.
AtLeastOne(n) == IF n = 0 THEN 1 ELSE n
Cells == AtLeastOne(burst)
Rate  == AtLeastOne(per_second)

Tracked == {i \in Identities : table[i] # NoBucket}

\* A bucket that nobody refers to has been dropped, and its name is free.
Reachable == {table[i] : i \in Identities} \cup {held[t] : t \in Tasks}

Init ==
    /\ table = [i \in Identities |-> NoBucket]
    /\ level = [b \in Buckets |-> Cells]
    /\ held = [t \in Tasks |-> NoBucket]
    /\ user = [t \in Tasks |-> NoOne]
    /\ verdict = [t \in Tasks |-> "none"]
    /\ counts = [allowed |-> 0, rejected |-> 0]
    /\ debt = [i \in Identities |-> 0]
    /\ evicted = [i \in Identities |-> 0]

-----------------------------------------------------------------------------
(* RateLimiter::check. *)

\* Mutant: the table is asked for any bucket, whoever's it is.
Get_AnyBucket(t, i) ==
    /\ held[t] = NoBucket /\ verdict[t] = "none"
    /\ \E b \in Buckets :
          /\ held' = [held EXCEPT ![t] = b]
          /\ table' = [table EXCEPT ![i] = b]
          /\ UNCHANGED level
    /\ user' = [user EXCEPT ![t] = i]
    /\ UNCHANGED <<verdict, counts, debt, evicted>>

\* get_with_by_ref: the bucket of the identity, made full if there is none.
Get(t, i) ==
    /\ held[t] = NoBucket /\ verdict[t] = "none"
    /\ \/ /\ table[i] # NoBucket
          /\ held' = [held EXCEPT ![t] = table[i]]
          /\ UNCHANGED <<table, level>>
       \/ /\ table[i] = NoBucket
          /\ \E b \in Buckets \ Reachable :
                /\ table' = [table EXCEPT ![i] = b]
                /\ held' = [held EXCEPT ![t] = b]
                /\ level' = [level EXCEPT ![b] = Cells]
    /\ user' = [user EXCEPT ![t] = i]
    /\ UNCHANGED <<verdict, counts, debt, evicted>>

Answer(t, v) ==
    /\ verdict' = [verdict EXCEPT ![t] = v]
    /\ counts' = [counts EXCEPT ![v] = (@ + 1) % Modulus]

\* Mutant: an empty bucket still lets requests through.
Check_NeverEmpty(t) ==
    LET b == held[t] IN
    /\ b # NoBucket
    /\ held' = [held EXCEPT ![t] = NoBucket]
    /\ Answer(t, "allowed")
    /\ level' = [level EXCEPT ![b] = IF @ = 0 THEN 0 ELSE @ - 1]
    /\ debt' = [debt EXCEPT ![user[t]] = @ + 1]
    /\ UNCHANGED <<table, user, evicted>>

\* limiter.check(), on the bucket that the request holds.
Check(t) ==
    LET b == held[t] IN
    /\ b # NoBucket
    /\ held' = [held EXCEPT ![t] = NoBucket]
    /\ \/ /\ level[b] > 0
          /\ level' = [level EXCEPT ![b] = @ - 1]
          /\ debt' = [debt EXCEPT ![user[t]] = @ + 1]
          /\ Answer(t, "allowed")
       \/ /\ level[b] = 0
          /\ Answer(t, "rejected")
          /\ UNCHANGED <<level, debt>>
    /\ UNCHANGED <<table, user, evicted>>

\* check has returned, and the request goes on.
Done(t) ==
    /\ verdict[t] # "none"
    /\ verdict' = [verdict EXCEPT ![t] = "none"]
    /\ user' = [user EXCEPT ![t] = NoOne]
    /\ UNCHANGED <<table, level, held, counts, debt, evicted>>

-----------------------------------------------------------------------------
(* The cache and the clock (external). *)

Evict(i) ==
    /\ table[i] # NoBucket /\ Cardinality(Tracked) > max_identities
    /\ evicted[i] < MaxEvictions
    /\ table' = [table EXCEPT ![i] = NoBucket]
    /\ evicted' = [evicted EXCEPT ![i] = @ + 1]
    /\ UNCHANGED <<level, held, user, verdict, counts, debt>>

Fill(n)  == IF n + Rate < Cells THEN n + Rate ELSE Cells
Drain(n) == IF n > Rate THEN n - Rate ELSE 0

\* Time passes, and every bucket refills.
Refill ==
    /\ level' = [b \in Buckets |-> Fill(level[b])]
    /\ debt' = [i \in Identities |-> Drain(debt[i])]
    /\ UNCHANGED <<table, held, user, verdict, counts, evicted>>

Next ==
    \/ \E t \in Tasks : Check(t) \/ Done(t) \/ \E i \in Identities : Get(t, i)
    \/ \E i \in Identities : Evict(i)
    \/ Refill

Spec == Init /\ [][Next]_limiterVars

-----------------------------------------------------------------------------
(* Properties. *)

(* Type correctness: a bucket never holds less than nothing or more than the      *)
(* burst, a configured burst of zero included.                                    *)
TypeOK ==
    /\ table \in [Identities -> Buckets \cup {NoBucket}]
    /\ level \in [Buckets -> 0..Cells]
    /\ held \in [Tasks -> Buckets \cup {NoBucket}]
    /\ user \in [Tasks -> Identities \cup {NoOne}]
    /\ verdict \in [Tasks -> {"none", "allowed", "rejected"}]
    /\ counts \in [allowed : 0..(Modulus - 1), rejected : 0..(Modulus - 1)]
    /\ debt \in [Identities -> Nat]
    /\ evicted \in [Identities -> 0..MaxEvictions]

(* "still one workload and should get one workload's share" (ratelimit.rs): as    *)
(* long as the table has not dropped its bucket, all the requests of an identity  *)
(* together, on however many connections, get the burst and the refill, no more.  *)
FairShare == \A i \in Identities : evicted[i] = 0 => debt[i] <= Cells

(* What a dropped bucket costs: beyond its share an identity gets the burst of    *)
(* the new bucket, and one more for each other request that still holds the old   *)
(* one, which refills as well as long as they do.                                 *)
EvictionCost ==
    \A i \in Identities :
        debt[i] <= Cells + (Cells + Cardinality(Tasks) - 1) * evicted[i]

(* "One caller exhausting its bucket must not affect anyone else" (ratelimit.rs): *)
(* a request is refused only if its own identity has used up its share, whoever   *)
(* else is limited, evicted or shares the table.                                  *)
RefusedOnlyIfSpent ==
    [][\A t \in Tasks :
          verdict[t] = "none" /\ verdict'[t] = "rejected" => debt[user[t]] >= Cells]_limiterVars
==============================================================================
