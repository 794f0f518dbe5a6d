--------------------------- MODULE Admission_proofs ---------------------------
(***************************************************************************)
(* Proofs about admission under concurrent requests, for any number of     *)
(* requests, certificates, identities and buckets and any configuration:   *)
(* the decision of the authorizer (Authz), what the limiter lets through   *)
(* (RateLimiter), and the two together.                                    *)
(***************************************************************************)
EXTENDS Admission, FiniteSetTheorems, TLAPS

-----------------------------------------------------------------------------
(* Authz: the cache of parsed certificates holds the right names and stays within *)
(* its bound, and decisions are those of the policy for the caller's certificate. *)

(* What the other invariants need of the types.  Nothing is said about the names  *)
(* that certificates contain, except that a cached one is a name.                 *)
Shape ==
    /\ DOMAIN cache \subseteq Certs
    /\ \A c \in DOMAIN cache : cache[c] # None
    /\ pc \in [Tasks -> PCs]
    /\ req \in [Tasks -> Requests \cup {NoRequest}]
    /\ who = [t \in Tasks |-> who[t]]

Inv == Shape /\ CacheTruthful /\ CacheBounded /\ Decisions

(* The identity of a request with a certificate is the one the parser finds.      *)
LEMMA CallerIsParsed ==
    ASSUME NEW r, r.cert \in Certs
    PROVE  Caller(r) = ParseIdentity(r.cert)
BY DEF Caller

(* Storing under the write lock keeps to the bound: a full map is cleared first.  *)
LEMMA StoreBounded ==
    ASSUME Inv, NEW t \in Tasks, Store(t)
    PROVE  /\ CacheBounded'
           /\ DOMAIN cache' \subseteq DOMAIN cache \cup {req[t].cert}
           /\ cache'[req[t].cert] = who[t]
           /\ \A c \in DOMAIN cache' : c # req[t].cert =>
                 c \in DOMAIN cache /\ cache'[c] = cache[c]
<1> DEFINE base == IF Cardinality(DOMAIN cache) >= MaxCached THEN Empty ELSE cache
           k    == req[t].cert
<1>1. cache' = With(base, k, who[t])
  BY DEF Store
<1>2. DOMAIN Empty = {}
  BY DEF Empty
<1>3. IsFiniteSet(DOMAIN cache) /\ Cardinality(DOMAIN cache) \in Nat
  BY CertsFinite, FS_Subset, FS_CardinalityType DEF Inv, Shape
<1>4. /\ IsFiniteSet(DOMAIN base) /\ Cardinality(DOMAIN base) \in Nat
      /\ Cardinality(DOMAIN base) + 1 <= MaxCached
  <2>1. CASE Cardinality(DOMAIN cache) >= MaxCached
    BY <2>1, <1>2, FS_EmptySet, BoundsTyped
  <2>2. CASE ~(Cardinality(DOMAIN cache) >= MaxCached)
    BY <2>2, <1>3, BoundsTyped
  <2> QED BY <2>1, <2>2
<1>5. /\ \A c \in DOMAIN base : c \in DOMAIN cache /\ base[c] = cache[c]
  BY <1>2
<1> HIDE DEF base
<1>6. /\ DOMAIN cache' = DOMAIN base \cup {k}
      /\ cache'[k] = who[t]
      /\ \A c \in DOMAIN base : c # k => cache'[c] = base[c]
  BY <1>1 DEF With
<1>7. \/ Cardinality(DOMAIN cache') = Cardinality(DOMAIN base)
      \/ Cardinality(DOMAIN cache') = Cardinality(DOMAIN base) + 1
  BY <1>4, <1>6, FS_AddElement, Zenon
<1>8. CacheBounded'
  BY <1>4, <1>7, BoundsTyped DEF CacheBounded
<1> QED BY <1>5, <1>6, <1>8

LEMMA InitInv == Init => Inv
<1> SUFFICES ASSUME Init PROVE Inv
  OBVIOUS
<1>1. DOMAIN cache = {}
  BY DEF Init, Empty
<1>2. CacheBounded
  BY <1>1, FS_EmptySet, BoundsTyped DEF CacheBounded
<1>3. pc \in [Tasks -> PCs] /\ \A t \in Tasks : pc[t] = "idle"
  BY DEF Init, PCs
<1>4. req \in [Tasks -> Requests \cup {NoRequest}] /\ who = [t \in Tasks |-> who[t]]
  BY DEF Init
<1> QED BY <1>1, <1>2, <1>3, <1>4 DEF Inv, Shape, CacheTruthful, Decisions

LEMMA ReceiveInv ==
    ASSUME Inv, NEW t \in Tasks, NEW r \in Requests, Receive(t, r)
    PROVE  Inv'
<1> USE DEF Inv, Shape, Receive, Goto
<1>1. pc'[t] = "identify" /\ \A u \in Tasks : u # t => pc'[u] = pc[u] /\ req'[u] = req[u]
  OBVIOUS
<1>2. Shape'
  BY DEF PCs
<1>3. CacheTruthful'
  BY <1>1 DEF CacheTruthful
<1>4. CacheBounded'
  BY DEF CacheBounded
<1>5. Decisions'
  BY <1>1 DEF Decisions, Caller
<1> QED BY <1>2, <1>3, <1>4, <1>5

LEMMA IdentifyInv ==
    ASSUME Inv, NEW t \in Tasks, Identify(t)
    PROVE  Inv'
<1> USE DEF Inv, Shape
<1>1. /\ \A u \in Tasks : u # t => pc'[u] = pc[u] /\ who'[u] = who[u]
      /\ req' = req /\ cache' = cache /\ policy' = policy
      /\ pc' \in [Tasks -> PCs] /\ who' = [u \in Tasks |-> who'[u]]
  BY DEF Identify, Goto, PCs, Counters
<1>2. \/ /\ pc'[t] \in {"store", "decide"} /\ req[t].cert \in Certs
         /\ who'[t] = ParseIdentity(req[t].cert) /\ who'[t] # None
      \/ pc'[t] = "unauthenticated" /\ Caller(req[t]) = None
  <2>1. CASE req[t].cert \in DOMAIN cache
    BY <2>1 DEF Identify, Goto, CacheTruthful
  <2>2. CASE req[t].cert \notin DOMAIN cache /\ Caller(req[t]) # None
    BY <2>2 DEF Identify, Goto, Caller
  <2>3. CASE req[t].cert \notin DOMAIN cache /\ Caller(req[t]) = None
    BY <2>3 DEF Identify, Goto
  <2> QED BY <2>1, <2>2, <2>3
<1>3. Shape'
  BY <1>1
<1>4. CacheTruthful'
  BY <1>1, <1>2 DEF CacheTruthful
<1>5. CacheBounded'
  BY <1>1 DEF CacheBounded
<1>6. Decisions'
  BY <1>1, <1>2 DEF Decisions
<1> QED BY <1>3, <1>4, <1>5, <1>6

LEMMA StoreInv ==
    ASSUME Inv, NEW t \in Tasks, Store(t)
    PROVE  Inv'
<1> USE DEF Inv, Shape
<1>1. /\ pc[t] = "store" /\ pc'[t] = "decide"
      /\ \A u \in Tasks : u # t => pc'[u] = pc[u]
      /\ req' = req /\ who' = who /\ policy' = policy /\ pc' \in [Tasks -> PCs]
  BY DEF Store, Goto, PCs
<1>2. req[t].cert \in Certs /\ who[t] = ParseIdentity(req[t].cert) /\ who[t] # None
  BY <1>1 DEF CacheTruthful
<1>3. Shape'
  BY <1>1, <1>2, StoreBounded
<1>4. CacheTruthful'
  BY <1>1, <1>2, StoreBounded DEF CacheTruthful
<1>5. Decisions'
  BY <1>1 DEF Decisions
<1> QED BY <1>3, <1>4, <1>5, StoreBounded

LEMMA DecideInv ==
    ASSUME Inv, NEW t \in Tasks, Decide(t)
    PROVE  Inv'
<1> USE DEF Inv, Shape
<1> DEFINE granted == IsAllowed(policy, who[t], req[t].key, req[t].op)
<1>1. /\ pc[t] = "decide"
      /\ \/ granted /\ pc'[t] = "allowed"
         \/ ~granted /\ pc'[t] = "denied"
      /\ \A u \in Tasks : u # t => pc'[u] = pc[u]
      /\ req' = req /\ who' = who /\ policy' = policy /\ cache' = cache
      /\ pc' \in [Tasks -> PCs]
  BY DEF Decide, Goto, PCs, Counters
<1>2. who[t] = Caller(req[t]) /\ who[t] # None
  BY <1>1, CallerIsParsed DEF CacheTruthful
<1>3. Shape'
  BY <1>1
<1>4. CacheTruthful' /\ CacheBounded'
  BY <1>1 DEF CacheTruthful, CacheBounded
<1>5. Decisions'
  BY <1>1, <1>2 DEF Decisions
<1> QED BY <1>3, <1>4, <1>5

LEMMA ReturnInv ==
    ASSUME Inv, NEW t \in Tasks, Return(t)
    PROVE  Inv'
<1> USE DEF Inv, Shape
<1>1. /\ pc'[t] = "idle"
      /\ \A u \in Tasks : u # t => pc'[u] = pc[u] /\ who'[u] = who[u] /\ req'[u] = req[u]
      /\ policy' = policy /\ cache' = cache /\ req' \in [Tasks -> Requests \cup {NoRequest}]
      /\ pc' \in [Tasks -> PCs] /\ who' = [u \in Tasks |-> who'[u]]
  BY SMTT(60) DEF Return, Goto, PCs
<1>2. Shape'
  BY <1>1
<1>3. CacheTruthful' /\ CacheBounded'
  BY <1>1 DEF CacheTruthful, CacheBounded
<1>4. Decisions'
  BY <1>1 DEF Decisions
<1> QED BY <1>2, <1>3, <1>4

LEMMA NextInv == Inv /\ [Next]_vars => Inv'
<1> SUFFICES ASSUME Inv, [Next]_vars PROVE Inv'
  OBVIOUS
<1>1. CASE UNCHANGED vars
  BY <1>1 DEF vars, Inv, Shape, CacheTruthful, CacheBounded, Decisions
<1>2. CASE Next
  BY <1>2, ReceiveInv, IdentifyInv, StoreInv, DecideInv, ReturnInv DEF Next
<1> QED BY <1>1, <1>2

LEMMA InvAlways == Spec => []Inv
BY InitInv, NextInv, PTL DEF Spec

(* Two certificates never share a name through the cache: what identify returns   *)
(* is what parse_identity finds in the caller's certificate, whatever the other   *)
(* requests store or clear between the two locks.                                 *)
THEOREM CacheTruthfulAlways == Spec => []CacheTruthful
BY InvAlways, PTL DEF Inv

(* The map of identify never exceeds MAX_CACHED_IDENTITIES.                       *)
THEOREM CacheBoundedAlways == Spec => []CacheBounded
BY InvAlways, PTL DEF Inv

(* authorize allows exactly what the policy grants the caller's own identity.     *)
THEOREM DecisionsAlways == Spec => []Decisions
BY InvAlways, PTL DEF Inv

-----------------------------------------------------------------------------
(* RateLimiter: buckets belong to identities, and accounts move with them.        *)

(* Whose a bucket is: all that refer to one bucket refer to it for one identity.  *)
Owned ==
    /\ \A i, j \in Identities : table[i] # NoBucket /\ table[i] = table[j] => i = j
    /\ \A i \in Identities, t \in Tasks :
          held[t] # NoBucket /\ table[i] = held[t] => user[t] = i
    /\ \A t, u \in Tasks : held[t] # NoBucket /\ held[t] = held[u] => user[t] = user[u]
    /\ \A t \in Tasks : held[t] # NoBucket => user[t] \in Identities /\ verdict[t] = "none"

(* What is missing from a bucket, its identity has been given.                    *)
Covered ==
    /\ \A i \in Identities : table[i] # NoBucket => L!Cells <= debt[i] + level[table[i]]
    /\ \A t \in Tasks : held[t] # NoBucket => L!Cells <= debt[user[t]] + level[held[t]]

(* An identity whose bucket was never dropped has that one bucket, and what it    *)
(* was given is missing from it.                                                  *)
Single ==
    \A i \in Identities : evicted[i] = 0 =>
        /\ \A t \in Tasks : held[t] # NoBucket /\ user[t] = i => held[t] = table[i]
        /\ table[i] = NoBucket => debt[i] = 0
        /\ table[i] # NoBucket => debt[i] + level[table[i]] <= L!Cells

LInv == L!TypeOK /\ Owned /\ Covered /\ Single

(* A configured zero means one.                                                   *)
LEMMA Positive ==
    ASSUME L!Configured
    PROVE  L!Cells \in Nat \ {0} /\ L!Rate \in Nat \ {0}
BY DEF L!Configured, L!Cells, L!Rate, L!AtLeastOne

(* One refill: a bucket gains what the share regains, up to the burst.            *)
LEMMA RefillArithmetic ==
    ASSUME L!Configured, NEW l \in 0..L!Cells, NEW d \in Nat
    PROVE  /\ L!Cells <= d + l => L!Cells <= L!Drain(d) + L!Fill(l)
           /\ d + l <= L!Cells => L!Drain(d) + L!Fill(l) <= L!Cells
BY Positive DEF L!Fill, L!Drain

(* A counter wraps within its width.                                              *)
LEMMA Wraps ==
    ASSUME L!Configured, NEW n \in 0..(Modulus - 1)
    PROVE  (n + 1) % Modulus \in 0..(Modulus - 1)
BY DEF L!Configured

LEMMA LimiterInitInv ==
    ASSUME L!Configured, L!Init
    PROVE  LInv
<1>1. L!TypeOK
  BY Positive DEF L!Init, L!TypeOK, L!Configured
<1> QED BY <1>1, Positive DEF L!Init, LInv, Owned, Covered, Single, L!Configured

(* Getting a bucket: the identity's own, or a full one that nobody refers to.     *)
LEMMA LimiterGetInv ==
    ASSUME L!Configured, LInv, NEW t \in Tasks, NEW i \in Identities, L!Get(t, i)
    PROVE  LInv'
<1> USE DEF LInv
<1>1. /\ held[t] = NoBucket /\ verdict[t] = "none" /\ user' = [user EXCEPT ![t] = i]
      /\ verdict' = verdict /\ counts' = counts /\ debt' = debt /\ evicted' = evicted
  BY DEF L!Get
<1>2. CASE table[i] # NoBucket /\ held' = [held EXCEPT ![t] = table[i]]
           /\ table' = table /\ level' = level
  <2>1. L!TypeOK'
    BY <1>1, <1>2 DEF L!TypeOK
  <2>2. Owned'
    BY <1>1, <1>2 DEF L!TypeOK, Owned
  <2>3. Covered'
    BY <1>1, <1>2 DEF L!TypeOK, Covered
  <2>4. Single'
    BY <1>1, <1>2 DEF L!TypeOK, Single
  <2> QED BY <2>1, <2>2, <2>3, <2>4
<1>3. ASSUME table[i] = NoBucket, NEW b \in Buckets \ L!Reachable,
             table' = [table EXCEPT ![i] = b], held' = [held EXCEPT ![t] = b],
             level' = [level EXCEPT ![b] = L!Cells]
      PROVE  LInv'
  <2>1. /\ b # NoBucket
        /\ \A j \in Identities : table[j] # b
        /\ \A u \in Tasks : held[u] # b
    BY <1>3 DEF L!Reachable, L!Configured
  <2>2. /\ table'[i] = b /\ held'[t] = b /\ user'[t] = i /\ level'[b] = L!Cells
        /\ \A j \in Identities : j # i => table'[j] = table[j]
        /\ \A u \in Tasks : u # t => held'[u] = held[u] /\ user'[u] = user[u]
        /\ \A c \in Buckets : c # b => level'[c] = level[c]
    BY <1>1, <1>3 DEF L!TypeOK
  <2>3. L!TypeOK'
    BY <1>1, <1>3, Positive DEF L!TypeOK
  <2>4. Owned'
    BY <1>1, <1>3, <2>1, <2>2 DEF L!TypeOK, Owned
  <2>5. Covered'
    BY <1>1, <1>3, <2>1, <2>2, Positive DEF L!TypeOK, Owned, Covered
  <2>6. Single'
    BY <1>1, <1>3, <2>1, <2>2, Positive DEF L!TypeOK, Single
  <2> QED BY <2>3, <2>4, <2>5, <2>6
<1> QED BY <1>2, <1>3 DEF L!Get

(* Drawing: the bucket and the identity's account move together.                  *)
LEMMA LimiterCheckInv ==
    ASSUME L!Configured, LInv, NEW t \in Tasks, L!Check(t)
    PROVE  LInv'
<1> USE DEF LInv
<1> DEFINE b == held[t]
           i == user[t]
<1>1. /\ b \in Buckets /\ b # NoBucket /\ i \in Identities
      /\ held' = [held EXCEPT ![t] = NoBucket]
      /\ table' = table /\ user' = user /\ evicted' = evicted
      /\ level[b] \in 0..L!Cells /\ debt[i] \in Nat
  BY DEF L!Check, L!TypeOK, Owned
<1>2. \E v \in {"allowed", "rejected"} :
         verdict' = [verdict EXCEPT ![t] = v] /\ counts' = [counts EXCEPT ![v] = (@ + 1) % Modulus]
  BY DEF L!Check, L!Answer
<1>3. verdict' \in [Tasks -> {"none", "allowed", "rejected"}]
  BY <1>2 DEF L!TypeOK
<1>4. counts' \in [allowed : 0..(Modulus - 1), rejected : 0..(Modulus - 1)]
  BY <1>2, Wraps DEF L!TypeOK
<1>5. Owned'
  <2>1. \A u \in Tasks : u # t => verdict'[u] = verdict[u] /\ held'[u] = held[u]
    BY <1>1, <1>2 DEF L!TypeOK
  <2>2. held'[t] = NoBucket
    BY <1>1 DEF L!TypeOK
  <2> QED BY <1>1, <2>1, <2>2 DEF Owned
<1>6. CASE level[b] = 0 /\ level' = level /\ debt' = debt
  <2>1. L!TypeOK'
    BY <1>1, <1>3, <1>4, <1>6, Zenon DEF L!TypeOK
  <2>2. Covered' /\ Single'
    BY <1>1, <1>6 DEF L!TypeOK, Covered, Single
  <2> QED BY <2>1, <2>2, <1>5
<1>7. CASE level[b] > 0 /\ level' = [level EXCEPT ![b] = @ - 1] /\ debt' = [debt EXCEPT ![i] = @ + 1]
  <2>1. /\ level'[b] = level[b] - 1 /\ debt'[i] = debt[i] + 1
        /\ \A c \in Buckets : c # b => level'[c] = level[c]
        /\ \A j \in Identities : j # i => debt'[j] = debt[j]
        /\ level' \in [Buckets -> 0..L!Cells] /\ debt' \in [Identities -> Nat]
    BY <1>1, <1>7, Positive DEF L!TypeOK
  <2>2. L!TypeOK'
    BY <1>1, <1>3, <1>4, <2>1, Zenon DEF L!TypeOK
  <2>3. Covered'
    <3>1. ASSUME NEW j \in Identities, table[j] # NoBucket
          PROVE  L!Cells <= debt'[j] + level'[table[j]]
      <4>1. CASE table[j] = b
        BY <3>1, <4>1, <1>1, <2>1, Positive DEF Owned, Covered, L!TypeOK
      <4>2. CASE table[j] # b
        BY <3>1, <4>2, <1>1, <2>1, Positive DEF Covered, L!TypeOK
      <4> QED BY <4>1, <4>2
    <3>2. ASSUME NEW u \in Tasks, held[u] # NoBucket
          PROVE  L!Cells <= debt'[user[u]] + level'[held[u]]
      <4>1. CASE held[u] = b
        BY <3>2, <4>1, <1>1, <2>1, Positive DEF Owned, Covered, L!TypeOK
      <4>2. CASE held[u] # b
        <5>1. user[u] \in Identities /\ held[u] \in Buckets /\ debt[user[u]] \in Nat /\ level[held[u]] \in Nat
          BY <3>2 DEF Owned, L!TypeOK
        <5>2. L!Cells <= debt[user[u]] + level[held[u]]
          BY <3>2 DEF Covered
        <5>3. debt'[user[u]] \in {debt[user[u]], debt[user[u]] + 1}
          BY <5>1, <2>1
        <5> QED BY <4>2, <5>1, <5>2, <5>3, <2>1, Positive
      <4> QED BY <4>1, <4>2
    <3> QED BY <3>1, <3>2, <1>1 DEF Covered, L!TypeOK
  <2>4. Single'
    <3> SUFFICES ASSUME NEW j \in Identities, evicted[j] = 0
                 PROVE  /\ \A u \in Tasks : held'[u] # NoBucket /\ user[u] = j => held'[u] = table[j]
                        /\ table[j] = NoBucket => debt'[j] = 0
                        /\ table[j] # NoBucket => debt'[j] + level'[table[j]] <= L!Cells
      BY <1>1 DEF Single
    <3>1. \A u \in Tasks : held'[u] # NoBucket /\ user[u] = j => held'[u] = table[j]
      BY <1>1 DEF Single, L!TypeOK
    <3>2. CASE j = i
      <4>1. table[i] = b
        BY <3>2, <1>1 DEF Single
      <4>2. debt[i] + level[b] <= L!Cells
        BY <4>1, <3>2, <1>1 DEF Single
      <4> QED BY <3>1, <3>2, <4>1, <4>2, <1>1, <2>1, Positive
    <3>3. CASE j # i
      <4>1. table[j] # b
        BY <3>3, <1>1 DEF Owned
      <4> QED BY <3>1, <3>3, <4>1, <2>1 DEF Single, L!TypeOK
    <3> QED BY <3>2, <3>3
  <2> QED BY <2>2, <2>3, <2>4, <1>5
<1> QED BY <1>6, <1>7 DEF L!Check

LEMMA LimiterDoneInv ==
    ASSUME L!Configured, LInv, NEW t \in Tasks, L!Done(t)
    PROVE  LInv'
<1> USE DEF LInv, L!Done
<1>0. held[t] = NoBucket
  BY DEF Owned
<1>1. L!TypeOK'
  BY DEF L!TypeOK
<1>2. Owned' /\ Covered' /\ Single'
  BY <1>0 DEF L!TypeOK, Owned, Covered, Single
<1> QED BY <1>1, <1>2

LEMMA LimiterEvictInv ==
    ASSUME L!Configured, LInv, NEW i \in Identities, L!Evict(i)
    PROVE  LInv'
<1> USE DEF LInv, L!Evict
<1>1. L!TypeOK'
  BY DEF L!TypeOK, L!Configured
<1>2. table'[i] = NoBucket /\ \A j \in Identities : j # i => table'[j] = table[j]
  BY DEF L!TypeOK
<1>3. Owned' /\ Covered'
  <2>1. Owned'
    BY <1>2 DEF Owned
  <2>2. Covered'
    BY <1>2 DEF Covered
  <2> QED BY <2>1, <2>2
<1>4. evicted'[i] # 0 /\ \A j \in Identities : j # i => evicted'[j] = evicted[j]
  BY DEF L!TypeOK
<1>5. Single'
  BY <1>2, <1>4, Zenon DEF Single
<1> QED BY <1>1, <1>3, <1>5

LEMMA LimiterRefillInv ==
    ASSUME L!Configured, LInv, L!Refill
    PROVE  LInv'
<1> USE DEF LInv
<1>1. /\ table' = table /\ held' = held /\ user' = user /\ verdict' = verdict
      /\ counts' = counts /\ evicted' = evicted
      /\ \A b \in Buckets : level'[b] = L!Fill(level[b])
      /\ \A i \in Identities : debt'[i] = L!Drain(debt[i])
  BY DEF L!Refill
<1>2. level' \in [Buckets -> 0..L!Cells] /\ debt' \in [Identities -> Nat]
  <2>1. \A b \in Buckets : L!Fill(level[b]) \in 0..L!Cells
    BY Positive DEF L!TypeOK, L!Fill
  <2>2. \A i \in Identities : L!Drain(debt[i]) \in Nat
    BY Positive DEF L!TypeOK, L!Drain
  <2> QED BY <2>1, <2>2 DEF L!Refill
<1>3. L!TypeOK' /\ Owned'
  BY <1>1, <1>2 DEF L!TypeOK, Owned
<1>4. ASSUME NEW b \in Buckets, NEW i \in Identities
      PROVE  /\ L!Cells <= debt[i] + level[b] => L!Cells <= debt'[i] + level'[b]
             /\ debt[i] + level[b] <= L!Cells => debt'[i] + level'[b] <= L!Cells
  BY <1>1, RefillArithmetic DEF L!TypeOK
<1>5. /\ \A i \in Identities : table[i] # NoBucket => table[i] \in Buckets
      /\ \A t \in Tasks : held[t] # NoBucket => held[t] \in Buckets /\ user[t] \in Identities
  BY DEF L!TypeOK, Owned
<1>6. Covered'
  BY <1>1, <1>4, <1>5, Zenon DEF Covered
<1>7. \A i \in Identities : debt[i] = 0 => debt'[i] = 0
  BY <1>1, Positive DEF L!TypeOK, L!Drain
<1>8. Single'
  BY <1>1, <1>4, <1>5, <1>7, Zenon DEF Single
<1> QED BY <1>3, <1>6, <1>8

LEMMA LimiterNextInv ==
    ASSUME L!Configured, LInv, [L!Next]_(L!limiterVars)
    PROVE  LInv'
<1>1. CASE UNCHANGED L!limiterVars
  BY <1>1 DEF L!limiterVars, LInv, L!TypeOK, Owned, Covered, Single
<1>2. CASE L!Next
  BY <1>2, LimiterGetInv, LimiterCheckInv, LimiterDoneInv, LimiterEvictInv, LimiterRefillInv DEF L!Next
<1> QED BY <1>1, <1>2

LEMMA LimiterInvAlways == L!Configured => (L!Spec => []LInv)
<1> SUFFICES ASSUME L!Configured PROVE L!Spec => []LInv
  OBVIOUS
<1>1. L!Init => LInv
  BY LimiterInitInv
<1>2. LInv /\ [L!Next]_(L!limiterVars) => LInv'
  BY LimiterNextInv
<1> QED BY <1>1, <1>2, PTL DEF L!Spec

(* All requests of an identity share one burst and one refill, on however many    *)
(* connections and tasks, as long as the table has not dropped its bucket.        *)
THEOREM FairShareAlways == L!Configured => (L!Spec => []L!FairShare)
<1> SUFFICES ASSUME L!Configured PROVE L!Spec => []L!FairShare
  OBVIOUS
<1>1. LInv => L!FairShare
  <2> SUFFICES ASSUME LInv, NEW i \in Identities, evicted[i] = 0 PROVE debt[i] <= L!Cells
    BY DEF L!FairShare
  <2>1. debt[i] \in Nat /\ (table[i] # NoBucket => level[table[i]] \in Nat)
    BY DEF LInv, L!TypeOK
  <2> QED BY <2>1, Positive DEF LInv, Single
<1>2. L!Spec => []LInv
  BY LimiterInvAlways
<1> QED BY <1>1, <1>2, PTL

(* RateLimiter::check refuses nobody for what another identity has done: who is   *)
(* refused has used its own burst, also after its bucket was dropped.             *)
THEOREM RefusedOnlyIfSpentHolds == L!Configured => (L!Spec => L!RefusedOnlyIfSpent)
<1> SUFFICES ASSUME L!Configured PROVE L!Spec => L!RefusedOnlyIfSpent
  OBVIOUS
<1> DEFINE A == \A t \in Tasks :
                  verdict[t] = "none" /\ verdict'[t] = "rejected" => debt[user[t]] >= L!Cells
<1>1. LInv /\ [L!Next]_(L!limiterVars) => [A]_(L!limiterVars)
  <2> SUFFICES ASSUME LInv, L!Next, NEW t \in Tasks, verdict[t] = "none", verdict'[t] = "rejected"
               PROVE  debt[user[t]] >= L!Cells
    OBVIOUS
  <2>1. L!Check(t)
    BY DEF L!Next, L!Get, L!Check, L!Done, L!Evict, L!Refill, L!Answer, LInv, L!TypeOK
  <2>2. held[t] # NoBucket /\ level[held[t]] = 0
    BY <2>1 DEF L!Check, L!Answer, LInv, L!TypeOK
  <2>3. user[t] \in Identities /\ debt[user[t]] \in Nat
    BY <2>2 DEF LInv, Owned, L!TypeOK
  <2> QED BY <2>2, <2>3, Positive DEF LInv, Covered
<1>2. L!Spec => []LInv
  BY LimiterInvAlways
<1> QED BY <1>1, <1>2, PTL DEF L!Spec, L!RefusedOnlyIfSpent

-----------------------------------------------------------------------------
(* What dropping a bucket costs.  Besides what the current bucket still holds, an *)
(* identity may be given one more for each request with a bucket that the table   *)
(* has dropped; but if those are all the requests there are, and their buckets    *)
(* are empty, the first of them will be refused.                                  *)

Old(i) == {t \in Tasks : held[t] # NoBucket /\ user[t] = i /\ held[t] # table[i]}

Dry(i) ==
    /\ table[i] = NoBucket /\ Tasks # {} /\ Old(i) = Tasks
    /\ \A t \in Tasks : level[held[t]] = 0

Credit(i)  == IF Dry(i) THEN Cardinality(Tasks) - 1 ELSE Cardinality(Old(i))
Current(i) == IF table[i] = NoBucket THEN L!Cells ELSE level[table[i]]
Margin     == L!Cells + Cardinality(Tasks) - 1

CostOf(i) ==
    /\ table[i] # NoBucket => \E t \in Tasks : t \notin Old(i)
    /\ debt[i] + Current(i) + Credit(i) <= L!Cells + Margin * evicted[i]

Cost == \A i \in Identities : CostOf(i)

LEMMA SameCardinality == L!Cardinality(Tasks) = Cardinality(Tasks)
BY Zenon DEF L!Cardinality, Cardinality

LEMMA TaskSets ==
    ASSUME L!Configured, NEW S \in SUBSET Tasks
    PROVE  /\ IsFiniteSet(S) /\ Cardinality(S) \in Nat /\ Cardinality(Tasks) \in Nat
           /\ Cardinality(S) <= Cardinality(Tasks)
           /\ S # Tasks => Cardinality(S) + 1 <= Cardinality(Tasks)
           /\ S # {} => Cardinality(S) >= 1
           /\ \A t \in S : Cardinality(S \ {t}) = Cardinality(S) - 1
<1>1. IsFiniteSet(Tasks) /\ IsFiniteSet(S)
  <2>1. IsFiniteSet(Tasks)
    BY Zenon DEF L!Configured, L!IsFiniteSet, IsFiniteSet
  <2> QED BY <2>1, FS_Subset
<1>2. Cardinality(S) \in Nat /\ Cardinality(Tasks) \in Nat
  BY <1>1, FS_CardinalityType, Zenon
<1>3. Cardinality(S) <= Cardinality(Tasks) /\ (Cardinality(S) = Cardinality(Tasks) => S = Tasks)
  BY <1>1, FS_Subset
<1>4. S # {} => Cardinality(S) # 0
  BY <1>1, FS_EmptySet, Zenon
<1>5. \A t \in S : Cardinality(S \ {t}) = Cardinality(S) - 1
  BY <1>1, FS_RemoveElement, Zenon
<1>6. S # Tasks => Cardinality(S) + 1 <= Cardinality(Tasks)
  BY <1>2, <1>3
<1>7. S # {} => Cardinality(S) >= 1
  BY <1>2, <1>4
<1> QED BY <1>1, <1>2, <1>3, <1>5, <1>6, <1>7, Zenon

LEMMA MarginGrows ==
    ASSUME L!Configured, NEW e \in Nat
    PROVE  /\ Margin \in Nat /\ Margin * e \in Nat
           /\ Margin * (e + 1) = Margin * e + Margin
           /\ e # 0 => Margin <= Margin * e
<1>1. Margin \in Nat
  <2>1. Cardinality(Tasks) \in Nat
    BY TaskSets
  <2> QED BY <2>1, Positive DEF Margin
<1> HIDE DEF Margin
<1>2. \A m, n \in Nat : m * n \in Nat /\ m * (n + 1) = m * n + m
  OBVIOUS
<1>3. e # 0 => Margin <= Margin * e
  <2> SUFFICES ASSUME e # 0 PROVE Margin <= Margin * e
    OBVIOUS
  <2>1. e - 1 \in Nat /\ (e - 1) + 1 = e
    OBVIOUS
  <2>2. Margin * e = Margin * (e - 1) + Margin /\ Margin * (e - 1) \in Nat
    BY <1>1, <1>2, <2>1
  <2> QED BY <1>1, <2>2
<1> QED BY <1>1, <1>2, <1>3

(* What is due for the dropped buckets: the requests that hold one, or one less.  *)
LEMMA CreditRange ==
    ASSUME L!Configured, NEW i \in Identities
    PROVE  /\ Credit(i) \in Nat /\ Cardinality(Old(i)) \in Nat
           /\ Cardinality(Old(i)) <= Cardinality(Tasks) /\ Cardinality(Tasks) \in Nat
           /\ Credit(i) <= Cardinality(Old(i))
           /\ Cardinality(Old(i)) <= Credit(i) + 1
           /\ ~Dry(i) => Credit(i) = Cardinality(Old(i))
<1>1. Old(i) \in SUBSET Tasks /\ Tasks \in SUBSET Tasks
  BY DEF Old
<1>2. /\ Cardinality(Old(i)) \in Nat /\ Cardinality(Tasks) \in Nat
      /\ Cardinality(Old(i)) <= Cardinality(Tasks)
  BY <1>1, TaskSets, Zenon
<1>3. ~Dry(i) => Credit(i) = Cardinality(Old(i))
  BY Zenon DEF Credit
<1>4. CASE Dry(i)
  <2>1. Old(i) = Tasks /\ Cardinality(Tasks) >= 1 /\ Credit(i) = Cardinality(Tasks) - 1
    BY <1>1, <1>4, TaskSets, Zenon DEF Dry, Credit
  <2> QED BY <1>2, <1>3, <2>1
<1> QED BY <1>2, <1>3, <1>4

(* An identity's cost stays what it is where nothing of it changes.               *)
LEMMA CostKept ==
    ASSUME NEW i \in Identities, CostOf(i),
           table'[i] = table[i] \/ \E t \in Tasks : t \notin Old(i)',
           Old(i)' = Old(i), UNCHANGED <<debt[i], Current(i), Credit(i), evicted[i]>>
    PROVE  CostOf(i)'
<1>1. Margin' = Margin /\ L!Cells' = L!Cells
  BY DEF Margin, L!Cells, L!AtLeastOne
<1> QED BY <1>1, Zenon DEF CostOf

LEMMA GetCost ==
    ASSUME L!Configured, LInv, Cost, NEW t \in Tasks, NEW i \in Identities, L!Get(t, i),
           NEW j \in Identities
    PROVE  CostOf(j)'
<1>1. /\ held \in [Tasks -> Buckets \cup {NoBucket}] /\ user \in [Tasks -> Identities \cup {None}]
      /\ table \in [Identities -> Buckets \cup {NoBucket}] /\ level \in [Buckets -> 0..L!Cells]
      /\ NoBucket \notin Buckets
  BY Zenon DEF LInv, L!TypeOK, L!Configured
<1>2. held[t] = NoBucket /\ user' = [user EXCEPT ![t] = i] /\ UNCHANGED <<debt, evicted>>
  BY Zenon DEF L!Get
<1>3. t \notin Old(j)
  BY <1>2, Zenon DEF Old
<1>4. /\ table'[i] # NoBucket /\ held'[t] = table'[i]
      /\ \A u \in Tasks : u # t => held'[u] = held[u]
      /\ \A k \in Identities : k # i => table'[k] = table[k]
      /\ \A u \in Tasks : u # t /\ held[u] # NoBucket => (held[u] = table'[i] <=> held[u] = table[i])
      /\ Current(j)' = Current(j)
  <2>1. CASE /\ table[i] # NoBucket /\ held' = [held EXCEPT ![t] = table[i]]
             /\ UNCHANGED <<table, level>>
    <3>1. Current(j)' = Current(j)
      BY <2>1, Zenon DEF Current, L!Cells, L!AtLeastOne
    <3> QED BY <1>1, <2>1, <3>1
  <2>2. ASSUME table[i] = NoBucket, NEW b \in Buckets \ L!Reachable,
               table' = [table EXCEPT ![i] = b], held' = [held EXCEPT ![t] = b],
               level' = [level EXCEPT ![b] = L!Cells]
        PROVE  /\ table'[i] # NoBucket /\ held'[t] = table'[i]
               /\ \A u \in Tasks : u # t => held'[u] = held[u]
               /\ \A k \in Identities : k # i => table'[k] = table[k]
               /\ \A u \in Tasks : u # t /\ held[u] # NoBucket =>
                     (held[u] = table'[i] <=> held[u] = table[i])
               /\ Current(j)' = Current(j)
    <3>1. /\ b # NoBucket /\ \A k \in Identities : table[k] # b
          /\ \A u \in Tasks : held[u] # b
      BY <1>1, <2>2, Zenon DEF L!Reachable
    <3>2. table'[i] = b /\ held'[t] = b /\ level'[b] = L!Cells
      BY <1>1, <2>2
    <3>3. /\ \A u \in Tasks : u # t => held'[u] = held[u]
          /\ \A k \in Identities : k # i => table'[k] = table[k]
          /\ \A c \in Buckets : c # b => level'[c] = level[c]
      BY <1>1, <2>2
    <3>4. Current(j)' = Current(j)
      <4>1. L!Cells' = L!Cells
        BY DEF L!Cells, L!AtLeastOne
      <4>2. CASE j = i
        BY <2>2, <3>1, <3>2, <4>1, <4>2, Zenon DEF Current
      <4>3. CASE j # i
        <5>1. table'[j] = table[j] /\ table[j] # b
          BY <3>1, <3>3, <4>3
        <5>2. table[j] # NoBucket => level'[table[j]] = level[table[j]]
          BY <1>1, <3>3, <5>1
        <5> QED BY <4>1, <5>1, <5>2, Zenon DEF Current
      <4> QED BY <4>2, <4>3
    <3> QED BY <2>2, <3>1, <3>2, <3>3, <3>4, Zenon
  <2> QED BY <2>1, <2>2, Zenon DEF L!Get
<1>5. user'[t] = i /\ \A u \in Tasks : u # t => user'[u] = user[u]
  BY <1>1, <1>2
<1>6. t \notin Old(j)'
  BY <1>4, <1>5, Zenon DEF Old
<1>7. Old(j)' = Old(j)
  <2> SUFFICES ASSUME NEW u \in Tasks PROVE u \in Old(j)' <=> u \in Old(j)
    BY Zenon DEF Old
  <2>1. CASE u = t
    BY <1>3, <1>6, <2>1, Zenon
  <2>2. CASE u # t
    <3>1. held'[u] = held[u] /\ user'[u] = user[u]
      BY <1>4, <1>5, <2>2, Zenon
    <3>2. held[u] # NoBucket => (held[u] = table'[j] <=> held[u] = table[j])
      BY <1>4, <2>2, Zenon
    <3> QED BY <3>1, <3>2, Zenon DEF Old
  <2> QED BY <2>1, <2>2, Zenon
<1>8. ~Dry(j) /\ ~Dry(j)'
  BY <1>3, <1>6, Zenon DEF Dry
<1>9. Credit(j)' = Credit(j)
  BY <1>7, <1>8, Zenon DEF Credit
<1> QED BY <1>2, <1>4, <1>6, <1>7, <1>9, CostKept, Zenon DEF Cost

(* Drawing on the current bucket moves one from the bucket to the account; on a   *)
(* dropped one, it uses the credit of the request that holds it.                  *)
LEMMA CheckCost ==
    ASSUME L!Configured, LInv, Cost, NEW t \in Tasks, L!Check(t), NEW j \in Identities
    PROVE  CostOf(j)'
<1> DEFINE b == held[t]
           i == user[t]
<1>1. /\ held \in [Tasks -> Buckets \cup {NoBucket}] /\ table \in [Identities -> Buckets \cup {NoBucket}]
      /\ level \in [Buckets -> 0..L!Cells] /\ debt \in [Identities -> Nat]
      /\ evicted \in [Identities -> 0..MaxEvictions] /\ NoBucket \notin Buckets
  BY Zenon DEF LInv, L!TypeOK, L!Configured
<1>2. b # NoBucket /\ held' = [held EXCEPT ![t] = NoBucket] /\ UNCHANGED <<table, user, evicted>>
  BY Zenon DEF L!Check
<1>3. b \in Buckets /\ i \in Identities
  <2>1. \A u \in Tasks : held[u] # NoBucket => user[u] \in Identities
    BY Zenon DEF LInv, Owned
  <2>2. b \in Buckets \cup {NoBucket}
    BY <1>1, Zenon
  <2> QED BY <1>2, <2>1, <2>2, Zenon
<1>4. \/ level[b] > 0 /\ level' = [level EXCEPT ![b] = @ - 1] /\ debt' = [debt EXCEPT ![i] = @ + 1]
      \/ level[b] = 0 /\ UNCHANGED <<level, debt>>
  BY DEF L!Check
<1>5. held'[t] = NoBucket /\ \A u \in Tasks : u # t => held'[u] = held[u]
  BY <1>1, <1>2
<1>6. Old(j)' = Old(j) \ {t}
  BY <1>2, <1>5, Zenon DEF Old
<1>7. t \notin Old(j)' /\ ~Dry(j)'
  BY <1>6, Zenon DEF Dry
<1>8. Credit(j)' = Cardinality(Old(j)')
  BY <1>7, Zenon DEF Credit
<1>9. L!Cells' = L!Cells /\ L!Cells \in Nat /\ Margin' = Margin
  BY Positive DEF L!Cells, L!AtLeastOne, Margin
<1>10. \A c \in Buckets : c # b => level'[c] = level[c]
  BY <1>1, <1>4
<1>11. table'[j] # NoBucket => \E u \in Tasks : u \notin Old(j)'
  BY <1>7, Zenon
<1>12. CASE t \notin Old(j)
  <2>1. Old(j)' = Old(j) /\ Credit(j)' = Credit(j)
    <3>1. Old(j)' = Old(j)
      BY <1>6, <1>12, Zenon
    <3>2. ~Dry(j)
      BY <1>12, Zenon DEF Dry
    <3> QED BY <1>8, <3>1, <3>2, Zenon DEF Credit
  <2>2. CASE table[j] # b
    <3>1. j # i
      BY <1>2, <1>12, <2>2, Zenon DEF Old
    <3>2. debt'[j] = debt[j]
      BY <1>1, <1>4, <3>1
    <3>3. Current(j)' = Current(j)
      <4>1. table[j] # NoBucket => level'[table[j]] = level[table[j]]
        BY <1>1, <1>10, <2>2
      <4> QED BY <1>2, <1>9, <4>1, Zenon DEF Current
    <3> QED BY <1>2, <1>7, <2>1, <3>2, <3>3, CostKept, Zenon DEF Cost
  <2>3. CASE table[j] = b
    <3>1. j = i /\ Current(j) = level[b] /\ Current(j)' = level'[b]
      BY <1>2, <2>3, Zenon DEF Current, LInv, Owned
    <3>2. debt'[j] + Current(j)' = debt[j] + Current(j)
      BY <1>1, <1>3, <1>4, <3>1
    <3> QED BY <1>2, <1>9, <1>11, <2>1, <3>2, Zenon DEF Cost, CostOf
  <2> QED BY <2>2, <2>3
<1>13. CASE t \in Old(j)
  <2>1. j = i /\ table[j] # b
    BY <1>13, Zenon DEF Old
  <2>2. Current(j)' = Current(j)
    <3>1. table[j] # NoBucket => level'[table[j]] = level[table[j]]
      BY <1>1, <1>10, <2>1
    <3> QED BY <1>2, <1>9, <3>1, Zenon DEF Current
  <2>3. Credit(j)' = Cardinality(Old(j)) - 1
    <3>1. Old(j) \in SUBSET Tasks
      BY DEF Old
    <3> QED BY <1>6, <1>8, <1>13, <3>1, TaskSets, Zenon
  <2>4. /\ Credit(j) \in Nat /\ Cardinality(Old(j)) \in Nat
        /\ Cardinality(Old(j)) <= Credit(j) + 1
        /\ ~Dry(j) => Credit(j) = Cardinality(Old(j))
    BY CreditRange, Zenon
  <2>5. debt'[j] + Credit(j)' <= debt[j] + Credit(j)
    <3>1. CASE level[b] > 0 /\ debt' = [debt EXCEPT ![i] = @ + 1]
      <4>1. ~Dry(j)
        BY <1>1, <1>3, <3>1 DEF Dry
      <4> QED BY <1>1, <1>3, <2>1, <2>3, <2>4, <3>1, <4>1
    <3>2. CASE UNCHANGED debt
      BY <1>1, <1>3, <2>1, <2>3, <2>4, <3>2
    <3> QED BY <1>4, <3>1, <3>2, Zenon
  <2>6. Current(j) \in Nat /\ debt[j] \in Nat /\ debt'[j] \in Nat /\ Credit(j)' \in Int
    <3>1. Current(j) \in Nat
      BY <1>1, <1>9 DEF Current
    <3>2. debt'[j] \in Nat
      BY <1>1, <1>3, <1>4
    <3> QED BY <1>1, <2>3, <2>4, <3>1, <3>2
  <2>7. debt[j] + Current(j) + Credit(j) <= L!Cells + Margin * evicted[j]
    BY Zenon DEF Cost, CostOf
  <2>8. Margin * evicted[j] \in Nat
    BY <1>1, MarginGrows
  <2>9. debt'[j] + Current(j)' + Credit(j)' <= L!Cells + Margin * evicted[j]
    BY <1>9, <2>2, <2>4, <2>5, <2>6, <2>7, <2>8
  <2> QED BY <1>2, <1>9, <1>11, <2>9, Zenon DEF CostOf
<1> QED BY <1>12, <1>13, Zenon

LEMMA DoneCost ==
    ASSUME L!Configured, LInv, Cost, NEW t \in Tasks, L!Done(t), NEW j \in Identities
    PROVE  CostOf(j)'
<1>1. /\ UNCHANGED <<table, level, held, debt, evicted>> /\ verdict[t] # "none"
      /\ user' = [user EXCEPT ![t] = None] /\ user \in [Tasks -> Identities \cup {None}]
  BY Zenon DEF L!Done, LInv, L!TypeOK
<1>2. held[t] = NoBucket
  BY <1>1, Zenon DEF LInv, Owned
<1>3. \A u \in Tasks : u # t => user'[u] = user[u]
  BY <1>1
<1>4. Old(j)' = Old(j)
  BY <1>1, <1>2, <1>3, Zenon DEF Old
<1>5. Current(j)' = Current(j)
  BY <1>1, Zenon DEF Current, L!Cells, L!AtLeastOne
<1>6. Credit(j)' = Credit(j)
  BY <1>1, <1>4, Zenon DEF Credit, Dry
<1> QED BY <1>1, <1>4, <1>5, <1>6, CostKept, Zenon DEF Cost

(* A bucket is dropped: whoever holds it is now owed one, and the next request    *)
(* finds a full bucket.  If every request holds it, then it is not empty, or the  *)
(* first of them will be refused.                                                 *)
LEMMA EvictCost ==
    ASSUME L!Configured, LInv, Cost, NEW i \in Identities, L!Evict(i), NEW j \in Identities
    PROVE  CostOf(j)'
<1>1. /\ table \in [Identities -> Buckets \cup {NoBucket}] /\ level \in [Buckets -> 0..L!Cells]
      /\ debt \in [Identities -> Nat] /\ evicted \in [Identities -> 0..MaxEvictions]
      /\ MaxEvictions \in Nat
  BY Zenon DEF LInv, L!TypeOK, L!Configured
<1>2. /\ table[i] # NoBucket /\ table' = [table EXCEPT ![i] = NoBucket]
      /\ evicted' = [evicted EXCEPT ![i] = @ + 1]
      /\ UNCHANGED <<level, held, user, debt>>
  BY Zenon DEF L!Evict
<1>3. CASE j # i
  <2>1. table'[j] = table[j] /\ evicted'[j] = evicted[j]
    BY <1>1, <1>2, <1>3
  <2>2. Old(j)' = Old(j) /\ Current(j)' = Current(j)
    <3>1. Old(j)' = Old(j)
      BY <1>2, <2>1, Zenon DEF Old
    <3>2. L!Cells' = L!Cells
      BY DEF L!Cells, L!AtLeastOne
    <3>3. Current(j)' = Current(j)
      BY <1>2, <2>1, <3>2 DEF Current
    <3> QED BY <3>1, <3>3, Zenon
  <2>3. Credit(j)' = Credit(j)
    BY <1>2, <2>1, <2>2, Zenon DEF Credit, Dry
  <2> QED BY <1>2, <2>1, <2>2, <2>3, CostKept, Zenon DEF Cost
<1>4. CASE j = i
  <2> DEFINE l == level[table[i]]
             O == Cardinality(Old(i))
             N == Cardinality(Tasks)
             e == evicted[i]
  <2>1. /\ table'[i] = NoBucket /\ evicted'[i] = e + 1 /\ debt'[i] = debt[i]
        /\ debt[i] \in Nat /\ l \in 0..L!Cells /\ e \in Nat
    BY <1>1, <1>2
  <2>2. /\ \E t \in Tasks : t \notin Old(i)
        /\ debt[i] + Current(i) + Credit(i) <= L!Cells + Margin * e
    BY <1>2, Zenon DEF Cost, CostOf
  <2>3. Current(i) = l /\ Current(i)' = L!Cells
    BY <1>2, <2>1, Zenon DEF Current, L!Cells, L!AtLeastOne
  <2>4. ~Dry(i)
    BY <1>2, Zenon DEF Dry
  <2>5. /\ Credit(i) = O /\ O \in Nat /\ N \in Nat /\ N >= 1
    <3>1. Tasks \in SUBSET Tasks /\ Tasks # {}
      BY <2>2
    <3> QED BY <2>4, <3>1, CreditRange, TaskSets, Zenon
  <2>6. /\ Old(i)' \in SUBSET Tasks /\ Credit(i)' \in Int
        /\ Credit(i)' <= O + (N - 1) + l
    <3>1. Old(i)' \in SUBSET Tasks
      BY Zenon DEF Old
    <3> DEFINE P == Cardinality(Old(i)')
    <3>2. P \in Nat /\ P <= N /\ (Old(i)' # Tasks => P + 1 <= N)
      BY <3>1, TaskSets, Zenon
    <3>3. Credit(i)' = IF Dry(i)' THEN N - 1 ELSE P
      BY Zenon DEF Credit
    <3>4. CASE Dry(i)'
      BY <2>1, <2>5, <3>1, <3>3, <3>4
    <3>5. CASE ~Dry(i)' /\ Old(i)' # Tasks
      BY <2>1, <2>5, <3>1, <3>2, <3>3, <3>5
    <3>6. CASE ~Dry(i)' /\ Old(i)' = Tasks /\ Old(i) # {}
      <4>1. O >= 1
        <5>1. Old(i) \in SUBSET Tasks
          BY Zenon DEF Old
        <5> QED BY <3>6, <5>1, TaskSets, Zenon
      <4> QED BY <2>1, <2>5, <3>1, <3>2, <3>3, <3>6, <4>1
    <3>7. CASE ~Dry(i)' /\ Old(i)' = Tasks /\ Old(i) = {}
      <4>1. \A t \in Tasks : held[t] = table[i]
        BY <1>2, <3>7, Zenon DEF Old
      <4>2. PICK t \in Tasks : level[held[t]] # 0
        BY <1>2, <2>1, <2>2, <3>7, Zenon DEF Dry
      <4>3. l # 0
        BY <4>1, <4>2, Zenon
      <4> QED BY <2>1, <2>5, <3>1, <3>2, <3>3, <3>7, <4>3
    <3> QED BY <3>4, <3>5, <3>6, <3>7, Zenon
  <2>7. Margin * (e + 1) = Margin * e + Margin /\ Margin * e \in Nat
    BY <2>1, MarginGrows, Zenon
  <2>8. L!Cells \in Nat /\ L!Cells' = L!Cells /\ Margin' = Margin /\ Margin = L!Cells + N - 1
    BY Positive DEF L!Cells, L!AtLeastOne, Margin
  <2>9. debt[i] + L!Cells + Credit(i)' <= L!Cells + Margin * (e + 1)
    <3> HIDE DEF l, O, N, e
    <3>1. debt[i] + l + O <= L!Cells + Margin * e
      BY <2>2, <2>3, <2>5, Zenon
    <3>2. l \in Nat
      BY <2>1, <2>8
    <3> QED BY <2>1, <2>5, <2>6, <2>7, <2>8, <3>1, <3>2
  <2>10. CostOf(i)'
    BY <2>1, <2>3, <2>8, <2>9, Zenon DEF CostOf
  <2> QED BY <1>4, <2>10, Zenon
<1> QED BY <1>3, <1>4, Zenon

(* A refill: the share regains what the current bucket gains.  Where there is     *)
(* none, a dropped and empty bucket is owed one again; its identity had spent a   *)
(* burst, of which it regains at least one.                                       *)
LEMMA RefillCost ==
    ASSUME L!Configured, LInv, Cost, L!Refill, NEW j \in Identities
    PROVE  CostOf(j)'
<1> DEFINE d == debt[j]
           O == Cardinality(Old(j))
           e == evicted[j]
<1>1. /\ table \in [Identities -> Buckets \cup {NoBucket}] /\ level \in [Buckets -> 0..L!Cells]
      /\ held \in [Tasks -> Buckets \cup {NoBucket}]
      /\ debt \in [Identities -> Nat] /\ evicted \in [Identities -> 0..MaxEvictions]
      /\ MaxEvictions \in Nat /\ NoBucket \notin Buckets
  BY Zenon DEF LInv, L!TypeOK, L!Configured
<1>2. /\ UNCHANGED <<table, held, user, evicted>>
      /\ level' = [b \in Buckets |-> L!Fill(level[b])]
      /\ debt' = [i \in Identities |-> L!Drain(debt[i])]
  BY Zenon DEF L!Refill
<1>3. /\ L!Cells \in Nat /\ L!Cells >= 1 /\ L!Cells' = L!Cells /\ Margin' = Margin
      /\ Margin = L!Cells + Cardinality(Tasks) - 1
  BY Positive DEF L!Cells, L!AtLeastOne, Margin
<1>4. d \in Nat /\ e \in Nat /\ debt'[j] = L!Drain(d)
  BY <1>1, <1>2
<1>5. /\ L!Drain(d) \in Nat /\ L!Drain(d) <= d /\ (d >= 1 => L!Drain(d) <= d - 1)
      /\ L!Drain(d) = 0 \/ L!Drain(d) = d - L!Rate
      /\ L!Rate \in Nat
  BY <1>4, Positive DEF L!Drain
<1>6. \A b \in Buckets : level'[b] # 0
  <2> SUFFICES ASSUME NEW b \in Buckets PROVE L!Fill(level[b]) # 0
    BY <1>2
  <2>1. level[b] \in Nat
    BY <1>1, <1>3
  <2> QED BY <2>1, Positive DEF L!Fill
<1>7. Old(j)' = Old(j)
  BY <1>2, Zenon DEF Old
<1>8. Credit(j)' = O
  <2>1. ~Dry(j)'
    <3> SUFFICES ASSUME Dry(j)' PROVE FALSE
      OBVIOUS
    <3>1. PICK t \in Tasks : t \in Old(j) /\ level'[held'[t]] = 0
      BY <1>7, Zenon DEF Dry
    <3>2. held'[t] \in Buckets
      BY <1>1, <1>2, <3>1, Zenon DEF Old
    <3> QED BY <1>6, <3>1, <3>2, Zenon
  <2> QED BY <1>7, <2>1, Zenon DEF Credit
<1>9. /\ Credit(j) \in Nat /\ O \in Nat /\ O <= Credit(j) + 1
      /\ ~Dry(j) => Credit(j) = O
  BY CreditRange, Zenon
<1>10. /\ table[j] # NoBucket => \E t \in Tasks : t \notin Old(j)
       /\ d + Current(j) + Credit(j) <= L!Cells + Margin * e
  BY Zenon DEF Cost, CostOf
<1>11. Margin * e \in Nat /\ Margin \in Nat /\ (e # 0 => Margin <= Margin * e)
  BY <1>4, MarginGrows, Zenon
<1>12. CASE table[j] # NoBucket
  <2> DEFINE l == level[table[j]]
  <2>1. /\ table[j] \in Buckets /\ l \in 0..L!Cells
    BY <1>1, <1>12
  <2>2. Current(j) = l /\ Current(j)' = L!Fill(l)
    BY <1>2, <1>12, <2>1, Zenon DEF Current
  <2>3. L!Fill(l) \in Nat /\ L!Fill(l) <= L!Cells /\ L!Fill(l) <= l + L!Rate
    BY <1>3, <1>5, <2>1 DEF L!Fill
  <2>4. Credit(j) = O
    BY <1>9, <1>12, Zenon DEF Dry
  <2>5. O <= Margin * e
    <3>1. CASE e = 0
      <4>1. Old(j) = {}
        BY <3>1, Zenon DEF LInv, Single, Old
      <4> QED BY <1>11, <4>1, FS_EmptySet
    <3>2. CASE e # 0
      <4>1. Old(j) \in SUBSET Tasks /\ Old(j) # Tasks /\ Tasks \in SUBSET Tasks
        BY <1>10, <1>12, Zenon DEF Old
      <4>2. O + 1 <= Cardinality(Tasks) /\ Cardinality(Tasks) \in Nat
        BY <4>1, TaskSets, Zenon
      <4> QED BY <1>3, <1>9, <1>11, <3>2, <4>2
    <3> QED BY <3>1, <3>2
  <2>6. L!Drain(d) + L!Fill(l) + O <= L!Cells + Margin * e
    <3> HIDE DEF l, O, e, d
    <3>1. d + l + O <= L!Cells + Margin * e
      BY <1>10, <2>2, <2>4, Zenon
    <3>2. l \in Nat
      BY <1>3, <2>1
    <3>3. CASE L!Drain(d) = 0
      BY <1>3, <1>9, <1>11, <2>3, <2>5, <3>3
    <3>4. CASE L!Drain(d) = d - L!Rate
      BY <1>3, <1>4, <1>5, <1>9, <1>11, <2>3, <3>1, <3>2, <3>4
    <3> QED BY <1>5, <3>3, <3>4
  <2>7. \E t \in Tasks : t \notin Old(j)'
    BY <1>7, <1>10, <1>12, Zenon
  <2> QED BY <1>2, <1>3, <1>4, <1>8, <2>2, <2>6, <2>7, Zenon DEF CostOf
<1>13. CASE table[j] = NoBucket
  <2>1. Current(j) = L!Cells /\ Current(j)' = L!Cells
    BY <1>2, <1>3, <1>13, Zenon DEF Current
  <2>2. L!Drain(d) + O <= d + Credit(j)
    <3>1. CASE ~Dry(j)
      BY <1>4, <1>5, <1>9, <3>1
    <3>2. CASE Dry(j)
      <4>1. PICK t \in Tasks : t \in Old(j) /\ level[held[t]] = 0
        BY <3>2, Zenon DEF Dry
      <4>2. held[t] # NoBucket /\ user[t] = j
        BY <4>1, Zenon DEF Old
      <4>3. L!Cells <= d + level[held[t]]
        BY <4>2, Zenon DEF LInv, Covered
      <4>4. d >= 1
        BY <1>3, <1>4, <4>1, <4>3
      <4> QED BY <1>4, <1>5, <1>9, <4>4
    <3> QED BY <3>1, <3>2
  <2>3. L!Drain(d) + L!Cells + O <= L!Cells + Margin * e
    <3> HIDE DEF O, e, d
    <3>1. d + L!Cells + Credit(j) <= L!Cells + Margin * e
      BY <1>10, <2>1, Zenon
    <3> QED BY <1>3, <1>4, <1>5, <1>9, <1>11, <2>2, <3>1
  <2> QED BY <1>2, <1>3, <1>4, <1>8, <1>13, <2>1, <2>3, Zenon DEF CostOf
<1> QED BY <1>12, <1>13

LEMMA LimiterInitCost ==
    ASSUME L!Configured, L!Init
    PROVE  Cost
<1> SUFFICES ASSUME NEW i \in Identities PROVE CostOf(i)
  BY DEF Cost
<1>1. table[i] = NoBucket /\ debt[i] = 0 /\ evicted[i] = 0 /\ \A t \in Tasks : held[t] = NoBucket
  BY DEF L!Init
<1>2. Old(i) = {}
  BY <1>1, Zenon DEF Old
<1>3. ~Dry(i)
  BY <1>2, Zenon DEF Dry
<1>4. Credit(i) = 0 /\ Current(i) = L!Cells
  BY <1>1, <1>2, <1>3, FS_EmptySet, Zenon DEF Credit, Current
<1>5. Margin \in Nat
  BY MarginGrows
<1>6. Margin * 0 = 0
  <2> HIDE DEF Margin
  <2> QED BY <1>5
<1> QED BY <1>1, <1>4, <1>6, Positive DEF CostOf

LEMMA LimiterNextCost ==
    ASSUME L!Configured, LInv, Cost, [L!Next]_(L!limiterVars)
    PROVE  Cost'
<1> SUFFICES ASSUME NEW j \in Identities PROVE CostOf(j)'
  BY Zenon DEF Cost
<1>1. CASE UNCHANGED L!limiterVars
  <2>1. UNCHANGED <<table, level, held, user, debt, evicted>>
    BY <1>1, Zenon DEF L!limiterVars
  <2>2. Old(j)' = Old(j)
    BY <2>1, Zenon DEF Old
  <2>3. Current(j)' = Current(j)
    BY <2>1, Zenon DEF Current, L!Cells, L!AtLeastOne
  <2>4. Credit(j)' = Credit(j)
    BY <2>1, <2>2, Zenon DEF Credit, Dry
  <2> QED BY <2>1, <2>2, <2>3, <2>4, CostKept, Zenon DEF Cost
<1>2. CASE L!Next
  BY <1>2, GetCost, CheckCost, DoneCost, EvictCost, RefillCost, Zenon DEF L!Next
<1> QED BY <1>1, <1>2, Zenon

(* RateLimiter::check over-issues for a dropped bucket, and by no more than the   *)
(* new bucket's burst and the other requests that were in check: per drop, with   *)
(* any number of requests, drops and refills in any order.                        *)
THEOREM EvictionCostAlways == L!Configured => (L!Spec => []L!EvictionCost)
<1> SUFFICES ASSUME L!Configured PROVE L!Spec => []L!EvictionCost
  OBVIOUS
<1>1. LInv /\ Cost => L!EvictionCost
  <2> SUFFICES ASSUME LInv, Cost, NEW i \in Identities PROVE debt[i] <= L!Cells + Margin * evicted[i]
    BY SameCardinality, Zenon DEF L!EvictionCost, Margin
  <2>1. /\ debt[i] \in Nat /\ evicted[i] \in Nat
        /\ table[i] # NoBucket => level[table[i]] \in Nat
    BY Positive DEF LInv, L!TypeOK, L!Configured
  <2>2. Current(i) \in Nat /\ Credit(i) \in Nat /\ L!Cells \in Nat
    BY <2>1, Positive, CreditRange DEF Current
  <2>3. Margin * evicted[i] \in Nat
    BY <2>1, MarginGrows
  <2>4. debt[i] + Current(i) + Credit(i) <= L!Cells + Margin * evicted[i]
    BY Zenon DEF Cost, CostOf
  <2> QED BY <2>1, <2>2, <2>3, <2>4
<1>2. L!Spec => []LInv
  BY LimiterInvAlways
<1>3. L!Init => Cost
  BY LimiterInitCost
<1>4. LInv /\ Cost /\ [L!Next]_(L!limiterVars) => Cost'
  BY LimiterNextCost
<1> QED BY <1>1, <1>2, <1>3, <1>4, PTL DEF L!Spec

-----------------------------------------------------------------------------
(* Admission: what holds of the two parts holds of admit, which runs one after    *)
(* the other; and whoever reaches the limiter has been authorized.                *)

(* Every nonempty set of numbers has a least one.                                 *)
LEMMA LeastElement ==
    ASSUME NEW S \in SUBSET Nat, S # {}
    PROVE  \E n \in S : \A m \in S : n <= m
<1> DEFINE R == OpToRel(<, Nat)
<1>1. IsWellFoundedOn(R, Nat)
  BY NatLessThanWellFounded, Zenon
<1>2. \A x, y \in Nat : <<x, y>> \in R <=> x < y
  BY DEF OpToRel
<1> HIDE DEF R
<1>3. \E x \in S : \A y \in S : ~ (<<y, x>> \in R)
  BY <1>1, WFMin, Zenon
<1>4. PICK x \in S : \A y \in S : ~ (<<y, x>> \in R)
  BY <1>3
<1>5. \A y \in S : ~ (y < x)
  BY <1>2, <1>4, Zenon
<1>6. \A y \in S : x <= y
  BY <1>5
<1> QED BY <1>6

LEMMA Elements ==
    ASSUME NEW T, NEW s \in Seq(T)
    PROVE  /\ \A n \in DOMAIN s : s[n] \in T /\ n \in Nat
           /\ s # <<>> => Head(s) \in T
OBVIOUS

(* parse_identity yields a name that the certificate contains, or none.           *)
LEMMA NamesAreIdentities ==
    ASSUME NEW k \in Certs
    PROVE  ParseIdentity(k) \in Identities \cup {None}
<1> DEFINE c == Content[k]
           uris == {n \in DOMAIN c.names : c.names[n].kind = "URI"}
           first == CHOOSE n \in uris : \A m \in uris : n <= m
<1>1. /\ c.names \in Seq([kind : {"URI", "DNS"}, name : Identities])
      /\ c.cns \in Seq([readable : BOOLEAN, name : Identities])
  BY ContentTyped, Zenon
<1>2. \A n \in DOMAIN c.names : c.names[n].name \in Identities /\ n \in Nat
  <2>1. \A n \in DOMAIN c.names : c.names[n] \in [kind : {"URI", "DNS"}, name : Identities] /\ n \in Nat
    BY <1>1, Elements, Zenon
  <2> QED BY <2>1
<1>3. c.cns # <<>> => Head(c.cns).name \in Identities
  <2>1. c.cns # <<>> => Head(c.cns) \in [readable : BOOLEAN, name : Identities]
    BY <1>1, Elements, Zenon
  <2> QED BY <2>1
<1>4. uris # {} => first \in uris
  <2>1. uris \in SUBSET Nat
    BY <1>2
  <2> HIDE DEF uris
  <2> QED BY <2>1, LeastElement, Zenon
<1>5. uris # {} => c.names[first].name \in Identities
  <2>1. uris # {} => first \in DOMAIN c.names
    BY <1>4, Zenon
  <2> HIDE DEF first, uris
  <2> QED BY <1>2, <2>1, Zenon
<1> HIDE DEF c, uris, first
<1>6. ParseIdentity(k) = CASE ~c.parses -> None
          [] c.parses /\ uris # {} -> c.names[first].name
          [] c.parses /\ uris = {} /\ c.cns # <<>> /\ Head(c.cns).readable -> Head(c.cns).name
          [] OTHER -> None
  BY DEF ParseIdentity, c, uris, first
<1>7. \/ ParseIdentity(k) = None
      \/ uris # {} /\ ParseIdentity(k) = c.names[first].name
      \/ c.cns # <<>> /\ ParseIdentity(k) = Head(c.cns).name
  BY <1>6
<1> QED BY <1>3, <1>5, <1>7, Zenon

(* Between the two parts: a request is allowed under the name in its certificate, *)
(* and draws on the bucket of that name, and only while it is allowed.            *)
Linked ==
    \A t \in Tasks :
        /\ pc[t] = "allowed" => who[t] = Caller(req[t])
        /\ held[t] # NoBucket => limited /\ pc[t] = "allowed" /\ user[t] = who[t]

AInv == Inv /\ LInv /\ Linked

(* A step of admit is a step of the authorizer, or none.                          *)
LEMMA AuthorizerStep == [AdmitNext]_allVars => [Next]_vars
<1> SUFFICES ASSUME [AdmitNext]_allVars PROVE Next \/ UNCHANGED vars
  OBVIOUS
<1>1. CASE UNCHANGED allVars
  BY <1>1, Zenon DEF allVars
<1>2. CASE AdmitNext
  BY <1>2, Zenon DEF AdmitNext, Authorize, Draw, Spend, Leave, Forget, Elapse, Next
<1> QED BY <1>1, <1>2

(* admit runs the authorizer as it is, whatever the limiter does in between.      *)
THEOREM AdmissionAuthorizes == AdmitSpec => Spec
<1>1. AdmitInit => Init
  BY DEF AdmitInit
<1> QED BY <1>1, AuthorizerStep, PTL DEF AdmitSpec, Spec

(* The name that an allowed request draws under is a name.                        *)
LEMMA DrawnName ==
    ASSUME AInv, NEW t \in Tasks, pc[t] = "allowed"
    PROVE  who[t] \in Identities
<1>1. who[t] = Caller(req[t]) /\ Caller(req[t]) # None
  BY Zenon DEF AInv, Linked, Inv, Decisions
<1>2. Caller(req[t]) \in Identities \cup {None}
  BY NamesAreIdentities, Zenon DEF Caller
<1> QED BY <1>1, <1>2, Zenon

(* A step of admit is a step of the limiter, or none.                             *)
LEMMA LimiterStep ==
    ASSUME AInv, [AdmitNext]_allVars
    PROVE  [L!Next]_(L!limiterVars)
<1>1. CASE UNCHANGED allVars
  BY <1>1, Zenon DEF allVars, lim, L!limiterVars
<1>2. ASSUME NEW t \in Tasks, Authorize(t) PROVE UNCHANGED L!limiterVars
  BY <1>2, Zenon DEF Authorize, lim, L!limiterVars
<1>3. ASSUME NEW t \in Tasks, Draw(t) PROVE L!Next
  BY <1>3, DrawnName, Zenon DEF Draw, L!Next
<1>4. ASSUME NEW t \in Tasks, Spend(t) PROVE L!Next
  BY <1>4, Zenon DEF Spend, L!Next
<1>5. ASSUME NEW t \in Tasks, Leave(t) PROVE L!Next \/ UNCHANGED L!limiterVars
  BY <1>5, Zenon DEF Leave, L!Next, lim, L!limiterVars
<1>6. CASE Forget
  BY <1>6, Zenon DEF Forget, L!Next
<1>7. CASE Elapse
  BY <1>7, Zenon DEF Elapse, L!Next
<1> QED BY <1>1, <1>2, <1>3, <1>4, <1>5, <1>6, <1>7, Zenon DEF AdmitNext

LEMMA LinkedKept ==
    ASSUME AInv, [AdmitNext]_allVars
    PROVE  Linked'
<1> SUFFICES ASSUME NEW t \in Tasks
             PROVE  /\ pc'[t] = "allowed" => who'[t] = Caller(req'[t])
                    /\ held'[t] # NoBucket =>
                          limited' /\ pc'[t] = "allowed" /\ user'[t] = who'[t]
  BY Zenon DEF Linked, Caller
<1>0. /\ pc \in [Tasks -> PCs] /\ req \in [Tasks -> Requests \cup {NoRequest}]
      /\ who = [u \in Tasks |-> who[u]]
      /\ held \in [Tasks -> Buckets \cup {NoBucket}] /\ user \in [Tasks -> Identities \cup {None}]
  BY Zenon DEF AInv, Inv, Shape, LInv, L!TypeOK
<1>a. /\ pc[t] = "allowed" => who[t] = Caller(req[t])
      /\ held[t] # NoBucket => limited /\ pc[t] = "allowed" /\ user[t] = who[t]
      /\ held[t] # NoBucket => verdict[t] = "none"
  BY Zenon DEF AInv, Linked, LInv, Owned
<1>1. CASE UNCHANGED allVars
  BY <1>1, <1>a, Zenon DEF allVars, vars, lim
<1>2. ASSUME NEW u \in Tasks, Authorize(u)
      PROVE  /\ pc'[t] = "allowed" => who'[t] = Caller(req'[t])
             /\ held'[t] # NoBucket =>
                   limited' /\ pc'[t] = "allowed" /\ user'[t] = who'[t]
  <2>1. UNCHANGED <<limited, held, user>>
    BY <1>2, Zenon DEF Authorize, lim
  <2>2. CASE u # t
    <3>1. pc'[t] = pc[t] /\ who'[t] = who[t] /\ req'[t] = req[t]
      BY <1>0, <1>2, <2>2 DEF Authorize, Receive, Identify, Store, Decide, Goto
    <3> QED BY <1>a, <2>1, <3>1, Zenon
  <2>3. CASE u = t
    <3>1. held[t] = NoBucket
      <4>1. pc[t] \in {"idle", "identify", "store", "decide"}
        BY <1>2, <2>3, Zenon DEF Authorize, Receive, Identify, Store, Decide
      <4> QED BY <1>a, <4>1
    <3>2. pc'[t] = "allowed" => pc[t] = "decide" /\ UNCHANGED <<req, who>>
      BY <1>0, <1>2, <2>3 DEF Authorize, Receive, Identify, Store, Decide, Goto
    <3>3. pc[t] = "decide" => who[t] = Caller(req[t])
      BY Zenon DEF AInv, Inv, CacheTruthful, Caller
    <3> QED BY <2>1, <3>1, <3>2, <3>3, Zenon
  <2> QED BY <2>2, <2>3
<1>3. ASSUME NEW u \in Tasks, Draw(u)
      PROVE  /\ pc'[t] = "allowed" => who'[t] = Caller(req'[t])
             /\ held'[t] # NoBucket =>
                   limited' /\ pc'[t] = "allowed" /\ user'[t] = who'[t]
  <2>1. /\ UNCHANGED <<limited, pc, req, who>> /\ limited /\ pc[u] = "allowed"
        /\ user' = [user EXCEPT ![u] = who[u]]
    BY <1>3, Zenon DEF Draw, L!Get, vars
  <2>2. u # t => held'[t] = held[t]
    BY <1>0, <1>3 DEF Draw, L!Get
  <2>3. user'[u] = who[u] /\ (u # t => user'[t] = user[t])
    BY <1>0, <2>1
  <2> QED BY <1>a, <2>1, <2>2, <2>3, Zenon
<1>4. ASSUME NEW u \in Tasks, Spend(u)
      PROVE  /\ pc'[t] = "allowed" => who'[t] = Caller(req'[t])
             /\ held'[t] # NoBucket =>
                   limited' /\ pc'[t] = "allowed" /\ user'[t] = who'[t]
  <2>1. UNCHANGED <<limited, pc, req, who, user>> /\ held' = [held EXCEPT ![u] = NoBucket]
    BY <1>4, Zenon DEF Spend, L!Check, vars
  <2>2. held'[t] # NoBucket => held[t] # NoBucket
    BY <1>0, <2>1
  <2> QED BY <1>a, <2>1, <2>2, Zenon
<1>5. ASSUME NEW u \in Tasks, Leave(u)
      PROVE  /\ pc'[t] = "allowed" => who'[t] = Caller(req'[t])
             /\ held'[t] # NoBucket =>
                   limited' /\ pc'[t] = "allowed" /\ user'[t] = who'[t]
  <2>1. /\ UNCHANGED <<limited, held>>
        /\ pc' = [pc EXCEPT ![u] = "idle"] /\ req' = [req EXCEPT ![u] = NoRequest]
        /\ who' = [who EXCEPT ![u] = None]
        /\ \/ limited /\ pc[u] = "allowed" /\ verdict[u] # "none"
              /\ user' = [user EXCEPT ![u] = None]
           \/ ~(limited /\ pc[u] = "allowed") /\ user' = user
    BY <1>5, Zenon DEF Leave, Return, Goto, L!Done, lim
  <2>2. CASE u # t
    <3>1. /\ pc'[t] = pc[t] /\ who'[t] = who[t] /\ req'[t] = req[t] /\ user'[t] = user[t]
      BY <1>0, <2>1, <2>2
    <3> QED BY <1>a, <2>1, <3>1, Zenon
  <2>3. CASE u = t
    <3>1. pc'[t] = "idle"
      BY <1>0, <2>1, <2>3
    <3>2. held[t] = NoBucket
      BY <1>a, <2>1, <2>3, Zenon
    <3> QED BY <2>1, <3>1, <3>2
  <2> QED BY <2>2, <2>3
<1>6. CASE Forget
  BY <1>6, <1>a, Zenon DEF Forget, L!Evict, vars
<1>7. CASE Elapse
  BY <1>7, <1>a, Zenon DEF Elapse, L!Refill, vars
<1> QED BY <1>1, <1>2, <1>3, <1>4, <1>5, <1>6, <1>7, Zenon DEF AdmitNext

LEMMA AInvAlways == AdmitSpec => []AInv
<1>1. AdmitInit => AInv
  <2> SUFFICES ASSUME AdmitInit PROVE AInv
    OBVIOUS
  <2>1. Inv /\ LInv
    BY InitInv, LimiterInitInv, LimiterConfigured DEF AdmitInit
  <2>2. Linked
    BY DEF AdmitInit, Linked, Init, L!Init
  <2> QED BY <2>1, <2>2 DEF AInv
<1>2. AInv /\ [AdmitNext]_allVars => AInv'
  <2> SUFFICES ASSUME AInv, [AdmitNext]_allVars PROVE AInv'
    OBVIOUS
  <2>1. Inv'
    BY AuthorizerStep, NextInv DEF AInv
  <2>2. LInv'
    BY LimiterStep, LimiterNextInv, LimiterConfigured, Zenon DEF AInv
  <2> QED BY <2>1, <2>2, LinkedKept DEF AInv
<1> QED BY <1>1, <1>2, PTL DEF AdmitSpec

(* And the limiter as it is: no request gets to draw under a name that is none.   *)
THEOREM AdmissionLimits == AdmitSpec => L!Spec
<1>1. AdmitInit => L!Init
  BY DEF AdmitInit
<1>2. AInv /\ [AdmitNext]_allVars => [L!Next]_(L!limiterVars)
  BY LimiterStep
<1> QED BY <1>1, <1>2, AInvAlways, PTL DEF AdmitSpec, L!Spec

(* So that admit over-issues for a dropped bucket by no more than its limiter.    *)
THEOREM AdmissionCost == AdmitSpec => []EvictionCost
<1>1. L!Spec => []L!EvictionCost
  BY EvictionCostAlways, LimiterConfigured
<1>2. L!EvictionCost <=> EvictionCost
  BY DEF EvictionCost
<1> QED BY <1>1, <1>2, AdmissionLimits, PTL

(* Nobody is refused by admit for what another identity has spent.                *)
THEOREM AdmissionRefuses == AdmitSpec => RefusedOnlyIfSpent
<1>1. L!Spec => L!RefusedOnlyIfSpent
  BY RefusedOnlyIfSpentHolds, LimiterConfigured
<1> QED BY <1>1, AdmissionLimits, PTL DEF RefusedOnlyIfSpent

(* Step 3 of admit comes after step 2: tokens of an identity go to requests with  *)
(* its certificate, for what the policy grants it, whoever else has asked.        *)
THEOREM GranteesSpend == AdmitSpec => OnlyGranteesSpend
<1> DEFINE A == \A b \in Buckets : level'[b] < level[b] =>
                  \E t \in Tasks : LET i == Caller(req[t]) IN
                      /\ held[t] = b /\ user[t] = i
                      /\ IsAllowed(policy, i, req[t].key, req[t].op)
<1>1. AInv /\ [AdmitNext]_allVars => [A]_allVars
  <2> SUFFICES ASSUME AInv, [AdmitNext]_allVars, NEW b \in Buckets, level'[b] < level[b]
               PROVE  \E t \in Tasks : /\ held[t] = b /\ user[t] = Caller(req[t])
                                       /\ IsAllowed(policy, Caller(req[t]), req[t].key, req[t].op)
    BY Zenon
  <2>1. level \in [Buckets -> 0..L!Cells] /\ L!Cells \in Nat /\ L!Rate \in Nat
    BY Positive, LimiterConfigured, Zenon DEF AInv, LInv, L!TypeOK
  <2>2. level[b] \in 0..L!Cells /\ level'[b] # level[b]
    BY <2>1
  <2>3. [L!Next]_(L!limiterVars)
    BY LimiterStep, Zenon
  <2>4. ~(UNCHANGED level)
    BY <2>2, Zenon
  <2>5. L!Next
    BY <2>3, <2>4, Zenon DEF L!limiterVars
  <2>6. ~(\E t \in Tasks, i \in Identities : L!Get(t, i))
    <3> SUFFICES ASSUME NEW c \in Buckets, level' = [level EXCEPT ![c] = L!Cells] PROVE FALSE
      BY <2>4, Zenon DEF L!Get
    <3> QED BY <2>1, <2>2
  <2>7. ~L!Refill
    <3> SUFFICES ASSUME level' = [c \in Buckets |-> L!Fill(level[c])] PROVE FALSE
      BY Zenon DEF L!Refill
    <3>1. level'[b] = L!Fill(level[b])
      OBVIOUS
    <3> QED BY <2>1, <2>2, <3>1 DEF L!Fill
  <2>8. PICK t \in Tasks : L!Check(t)
    BY <2>4, <2>5, <2>6, <2>7, Zenon DEF L!Next, L!Done, L!Evict
  <2>9. held[t] # NoBucket /\ held[t] = b
    <3>1. held[t] # NoBucket /\ level' = [level EXCEPT ![held[t]] = @ - 1]
      BY <2>4, <2>8, Zenon DEF L!Check
    <3> QED BY <2>1, <2>2, <3>1
  <2>10. pc[t] = "allowed" /\ user[t] = Caller(req[t])
    BY <2>9, Zenon DEF AInv, Linked
  <2>11. IsAllowed(policy, Caller(req[t]), req[t].key, req[t].op)
    BY <2>10, Zenon DEF AInv, Inv, Decisions
  <2> QED BY <2>9, <2>10, <2>11, Zenon
<1> QED BY <1>1, AInvAlways, PTL DEF AdmitSpec, OnlyGranteesSpend

-----------------------------------------------------------------------------
(* Policy::parse: one entry after the other, and in each one grant after the      *)
(* other.  By induction, what is allowed is what one of those read so far grants. *)

LEMMA Induct ==
    ASSUME NEW N \in Nat, NEW S \in SUBSET (0..N), 0 \in S,
           \A n \in 0..N : n # 0 /\ n - 1 \in S => n \in S
    PROVE  \A n \in 0..N : n \in S
<1> DEFINE R == {n \in 0..N : n \notin S}
<1> SUFFICES ASSUME R # {} PROVE FALSE
  OBVIOUS
<1>1. R \in SUBSET Nat
  OBVIOUS
<1>2. PICK n \in R : \A m \in R : n <= m
  <2> HIDE DEF R
  <2> QED BY <1>1, LeastElement, Zenon
<1>3. n \in 0..N /\ n \notin S /\ n # 0
  BY <1>2
<1>4. n - 1 \in 0..N /\ ~(n <= n - 1)
  BY <1>3
<1>5. n - 1 \in S
  BY <1>2, <1>4
<1> QED BY <1>3, <1>5

(* A key label's grants in the map of a workload.                                 *)
Has(perKey, k, o) == k \in DOMAIN perKey /\ o \in perKey[k]

LEMMA AddGrantMeans ==
    ASSUME NEW p, NEW g, NEW k, NEW o
    PROVE  Has(AddGrant(p, g), k, o) <=> Has(p, k, o) \/ (g.key_label = k /\ o \in g.operations)
<1> DEFINE h == AddGrant(p, g)
           v == Entry(p, g.key_label, {}) \cup g.operations
<1>1. h = With(p, g.key_label, v)
  BY Zenon DEF AddGrant
<1>2. /\ DOMAIN h = DOMAIN p \cup {g.key_label} /\ h[g.key_label] = v
      /\ \A x \in DOMAIN p : x # g.key_label => h[x] = p[x]
  <2> HIDE DEF v, h
  <2> QED BY <1>1 DEF With
<1>3. o \in v <=> Has(p, g.key_label, o) \/ o \in g.operations
  BY DEF Entry, Has
<1> HIDE DEF h, v
<1>4. Has(h, k, o) <=> Has(p, k, o) \/ (g.key_label = k /\ o \in g.operations)
  BY <1>2, <1>3 DEF Has
<1> QED BY <1>4 DEF h

Grant    == [key_label : Keys, operations : SUBSET Operations]
Workload == [identity : Identities, grants : Seq(Grant)]

LEMMA AddGrantsMeans ==
    ASSUME NEW p, NEW list \in Seq(Grant), NEW k, NEW o
    PROVE  Has(AddGrants(p, list), k, o) <=>
             Has(p, k, o) \/ \E n \in DOMAIN list : list[n].key_label = k /\ o \in list[n].operations
<1> DEFINE N == Len(list)
           Reads(f, m) == f = [n \in 0..m |-> IF n = 0 THEN p ELSE AddGrant(f[n - 1], list[n])]
           E == {m \in 0..N : \E f : Reads(f, m)}
<1>1. N \in Nat /\ DOMAIN list = 1..N
  OBVIOUS
<1> HIDE DEF N
<1>2. 0 \in E
  <2>1. Reads([n \in 0..0 |-> p], 0)
    OBVIOUS
  <2>2. \E f : Reads(f, 0)
    BY <2>1, Zenon
  <2> HIDE DEF Reads
  <2> QED BY <1>1, <2>2
<1>3. ASSUME NEW m \in 0..N, m # 0, m - 1 \in E PROVE m \in E
  <2>1. PICK f : Reads(f, m - 1)
    BY <1>3
  <2> DEFINE h == [n \in 0..m |-> IF n = m THEN AddGrant(f[m - 1], list[m]) ELSE f[n]]
  <2>2. Reads(h, m)
    <3>1. m \in Nat /\ m - 1 \in 0..m
      BY <1>1, <1>3
    <3>2. \A n \in 0..(m - 1) : h[n] = f[n]
      BY <3>1
    <3>3. ASSUME NEW n \in 0..m
          PROVE  h[n] = IF n = 0 THEN p ELSE AddGrant(h[n - 1], list[n])
      <4>1. CASE n = m
        <5>1. h[n] = AddGrant(f[m - 1], list[m])
          BY <4>1
        <5>2. h[n - 1] = f[m - 1]
          BY <3>1, <3>2, <4>1, <1>3
        <5> QED BY <1>3, <4>1, <5>1, <5>2, Zenon
      <4>2. CASE n # m
        <5>1. n \in 0..(m - 1) /\ (n # 0 => n - 1 \in 0..(m - 1))
          BY <3>1, <4>2
        <5>2. f[n] = IF n = 0 THEN p ELSE AddGrant(f[n - 1], list[n])
          BY <2>1, <5>1
        <5>3. h[n] = f[n] /\ (n # 0 => h[n - 1] = f[n - 1])
          BY <3>2, <5>1
        <5> QED BY <5>2, <5>3, Zenon
      <4> QED BY <4>1, <4>2, Zenon
    <3> QED BY <3>3, Zenon
  <2>3. \E g : Reads(g, m)
    BY <2>2, Zenon
  <2> HIDE DEF Reads
  <2> QED BY <2>3
<1>4. \E f : Reads(f, N)
  <2>1. E \in SUBSET (0..N) /\ N \in 0..N
    BY <1>1
  <2> HIDE DEF E
  <2>2. N \in E
    BY <1>1, <1>2, <1>3, <2>1, Induct, Zenon
  <2> USE DEF E
  <2> HIDE DEF Reads
  <2> QED BY <2>2
<1> DEFINE after == CHOOSE f : Reads(f, N)
<1>5. Reads(after, N)
  BY <1>4, Zenon
<1>6. AddGrants(p, list) = after[N]
  BY DEF AddGrants, N
<1> HIDE DEF after
<1> DEFINE Said(m) == \E n \in 1..m : list[n].key_label = k /\ o \in list[n].operations
           S == {m \in 0..N : Has(after[m], k, o) <=> Has(p, k, o) \/ Said(m)}
<1>7. 0 \in S
  <2>1. after[0] = p /\ 0 \in 0..N /\ 1..0 = {}
    BY <1>1, <1>5
  <2> QED BY <2>1
<1>8. ASSUME NEW m \in 0..N, m # 0, m - 1 \in S PROVE m \in S
  <2>1. after[m] = AddGrant(after[m - 1], list[m])
    BY <1>5, <1>8
  <2>2. Has(after[m], k, o) <=>
          Has(after[m - 1], k, o) \/ (list[m].key_label = k /\ o \in list[m].operations)
    <3>1. Has(AddGrant(after[m - 1], list[m]), k, o) <=>
            Has(after[m - 1], k, o) \/ (list[m].key_label = k /\ o \in list[m].operations)
      BY AddGrantMeans
    <3> QED BY <2>1, <3>1, Zenon
  <2>3. 1..m = 1..(m - 1) \cup {m}
    BY <1>1, <1>8
  <2>4. Said(m) <=> Said(m - 1) \/ (list[m].key_label = k /\ o \in list[m].operations)
    BY <2>3, Zenon
  <2>5. Has(after[m - 1], k, o) <=> Has(p, k, o) \/ Said(m - 1)
    BY <1>8, Zenon
  <2> HIDE DEF Said
  <2> QED BY <2>2, <2>4, <2>5, Zenon
<1>9. N \in S
  <2>1. S \in SUBSET (0..N) /\ N \in 0..N
    <3>1. N \in 0..N
      BY <1>1
    <3> HIDE DEF Said
    <3> QED BY <3>1, Zenon
  <2> HIDE DEF S
  <2> QED BY <1>1, <1>7, <1>8, <2>1, Induct, Zenon
<1> QED BY <1>1, <1>6, <1>9, Zenon

\* An entry of the file grants a workload an operation on a key.
GrantedBy(w, i, k, o) ==
    /\ w.identity = i
    /\ \E n \in DOMAIN w.grants :
          w.grants[n].key_label = k /\ o \in w.grants[n].operations

(* A workload's entry adds its grants to those that it had.                       *)
LEMMA AddWorkloadMeans ==
    ASSUME NEW p, NEW w \in Workload, NEW i, NEW k, NEW o
    PROVE  IsAllowed(AddWorkload(p, w), i, k, o) <=>
             IsAllowed(p, i, k, o) \/ GrantedBy(w, i, k, o)
<1> DEFINE h == AddWorkload(p, w)
           old == Entry(p, w.identity, Empty)
           v == AddGrants(old, w.grants)
           Said == \E n \in DOMAIN w.grants :
                      w.grants[n].key_label = k /\ o \in w.grants[n].operations
<1>1. h = With(p, w.identity, v)
  BY Zenon DEF AddWorkload
<1>2. /\ DOMAIN h = DOMAIN p \cup {w.identity} /\ h[w.identity] = v
      /\ \A x \in DOMAIN p : x # w.identity => h[x] = p[x]
  <2> HIDE DEF v, h
  <2> QED BY <1>1 DEF With
<1>3. Has(v, k, o) <=> Has(old, k, o) \/ Said
  <2>1. w.grants \in Seq(Grant)
    BY DEF Workload
  <2> HIDE DEF old
  <2> QED BY <2>1, AddGrantsMeans
<1>4. Has(old, k, o) <=> IsAllowed(p, w.identity, k, o)
  <2>1. ~Has(Empty, k, o)
    BY DEF Has, Empty
  <2> QED BY <2>1, Zenon DEF Entry, Has, IsAllowed
<1>5. \A x, q : IsAllowed(q, x, k, o) <=> x \in DOMAIN q /\ Has(q[x], k, o)
  BY Zenon DEF IsAllowed, Has
<1> HIDE DEF h, v, old, Said
<1>6. IsAllowed(h, i, k, o) <=> IsAllowed(p, i, k, o) \/ (w.identity = i /\ Said)
  <2>1. CASE i = w.identity
    <3>1. i \in DOMAIN h /\ h[i] = v
      BY <1>2, <2>1, Zenon
    <3> QED BY <1>3, <1>4, <1>5, <2>1, <3>1, Zenon
  <2>2. CASE i # w.identity
    BY <1>2, <1>5, <2>2, Zenon
  <2> QED BY <2>1, <2>2, Zenon
<1> QED BY <1>6, Zenon DEF h, Said, GrantedBy

LEMMA CompileMeans ==
    ASSUME NEW f \in Seq(Workload), NEW i, NEW k, NEW o
    PROVE  IsAllowed(Compile(f), i, k, o) <=>
             \E m \in DOMAIN f : GrantedBy(f[m], i, k, o)
<1> DEFINE N == Len(f)
           Reads(g, m) == g = [n \in 0..m |-> IF n = 0 THEN Empty ELSE AddWorkload(g[n - 1], f[n])]
           E == {m \in 0..N : \E g : Reads(g, m)}
<1>1. N \in Nat /\ DOMAIN f = 1..N /\ \A n \in 1..N : f[n] \in Workload
  OBVIOUS
<1> HIDE DEF N
<1>2. 0 \in E
  <2>1. Reads([n \in 0..0 |-> Empty], 0)
    OBVIOUS
  <2>2. \E g : Reads(g, 0)
    BY <2>1, Zenon
  <2> HIDE DEF Reads
  <2> QED BY <1>1, <2>2
<1>3. ASSUME NEW m \in 0..N, m # 0, m - 1 \in E PROVE m \in E
  <2>1. PICK g : Reads(g, m - 1)
    BY <1>3
  <2> DEFINE h == [n \in 0..m |-> IF n = m THEN AddWorkload(g[m - 1], f[m]) ELSE g[n]]
  <2>2. Reads(h, m)
    <3>1. m \in Nat /\ m - 1 \in 0..m
      BY <1>1, <1>3
    <3>2. \A n \in 0..(m - 1) : h[n] = g[n]
      BY <3>1
    <3>3. ASSUME NEW n \in 0..m
          PROVE  h[n] = IF n = 0 THEN Empty ELSE AddWorkload(h[n - 1], f[n])
      <4>1. CASE n = m
        <5>1. h[n] = AddWorkload(g[m - 1], f[m])
          BY <4>1
        <5>2. h[n - 1] = g[m - 1]
          BY <3>1, <3>2, <4>1, <1>3
        <5> QED BY <1>3, <4>1, <5>1, <5>2, Zenon
      <4>2. CASE n # m
        <5>1. n \in 0..(m - 1) /\ (n # 0 => n - 1 \in 0..(m - 1))
          BY <3>1, <4>2
        <5>2. g[n] = IF n = 0 THEN Empty ELSE AddWorkload(g[n - 1], f[n])
          BY <2>1, <5>1
        <5>3. h[n] = g[n] /\ (n # 0 => h[n - 1] = g[n - 1])
          BY <3>2, <5>1
        <5> QED BY <5>2, <5>3, Zenon
      <4> QED BY <4>1, <4>2, Zenon
    <3> QED BY <3>3, Zenon
  <2>3. \E u : Reads(u, m)
    BY <2>2, Zenon
  <2> HIDE DEF Reads
  <2> QED BY <2>3
<1>4. \E g : Reads(g, N)
  <2>1. E \in SUBSET (0..N) /\ N \in 0..N
    BY <1>1
  <2> HIDE DEF E
  <2>2. N \in E
    BY <1>1, <1>2, <1>3, <2>1, Induct, Zenon
  <2> USE DEF E
  <2> HIDE DEF Reads
  <2> QED BY <2>2
<1> DEFINE after == CHOOSE g : Reads(g, N)
<1>5. Reads(after, N)
  BY <1>4, Zenon
<1>6. Compile(f) = after[N]
  BY DEF Compile, N
<1> HIDE DEF after
<1> DEFINE Grants(m) == GrantedBy(f[m], i, k, o)
           Said(m) == \E n \in 1..m : Grants(n)
           S == {m \in 0..N : IsAllowed(after[m], i, k, o) <=> Said(m)}
<1>7. 0 \in S
  <2>1. after[0] = Empty /\ 0 \in 0..N /\ 1..0 = {}
    BY <1>1, <1>5
  <2>2. ~IsAllowed(Empty, i, k, o)
    BY DEF IsAllowed, Empty
  <2>3. ~Said(0)
    BY <2>1, Zenon
  <2> HIDE DEF Said
  <2> QED BY <2>1, <2>2, <2>3, Zenon
<1>8. ASSUME NEW m \in 0..N, m # 0, m - 1 \in S PROVE m \in S
  <2>1. after[m] = AddWorkload(after[m - 1], f[m]) /\ f[m] \in Workload
    BY <1>1, <1>5, <1>8
  <2>2. IsAllowed(after[m], i, k, o) <=> IsAllowed(after[m - 1], i, k, o) \/ Grants(m)
    <3>1. IsAllowed(AddWorkload(after[m - 1], f[m]), i, k, o) <=>
            IsAllowed(after[m - 1], i, k, o) \/ Grants(m)
      BY <2>1, AddWorkloadMeans, Zenon
    <3> HIDE DEF Grants
    <3> QED BY <2>1, <3>1, Zenon
  <2> HIDE DEF Grants
  <2>3. 1..m = 1..(m - 1) \cup {m}
    BY <1>1, <1>8
  <2>4. Said(m) <=> Said(m - 1) \/ Grants(m)
    BY <2>3, Zenon
  <2>5. IsAllowed(after[m - 1], i, k, o) <=> Said(m - 1)
    BY <1>8, Zenon
  <2> HIDE DEF Said
  <2> QED BY <2>2, <2>4, <2>5, Zenon
<1>9. N \in S
  <2>1. S \in SUBSET (0..N) /\ N \in 0..N
    <3>1. N \in 0..N
      BY <1>1
    <3> HIDE DEF Said
    <3> QED BY <3>1, Zenon
  <2> HIDE DEF S
  <2> QED BY <1>1, <1>7, <1>8, <2>1, Induct, Zenon
<1> QED BY <1>1, <1>6, <1>9, Zenon

(* Policy::parse loses and adds nothing, for files of any length in which any     *)
(* workload, key or operation may be repeated; and the policy never changes.      *)
THEOREM PolicyMeansFileAlways == Spec => []PolicyMeansFile
<1>1. Init => PolicyMeansFile
  <2> SUFFICES ASSUME Init, NEW i \in Identities, NEW k \in Keys, NEW o \in Operations
               PROVE  IsAllowed(policy, i, k, o) <=> Says(i, k, o)
    BY Zenon DEF PolicyMeansFile
  <2>1. policy = Compile(file) /\ file \in Seq(Workload)
    BY FilesTyped, Zenon DEF Init, Workload, Grant
  <2>2. IsAllowed(Compile(file), i, k, o) <=> \E m \in DOMAIN file : GrantedBy(file[m], i, k, o)
    BY <2>1, CompileMeans, Zenon
  <2>3. Says(i, k, o) <=> \E m \in DOMAIN file : GrantedBy(file[m], i, k, o)
    BY Zenon DEF Says, GrantedBy
  <2> QED BY <2>1, <2>2, <2>3, Zenon
<1>2. PolicyMeansFile /\ [Next]_vars => PolicyMeansFile'
  <2>1. [Next]_vars => UNCHANGED <<policy, file>>
    BY Zenon DEF Next, Receive, Identify, Store, Decide, Return, vars
  <2> SUFFICES ASSUME PolicyMeansFile, UNCHANGED <<policy, file>>,
                      NEW i \in Identities, NEW k \in Keys, NEW o \in Operations
               PROVE  (IsAllowed(policy, i, k, o) <=> Says(i, k, o))'
    BY <2>1, Zenon DEF PolicyMeansFile
  <2>2. IsAllowed(policy, i, k, o) <=> Says(i, k, o)
    BY Zenon DEF PolicyMeansFile
  <2>3. IsAllowed(policy, i, k, o)' <=> IsAllowed(policy, i, k, o)
    BY DEF IsAllowed
  <2>4. Says(i, k, o)' <=> Says(i, k, o)
    BY DEF Says
  <2> QED BY <2>2, <2>3, <2>4, Zenon
<1> QED BY <1>1, <1>2, PTL DEF Spec
===============================================================================
