-------------------------------- MODULE Authz --------------------------------
(***************************************************************************)
(* Authorization (proxy/src/authz/): the policy compiled from its file, the *)
(* identity in a client certificate and the cache of parsed certificates,  *)
(* and the decision that combines them, for concurrent requests.           *)
(*                                                                         *)
(* The identity cache is a map behind a RwLock: a request looks under the  *)
(* read lock, parses on its own when it misses, and stores under the write *)
(* lock, so other requests may store, or clear the map, in between.        *)
(***************************************************************************)
EXTENDS Naturals, FiniteSets, Sequences

CONSTANTS
    Tasks,         \* concurrent request handlers
    Certs,         \* leaf certificates, by their DER
    Content,       \* what the parser finds in each certificate
    NoCert,        \* a request without a client certificate
    Files,         \* policy files: sequences of workload entries
    Keys,          \* key labels
    Operations,    \* Operation
    Identities,    \* names that certificates and policies use
    None,          \* no identity
    MaxCached,     \* MAX_CACHED_IDENTITIES
    Modulus        \* the counters are AtomicU64 and wrap; 2^64 in the code

ASSUME CertsFinite == IsFiniteSet(Certs) /\ NoCert \notin Certs
ASSUME NoneIsNoName == None \notin Identities
ASSUME ContentTyped ==
    Content \in [Certs -> [parses : BOOLEAN,
                           names : Seq([kind : {"URI", "DNS"}, name : Identities]),
                           cns : Seq([readable : BOOLEAN, name : Identities])]]
ASSUME FilesTyped ==
    \A f \in Files :
        f \in Seq([identity : Identities,
                  grants : Seq([key_label : Keys, operations : SUBSET Operations])])
ASSUME BoundsTyped == MaxCached \in Nat \ {0} /\ Modulus \in Nat \ {0}

VARIABLES
    file,      \* the policy file
    policy,    \* Policy::grants
    cache,     \* IdentityExtractor::cache
    pc,        \* where each request is
    req,       \* its certificate, key label and operation
    who,       \* the identity it has established
    metrics    \* AuthzMetrics

vars == <<file, policy, cache, pc, req, who, metrics>>

-----------------------------------------------------------------------------
(* Maps whose entries are made on first use. *)

Entry(f, k, default) == IF k \in DOMAIN f THEN f[k] ELSE default
With(f, k, v) == [x \in DOMAIN f \cup {k} |-> IF x = k THEN v ELSE f[x]]
Empty == [x \in {} |-> {}]

(* Policy::parse. *)

AddGrant(perKey, grant) ==
    With(perKey, grant.key_label, Entry(perKey, grant.key_label, {}) \cup grant.operations)

\* The grants of an entry, one after the other.
AddGrants(perKey, list) ==
    LET after[n \in 0..Len(list)] ==
            IF n = 0 THEN perKey ELSE AddGrant(after[n - 1], list[n])
    IN  after[Len(list)]

\* Mutant: a second entry for a workload replaces the first.
AddWorkload_Replaces(grants, workload) ==
    With(grants, workload.identity, AddGrants(Empty, workload.grants))

AddWorkload(grants, workload) ==
    With(grants, workload.identity,
         AddGrants(Entry(grants, workload.identity, Empty), workload.grants))

\* The entries of the file, likewise.
Compile(workloads) ==
    LET after[n \in 0..Len(workloads)] ==
            IF n = 0 THEN Empty ELSE AddWorkload(after[n - 1], workloads[n])
    IN  after[Len(workloads)]

\* Policy::is_allowed.
IsAllowed(p, identity, key, op) ==
    /\ identity \in DOMAIN p
    /\ key \in DOMAIN p[identity]
    /\ op \in p[identity][key]

-----------------------------------------------------------------------------
\* parse_identity: the first URI among the alternative names, or else the first
\* common name, if it is readable.
ParseIdentity(cert) ==
    LET c     == Content[cert]
        uris  == {n \in DOMAIN c.names : c.names[n].kind = "URI"}
        first == CHOOSE n \in uris : \A m \in uris : n <= m
    IN  CASE ~c.parses -> None
          [] c.parses /\ uris # {} -> c.names[first].name
          [] c.parses /\ uris = {} /\ c.cns # <<>> /\ Head(c.cns).readable -> Head(c.cns).name
          [] OTHER -> None

\* The identity that a request's certificate establishes, if it has one.
Caller(r) == IF r.cert \in Certs THEN ParseIdentity(r.cert) ELSE None

Goto(t, p) == pc' = [pc EXCEPT ![t] = p]

Count(c) == metrics' = [metrics EXCEPT ![c] = (@ + 1) % Modulus]

Requests == [cert : Certs \cup {NoCert}, key : Keys, op : Operations]
NoRequest == [cert |-> NoCert]
Counters == {"allowed", "denied", "unauthenticated"}

Init ==
    /\ file \in Files
    /\ policy = Compile(file)
    /\ cache = Empty
    /\ pc = [t \in Tasks |-> "idle"]
    /\ req = [t \in Tasks |-> NoRequest]
    /\ who = [t \in Tasks |-> None]
    /\ metrics = [c \in Counters |-> 0]

Receive(t, r) ==
    /\ pc[t] = "idle"
    /\ req' = [req EXCEPT ![t] = r]
    /\ Goto(t, "identify")
    /\ UNCHANGED <<file, policy, cache, who, metrics>>

\* identify: no certificate, found under the read lock, or parsed.
Identify(t) ==
    LET cert == req[t].cert IN
    /\ pc[t] = "identify"
    /\ \/ /\ cert \in DOMAIN cache
          /\ who' = [who EXCEPT ![t] = cache[cert]]
          /\ Goto(t, "decide")
          /\ UNCHANGED metrics
       \/ /\ cert \notin DOMAIN cache
          /\ Caller(req[t]) # None
          /\ who' = [who EXCEPT ![t] = Caller(req[t])]
          /\ Goto(t, "store")
          /\ UNCHANGED metrics
       \/ /\ cert \notin DOMAIN cache
          /\ Caller(req[t]) = None
          /\ Goto(t, "unauthenticated")
          /\ Count("unauthenticated")
          /\ UNCHANGED who
    /\ UNCHANGED <<file, policy, cache, req>>

\* Mutant: the map grows.
Store_Unbounded(t) ==
    /\ pc[t] = "store"
    /\ cache' = With(cache, req[t].cert, who[t])
    /\ Goto(t, "decide")
    /\ UNCHANGED <<file, policy, req, who, metrics>>

\* Mutant: the map is keyed by the certificate's subject.
Store_BySubject(t) ==
    LET same == {c \in Certs : Content[c].cns = Content[req[t].cert].cns} IN
    /\ pc[t] = "store"
    /\ cache' = [c \in DOMAIN cache \cup same |-> IF c \in same THEN who[t] ELSE cache[c]]
    /\ Goto(t, "decide")
    /\ UNCHANGED <<file, policy, req, who, metrics>>

\* identify: under the write lock.  A full map is cleared first.
Store(t) ==
    /\ pc[t] = "store"
    /\ cache' = With(IF Cardinality(DOMAIN cache) >= MaxCached THEN Empty ELSE cache,
                     req[t].cert, who[t])
    /\ Goto(t, "decide")
    /\ UNCHANGED <<file, policy, req, who, metrics>>

\* authorize, once the identity is known.
Decide(t) ==
    LET verdict == IF IsAllowed(policy, who[t], req[t].key, req[t].op)
                   THEN "allowed" ELSE "denied" IN
    /\ pc[t] = "decide"
    /\ Goto(t, verdict)
    /\ Count(verdict)
    /\ UNCHANGED <<file, policy, cache, req, who>>

\* The handler goes on, or has answered.
Return(t) ==
    /\ pc[t] \in Counters
    /\ Goto(t, "idle")
    /\ req' = [req EXCEPT ![t] = NoRequest]
    /\ who' = [who EXCEPT ![t] = None]
    /\ UNCHANGED <<file, policy, cache, metrics>>

Next == \E t \in Tasks : \/ \E r \in Requests : Receive(t, r)
                         \/ Identify(t) \/ Store(t) \/ Decide(t) \/ Return(t)

Spec == Init /\ [][Next]_vars

-----------------------------------------------------------------------------
(* Properties. *)

PCs == {"idle", "identify", "store", "decide"} \cup Counters

(* "two different certificates can never collide onto one identity" through the   *)
(* cache (identity.rs): whatever is stored and cleared in between, a cached name, *)
(* and the name a request goes on with, is the one in that certificate.           *)
CacheTruthful ==
    /\ \A c \in DOMAIN cache : cache[c] = ParseIdentity(c)
    /\ \A t \in Tasks : pc[t] \in {"store", "decide"} =>
          req[t].cert \in Certs /\ who[t] = ParseIdentity(req[t].cert) /\ who[t] # None

(* The cache of parsed certificates stays within MAX_CACHED_IDENTITIES, although  *)
(* requests that missed together store one after the other.                       *)
CacheBounded == Cardinality(DOMAIN cache) <= MaxCached

(* The decision is that of the policy for the caller's own certificate: allowed   *)
(* exactly the grants, denied exactly the identified callers without the grant.   *)
Decisions ==
    \A t \in Tasks :
        LET i == Caller(req[t])
            granted == IsAllowed(policy, i, req[t].key, req[t].op)
        IN  /\ pc[t] = "allowed" => i # None /\ granted
            /\ pc[t] = "denied" => i # None /\ ~granted
            /\ pc[t] = "unauthenticated" => i = None

(* What the file says: some entry of the workload has a grant with the operation. *)
Says(identity, key, op) ==
    \E m \in DOMAIN file :
        /\ file[m].identity = identity
        /\ \E n \in DOMAIN file[m].grants :
              LET g == file[m].grants[n] IN g.key_label = key /\ op \in g.operations

(* Policy::parse loses and adds nothing, also when a workload or a key occurs in  *)
(* several entries: what is allowed is what some entry of the file grants.        *)
PolicyMeansFile ==
    \A i \in Identities, k \in Keys, o \in Operations :
        IsAllowed(policy, i, k, o) <=> Says(i, k, o)
==============================================================================
