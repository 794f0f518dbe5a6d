--------------------------- MODULE PublicKeyCache ---------------------------
(***************************************************************************)
(* The public key cache (proxy/src/cache/mod.rs) and the load that fills   *)
(* it (PooledService::public_key, a GetPublicKey job of the pool).         *)
(*                                                                         *)
(* get_or_load first probes the cache, only to attribute the request, and  *)
(* then calls moka's try_get_with, which loads a missing entry once for    *)
(* all the requests that want it.  Keys change on the token meanwhile.     *)
(* A key is its version; version 0 is "no such key" (Lookup::NotFound).    *)
(***************************************************************************)
EXTENDS Naturals, FiniteSets

CONSTANTS
    Tasks,         \* concurrent request handlers
    Labels,        \* key labels
    Workers,       \* pool workers, each with its own handle cache
    Ttl,           \* CacheConfig::ttl, in ticks
    NegativeTtl,   \* CacheConfig::negative_ttl, in ticks
    MaxEntries,    \* CacheConfig::max_entries, less what other labels occupy
    JobTimeout,    \* PoolConfig::job_timeout, in ticks
    MaxVersion,    \* bound: how many keys are ever created under a label
    Modulus        \* the counters are AtomicU64 and wrap; 2^64 in the code

ASSUME CacheConfig ==
    /\ Ttl \in Nat /\ NegativeTtl \in Nat /\ MaxEntries \in Nat
    /\ JobTimeout \in Nat /\ MaxVersion \in Nat /\ Modulus \in Nat \ {0}

VARIABLES
    key,       \* the version on the token under each label
    created,   \* how many keys have been created under each label
    changed,   \* auxiliary: ticks since the key under a label changed
    handle,    \* the version whose public object a worker has a handle to, or 0
    entry,     \* the cached Lookup and its age, a set of at most one per label
    pc,        \* where each request is
    label,     \* the label it asks for
    present,   \* was_present, the result of the probe
    got,       \* the Lookup the request has obtained
    age,       \* ticks since the request began to load
    metrics    \* CacheMetrics

tokenVars == <<key, created, changed>>
reqVars   == <<pc, label, present, got, age>>
vars      == <<tokenVars, handle, entry, reqVars, metrics>>

Versions == 0..MaxVersion
Horizon  == Ttl + NegativeTtl + JobTimeout + 1    \* where `changed` stops growing

\* The requests in S end, and their local variables with them.
End(S) ==
    /\ pc' = [u \in Tasks |-> IF u \in S THEN "idle" ELSE pc[u]]
    /\ present' = [u \in Tasks |-> u \notin S /\ present[u]]
    /\ got' = [u \in Tasks |-> IF u \in S THEN 0 ELSE got[u]]
    /\ age' = [u \in Tasks |-> IF u \in S THEN 0 ELSE age[u]]

Goto(t, p) == pc' = [pc EXCEPT ![t] = p]
Count(c)   == [metrics EXCEPT ![c] = (@ + 1) % Modulus]

Cached(l)  == entry[l] # {}
Loading(l) == {t \in Tasks : pc[t] \in {"loading", "loaded"} /\ label[t] = l}
Waiters(l) == {t \in Tasks : pc[t] = "waiting" /\ label[t] = l}

-----------------------------------------------------------------------------
Init ==
    /\ key \in [Labels -> {0, 1} \cap Versions]
    /\ created = key
    /\ changed = [l \in Labels |-> Horizon]
    /\ handle = [w \in Workers |-> [l \in Labels |-> 0]]
    /\ entry = [l \in Labels |-> {}]
    /\ pc = [t \in Tasks |-> "idle"]
    /\ label \in [Tasks -> Labels]
    /\ present = [t \in Tasks |-> FALSE]
    /\ got = [t \in Tasks |-> 0]
    /\ age = [t \in Tasks |-> 0]
    /\ metrics = [c \in {"hits", "misses", "negativeHits"} |-> 0]

(* The token and the clock (external). *)

\* An administrator creates, replaces or deletes the key under a label.
KeyChanged(l) ==
    /\ \/ /\ created[l] < MaxVersion
          /\ created' = [created EXCEPT ![l] = @ + 1]
          /\ key' = [key EXCEPT ![l] = created'[l]]
       \/ /\ key[l] # 0
          /\ key' = [key EXCEPT ![l] = 0]
          /\ UNCHANGED created
    /\ changed' = [changed EXCEPT ![l] = 0]
    /\ UNCHANGED <<handle, entry, reqVars, metrics>>

-----------------------------------------------------------------------------
\* Mutant: one lifetime for both outcomes.
TtlOf_One(v) == Ttl

\* TtlByOutcome.
TtlOf(v) == IF v = 0 THEN NegativeTtl ELSE Ttl

Live(e)  == e.age < TtlOf(e.version)
Older(e) == [e EXCEPT !.age = @ + 1]

\* Time passes and entries expire.  A load ends by its timeout, in time.
Tick ==
    /\ \A t \in Tasks : pc[t] \in {"loading", "loaded"} => age[t] < JobTimeout
    /\ changed' = [l \in Labels |-> IF changed[l] < Horizon THEN changed[l] + 1 ELSE Horizon]
    /\ entry' = [l \in Labels |-> {e \in {Older(d) : d \in entry[l]} : Live(e)}]
    /\ age' = [t \in Tasks |-> IF pc[t] \in {"loading", "loaded"} THEN age[t] + 1 ELSE 0]
    /\ UNCHANGED <<key, created, handle, pc, label, present, got, metrics>>

\* The cache is over its capacity and gives up an entry.
Evict(l) ==
    /\ Cached(l) /\ Cardinality({k \in Labels : Cached(k)}) > MaxEntries
    /\ entry' = [entry EXCEPT ![l] = {}]
    /\ UNCHANGED <<tokenVars, handle, reqVars, metrics>>

\* PublicKeyCache::invalidate.
Invalidate(l) ==
    /\ entry' = [entry EXCEPT ![l] = {}]
    /\ UNCHANGED <<tokenVars, handle, reqVars, metrics>>

-----------------------------------------------------------------------------
(* get_or_load. *)

Probe(t, l) ==
    /\ pc[t] = "idle"
    /\ label' = [label EXCEPT ![t] = l]
    /\ present' = [present EXCEPT ![t] = Cached(l)]
    /\ Goto(t, "get")
    /\ UNCHANGED <<tokenVars, handle, entry, got, age, metrics>>

\* Mutant: a request does not look for a load already under way.
Get_NoSingleFlight(t) ==
    /\ pc[t] = "get"
    /\ \/ /\ \E e \in entry[label[t]] : got' = [got EXCEPT ![t] = e.version]
          /\ Goto(t, "found")
       \/ /\ ~Cached(label[t])
          /\ Goto(t, "loading")
          /\ UNCHANGED got
    /\ UNCHANGED <<tokenVars, handle, entry, label, present, age, metrics>>

\* try_get_with: take the entry, join the load under way, or become the loader.
Get(t) ==
    /\ pc[t] = "get"
    /\ \/ /\ \E e \in entry[label[t]] : got' = [got EXCEPT ![t] = e.version]
          /\ Goto(t, "found")
       \/ /\ ~Cached(label[t])
          /\ Goto(t, IF Loading(label[t]) = {} THEN "loading" ELSE "waiting")
          /\ UNCHANGED got
    /\ UNCHANGED <<tokenVars, handle, entry, label, present, age, metrics>>

\* The load has failed: the error goes to the loader and to everyone who waits.
Fail(t) == End({t} \cup Waiters(label[t]))

\* The GetPublicKey job on worker w: Worker::handle and then the attributes of the
\* object.  A handle to an object that no longer exists is an error.
Load(t, w) ==
    LET l == label[t]
        h == handle[w][l]
    IN  /\ pc[t] = "loading"
        /\ \/ /\ h \in {0, key[l]}
              /\ got' = [got EXCEPT ![t] = key[l]]
              /\ handle' = [handle EXCEPT ![w][l] = key[l]]
              /\ Goto(t, "loaded")
              /\ UNCHANGED <<present, age>>
           \/ /\ h \notin {0, key[l]}
              /\ Fail(t)
              /\ UNCHANGED handle
        /\ UNCHANGED <<tokenVars, entry, label, metrics>>

\* The job is refused, times out or fails in the pool.
LoadFails(t) ==
    /\ pc[t] = "loading"
    /\ Fail(t)
    /\ UNCHANGED <<tokenVars, handle, entry, label, metrics>>

\* A worker resets its session, and drops its handles.
SessionReset(w) ==
    /\ handle' = [handle EXCEPT ![w] = [l \in Labels |-> 0]]
    /\ UNCHANGED <<tokenVars, entry, reqVars, metrics>>

\* The loader inserts what it has read, and everyone who waits gets it.
Insert(t) ==
    LET l == label[t] IN
    /\ pc[t] = "loaded"
    /\ entry' = [entry EXCEPT ![l] = {e \in {[version |-> got[t], age |-> 0]} : Live(e)}]
    /\ got' = [u \in Tasks |-> IF u \in Waiters(l) THEN got[t] ELSE got[u]]
    /\ pc' = [u \in Tasks |-> IF u \in {t} \cup Waiters(l) THEN "found" ELSE pc[u]]
    /\ age' = [age EXCEPT ![t] = 0]
    /\ UNCHANGED <<tokenVars, handle, label, present, metrics>>

\* get_or_load counts and returns the Lookup with was_present.
Return(t) ==
    /\ pc[t] = "found"
    /\ metrics' = IF present[t]
                  THEN [Count("hits") EXCEPT
                          !["negativeHits"] = IF got[t] = 0 THEN (@ + 1) % Modulus ELSE @]
                  ELSE Count("misses")
    /\ End({t})
    /\ UNCHANGED <<tokenVars, handle, entry, label>>

\* Mutant: nobody takes over from a loader that is dropped.
Abort_Orphans(t) ==
    /\ pc[t] # "idle"
    /\ End({t})
    /\ UNCHANGED <<tokenVars, handle, entry, label, metrics>>

\* The handler is dropped.  Requests that waited for its load look again.
Abort(t) ==
    LET next == IF t \in Loading(label[t]) THEN Waiters(label[t]) ELSE {} IN
    /\ pc[t] # "idle"
    /\ pc' = [u \in Tasks |-> CASE u = t -> "idle" [] u \in next -> "get"
                                [] OTHER -> pc[u]]
    /\ present' = [present EXCEPT ![t] = FALSE]
    /\ got' = [got EXCEPT ![t] = 0]
    /\ age' = [age EXCEPT ![t] = 0]
    /\ UNCHANGED <<tokenVars, handle, entry, label, metrics>>

Next ==
    \/ Tick
    \/ \E l \in Labels : KeyChanged(l) \/ Evict(l) \/ Invalidate(l)
    \/ \E w \in Workers : SessionReset(w)
    \/ \E t \in Tasks : \/ \E l \in Labels : Probe(t, l)
                        \/ Get(t) \/ LoadFails(t) \/ Insert(t) \/ Return(t) \/ Abort(t)
                        \/ \E w \in Workers : Load(t, w)

Spec == Init /\ [][Next]_vars

-----------------------------------------------------------------------------
(* Properties. *)

PCs == {"idle", "get", "loading", "loaded", "waiting", "found"}

(* Type correctness of the cache, the requests, the handles and the counters.     *)
TypeOK ==
    /\ key \in [Labels -> Versions] /\ created \in [Labels -> Versions]
    /\ changed \in [Labels -> 0..Horizon]
    /\ handle \in [Workers -> [Labels -> Versions]]
    /\ entry \in [Labels -> SUBSET [version : Versions, age : Nat]]
    /\ pc \in [Tasks -> PCs] /\ label \in [Tasks -> Labels]
    /\ present \in [Tasks -> BOOLEAN] /\ got \in [Tasks -> Versions]
    /\ age \in [Tasks -> 0..JobTimeout]
    /\ metrics \in [{"hits", "misses", "negativeHits"} -> 0..(Modulus - 1)]

(* "a cold key under heavy concurrent load produces exactly one HSM lookup": at   *)
(* most one request loads a label at a time, and whoever waits, waits for a load  *)
(* that is under way, also after loaders have failed or were dropped.             *)
SingleFlight ==
    /\ \A t, u \in Tasks :
          /\ pc[t] \in {"loading", "loaded"} /\ pc[u] \in {"loading", "loaded"}
          /\ label[t] = label[u]
          => t = u
    /\ \A t \in Tasks : pc[t] = "waiting" => Loading(label[t]) # {}

(* What makes the bound on staleness inductive: a loader that has read a key the  *)
(* token no longer has, read it since it began to load, and a cached key that the *)
(* token no longer has was replaced no earlier than one job timeout before the    *)
(* entry was made.                                                                *)
Freshness ==
    /\ \A t \in Tasks :
          /\ age[t] # 0 => pc[t] \in {"loading", "loaded"}
          /\ pc[t] = "loaded" /\ got[t] # key[label[t]] => changed[label[t]] <= age[t]
    /\ \A l \in Labels : \A e \in entry[l] :
          /\ Live(e)
          /\ e.version # key[l] => changed[l] <= e.age + JobTimeout

(* What the cache holds was true recently: an entry that contradicts the token    *)
(* is of a key that changed less than the entry's lifetime and one job timeout    *)
(* ago, five minutes for a key and half a minute for "not found".                 *)
BoundedStaleness ==
    \A l \in Labels : \A e \in entry[l] : e.version # key[l] =>
        changed[l] < JobTimeout + (IF e.version = 0 THEN NegativeTtl ELSE Ttl)

-----------------------------------------------------------------------------
(* Liveness.  Handlers run and jobs end, as tokio and the pool guarantee.         *)

Step(t) ==
    \/ Get(t) \/ LoadFails(t) \/ Insert(t) \/ Return(t)
    \/ \E w \in Workers : Load(t, w)

FairSpec == Spec /\ \A t \in Tasks : WF_vars(Step(t))

(* A request that waits for somebody else's load does not wait for ever, whatever *)
(* becomes of the loader, unless handlers are dropped again and again.            *)
WaitersReturn ==
    \/ []<><<\E t \in Tasks : Abort(t)>>_vars
    \/ \A t \in Tasks : pc[t] = "waiting" ~> pc[t] \in {"found", "idle"}

\* The clock runs as well, requests keep coming for every label, and every worker
\* keeps taking jobs.
BusySpec ==
    /\ FairSpec
    /\ WF_vars(Tick)
    /\ \A l \in Labels :
          /\ WF_vars(\E t \in Tasks : Probe(t, l))
          /\ \A w \in Workers : SF_vars(\E t \in Tasks : label[t] = l /\ Load(t, w))

(* "a key rotated under the same label starts verifying against the new key       *)
(* within minutes rather than requiring a restart" (cache/mod.rs), again unless   *)
(* handlers are dropped for ever.                                                 *)
RotatedKeyServed ==
    \/ []<><<\E t \in Tasks : Abort(t)>>_vars
    \/ \A l \in Labels, v \in Versions \ {0} :
          key[l] = v ~> key[l] # v \/ \E e \in entry[l] : e.version = v
=============================================================================
