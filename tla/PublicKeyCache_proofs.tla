------------------------ MODULE PublicKeyCache_proofs ------------------------
(***************************************************************************)
(* Proofs about the public key cache: one load per label at a time, nobody *)
(* waits for a load that is gone, and how stale a cached key can be.       *)
(***************************************************************************)
EXTENDS PublicKeyCache, TLAPS

(* Every step keeps the types: the ages stay within the job timeout because the   *)
(* clock does not pass the end of a load.                                         *)
LEMMA TypeInit == Init => TypeOK
BY CacheConfig DEF Init, TypeOK, Versions, Horizon, PCs

LEMMA TypeNext == TypeOK /\ [Next]_vars => TypeOK'
<1> SUFFICES ASSUME TypeOK, [Next]_vars PROVE TypeOK'
  OBVIOUS
<1> USE CacheConfig DEF TypeOK, PCs, Goto
<1>1. CASE Tick
  <2>1. changed' \in [Labels -> 0..Horizon]
    BY <1>1 DEF Tick, Horizon
  <2>2. entry' \in [Labels -> SUBSET [version : Versions, age : Nat]]
    <3>1. ASSUME NEW l \in Labels, NEW d \in entry[l]
          PROVE  Older(d) \in [version : Versions, age : Nat]
      <4>1. d \in [version : Versions, age : Nat]
        BY <3>1, Zenon
      <4> QED BY <4>1 DEF Older
    <3>2. ASSUME NEW l \in Labels
          PROVE  {e \in {Older(d) : d \in entry[l]} : Live(e)}
                    \in SUBSET [version : Versions, age : Nat]
      BY <3>1
    <3> QED BY <1>1, <3>2, Zenon DEF Tick
  <2>3. age' \in [Tasks -> 0..JobTimeout]
    BY <1>1 DEF Tick
  <2> QED BY <1>1, <2>1, <2>2, <2>3, Zenon DEF Tick
<1>2. ASSUME NEW l \in Labels, KeyChanged(l) PROVE TypeOK'
  <2>0. 0 \in Versions /\ 0 \in 0..Horizon
    BY DEF Versions, Horizon
  <2>5. key' \in [Labels -> Versions] /\ created' \in [Labels -> Versions]
    <3>1. CASE /\ created[l] < MaxVersion
               /\ created' = [created EXCEPT ![l] = @ + 1]
               /\ key' = [key EXCEPT ![l] = created'[l]]
      <4>1. created[l] + 1 \in Versions
        BY <3>1 DEF Versions
      <4> QED BY <3>1, <4>1
    <3>2. CASE key' = [key EXCEPT ![l] = 0] /\ UNCHANGED created
      BY <3>2, <2>0
    <3> QED BY <1>2, <3>1, <3>2, Zenon DEF KeyChanged
  <2>6. changed' \in [Labels -> 0..Horizon]
    BY <1>2, <2>0 DEF KeyChanged
  <2>1. /\ key' \in [Labels -> Versions] /\ created' \in [Labels -> Versions]
        /\ changed' \in [Labels -> 0..Horizon]
    BY <2>5, <2>6
  <2> QED BY <1>2, <2>1, Zenon DEF KeyChanged, reqVars
<1>3. ASSUME NEW l \in Labels, Evict(l) \/ Invalidate(l) PROVE TypeOK'
  <2>1. entry' \in [Labels -> SUBSET [version : Versions, age : Nat]]
    BY <1>3 DEF Evict, Invalidate
  <2> QED BY <1>3, <2>1, Zenon DEF Evict, Invalidate, tokenVars, reqVars
<1>4. ASSUME NEW w \in Workers, SessionReset(w) PROVE TypeOK'
  <2>1. handle' \in [Workers -> [Labels -> Versions]]
    BY <1>4 DEF SessionReset, Versions
  <2> QED BY <1>4, <2>1, Zenon DEF SessionReset, tokenVars, reqVars
<1>5. ASSUME NEW t \in Tasks, NEW l \in Labels, Probe(t, l) PROVE TypeOK'
  <2>1. /\ pc' \in [Tasks -> PCs] /\ label' \in [Tasks -> Labels]
    BY <1>5 DEF Probe
  <2>2. present' \in [Tasks -> BOOLEAN]
    BY <1>5, Zenon DEF Probe, Cached
  <2> QED BY <1>5, <2>1, <2>2, Zenon DEF Probe, tokenVars
<1>6. ASSUME NEW t \in Tasks, Get(t) PROVE TypeOK'
  <2>1. pc' \in [Tasks -> PCs] /\ got' \in [Tasks -> Versions]
    <3>1. CASE /\ \E e \in entry[label[t]] : got' = [got EXCEPT ![t] = e.version]
               /\ Goto(t, "found")
      <4>1. PICK e \in entry[label[t]] : got' = [got EXCEPT ![t] = e.version]
        BY <3>1, Zenon
      <4>2. e \in [version : Versions, age : Nat]
        BY Zenon
      <4>3. e.version \in Versions
        BY <4>2
      <4> QED BY <3>1, <4>1, <4>3
    <3>2. CASE UNCHANGED got /\ \E p \in {"loading", "waiting"} : Goto(t, p)
      BY <3>2
    <3> QED BY <1>6, <3>1, <3>2, Zenon DEF Get
  <2> QED BY <1>6, <2>1, Zenon DEF Get, tokenVars
<1>7. ASSUME NEW S, End(S)
      PROVE  /\ pc' \in [Tasks -> PCs] /\ got' \in [Tasks -> Versions]
             /\ present' \in [Tasks -> BOOLEAN] /\ age' \in [Tasks -> 0..JobTimeout]
  <2>1. pc' \in [Tasks -> PCs] /\ got' \in [Tasks -> Versions] /\ age' \in [Tasks -> 0..JobTimeout]
    BY <1>7 DEF End, Versions
  <2>2. present' \in [Tasks -> BOOLEAN]
    BY <1>7, Zenon DEF End
  <2> QED BY <2>1, <2>2
<1>8. ASSUME NEW t \in Tasks, LoadFails(t) PROVE TypeOK'
  BY <1>8, <1>7, Zenon DEF LoadFails, Fail, tokenVars
<1>9. ASSUME NEW t \in Tasks, NEW w \in Workers, Load(t, w) PROVE TypeOK'
  <2>1. CASE handle[w][label[t]] \in {0, key[label[t]]}
    <3>1. /\ pc' \in [Tasks -> PCs] /\ got' \in [Tasks -> Versions]
          /\ handle' \in [Workers -> [Labels -> Versions]]
          /\ UNCHANGED <<present, age>>
      <4>1. key[label[t]] \in Versions /\ Goto(t, "loaded")
        BY <1>9, <2>1 DEF Load
      <4>2. /\ got' = [got EXCEPT ![t] = key[label[t]]]
            /\ handle' = [handle EXCEPT ![w][label[t]] = key[label[t]]]
            /\ UNCHANGED <<present, age>>
        BY <1>9, <2>1, Zenon DEF Load
      <4> QED BY <4>1, <4>2
    <3> QED BY <1>9, <3>1, Zenon DEF Load, tokenVars
  <2>2. CASE handle[w][label[t]] \notin {0, key[label[t]]}
    <3>1. Fail(t) /\ handle' = handle
      BY <1>9, <2>2, Zenon DEF Load
    <3> QED BY <1>9, <3>1, <1>7, Zenon DEF Load, Fail, tokenVars
  <2> QED BY <2>1, <2>2
<1>10. ASSUME NEW t \in Tasks, Insert(t) PROVE TypeOK'
  <2>1. entry' \in [Labels -> SUBSET [version : Versions, age : Nat]]
    BY <1>10 DEF Insert
  <2>2. /\ pc' \in [Tasks -> PCs] /\ got' \in [Tasks -> Versions]
        /\ age' \in [Tasks -> 0..JobTimeout]
    BY <1>10 DEF Insert
  <2> QED BY <1>10, <2>1, <2>2, Zenon DEF Insert, tokenVars
<1>11. ASSUME NEW t \in Tasks, Return(t) PROVE TypeOK'
  <2>1. metrics' \in [{"hits", "misses", "negativeHits"} -> 0..(Modulus - 1)]
    BY <1>11 DEF Return, Count
  <2> QED BY <1>11, <2>1, <1>7, Zenon DEF Return, tokenVars
<1>12. ASSUME NEW t \in Tasks, Abort(t) PROVE TypeOK'
  <2>1. pc' \in [Tasks -> PCs] /\ got' \in [Tasks -> Versions] /\ age' \in [Tasks -> 0..JobTimeout]
    BY <1>12 DEF Abort, Versions
  <2>2. present' \in [Tasks -> BOOLEAN]
    BY <1>12, Zenon DEF Abort
  <2> QED BY <1>12, <2>1, <2>2, Zenon DEF Abort, tokenVars
<1>13. CASE UNCHANGED vars
  BY <1>13, Zenon DEF vars, tokenVars, reqVars
<1> QED
  BY <1>1, <1>2, <1>3, <1>4, <1>5, <1>6, <1>8, <1>9, <1>10, <1>11, <1>12, <1>13, SMTT(60)
     DEF Next

(* Types of the cache, the requests, the handles and the counters, for any number *)
(* of requests, labels and workers and any lifetimes.                             *)
THEOREM CacheTypes == Spec => []TypeOK
BY TypeInit, TypeNext, PTL DEF Spec

-----------------------------------------------------------------------------
(* One load at a time: a step that makes nobody a loader or a waiter, and takes   *)
(* no loader away from its waiters, keeps the single flight.                      *)
LEMMA FlightKept ==
    ASSUME SingleFlight,
           \A u \in Tasks : pc'[u] \in {"loading", "loaded"} =>
               pc[u] \in {"loading", "loaded"} /\ label'[u] = label[u],
           \A u \in Tasks : pc'[u] = "waiting" =>
               /\ pc[u] = "waiting" /\ label'[u] = label[u]
               /\ \A v \in Loading(label[u]) :
                     pc'[v] \in {"loading", "loaded"} /\ label'[v] = label[v]
    PROVE  SingleFlight'
BY DEF SingleFlight, Loading

LEMMA FlightInit == Init => SingleFlight
BY DEF Init, SingleFlight, Loading

LEMMA FlightNext == TypeOK /\ SingleFlight /\ [Next]_vars => SingleFlight'
<1> SUFFICES ASSUME TypeOK, SingleFlight, [Next]_vars PROVE SingleFlight'
  OBVIOUS
<1>0. pc \in [Tasks -> PCs] /\ label \in [Tasks -> Labels]
  BY DEF TypeOK
<1>1. CASE UNCHANGED <<pc, label>>
  BY <1>1 DEF SingleFlight, Loading
<1>2. ASSUME NEW t \in Tasks, NEW l \in Labels, Probe(t, l) PROVE SingleFlight'
  <2>1. /\ pc[t] = "idle" /\ pc' = [pc EXCEPT ![t] = "get"]
        /\ label' = [label EXCEPT ![t] = l]
    BY <1>2 DEF Probe, Goto
  <2> QED BY <2>1, <1>0, FlightKept DEF Loading
<1>3. ASSUME NEW t \in Tasks, Get(t) PROVE SingleFlight'
  <2>1. CASE Goto(t, "found")
    BY <2>1, <1>3, <1>0, FlightKept DEF Get, Goto, Loading
  <2>2. CASE Goto(t, "loading") /\ Loading(label[t]) = {}
    BY <2>2, <1>3, <1>0 DEF Get, Goto, Loading, SingleFlight
  <2>3. CASE Goto(t, "waiting") /\ Loading(label[t]) # {}
    <3>1. pc' = [pc EXCEPT ![t] = "waiting"] /\ label' = label /\ pc[t] = "get"
      BY <2>3, <1>3 DEF Get, Goto
    <3>2. \A l : Loading(l)' = Loading(l)
      BY <3>1, <1>0 DEF Loading
    <3> QED BY <3>1, <3>2, <2>3, <1>0 DEF SingleFlight
  <2> QED BY <1>3, <2>1, <2>2, <2>3 DEF Get
<1>4. ASSUME NEW t \in Tasks, t \in Loading(label[t]), label' = label,
             NEW p \in {"idle", "get", "found"}, NEW q \in {"idle", "get", "found"},
             pc' = [u \in Tasks |-> IF u = t THEN p
                                     ELSE IF u \in Waiters(label[t]) THEN q ELSE pc[u]]
      PROVE  SingleFlight'
  <2>1. \A v \in Tasks : v # t /\ pc[v] \in {"loading", "loaded"} => label[v] # label[t]
    BY <1>4 DEF SingleFlight, Loading
  <2>2. \A u \in Tasks : pc'[u] \in {"loading", "loaded"} => pc[u] \in {"loading", "loaded"}
    BY <1>4
  <2>3. ASSUME NEW u \in Tasks, pc'[u] = "waiting"
        PROVE  pc[u] = "waiting" /\ label[u] # label[t]
    BY <1>4, <2>3 DEF Waiters
  <2>4. ASSUME NEW v \in Tasks, v # t, pc[v] \in {"loading", "loaded"}
        PROVE  pc'[v] = pc[v]
    BY <1>4, <2>4 DEF Waiters
  <2> QED BY <1>4, <2>2, <2>3, <2>4, FlightKept DEF Loading
<1>5. ASSUME NEW t \in Tasks, pc[t] \in {"loading", "loaded"}, Fail(t), label' = label
      PROVE  SingleFlight'
  <2>1. pc' = [u \in Tasks |-> IF u = t THEN "idle"
                                ELSE IF u \in Waiters(label[t]) THEN "idle" ELSE pc[u]]
    BY <1>5 DEF Fail, End
  <2>2. t \in Loading(label[t])
    BY <1>5 DEF Loading
  <2> QED BY <1>4, <1>5, <2>1, <2>2
<1>6. ASSUME NEW t \in Tasks, LoadFails(t) PROVE SingleFlight'
  BY <1>5, <1>6 DEF LoadFails
<1>7. ASSUME NEW t \in Tasks, NEW w \in Workers, Load(t, w) PROVE SingleFlight'
  <2>1. label' = label /\ pc[t] = "loading"
    BY <1>7 DEF Load
  <2>2. CASE Goto(t, "loaded")
    <3>1. pc' = [pc EXCEPT ![t] = "loaded"]
      BY <2>2 DEF Goto
    <3> QED BY <2>1, <3>1, <1>0, FlightKept DEF Loading
  <2>3. CASE Fail(t)
    BY <1>5, <2>1, <2>3
  <2> QED BY <1>7, <2>2, <2>3 DEF Load
<1>8. ASSUME NEW t \in Tasks, Insert(t) PROVE SingleFlight'
  <2>1. pc' = [u \in Tasks |-> IF u = t THEN "found"
                                ELSE IF u \in Waiters(label[t]) THEN "found" ELSE pc[u]]
    BY <1>8 DEF Insert
  <2>2. t \in Loading(label[t]) /\ label' = label
    BY <1>8 DEF Insert, Loading
  <2> QED BY <1>4, <2>1, <2>2
<1>9. ASSUME NEW t \in Tasks, Return(t) PROVE SingleFlight'
  <2>1. pc[t] = "found" /\ label' = label /\ pc' = [u \in Tasks |-> IF u = t THEN "idle" ELSE pc[u]]
    BY <1>9 DEF Return, End
  <2> QED BY <2>1, <1>0, FlightKept DEF Loading
<1>10. ASSUME NEW t \in Tasks, Abort(t) PROVE SingleFlight'
  <2>0. label' = label
    BY <1>10 DEF Abort
  <2>1. CASE t \in Loading(label[t])
    <3>1. pc' = [u \in Tasks |-> IF u = t THEN "idle"
                                  ELSE IF u \in Waiters(label[t]) THEN "get" ELSE pc[u]]
      <4>1. t \notin Waiters(label[t])
        BY <2>1 DEF Loading, Waiters
      <4> QED BY <1>10, <2>1, <4>1 DEF Abort
    <3> QED BY <1>4, <2>0, <2>1, <3>1
  <2>2. CASE t \notin Loading(label[t])
    <3>1. pc' = [u \in Tasks |-> IF u = t THEN "idle" ELSE pc[u]]
      BY <1>10, <2>2 DEF Abort
    <3>2. pc[t] \notin {"loading", "loaded"}
      BY <2>2 DEF Loading
    <3> QED BY <2>0, <3>1, <3>2, <1>0, FlightKept DEF Loading
  <2> QED BY <2>1, <2>2
<1>11. ASSUME \/ Tick \/ UNCHANGED vars
              \/ \E l \in Labels : KeyChanged(l) \/ Evict(l) \/ Invalidate(l)
              \/ \E w \in Workers : SessionReset(w)
       PROVE  SingleFlight'
  BY <1>1, <1>11, Zenon DEF Tick, KeyChanged, Evict, Invalidate, SessionReset, vars, reqVars
<1> QED
  BY <1>2, <1>3, <1>6, <1>7, <1>8, <1>9, <1>10, <1>11 DEF Next

(* However many requests ask for however many labels, at most one loads a label   *)
(* at a time, and nobody waits for a load that has ended, failed or was dropped.  *)
THEOREM SingleFlightAlways == Spec => []SingleFlight
BY TypeInit, TypeNext, FlightInit, FlightNext, PTL DEF Spec

-----------------------------------------------------------------------------
(* Staleness.  The two halves of Freshness: what a loader holds, and what the     *)
(* cache holds.                                                                   *)
FreshTask(t) ==
    /\ age[t] # 0 => pc[t] \in {"loading", "loaded"}
    /\ pc[t] = "loaded" /\ got[t] # key[label[t]] => changed[label[t]] <= age[t]

FreshEntries(l) ==
    \A e \in entry[l] :
        /\ Live(e)
        /\ e.version # key[l] => changed[l] <= e.age + JobTimeout

LEMMA FreshSplit ==
    /\ Freshness <=> (\A t \in Tasks : FreshTask(t)) /\ (\A l \in Labels : FreshEntries(l))
    /\ Freshness' <=> (\A t \in Tasks : FreshTask(t)') /\ (\A l \in Labels : FreshEntries(l)')
BY DEF Freshness, FreshTask, FreshEntries

LEMMA FreshInit == Init => Freshness
BY DEF Init, Freshness

(* A request that does not move, or ends, keeps its half while the token does.    *)
LEMMA FreshEnds ==
    ASSUME Freshness, UNCHANGED <<key, changed>>, NEW u \in Tasks, label'[u] = label[u],
           \/ pc'[u] = pc[u] /\ got'[u] = got[u] /\ age'[u] = age[u]
           \/ pc'[u] # "loaded" /\ age'[u] = 0
    PROVE  FreshTask(u)'
BY DEF Freshness, FreshTask

LEMMA FreshSame ==
    ASSUME Freshness, UNCHANGED <<key, changed>>, NEW l \in Labels,
           entry'[l] = entry[l] \/ entry'[l] = {}
    PROVE  FreshEntries(l)'
BY DEF Freshness, FreshEntries, Live

LEMMA FreshNext == TypeOK /\ Freshness /\ [Next]_vars => Freshness'
<1> SUFFICES ASSUME TypeOK, Freshness, [Next]_vars PROVE Freshness'
  OBVIOUS
<1>0. /\ key \in [Labels -> Versions] /\ changed \in [Labels -> 0..Horizon]
      /\ entry \in [Labels -> SUBSET [version : Versions, age : Nat]]
      /\ pc \in [Tasks -> PCs] /\ label \in [Tasks -> Labels]
      /\ got \in [Tasks -> Versions] /\ age \in [Tasks -> 0..JobTimeout]
  BY DEF TypeOK
<1>00. \A t \in Tasks : age[t] # 0 => pc[t] \in {"loading", "loaded"}
  BY DEF Freshness
<1>1. CASE Tick
  <2>1. ASSUME NEW t \in Tasks PROVE FreshTask(t)'
    <3>1. /\ changed'[label[t]] <= changed[label[t]] + 1
          /\ changed[label[t]] \in Nat /\ changed'[label[t]] \in Nat /\ age[t] \in Nat
      BY <1>0, <1>1, CacheConfig DEF Tick, Horizon
    <3>2. /\ age'[t] = IF pc[t] \in {"loading", "loaded"} THEN age[t] + 1 ELSE 0
          /\ pc'[t] = pc[t] /\ got'[t] = got[t] /\ label' = label /\ key' = key
      BY <1>1 DEF Tick
    <3>3. FreshTask(t)
      BY FreshSplit
    <3> QED BY <3>1, <3>2, <3>3 DEF FreshTask
  <2>2. ASSUME NEW l \in Labels PROVE FreshEntries(l)'
    <3>1. /\ changed'[l] <= changed[l] + 1 /\ changed[l] \in Nat /\ changed'[l] \in Nat
      BY <1>0, <1>1, CacheConfig DEF Tick, Horizon
    <3>2. ASSUME NEW e \in entry'[l]
          PROVE  Live(e) /\ (e.version # key'[l] => changed'[l] <= e.age + JobTimeout)
      <4>1. PICK d \in entry[l] : e = Older(d) /\ Live(e)
        BY <1>1, <3>2 DEF Tick
      <4>2. d \in [version : Versions, age : Nat]
        BY <1>0, Zenon
      <4>3. e.version = d.version /\ e.age = d.age + 1 /\ d.age \in Nat
        BY <4>1, <4>2 DEF Older
      <4>4. d.version # key[l] => changed[l] <= d.age + JobTimeout
        BY DEF Freshness
      <4>5. key' = key
        BY <1>1 DEF Tick
      <4> QED BY <4>1, <4>3, <4>4, <4>5, <3>1, CacheConfig
    <3> QED BY <3>2 DEF FreshEntries, Live
  <2> QED BY <2>1, <2>2, FreshSplit
<1>2. ASSUME NEW k \in Labels, KeyChanged(k) PROVE Freshness'
  <2>1. /\ \A l \in Labels : l # k => key'[l] = key[l] /\ changed'[l] = changed[l]
        /\ changed'[k] = 0
    BY <1>2, <1>0 DEF KeyChanged
  <2>2. UNCHANGED <<entry, pc, label, present, got, age>>
    BY <1>2 DEF KeyChanged, reqVars
  <2>3. ASSUME NEW t \in Tasks PROVE FreshTask(t)'
    <3>1. FreshTask(t) /\ label[t] \in Labels /\ age[t] \in Nat
      BY <1>0, FreshSplit, CacheConfig
    <3> QED BY <2>1, <2>2, <3>1 DEF FreshTask
  <2>4. ASSUME NEW l \in Labels PROVE FreshEntries(l)'
    <3>1. ASSUME NEW e \in entry[l]
          PROVE  Live(e) /\ (e.version # key'[l] => changed'[l] <= e.age + JobTimeout)
      <4>1. e \in [version : Versions, age : Nat]
        BY <1>0, Zenon
      <4>2. e.age \in Nat
        BY <4>1
      <4>3. Live(e) /\ (e.version # key[l] => changed[l] <= e.age + JobTimeout)
        BY DEF Freshness
      <4> QED BY <4>2, <4>3, <2>1, CacheConfig
    <3> QED BY <2>2, <3>1 DEF FreshEntries, Live
  <2> QED BY <2>3, <2>4, FreshSplit
<1>3. ASSUME \/ \E l \in Labels : Evict(l) \/ Invalidate(l)
             \/ \E w \in Workers : SessionReset(w)
             \/ UNCHANGED vars
      PROVE  Freshness'
  <2>1. /\ UNCHANGED <<key, changed, pc, label, got, age>>
        /\ \A l \in Labels : entry'[l] = entry[l] \/ entry'[l] = {}
    BY <1>3, <1>0, Zenon DEF Evict, Invalidate, SessionReset, vars, tokenVars, reqVars
  <2> QED BY <2>1, FreshEnds, FreshSame, FreshSplit
<1>4. ASSUME NEW t \in Tasks, NEW l \in Labels, Probe(t, l) PROVE Freshness'
  <2>1. /\ UNCHANGED <<key, changed, entry, got, age>> /\ pc[t] = "idle"
        /\ \A u \in Tasks : IF u = t THEN pc'[u] = "get" ELSE pc'[u] = pc[u] /\ label'[u] = label[u]
    BY <1>4, <1>0 DEF Probe, Goto, tokenVars
  <2>2. FreshTask(t)'
    BY <2>1, <1>00 DEF FreshTask
  <2>3. ASSUME NEW u \in Tasks, u # t PROVE FreshTask(u)'
    BY <2>1, <2>3, FreshEnds
  <2> QED BY <2>1, <2>2, <2>3, FreshSame, FreshSplit, SMTT(60)
<1>5. ASSUME NEW t \in Tasks, Get(t) PROVE Freshness'
  <2>1. /\ UNCHANGED <<key, changed, entry, label, age>> /\ pc[t] = "get"
        /\ pc'[t] # "loaded"
        /\ \A u \in Tasks : u # t => pc'[u] = pc[u] /\ got'[u] = got[u]
    BY <1>5, <1>0 DEF Get, Goto, tokenVars
  <2>2. age'[t] = 0
    BY <2>1, <1>00
  <2> QED BY <2>1, <2>2, FreshEnds, FreshSame, FreshSplit
<1>6. ASSUME NEW S, End(S), UNCHANGED <<key, changed, label, entry>> PROVE Freshness'
  <2>1. ASSUME NEW u \in Tasks PROVE FreshTask(u)'
    <3>1. \/ pc'[u] = pc[u] /\ got'[u] = got[u] /\ age'[u] = age[u]
          \/ pc'[u] # "loaded" /\ age'[u] = 0
      BY <1>6 DEF End
    <3> QED BY <1>6, <3>1, FreshEnds
  <2> QED BY <1>6, <2>1, FreshSame, FreshSplit
<1>7. ASSUME NEW t \in Tasks, LoadFails(t) \/ Return(t) PROVE Freshness'
  BY <1>6, <1>7 DEF LoadFails, Return, Fail, tokenVars
<1>8. ASSUME NEW t \in Tasks, NEW w \in Workers, Load(t, w) PROVE Freshness'
  <2>1. UNCHANGED <<key, changed, label, entry>> /\ pc[t] = "loading"
    BY <1>8 DEF Load, tokenVars
  <2>2. CASE Fail(t)
    BY <1>6, <2>1, <2>2 DEF Fail
  <2>3. CASE /\ got' = [got EXCEPT ![t] = key[label[t]]]
             /\ Goto(t, "loaded") /\ UNCHANGED <<present, age>>
    <3>1. FreshTask(t)'
      BY <2>1, <2>3, <1>0 DEF FreshTask, Goto
    <3>2. ASSUME NEW u \in Tasks, u # t PROVE FreshTask(u)'
      BY <2>1, <2>3, <3>2, <1>0, FreshEnds DEF Goto
    <3> QED BY <2>1, <3>1, <3>2, FreshSame, FreshSplit
  <2> QED BY <1>8, <2>2, <2>3, Zenon DEF Load
<1>9. ASSUME NEW t \in Tasks, Insert(t) PROVE Freshness'
  <2>1. UNCHANGED <<key, changed, label>> /\ pc[t] = "loaded"
    BY <1>9 DEF Insert, tokenVars
  <2>2. ASSUME NEW u \in Tasks PROVE FreshTask(u)'
    <3>1. CASE u \in {t} \cup Waiters(label[t])
      <4>1. pc'[u] = "found" /\ age'[u] = 0
        BY <1>9, <3>1, <1>0, <1>00 DEF Insert, Waiters
      <4> QED BY <2>1, <4>1, FreshEnds
    <3>2. CASE u \notin {t} \cup Waiters(label[t])
      <4>1. pc'[u] = pc[u] /\ got'[u] = got[u] /\ age'[u] = age[u]
        BY <1>9, <3>2, <1>0 DEF Insert
      <4> QED BY <2>1, <4>1, FreshEnds
    <3> QED BY <3>1, <3>2
  <2>3. ASSUME NEW l \in Labels, l # label[t] PROVE FreshEntries(l)'
    <3>1. entry'[l] = entry[l]
      BY <1>9, <2>3, <1>0 DEF Insert
    <3> QED BY <2>1, <3>1, FreshSame
  <2>4. ASSUME NEW l \in Labels, l = label[t] PROVE FreshEntries(l)'
    <3>1. got[t] # key[label[t]] => changed[label[t]] <= age[t]
      BY <2>1 DEF Freshness
    <3>2. /\ label[t] \in Labels /\ age[t] \in Nat /\ age[t] <= JobTimeout
          /\ changed[label[t]] \in Nat
      BY <1>0, CacheConfig DEF Horizon
    <3>3. entry'[label[t]] = {e \in {[version |-> got[t], age |-> 0]} : Live(e)}
      BY <1>9, <1>0, <3>2 DEF Insert
    <3>4. ASSUME NEW e \in entry'[label[t]]
          PROVE  Live(e) /\ e.version = got[t] /\ e.age = 0
      BY <3>3, <3>4
    <3> QED BY <2>1, <2>4, <3>1, <3>2, <3>4, CacheConfig, SMTT(60) DEF FreshEntries, Live
  <2> QED BY <2>2, <2>3, <2>4, FreshSplit
<1>10. ASSUME NEW t \in Tasks, Abort(t) PROVE Freshness'
  <2>1. UNCHANGED <<key, changed, label, entry>>
    BY <1>10 DEF Abort, tokenVars
  <2>2. ASSUME NEW u \in Tasks PROVE FreshTask(u)'
    <3>1. CASE u = t
      <4>0. t \in Loading(label[t]) => t \notin Waiters(label[t])
        BY DEF Loading, Waiters
      <4>1. pc'[u] = "idle" /\ age'[u] = 0
        BY <1>10, <3>1, <4>0, <1>0 DEF Abort
      <4> QED BY <2>1, <4>1, FreshEnds
    <3>2. CASE u # t
      <4>1. got'[u] = got[u] /\ age'[u] = age[u]
        BY <1>10, <3>2, <1>0 DEF Abort
      <4>2. pc'[u] = pc[u] \/ (pc'[u] = "get" /\ pc[u] = "waiting")
        BY <1>10, <3>2, <1>0 DEF Abort, Waiters
      <4> QED BY <2>1, <4>1, <4>2, <1>00, FreshEnds
    <3> QED BY <3>1, <3>2
  <2> QED BY <2>1, <2>2, FreshSame, FreshSplit
<1> QED
  BY <1>1, <1>2, <1>3, <1>4, <1>5, <1>7, <1>8, <1>9, <1>10 DEF Next

(* A loader that holds a key the token no longer has read it since it began to    *)
(* load, and an entry was at most one job timeout out of date when it was made.   *)
THEOREM FreshnessAlways == Spec => []Freshness
BY TypeInit, TypeNext, FreshInit, FreshNext, PTL DEF Spec

(* For every choice of lifetimes and job timeout: an entry that contradicts the   *)
(* token is of a key that changed less than its lifetime and one timeout ago.     *)
THEOREM StalenessBounded == Spec => []BoundedStaleness
<1>1. TypeOK /\ Freshness => BoundedStaleness
  <2> SUFFICES ASSUME TypeOK, Freshness, NEW l \in Labels, NEW e \in entry[l], e.version # key[l]
               PROVE  changed[l] < JobTimeout + (IF e.version = 0 THEN NegativeTtl ELSE Ttl)
    BY DEF BoundedStaleness
  <2>1. Live(e) /\ changed[l] <= e.age + JobTimeout
    BY DEF Freshness
  <2>2. e \in [version : Versions, age : Nat]
    BY Zenon DEF TypeOK
  <2>3. e.age \in Nat /\ changed[l] \in Nat
    BY <2>2, CacheConfig DEF TypeOK, Horizon
  <2> QED BY <2>1, <2>3, CacheConfig DEF Live, TtlOf
<1> QED BY <1>1, CacheTypes, FreshnessAlways, PTL
=============================================================================
