---------------------------- MODULE Service_proofs ----------------------------
(***************************************************************************)
(* Proofs about the gRPC handlers of pool mode, for any number of requests *)
(* and callers, any policy and any configuration: they use the breaker as  *)
(* Breaker has it, only failed calls open it, only permitted requests get  *)
(* past admission, and no denial is lost by the exported counters.         *)
(***************************************************************************)
EXTENDS Service, Integers, FiniteSetTheorems, TLAPS

Ats == {"idle", "locking", "authorize", "limit", "pool", "record"}

(* What the proofs need of the types.                                             *)
Shape ==
    /\ at \in [Tasks -> Ats]
    /\ req = [t \in Tasks |-> req[t]]
    /\ outcome = [t \in Tasks |-> outcome[t]]
    /\ code = [t \in Tasks |-> code[t]]
    /\ tokens \in [Callers -> Nat]

LEMMA TypedStep ==
    ASSUME Shape, [Next]_vars
    PROVE  Shape'
<1>0. /\ at \in [Tasks -> Ats] /\ tokens \in [Callers -> Nat]
      /\ req = [t \in Tasks |-> req[t]] /\ outcome = [t \in Tasks |-> outcome[t]]
      /\ code = [t \in Tasks |-> code[t]]
  BY Zenon DEF Shape
<1>1. at' \in [Tasks -> Ats]
  <2>1. ASSUME NEW t \in Tasks, NEW p \in Ats, Goto(t, p) PROVE at' \in [Tasks -> Ats]
    BY <1>0, <2>1 DEF Goto
  <2>2. {"idle", "locking", "authorize", "limit", "pool", "record"} \subseteq Ats
    BY DEF Ats
  <2>3. ASSUME NEW t \in Tasks, NEW c, Answer(t, c) PROVE at' \in [Tasks -> Ats]
    BY <2>1, <2>2, <2>3, Zenon DEF Answer
  <2>4. ASSUME NEW t \in Tasks, Forget(t) PROVE at' \in [Tasks -> Ats]
    BY <2>1, <2>2, <2>4, Zenon DEF Forget
  <2>5. CASE UNCHANGED at
    BY <1>0, <2>5, Zenon
  <2>6. ASSUME NEW t \in Tasks, NEW r, Arrive(t, r) PROVE at' \in [Tasks -> Ats]
    <3>1. Goto(t, "locking") \/ Goto(t, "authorize")
      BY <2>6, Zenon DEF Arrive
    <3> QED BY <2>1, <2>2, <3>1, Zenon
  <2>7. ASSUME NEW t \in Tasks, Locked(t) \/ Authorize(t) \/ Limit(t) PROVE at' \in [Tasks -> Ats]
    <3>1. \/ Goto(t, "authorize") \/ Goto(t, "limit") \/ Goto(t, "pool")
          \/ \E c : Answer(t, c)
      BY <2>7, Zenon DEF Locked, Authorize, Limit, Proceed
    <3> QED BY <2>1, <2>2, <2>3, <3>1, Zenon
  <2>8. ASSUME NEW t \in Tasks,
               Sign(t) \/ Encrypt(t) \/ Decrypt(t) \/ Verify(t) \/ GetPublicKey(t)
        PROVE  at' \in [Tasks -> Ats]
    <3>1. \E c : Answer(t, c)
      BY <2>8, Zenon DEF Sign, Encrypt, Decrypt, Verify, GetPublicKey, Job
    <3> QED BY <2>3, <3>1, Zenon
  <2>9. ASSUME NEW t \in Tasks, Record(t) \/ Drop(t) PROVE at' \in [Tasks -> Ats]
    BY <2>4, <2>9, Zenon DEF Record, Drop
  <2> QED BY <2>5, <2>6, <2>7, <2>8, <2>9, Zenon DEF Next, Tick, Refill, vars
<1>2. req' = [t \in Tasks |-> req'[t]]
  <2>1. ASSUME NEW t, NEW r, req' = [req EXCEPT ![t] = r] PROVE req' = [u \in Tasks |-> req'[u]]
    BY <1>0, <2>1, Zenon
  <2>2. ASSUME NEW t, NEW c, Answer(t, c) PROVE req' = [u \in Tasks |-> req'[u]]
    BY <2>1, <2>2, Zenon DEF Answer
  <2>3. ASSUME NEW t, Forget(t) PROVE req' = [u \in Tasks |-> req'[u]]
    BY <2>1, <2>3, Zenon DEF Forget
  <2>4. CASE UNCHANGED req
    BY <1>0, <2>4, Zenon
  <2>5. ASSUME NEW t \in Tasks, Locked(t) \/ Authorize(t) \/ Limit(t)
        PROVE  UNCHANGED req \/ \E c : Answer(t, c)
    BY <2>5, Zenon DEF Locked, Authorize, Limit, Proceed
  <2>6. ASSUME NEW t \in Tasks,
               Sign(t) \/ Encrypt(t) \/ Decrypt(t) \/ Verify(t) \/ GetPublicKey(t)
        PROVE  \E c : Answer(t, c)
    BY <2>6, Zenon DEF Sign, Encrypt, Decrypt, Verify, GetPublicKey, Job
  <2>7. ASSUME NEW t \in Tasks, Record(t) \/ Drop(t) PROVE Forget(t)
    BY <2>7, Zenon DEF Record, Drop
  <2>8. ASSUME NEW t \in Tasks, NEW r, Arrive(t, r) PROVE req' = [u \in Tasks |-> req'[u]]
    BY <2>1, <2>8, Zenon DEF Arrive
  <2> QED
    BY <2>2, <2>3, <2>4, <2>5, <2>6, <2>7, <2>8, Zenon DEF Next, vars, Tick, Refill
<1>3. outcome' = [t \in Tasks |-> outcome'[t]]
  <2>1. ASSUME NEW t, NEW r, outcome' = [outcome EXCEPT ![t] = r]
        PROVE  outcome' = [u \in Tasks |-> outcome'[u]]
    BY <1>0, <2>1, Zenon
  <2>2. UNCHANGED outcome \/ \E t, r : outcome' = [outcome EXCEPT ![t] = r]
    BY ZenonT(40) DEF Next, vars, Tick, Refill, Arrive, Locked, Authorize, Limit, Sign, Encrypt,
                      Decrypt, Verify, GetPublicKey, Job, PublicKey, Record, Drop, Forget
  <2> QED BY <1>0, <2>1, <2>2, Zenon
<1>4. code' = [t \in Tasks |-> code'[t]]
  <2>1. ASSUME NEW t, NEW r, code' = [code EXCEPT ![t] = r] PROVE code' = [u \in Tasks |-> code'[u]]
    BY <1>0, <2>1, Zenon
  <2>2. ASSUME NEW t, NEW c, Answer(t, c) PROVE code' = [u \in Tasks |-> code'[u]]
    BY <2>1, <2>2, Zenon DEF Answer
  <2>3. ASSUME NEW t, Forget(t) PROVE code' = [u \in Tasks |-> code'[u]]
    BY <2>1, <2>3, Zenon DEF Forget
  <2>4. CASE UNCHANGED code
    BY <1>0, <2>4, Zenon
  <2>5. ASSUME NEW t \in Tasks, Locked(t) \/ Authorize(t) \/ Limit(t)
        PROVE  UNCHANGED code \/ \E c : Answer(t, c)
    BY <2>5, Zenon DEF Locked, Authorize, Limit, Proceed
  <2>6. ASSUME NEW t \in Tasks,
               Sign(t) \/ Encrypt(t) \/ Decrypt(t) \/ Verify(t) \/ GetPublicKey(t)
        PROVE  \E c : Answer(t, c)
    BY <2>6, Zenon DEF Sign, Encrypt, Decrypt, Verify, GetPublicKey, Job
  <2>7. ASSUME NEW t \in Tasks, Record(t) \/ Drop(t) PROVE Forget(t)
    BY <2>7, Zenon DEF Record, Drop
  <2>8. ASSUME NEW t \in Tasks, NEW r, Arrive(t, r) PROVE code' = [u \in Tasks |-> code'[u]]
    BY <2>4, <2>8, Zenon DEF Arrive
  <2> QED
    BY <2>2, <2>3, <2>4, <2>5, <2>6, <2>7, <2>8, Zenon DEF Next, vars, Tick, Refill
<1>5. tokens' \in [Callers -> Nat]
  <2>1. CASE UNCHANGED tokens
    BY <1>0, <2>1, Zenon
  <2>2. ASSUME NEW i \in Callers, Refill(i) PROVE tokens' \in [Callers -> Nat]
    BY <1>0, <2>2, ServiceConfig DEF Refill
  <2>3. ASSUME NEW t \in Tasks, Limit(t), ~(UNCHANGED tokens) PROVE tokens' \in [Callers -> Nat]
    <3>1. PICK i : tokens[i] > 0 /\ tokens' = [tokens EXCEPT ![i] = @ - 1]
      BY <2>3, Zenon DEF Limit
    <3>2. \A j \in Callers : tokens'[j] \in Nat
      <4> SUFFICES ASSUME NEW j \in Callers PROVE tokens'[j] \in Nat
        OBVIOUS
      <4>1. tokens[j] \in Nat /\ tokens'[j] = IF j = i THEN tokens[i] - 1 ELSE tokens[j]
        BY <1>0, <3>1
      <4> QED BY <3>1, <4>1
    <3>3. tokens' = [j \in Callers |-> tokens'[j]]
      BY <1>0, <3>1, Zenon
    <3> QED BY <3>2, <3>3
  <2> QED BY <2>1, <2>2, <2>3, Zenon DEF Next, vars, Tick, Arrive, Locked, Authorize, Sign, Encrypt,
                 Decrypt, Verify, GetPublicKey, Job, PublicKey, Record, Drop
<1> QED BY <1>1, <1>2, <1>3, <1>4, <1>5, Zenon DEF Shape

LEMMA InitShape == Init => Shape
BY ServiceConfig DEF Init, Shape, Ats

LEMMA ShapeAlways == Spec => []Shape
<1>1. Shape /\ [Next]_vars => Shape'
  BY TypedStep
<1> QED BY InitShape, <1>1, PTL DEF Spec

-----------------------------------------------------------------------------
(* The breaker: where a handler is, as Breaker has it.                            *)

Gate(p) == CASE p = "locking" -> "locking"
             [] p \in {"authorize", "limit", "pool"} -> "admitted"
             [] OTHER -> "idle"

LEMMA GateValues ==
    /\ Gate("idle") = "idle" /\ Gate("locking") = "locking" /\ Gate("authorize") = "admitted"
    /\ Gate("limit") = "admitted" /\ Gate("pool") = "admitted" /\ Gate("record") = "idle"
    /\ \A t \in Tasks : gate[t] = Gate(at[t])
BY DEF Gate, gate

LEMMA GateStep ==
    ASSUME Shape, NEW t \in Tasks, NEW p, Goto(t, p)
    PROVE  gate' = [gate EXCEPT ![t] = Gate(p)]
<1>1. at' = [at EXCEPT ![t] = p] /\ at \in [Tasks -> Ats]
  BY Zenon DEF Goto, Shape
<1>2. /\ gate = [u \in Tasks |-> Gate(at[u])]
      /\ gate' = [u \in Tasks |-> Gate(at'[u])]
  BY Zenon DEF gate, Gate
<1>3. at'[t] = p /\ \A u \in Tasks : u # t => at'[u] = at[u]
  BY <1>1
<1>4. \A u \in Tasks : Gate(at'[u]) = IF u = t THEN Gate(p) ELSE Gate(at[u])
  BY <1>3, Zenon
<1>5. gate' = [u \in Tasks |-> IF u = t THEN Gate(p) ELSE Gate(at[u])]
  BY <1>2, <1>4, Zenon
<1> QED BY <1>2, <1>5

(* Inside admit, past the breaker, a handler's moves are none of the breaker's.   *)
LEMMA GateKept ==
    ASSUME Shape, NEW t \in Tasks, NEW p, Goto(t, p), Gate(p) = Gate(at[t])
    PROVE  UNCHANGED gate
<1>1. gate' = [gate EXCEPT ![t] = Gate(p)]
  BY GateStep, Zenon
<1>2. gate[t] = Gate(p) /\ gate = [u \in Tasks |-> gate[u]]
  BY GateValues, Zenon DEF gate
<1> QED BY <1>1, <1>2

(* A handler that is let in and ends without a report vanishes from the breaker.  *)
LEMMA Vanishes ==
    ASSUME Shape, NEW t \in Tasks, NEW p, Goto(t, p), Gate(at[t]) = "admitted", Gate(p) = "idle",
           UNCHANGED breakerVars
    PROVE  B!Vanish(t)
<1>1. gate[t] = "admitted" /\ gate' = [gate EXCEPT ![t] = "idle"]
  <2>1. gate' = [gate EXCEPT ![t] = Gate(p)]
    BY GateStep, Zenon
  <2>2. gate[t] = Gate(at[t])
    BY GateValues, Zenon
  <2> QED BY <2>1, <2>2, Zenon
<1> QED BY <1>1, Zenon DEF B!Vanish, B!Goto, B!window, breakerVars

(* A report is one record_success or record_failure of the handler.               *)
LEMMA Reports ==
    ASSUME Shape, NEW t \in Tasks, at[t] = "pool", NEW c, Observe(c), Goto(t, "record")
    PROVE  B!RecordSuccess(t) \/ B!RecordFailure(t)
<1>1. gate[t] = "admitted" /\ gate' = [gate EXCEPT ![t] = "idle"]
  <2>1. gate' = [gate EXCEPT ![t] = Gate("record")]
    BY GateStep, Zenon
  <2>2. gate[t] = Gate(at[t]) /\ Gate("record") = "idle" /\ Gate("pool") = "admitted"
    BY GateValues, Zenon
  <2> QED BY <2>1, <2>2, Zenon
<1> QED BY <1>1, Zenon DEF Observe, B!RecordSuccess, B!RecordFailure, B!Record, B!Goto

LEMMA BreakerStep ==
    ASSUME Shape, [Next]_vars
    PROVE  [B!Next]_(B!vars)
<1> USE GateValues
<1>0. UNCHANGED breakerVars /\ UNCHANGED gate => UNCHANGED B!vars
  BY Zenon DEF breakerVars, B!vars, B!window
<1>1. CASE UNCHANGED vars
  <2>1. UNCHANGED gate
    BY <1>1, Zenon DEF vars, gate
  <2> QED BY <1>0, <1>1, <2>1, Zenon DEF vars
<1>2. CASE Tick
  BY <1>2, Zenon DEF Tick, B!Next
<1>3. ASSUME NEW i \in Callers, Refill(i) PROVE UNCHANGED B!vars
  <2>1. UNCHANGED gate
    BY <1>3, Zenon DEF Refill, gate
  <2> QED BY <1>0, <1>3, <2>1, Zenon DEF Refill
<1>4. ASSUME NEW t \in Tasks, NEW r \in Requests, Arrive(t, r) PROVE B!Next
  <2>1. gate[t] = "idle"
    BY <1>4, Zenon DEF Arrive
  <2>2. gate' = [gate EXCEPT ![t] = IF state = "Open" THEN "locking" ELSE "admitted"]
    <3>1. CASE state = "Open"
      <4>1. Goto(t, "locking")
        BY <1>4, <3>1, Zenon DEF Arrive
      <4>2. gate' = [gate EXCEPT ![t] = Gate("locking")]
        BY <4>1, GateStep, Zenon
      <4> QED BY <3>1, <4>2, Zenon
    <3>2. CASE state # "Open"
      <4>1. Goto(t, "authorize")
        BY <1>4, <3>2, Zenon DEF Arrive
      <4>2. gate' = [gate EXCEPT ![t] = Gate("authorize")]
        BY <4>1, GateStep, Zenon
      <4> QED BY <3>2, <4>2, Zenon
    <3> QED BY <3>1, <3>2
  <2>3. B!AllowLoad(t)
    BY <1>4, <2>1, <2>2, Zenon DEF Arrive, B!AllowLoad, B!Goto, B!window, breakerVars
  <2> QED BY <2>3, Zenon DEF B!Next
<1>5. ASSUME NEW t \in Tasks, Locked(t) PROVE B!Next
  BY <1>5, Zenon DEF Locked, B!Next
<1>6. ASSUME NEW t \in Tasks, Authorize(t) PROVE B!Next \/ UNCHANGED B!vars
  <2>1. at[t] = "authorize" /\ UNCHANGED breakerVars
    BY <1>6, Zenon DEF Authorize
  <2>2. Goto(t, "limit") \/ Goto(t, "record")
    BY <1>6, Zenon DEF Authorize, Answer
  <2>3. CASE Goto(t, "limit")
    BY <1>0, <2>1, <2>3, GateKept, Zenon
  <2>4. CASE Goto(t, "record")
    BY <2>1, <2>4, Vanishes, Zenon DEF B!Next
  <2> QED BY <2>2, <2>3, <2>4
<1>7. ASSUME NEW t \in Tasks, Limit(t) PROVE B!Next \/ UNCHANGED B!vars
  <2>1. at[t] = "limit" /\ UNCHANGED breakerVars
    BY <1>7, Zenon DEF Limit
  <2>2. Goto(t, "pool") \/ Goto(t, "record")
    BY <1>7, Zenon DEF Limit, Proceed, Answer
  <2>3. CASE Goto(t, "pool")
    BY <1>0, <2>1, <2>3, GateKept, Zenon
  <2>4. CASE Goto(t, "record")
    BY <2>1, <2>4, Vanishes, Zenon DEF B!Next
  <2> QED BY <2>2, <2>3, <2>4
<1>8. ASSUME NEW t \in Tasks,
             Sign(t) \/ Encrypt(t) \/ Decrypt(t) \/ Verify(t) \/ GetPublicKey(t)
      PROVE  B!Next
  <2>1. at[t] = "pool" /\ Goto(t, "record") /\ \E c : Observe(c)
    BY <1>8, Zenon DEF Sign, Encrypt, Decrypt, Verify, GetPublicKey, Job, PublicKey, Answer
  <2> QED BY <2>1, Reports, Zenon DEF B!Next
<1>9. ASSUME NEW t \in Tasks, Record(t) PROVE UNCHANGED B!vars
  <2>1. at[t] = "record" /\ Goto(t, "idle") /\ UNCHANGED breakerVars
    BY <1>9, Zenon DEF Record, Forget
  <2> QED BY <1>0, <2>1, GateKept, Zenon
<1>10. ASSUME NEW t \in Tasks, Drop(t) PROVE B!Next
  <2>1. at[t] = "pool" /\ Goto(t, "idle") /\ UNCHANGED breakerVars
    BY <1>10, Zenon DEF Drop, Forget
  <2> QED BY <2>1, Vanishes, Zenon DEF B!Next
<1> QED BY <1>1, <1>2, <1>3, <1>4, <1>5, <1>6, <1>7, <1>8, <1>9, <1>10, Zenon DEF Next

(* The handlers implement what Breaker assumes of its callers: each reports once, *)
(* after it was let in, and every other way out (denied, limited, malformed,      *)
(* dropped) reports nothing.  So what is proved of Breaker holds in the service.  *)
THEOREM UsesBreakerHolds == Spec => UsesBreaker
<1>1. Init => B!Init
  BY Zenon DEF Init
<1>2. Shape /\ [Next]_vars => [B!Next]_(B!vars)
  BY BreakerStep
<1> QED BY <1>1, <1>2, ShapeAlways, PTL DEF Spec, UsesBreaker, B!Spec

-----------------------------------------------------------------------------
(* What opens it.                                                                 *)

(* The statuses that observe takes for failures come from faults of the token.    *)
LEMMA FailureStatuses ==
    /\ \A o \in {"Ok"} \cup PoolErrors : IsFailure(ToStatus(o)) => o \in TokenFaults
    /\ \A o \in LookupOutcomes : IsFailure(LookupStatus(o)) => LookupStatus(o) # "Ok"
BY DEF IsFailure, ToStatus, PoolErrors, TokenFaults, LookupOutcomes, LookupStatus

(* observe opens the breaker only on a failure.                                   *)
LEMMA OpensOnFailure ==
    ASSUME NEW c, Observe(c), state # "Open", state' = "Open"
    PROVE  IsFailure(c)
<1> SUFFICES ASSUME ~IsFailure(c) PROVE FALSE
  OBVIOUS
<1>1. B!ProbeSucceeded \/ B!CountSuccess
  BY Zenon DEF Observe
<1>2. state' = "Closed" \/ UNCHANGED state
  BY <1>1, Zenon DEF B!ProbeSucceeded, B!CountSuccess
<1> QED BY <1>2

(* It takes a call that failed to open the breaker: no denial, limit, malformed   *)
(* request, missing key or full queue does, in whatever order handlers report.    *)
THEOREM OpensOnFailedCallHolds == Spec => OpensOnFailedCall
<1> DEFINE Blamed(t) == /\ Answers(t)
                        /\ \/ outcome'[t] \in TokenFaults
                           \/ req[t].op \in LookupOps /\ LookupStatus(outcome'[t]) # "Ok"
           A == state # "Open" /\ state' = "Open" => \E t \in Tasks : Blamed(t)
<1>1. Shape /\ [Next]_vars => [A]_vars
  <2> SUFFICES ASSUME Shape, Next, state # "Open", state' = "Open"
               PROVE  \E t \in Tasks : Blamed(t)
    BY Zenon
  <2>0. /\ at \in [Tasks -> Ats] /\ outcome = [t \in Tasks |-> outcome[t]]
    BY Zenon DEF Shape
  <2>1. ASSUME NEW t \in Tasks, NEW op, NEW S, Job(t, op, S), S \subseteq {"Ok"} \cup PoolErrors
        PROVE  Blamed(t)
    <3>1. PICK o \in S : /\ outcome' = [outcome EXCEPT ![t] = o]
                         /\ Observe(ToStatus(o)) /\ Goto(t, "record") /\ at[t] = "pool"
      BY <2>1, Zenon DEF Job, Answer
    <3>2. outcome'[t] = o /\ at'[t] = "record"
      BY <2>0, <3>1 DEF Goto
    <3>3. o \in TokenFaults
      BY <2>1, <3>1, OpensOnFailure, FailureStatuses, Zenon
    <3> QED BY <3>1, <3>2, <3>3, Zenon DEF Answers
  <2>2. ASSUME NEW t \in Tasks, NEW op \in LookupOps, NEW o \in LookupOutcomes,
               PublicKey(t, op, o), Goto(t, "record")
        PROVE  Blamed(t)
    <3>1. /\ outcome' = [outcome EXCEPT ![t] = o] /\ Observe(LookupStatus(o))
          /\ at[t] = "pool" /\ req[t].op = op
      BY <2>2, Zenon DEF PublicKey
    <3>2. outcome'[t] = o /\ at'[t] = "record"
      BY <2>0, <2>2, <3>1 DEF Goto
    <3>3. LookupStatus(o) # "Ok"
      BY <3>1, OpensOnFailure, FailureStatuses, Zenon
    <3> QED BY <3>1, <3>2, <3>3, Zenon DEF Answers
  <2>3. ASSUME NEW t \in Tasks, Sign(t) \/ Encrypt(t) \/ Decrypt(t) PROVE Blamed(t)
    <3> HIDE DEF Blamed
    <3> QED BY <2>1, <2>3, Zenon DEF Sign, Encrypt, Decrypt
  <2>4. ASSUME NEW t \in Tasks, Verify(t) \/ GetPublicKey(t) PROVE Blamed(t)
    <3>1. "verify" \in LookupOps /\ "get_public_key" \in LookupOps
      BY DEF LookupOps
    <3> HIDE DEF Blamed
    <3> QED BY <2>2, <2>4, <3>1, Zenon DEF Verify, GetPublicKey, Answer
  <2>5. ASSUME NEW t \in Tasks, Locked(t) PROVE FALSE
    <3>1. state' = "HalfOpen" \/ UNCHANGED state
      BY <2>5, Zenon DEF Locked, B!AllowLocked
    <3> QED BY <3>1
  <2>6. ~UNCHANGED state
    BY Zenon
  <2>7. \/ \E t \in Tasks : Locked(t) \/ Sign(t) \/ Encrypt(t) \/ Decrypt(t)
        \/ \E t \in Tasks : Verify(t) \/ GetPublicKey(t)
    BY <2>6, Zenon DEF Next, Tick, B!Tick, Refill, Arrive, Authorize, Limit, Record, Drop, breakerVars
  <2> HIDE DEF Blamed
  <2> QED BY <2>3, <2>4, <2>5, <2>7, Zenon
<1> QED BY <1>1, ShapeAlways, PTL DEF Spec, OpensOnFailedCall

-----------------------------------------------------------------------------
(* Who gets past admission.                                                       *)

Admitted(t) == at[t] \in {"limit", "pool"} => <<req[t].caller, req[t].op>> \in Permitted

OnlyPermitted == config.authorizer => \A t \in Tasks : Admitted(t)

LEMMA PermittedStep ==
    ASSUME Shape, OnlyPermitted, [Next]_vars
    PROVE  OnlyPermitted'
<1>0. /\ at \in [Tasks -> Ats] /\ req = [t \in Tasks |-> req[t]]
  BY Zenon DEF Shape
<1>1. UNCHANGED config
  BY Zenon DEF Next, vars, Tick, Refill, Arrive, Locked, Authorize, Limit, Sign, Encrypt,
               Decrypt, Verify, GetPublicKey, Job, PublicKey, Record, Drop
<1> SUFFICES ASSUME config.authorizer, NEW u \in Tasks PROVE Admitted(u)'
  BY <1>1, Zenon DEF OnlyPermitted
<1>2. Admitted(u)
  BY Zenon DEF OnlyPermitted
<1>3. ASSUME UNCHANGED <<at, req>> PROVE Admitted(u)'
  BY <1>2, <1>3, Zenon DEF Admitted
<1>4. ASSUME NEW t \in Tasks, NEW p, Goto(t, p), NEW r, req' = [req EXCEPT ![t] = r],
             p \notin {"limit", "pool"}
      PROVE  Admitted(u)'
  <2>1. CASE u = t
    <3>1. at'[u] = p
      BY <1>0, <1>4, <2>1 DEF Goto
    <3> QED BY <1>4, <3>1, Zenon DEF Admitted
  <2>2. CASE u # t
    <3>1. at'[u] = at[u] /\ req'[u] = req[u]
      BY <1>0, <1>4, <2>2 DEF Goto
    <3> QED BY <1>2, <3>1, Zenon DEF Admitted
  <2> QED BY <2>1, <2>2
<1>5. ASSUME NEW t \in Tasks, NEW p, Goto(t, p), UNCHANGED req,
             p \in {"limit", "pool"} => <<req[t].caller, req[t].op>> \in Permitted
      PROVE  Admitted(u)'
  <2>1. CASE u = t
    <3>1. at'[u] = p
      BY <1>0, <1>5, <2>1 DEF Goto
    <3> QED BY <1>5, <2>1, <3>1, Zenon DEF Admitted
  <2>2. CASE u # t
    <3>1. at'[u] = at[u]
      BY <1>0, <1>5, <2>2 DEF Goto
    <3> QED BY <1>2, <1>5, <3>1, Zenon DEF Admitted
  <2> QED BY <2>1, <2>2
<1>6. ASSUME NEW t \in Tasks, NEW c, Answer(t, c) PROVE Admitted(u)'
  <2>1. "record" \notin {"limit", "pool"}
    OBVIOUS
  <2> QED BY <1>4, <1>6, <2>1, Zenon DEF Answer
<1>7. ASSUME NEW t \in Tasks, NEW r \in Requests, Arrive(t, r) PROVE Admitted(u)'
  <2>1. "locking" \notin {"limit", "pool"} /\ "authorize" \notin {"limit", "pool"}
    OBVIOUS
  <2>2. req' = [req EXCEPT ![t] = r] /\ (Goto(t, "locking") \/ Goto(t, "authorize"))
    BY <1>7, Zenon DEF Arrive
  <2> QED BY <1>4, <2>1, <2>2, Zenon
<1>8. ASSUME NEW t \in Tasks, Locked(t) PROVE Admitted(u)'
  <2>1. "authorize" \notin {"limit", "pool"}
    OBVIOUS
  <2> QED BY <1>5, <1>6, <1>8, <2>1, Zenon DEF Locked
<1>9. ASSUME NEW t \in Tasks, Authorize(t) PROVE Admitted(u)'
  BY <1>5, <1>6, <1>9, Zenon DEF Authorize
<1>10. ASSUME NEW t \in Tasks, Limit(t) PROVE Admitted(u)'
  <2>1. <<req[t].caller, req[t].op>> \in Permitted
    BY <1>10, Zenon DEF Limit, OnlyPermitted, Admitted
  <2> QED BY <1>5, <1>6, <1>10, <2>1, Zenon DEF Limit, Proceed
<1>11. ASSUME NEW t \in Tasks,
             Sign(t) \/ Encrypt(t) \/ Decrypt(t) \/ Verify(t) \/ GetPublicKey(t)
       PROVE  Admitted(u)'
  BY <1>6, <1>11, Zenon DEF Sign, Encrypt, Decrypt, Verify, GetPublicKey, Job
<1>12. ASSUME NEW t \in Tasks, Record(t) \/ Drop(t) PROVE Admitted(u)'
  <2>1. "idle" \notin {"limit", "pool"}
    OBVIOUS
  <2> QED BY <1>4, <1>12, <2>1, Zenon DEF Record, Drop, Forget
<1>13. CASE Tick \/ (\E i \in Callers : Refill(i)) \/ UNCHANGED vars
  BY <1>3, <1>13, Zenon DEF Tick, Refill, vars
<1> QED BY <1>7, <1>8, <1>9, <1>10, <1>11, <1>12, <1>13, Zenon DEF Next

(* A bucket is drawn on only by a request that the policy grants its owner, and   *)
(* nothing is submitted to the pool that the policy does not grant its caller:    *)
(* for every policy, and whatever the other handlers do.                          *)
THEOREM OnlyPermittedSpendHolds == Spec => OnlyPermittedSpend
<1> DEFINE A == config.authorizer =>
                  /\ \A i \in Callers : tokens'[i] < tokens[i] =>
                        \E t \in Tasks : /\ at[t] = "limit" /\ at'[t] # "limit"
                                         /\ req[t].caller = i /\ <<i, req[t].op>> \in Permitted
                  /\ \A t \in Tasks : at'[t] = "pool" =>
                        <<req'[t].caller, req'[t].op>> \in Permitted
<1>1. Shape /\ OnlyPermitted /\ OnlyPermitted' /\ [Next]_vars => [A]_vars
  <2> SUFFICES ASSUME Shape, OnlyPermitted, OnlyPermitted', Next, config.authorizer
               PROVE  A
    BY Zenon
  <2>0. at \in [Tasks -> Ats] /\ tokens \in [Callers -> Nat]
    BY Zenon DEF Shape
  <2>1. ASSUME NEW i \in Callers, tokens'[i] < tokens[i]
        PROVE  \E t \in Tasks : /\ at[t] = "limit" /\ at'[t] # "limit"
                                /\ req[t].caller = i /\ <<i, req[t].op>> \in Permitted
    <3>1. ~UNCHANGED tokens
      BY <2>0, <2>1
    <3>2. ~\E j \in Callers : Refill(j)
      <4> SUFFICES ASSUME NEW j \in Callers, NEW n \in (tokens[j] + 1)..Burst,
                          tokens' = [tokens EXCEPT ![j] = n]
                   PROVE  FALSE
        BY Zenon DEF Refill
      <4> QED BY <2>0, <2>1, ServiceConfig
    <3>3. PICK t \in Tasks : Limit(t)
      BY <3>1, <3>2, Zenon DEF Next, Tick, Arrive, Locked, Authorize, Sign, Encrypt,
               Decrypt, Verify, GetPublicKey, Job, PublicKey, Record, Drop
    <3>4. /\ at[t] = "limit" /\ tokens' = [tokens EXCEPT ![req[t].caller] = @ - 1]
          /\ Goto(t, "pool") \/ Goto(t, "record")
      BY <3>1, <3>3, Zenon DEF Limit, Proceed, Answer
    <3>5. req[t].caller = i
      BY <2>0, <2>1, <3>4
    <3>6. at'[t] # "limit"
      BY <2>0, <3>4 DEF Goto
    <3>7. <<req[t].caller, req[t].op>> \in Permitted
      BY <3>4, Zenon DEF OnlyPermitted, Admitted
    <3> QED BY <3>4, <3>5, <3>6, <3>7, Zenon
  <2>2. UNCHANGED config
    BY Zenon DEF Next, Tick, Refill, Arrive, Locked, Authorize, Limit, Sign, Encrypt,
               Decrypt, Verify, GetPublicKey, Job, PublicKey, Record, Drop
  <2>3. ASSUME NEW t \in Tasks, at'[t] = "pool" PROVE <<req'[t].caller, req'[t].op>> \in Permitted
    BY <2>2, <2>3, Zenon DEF OnlyPermitted, Admitted
  <2> QED BY <2>1, <2>3, Zenon
<1>2. Init => OnlyPermitted
  BY DEF Init, OnlyPermitted, Admitted
<1>3. Shape /\ OnlyPermitted /\ [Next]_vars => OnlyPermitted'
  BY PermittedStep
<1> QED BY <1>1, <1>2, <1>3, ShapeAlways, PTL DEF Spec, OnlyPermittedSpend

-----------------------------------------------------------------------------
(* The exported counters of denials.  The authorizer counts a denial at once, and *)
(* record() when the handler answers: the difference is the handlers that were    *)
(* denied and have not recorded it, up to the width of the counters.              *)

Exported   == {"AUTHZ_DENIED", "UNAUTHENTICATED"}
Total(x)   == IF x = "AUTHZ_DENIED" THEN "denied_total" ELSE "unauthenticated_total"
Denial(x)  == IF x = "AUTHZ_DENIED" THEN "PermissionDenied" ELSE "Unauthenticated"
Followed   == Exported \cup {"denied_total", "unauthenticated_total"} \subseteq Counters
Waiting(x) == {t \in Tasks : at[t] = "record" /\ x \in Counted(code[t])}

\* x and n are y, modulo the width.
Even(x, n, y) == \E q \in Int : x + n = y + q * CountModulus

Balance(x) == Even(count[x], Cardinality(Waiting(x)), count[Total(x)])

CountInv ==
    /\ count \in [Counters -> 0..(CountModulus - 1)]
    /\ \A x \in Exported : Balance(x)

LEMMA Names ==
    ASSUME Followed, NEW x \in Exported
    PROVE  /\ x \in Counters /\ Total(x) \in Counters
           /\ \A c : x \in Counted(c) <=> c = Denial(x)
           /\ \A c : Total(x) \notin Counted(c) /\ Total(x) # "REQUESTS_TOTAL" /\ x # "REQUESTS_TOTAL"
           /\ \A y \in Exported : /\ Total(y) = Total(x) => y = x
                                  /\ Denial(y) = Denial(x) => y = x
                                  /\ x # Total(y)
           /\ Total(x) \notin {"allowed_total", "limiter_allowed", "limiter_rejected"}
           /\ x \notin {"allowed_total", "limiter_allowed", "limiter_rejected"}
<1>1. x = "AUTHZ_DENIED" \/ x = "UNAUTHENTICATED"
  BY DEF Exported
<1>2. x \in Counters /\ Total(x) \in Counters
  BY <1>1 DEF Followed, Exported, Total
<1>3. ASSUME NEW c
      PROVE  /\ x \in Counted(c) <=> c = Denial(x)
             /\ Total(x) \notin Counted(c)
  <2>1. CASE x = "AUTHZ_DENIED"
    BY <2>1 DEF Counted, Denial, Total
  <2>2. CASE x = "UNAUTHENTICATED"
    BY <2>2 DEF Counted, Denial, Total
  <2> QED BY <1>1, <2>1, <2>2
<1>4. Total(x) # "REQUESTS_TOTAL" /\ x # "REQUESTS_TOTAL"
  BY <1>1 DEF Total
<1>5. ASSUME NEW y \in Exported
      PROVE  /\ Total(y) = Total(x) => y = x
             /\ Denial(y) = Denial(x) => y = x
             /\ x # Total(y)
  BY <1>1 DEF Exported, Total, Denial
<1>6. /\ Total(x) \notin {"allowed_total", "limiter_allowed", "limiter_rejected"}
      /\ x \notin {"allowed_total", "limiter_allowed", "limiter_rejected"}
  BY <1>1 DEF Total
<1> QED BY <1>2, <1>3, <1>4, <1>5, <1>6, Zenon

(* No status of a job or a lookup is a denial.                                    *)
LEMMA Statuses ==
    ASSUME NEW x \in Exported
    PROVE  /\ \A o \in {"Ok"} \cup PoolErrors : ToStatus(o) # Denial(x)
           /\ \A o \in LookupOutcomes : LookupStatus(o) # Denial(x)
           /\ Denial(x) \notin {"Ok", "NotFound", "Internal", "Unavailable", "InvalidArgument",
                                "ResourceExhausted"}
<1>1. Denial(x) \in {"PermissionDenied", "Unauthenticated"}
  BY DEF Denial
<1>2. /\ \A o \in {"Ok"} \cup PoolErrors :
            ToStatus(o) \in {"Ok", "NotFound", "InvalidArgument", "ResourceExhausted",
                             "DeadlineExceeded", "Unavailable", "Internal"}
      /\ \A o \in LookupOutcomes : LookupStatus(o) \in {"Ok", "Internal"}
  BY DEF ToStatus, LookupStatus, PoolErrors, LookupOutcomes
<1> QED BY <1>1, <1>2

(* A 64-bit counter after fetch_add(1).                                           *)
LEMMA Wraps ==
    ASSUME NEW n \in 0..(CountModulus - 1)
    PROVE  /\ (n + 1) % CountModulus \in 0..(CountModulus - 1)
           /\ (n + 1) % CountModulus = IF n + 1 = CountModulus THEN 0 ELSE n + 1
BY ServiceConfig

LEMMA EvenSteps ==
    ASSUME NEW x \in 0..(CountModulus - 1), NEW y \in 0..(CountModulus - 1), NEW n \in Nat,
           Even(x, n, y)
    PROVE  /\ Even(x, n + 1, (y + 1) % CountModulus)
           /\ Even((x + 1) % CountModulus, n - 1, y)
           /\ n = 0 => x = y
<1>1. PICK q \in Int : x + n = y + q * CountModulus
  BY Zenon DEF Even
<1>2. CountModulus \in Nat \ {0}
  BY ServiceConfig
<1>3. /\ (q + 1) * CountModulus = q * CountModulus + CountModulus
      /\ (q - 1) * CountModulus = q * CountModulus - CountModulus
      /\ q * CountModulus \in Int
  BY <1>2
<1>4. q >= 1 => q * CountModulus >= CountModulus
  <2>1. ASSUME NEW a \in Nat, NEW m \in Nat PROVE a * m \in Nat
    BY <2>1
  <2>2. q >= 1 => (q - 1) * CountModulus \in Nat
    BY <1>2, <2>1
  <2> QED BY <1>2, <1>3, <2>2
<1>5. q <= -1 => q * CountModulus <= -CountModulus
  <2>1. ASSUME NEW a \in Nat, NEW m \in Nat PROVE (-a) * m <= 0
    BY <2>1
  <2>2. q <= -1 => (q + 1) * CountModulus <= 0
    <3>1. q <= -1 => -(q + 1) \in Nat /\ -(-(q + 1)) = q + 1
      OBVIOUS
    <3> QED BY <1>2, <2>1, <3>1
  <2> QED BY <1>2, <1>3, <2>2
<1> DEFINE p == q * CountModulus
<1> HIDE DEF p
<1>6. p \in Int /\ x + n = y + p
  BY <1>1, <1>3 DEF p
<1>7. Even(x, n + 1, (y + 1) % CountModulus)
  <2>1. CASE y + 1 = CountModulus
    <3>1. (y + 1) % CountModulus = 0
      BY <2>1, Wraps
    <3>2. x + (n + 1) = 0 + (p + CountModulus)
      BY <1>2, <1>6, <2>1
    <3> QED BY <1>3, <3>1, <3>2 DEF Even, p
  <2>2. CASE y + 1 # CountModulus
    <3>1. (y + 1) % CountModulus = y + 1
      BY <2>2, Wraps
    <3>2. x + (n + 1) = (y + 1) + p
      BY <1>6
    <3> QED BY <3>1, <3>2 DEF Even, p
  <2> QED BY <2>1, <2>2
<1>8. Even((x + 1) % CountModulus, n - 1, y)
  <2>1. CASE x + 1 = CountModulus
    <3>1. (x + 1) % CountModulus = 0
      BY <2>1, Wraps
    <3>2. 0 + (n - 1) = y + (p - CountModulus)
      BY <1>2, <1>6, <2>1
    <3> QED BY <1>3, <3>1, <3>2 DEF Even, p
  <2>2. CASE x + 1 # CountModulus
    <3>1. (x + 1) % CountModulus = x + 1
      BY <2>2, Wraps
    <3>2. (x + 1) + (n - 1) = y + p
      BY <1>6
    <3> QED BY <3>1, <3>2 DEF Even, p
  <2> QED BY <2>1, <2>2
<1>9. n = 0 => x = y
  <2>1. q = 0 => p = 0
    BY <1>2 DEF p
  <2>2. q >= 1 => p >= CountModulus
    BY <1>4 DEF p
  <2>3. q <= -1 => p <= -CountModulus
    BY <1>5 DEF p
  <2> QED BY <1>2, <1>6, <2>1, <2>2, <2>3
<1> QED BY <1>7, <1>8, <1>9

LEMMA WaitingFinite ==
    ASSUME NEW x
    PROVE  IsFiniteSet(Waiting(x)) /\ Cardinality(Waiting(x)) \in Nat
<1>1. Waiting(x) \subseteq Tasks
  BY DEF Waiting
<1> QED BY <1>1, ServiceConfig, FS_Subset, FS_CardinalityType

(* The three things that can happen to the counters of one kind of denial.        *)
LEMMA BalanceKept ==
    ASSUME NEW x, Balance(x), Waiting(x)' = Waiting(x),
           count'[x] = count[x], count'[Total(x)] = count[Total(x)]
    PROVE  Balance(x)'
<1>1. Cardinality(Waiting(x))' = Cardinality(Waiting(x)) /\ Total(x)' = Total(x)
  BY Zenon DEF Total
<1> QED BY <1>1, Zenon DEF Balance, Even

LEMMA BalanceDenied ==
    ASSUME CountInv, Followed, NEW x \in Exported, NEW t \in Tasks, t \notin Waiting(x),
           Waiting(x)' = Waiting(x) \cup {t},
           count'[x] = count[x], count'[Total(x)] = (count[Total(x)] + 1) % CountModulus
    PROVE  Balance(x)'
<1>1. Cardinality(Waiting(x)') = Cardinality(Waiting(x)) + 1
  BY WaitingFinite, FS_AddElement, Zenon
<1>2. count[x] \in 0..(CountModulus - 1) /\ count[Total(x)] \in 0..(CountModulus - 1)
  BY Names DEF CountInv
<1>3. Even(count[x], Cardinality(Waiting(x)) + 1, (count[Total(x)] + 1) % CountModulus)
  BY <1>2, WaitingFinite, EvenSteps, Zenon DEF CountInv, Balance
<1>4. Total(x)' = Total(x)
  BY DEF Total
<1> QED BY <1>1, <1>3, <1>4, Zenon DEF Balance, Even

LEMMA BalanceRecorded ==
    ASSUME CountInv, Followed, NEW x \in Exported, NEW t \in Waiting(x),
           Waiting(x)' = Waiting(x) \ {t},
           count'[x] = (count[x] + 1) % CountModulus, count'[Total(x)] = count[Total(x)]
    PROVE  Balance(x)'
<1>1. Cardinality(Waiting(x)') = Cardinality(Waiting(x)) - 1
  BY WaitingFinite, FS_RemoveElement, Zenon
<1>2. count[x] \in 0..(CountModulus - 1) /\ count[Total(x)] \in 0..(CountModulus - 1)
  BY Names DEF CountInv
<1>3. Even((count[x] + 1) % CountModulus, Cardinality(Waiting(x)) - 1, count[Total(x)])
  BY <1>2, WaitingFinite, EvenSteps, Zenon DEF CountInv, Balance
<1>4. Total(x)' = Total(x)
  BY DEF Total
<1> QED BY <1>1, <1>3, <1>4, Zenon DEF Balance, Even

(* What a handler's move does to the handlers that wait to record a denial.       *)
LEMMA WaitingMoves ==
    ASSUME Shape, Followed, NEW x \in Exported, NEW t \in Tasks
    PROVE  /\ \A p : /\ Goto(t, p) /\ UNCHANGED code /\ p # "record" /\ at[t] # "record"
                     => Waiting(x)' = Waiting(x)
           /\ \A c : Answer(t, c) /\ at[t] # "record" /\ c # Denial(x) => Waiting(x)' = Waiting(x)
           /\ Answer(t, Denial(x)) => Waiting(x)' = Waiting(x) \cup {t}
           /\ Forget(t) => Waiting(x)' = Waiting(x) \ {t}
<1>0. at \in [Tasks -> Ats] /\ code = [u \in Tasks |-> code[u]]
  BY Zenon DEF Shape
<1>1. /\ Waiting(x) = {u \in Tasks : at[u] = "record" /\ code[u] = Denial(x)}
      /\ Waiting(x)' = {u \in Tasks : at'[u] = "record" /\ code'[u] = Denial(x)}
  BY Names, Zenon DEF Waiting
<1>2. ASSUME NEW p, Goto(t, p), UNCHANGED code, p # "record", at[t] # "record"
      PROVE  Waiting(x)' = Waiting(x)
  <2>1. at'[t] = p /\ \A u \in Tasks : u # t => at'[u] = at[u]
    BY <1>0, <1>2 DEF Goto
  <2> QED BY <1>1, <1>2, <2>1, Zenon
<1>3. ASSUME NEW c, Answer(t, c)
      PROVE  /\ at'[t] = "record" /\ code'[t] = c
             /\ \A u \in Tasks : u # t => at'[u] = at[u] /\ code'[u] = code[u]
  BY <1>0, <1>3 DEF Answer, Goto
<1>4. ASSUME NEW c, Answer(t, c), at[t] # "record", c # Denial(x)
      PROVE  Waiting(x)' = Waiting(x)
  BY <1>1, <1>3, <1>4, ZenonT(30)
<1>5. ASSUME Answer(t, Denial(x)) PROVE Waiting(x)' = Waiting(x) \cup {t}
  BY <1>1, <1>3, <1>5, Zenon
<1>6. ASSUME Forget(t) PROVE Waiting(x)' = Waiting(x) \ {t}
  <2>1. at'[t] = "idle" /\ \A u \in Tasks : u # t => at'[u] = at[u] /\ code'[u] = code[u]
    BY <1>0, <1>6 DEF Forget, Goto
  <2>2. at'[t] # "record"
    BY <2>1
  <2> QED BY <1>1, <2>1, <2>2, Zenon
<1> QED BY <1>2, <1>4, <1>5, <1>6, Zenon

LEMMA BumpStep ==
    ASSUME CountInv, NEW cs, Bump(cs)
    PROVE  /\ count' \in [Counters -> 0..(CountModulus - 1)]
           /\ \A c \in Counters : c \in cs => count'[c] = (count[c] + 1) % CountModulus
           /\ \A c \in Counters : c \notin cs => count'[c] = count[c]
<1>1. count \in [Counters -> 0..(CountModulus - 1)]
  BY Zenon DEF CountInv
<1>2. \A c \in Counters : count'[c] = IF c \in cs THEN (count[c] + 1) % CountModulus ELSE count[c]
  BY DEF Bump
<1>3. \A c \in Counters : count'[c] \in 0..(CountModulus - 1)
  <2> SUFFICES ASSUME NEW c \in Counters PROVE count'[c] \in 0..(CountModulus - 1)
    OBVIOUS
  <2>1. count[c] \in 0..(CountModulus - 1)
    BY <1>1
  <2> QED BY <1>2, <2>1, Wraps, Zenon
<1>4. count' = [c \in Counters |-> count'[c]]
  BY Zenon DEF Bump
<1>5. count' \in [Counters -> 0..(CountModulus - 1)]
  BY <1>3, <1>4
<1> QED BY <1>2, <1>5, Zenon

(* count keeps its type, and a step that moves nobody to or from record, and      *)
(* counts no denial, keeps the balance.                                           *)
LEMMA CountTyped ==
    ASSUME CountInv, [Next]_vars
    PROVE  count' \in [Counters -> 0..(CountModulus - 1)]
<1>1. UNCHANGED count \/ \E cs : Bump(cs)
  BY Zenon DEF Next, vars, Tick, Refill, Arrive, Locked, Authorize, Limit, Sign, Encrypt,
               Decrypt, Verify, GetPublicKey, Job, PublicKey, Record, Drop
<1> QED BY <1>1, BumpStep, Zenon DEF CountInv

LEMMA BalanceStep ==
    ASSUME Shape, CountInv, Followed, [Next]_vars, NEW x \in Exported
    PROVE  Balance(x)'
<1>0. Balance(x)
  BY Zenon DEF CountInv
<1>1. ASSUME UNCHANGED <<at, code, count>> PROVE Balance(x)'
  <2>1. Waiting(x)' = Waiting(x)
    BY <1>1, Zenon DEF Waiting, Counted
  <2> QED BY <1>0, <1>1, <2>1, BalanceKept, Zenon
<1>2. ASSUME NEW t \in Tasks, NEW p \in {"locking", "authorize", "limit", "pool"}, Goto(t, p),
             UNCHANGED code, at[t] \in {"idle", "locking", "authorize", "limit"},
             count'[x] = count[x], count'[Total(x)] = count[Total(x)]
      PROVE  Balance(x)'
  <2>1. p # "record" /\ at[t] # "record"
    BY <1>2
  <2> QED BY <1>0, <1>2, <2>1, WaitingMoves, BalanceKept, Zenon
<1>3. ASSUME NEW t \in Tasks, NEW c, Answer(t, c), c # Denial(x), at[t] \in Ats \ {"record"},
             count'[x] = count[x], count'[Total(x)] = count[Total(x)]
      PROVE  Balance(x)'
  <2>1. at[t] # "record"
    BY <1>3, Zenon
  <2> QED BY <1>0, <1>3, <2>1, WaitingMoves, BalanceKept, Zenon
<1>4. {"idle", "locking", "authorize", "limit", "pool"} \subseteq Ats \ {"record"}
  BY DEF Ats
<1>5. ASSUME NEW cs, Bump(cs), cs \subseteq {"allowed_total", "limiter_allowed", "limiter_rejected"}
      PROVE  count'[x] = count[x] /\ count'[Total(x)] = count[Total(x)]
  BY <1>5, BumpStep, Names, Zenon
<1>6. ASSUME NEW t \in Tasks, NEW r \in Requests, Arrive(t, r) PROVE Balance(x)'
  <2>1. /\ Goto(t, "locking") \/ Goto(t, "authorize")
        /\ at[t] = "idle" /\ UNCHANGED <<code, count>>
    BY <1>6, Zenon DEF Arrive
  <2> QED BY <1>2, <2>1, Zenon
<1>7. ASSUME NEW t \in Tasks, Locked(t) PROVE Balance(x)'
  <2>1. /\ at[t] = "locking" /\ UNCHANGED count
        /\ (Goto(t, "authorize") /\ UNCHANGED code) \/ Answer(t, "Unavailable")
    BY <1>7, Zenon DEF Locked
  <2>2. "Unavailable" # Denial(x)
    BY Statuses
  <2> QED BY <1>2, <1>3, <1>4, <2>1, <2>2, Zenon
<1>8. ASSUME NEW t \in Tasks, Authorize(t) PROVE Balance(x)'
  <2>0. at[t] = "authorize"
    BY <1>8, Zenon DEF Authorize
  <2>1. CASE Goto(t, "limit") /\ UNCHANGED code /\ (UNCHANGED count \/ Bump({"allowed_total"}))
    <3>1. count'[x] = count[x] /\ count'[Total(x)] = count[Total(x)]
      BY <1>5, <2>1, Zenon
    <3> QED BY <1>2, <2>0, <2>1, <3>1, Zenon
  <2>2. ASSUME NEW y \in Exported, Answer(t, Denial(y)), Bump({Total(y)}) PROVE Balance(x)'
    <3>1. CASE y # x
      <4>1. Denial(y) # Denial(x) /\ x \notin {Total(y)} /\ Total(x) \notin {Total(y)}
        BY <3>1, Names, Zenon
      <4>2. count'[x] = count[x] /\ count'[Total(x)] = count[Total(x)]
        BY <2>2, <4>1, BumpStep, Names, Zenon
      <4> QED BY <1>3, <1>4, <2>0, <2>2, <4>1, <4>2, Zenon
    <3>2. CASE y = x
      <4>1. t \notin Waiting(x)
        BY <2>0 DEF Waiting
      <4>2. Waiting(x)' = Waiting(x) \cup {t}
        BY <2>2, <3>2, WaitingMoves, Zenon
      <4>3. x \notin {Total(y)}
        BY <3>2, Names, Zenon
      <4>4. count'[x] = count[x] /\ count'[Total(x)] = (count[Total(x)] + 1) % CountModulus
        BY <2>2, <3>2, <4>3, BumpStep, Names, Zenon
      <4> QED BY <4>1, <4>2, <4>4, BalanceDenied, Zenon
    <3> QED BY <3>1, <3>2
  <2>3. CASE \/ Answer(t, "Unauthenticated") /\ Bump({"unauthenticated_total"})
             \/ Answer(t, "PermissionDenied") /\ Bump({"denied_total"})
    <3>1. /\ "AUTHZ_DENIED" \in Exported /\ Denial("AUTHZ_DENIED") = "PermissionDenied"
          /\ Total("AUTHZ_DENIED") = "denied_total"
          /\ "UNAUTHENTICATED" \in Exported /\ Denial("UNAUTHENTICATED") = "Unauthenticated"
          /\ Total("UNAUTHENTICATED") = "unauthenticated_total"
      BY DEF Exported, Denial, Total
    <3> QED BY <2>2, <2>3, <3>1, Zenon
  <2> QED BY <1>8, <2>1, <2>3, Zenon DEF Authorize
<1>9. ASSUME NEW t \in Tasks, Limit(t) PROVE Balance(x)'
  <2>0. at[t] = "limit"
    BY <1>9, Zenon DEF Limit
  <2>1. count'[x] = count[x] /\ count'[Total(x)] = count[Total(x)]
    BY <1>5, <1>9, Zenon DEF Limit
  <2>2. \/ Goto(t, "pool") /\ UNCHANGED code
        \/ Answer(t, "InvalidArgument") \/ Answer(t, "ResourceExhausted")
    BY <1>9, Zenon DEF Limit, Proceed
  <2>3. "InvalidArgument" # Denial(x) /\ "ResourceExhausted" # Denial(x)
    BY Statuses
  <2> QED BY <1>2, <1>3, <1>4, <2>0, <2>1, <2>2, <2>3, Zenon
<1>10. ASSUME NEW t \in Tasks,
             Sign(t) \/ Encrypt(t) \/ Decrypt(t) \/ Verify(t) \/ GetPublicKey(t)
       PROVE  Balance(x)'
  <2>1. at[t] = "pool" /\ UNCHANGED count
    BY <1>10, Zenon DEF Sign, Encrypt, Decrypt, Verify, GetPublicKey, Job, PublicKey
  <2>2. \E c : Answer(t, c) /\ c # Denial(x)
    <3>1. CASE Sign(t) \/ Encrypt(t) \/ Decrypt(t)
      <4>1. \E S : Job(t, req[t].op, S) /\ S \subseteq {"Ok"} \cup PoolErrors
        BY <3>1, Zenon DEF Sign, Encrypt, Decrypt, Job
      <4>2. PICK o \in {"Ok"} \cup PoolErrors : Answer(t, ToStatus(o))
        BY <4>1, Zenon DEF Job
      <4>3. ToStatus(o) # Denial(x)
        BY Statuses, Zenon
      <4> QED BY <4>2, <4>3, Zenon
    <3>2. CASE Verify(t)
      <4>1. PICK o \in LookupOutcomes :
              Answer(t, CASE LookupStatus(o) # "Ok" -> LookupStatus(o)
                       [] LookupStatus(o) = "Ok" /\ NoKey(o) -> "NotFound"
                       [] OTHER -> IF req[t].form = "good" THEN "Ok" ELSE "Internal")
        BY <3>2, Zenon DEF Verify
      <4> DEFINE c == CASE LookupStatus(o) # "Ok" -> LookupStatus(o)
                       [] LookupStatus(o) = "Ok" /\ NoKey(o) -> "NotFound"
                       [] OTHER -> IF req[t].form = "good" THEN "Ok" ELSE "Internal"
      <4>2. c # Denial(x)
        <5>1. c \in {LookupStatus(o), "NotFound", "Ok", "Internal"}
          OBVIOUS
        <5> HIDE DEF c
        <5> QED BY <5>1, Statuses
      <4> QED BY <4>1, <4>2, Zenon
    <3>3. CASE GetPublicKey(t)
      <4>1. PICK o \in LookupOutcomes : Answer(t, IF NoKey(o) THEN "NotFound" ELSE LookupStatus(o))
        BY <3>3, Zenon DEF GetPublicKey
      <4>2. (IF NoKey(o) THEN "NotFound" ELSE LookupStatus(o)) # Denial(x)
        BY Statuses
      <4> QED BY <4>1, <4>2, Zenon
    <3> QED BY <1>10, <3>1, <3>2, <3>3
  <2> QED BY <1>3, <1>4, <2>1, <2>2, Zenon
<1>11. ASSUME NEW t \in Tasks, Record(t) PROVE Balance(x)'
  <2> DEFINE cs == {"REQUESTS_TOTAL"} \cup Counted(code[t])
  <2>1. at[t] = "record" /\ Bump(cs) /\ Forget(t)
    BY <1>11, Zenon DEF Record
  <2>2. Total(x) \notin cs /\ (x \in cs <=> t \in Waiting(x))
    BY <2>1, Names, Zenon DEF Waiting
  <2>3. Waiting(x)' = Waiting(x) \ {t}
    BY <2>1, WaitingMoves, Zenon
  <2> HIDE DEF cs
  <2>4. count'[Total(x)] = count[Total(x)]
    BY <2>1, <2>2, BumpStep, Names, Zenon
  <2>5. CASE x \in cs
    <3>1. count'[x] = (count[x] + 1) % CountModulus
      BY <2>1, <2>5, BumpStep, Names, Zenon
    <3> QED BY <2>2, <2>3, <2>4, <2>5, <3>1, BalanceRecorded, Zenon
  <2>6. CASE x \notin cs
    <3>1. count'[x] = count[x]
      BY <2>1, <2>6, BumpStep, Names, Zenon
    <3>2. Waiting(x)' = Waiting(x)
      BY <2>2, <2>3, <2>6, Zenon
    <3> QED BY <1>0, <2>4, <3>1, <3>2, BalanceKept, Zenon
  <2> QED BY <2>5, <2>6
<1>12. ASSUME NEW t \in Tasks, Drop(t) PROVE Balance(x)'
  <2>1. at[t] = "pool" /\ Forget(t) /\ UNCHANGED count
    BY <1>12, Zenon DEF Drop
  <2>2. t \notin Waiting(x)
    BY <2>1 DEF Waiting
  <2>3. Waiting(x)' = Waiting(x)
    <3>1. Waiting(x)' = Waiting(x) \ {t}
      BY <2>1, WaitingMoves, Zenon
    <3> QED BY <2>2, <3>1, Zenon
  <2> QED BY <1>0, <2>1, <2>3, BalanceKept, Zenon
<1>13. CASE Tick \/ (\E i \in Callers : Refill(i)) \/ UNCHANGED vars
  BY <1>1, <1>13, Zenon DEF Tick, Refill, vars
<1> QED BY <1>6, <1>7, <1>8, <1>9, <1>10, <1>11, <1>12, <1>13, Zenon DEF Next

(* The exported counters of denials lose and add nothing: once the handlers that  *)
(* were denied have recorded it, they are the authorizer's own, also after either *)
(* has wrapped, and no handler is dropped between the denial and record().        *)
THEOREM DenialsCountedAlways ==
    ASSUME {"AUTHZ_DENIED", "UNAUTHENTICATED", "denied_total", "unauthenticated_total"} \subseteq Counters
    PROVE  Spec => []DenialsCounted
<1>0. Followed
  BY DEF Followed, Exported
<1>1. Init => CountInv
  <2> SUFFICES ASSUME Init PROVE CountInv
    OBVIOUS
  <2>1. count \in [Counters -> 0..(CountModulus - 1)] /\ \A c \in Counters : count[c] = 0
    BY ServiceConfig DEF Init
  <2>2. ASSUME NEW x \in Exported PROVE Balance(x)
    <3>1. \A t \in Tasks : at[t] # "record"
      BY DEF Init
    <3>2. Waiting(x) = {}
      BY <3>1, Zenon DEF Waiting
    <3>3. count[x] = 0 /\ count[Total(x)] = 0 /\ Cardinality(Waiting(x)) = 0
      BY <1>0, <2>1, <3>2, Names, FS_EmptySet, Zenon
    <3>4. 0 + 0 = 0 + 0 * CountModulus /\ 0 \in Int
      BY ServiceConfig
    <3> QED BY <3>3, <3>4, Zenon DEF Balance, Even
  <2> QED BY <2>1, <2>2, Zenon DEF CountInv
<1>2. Shape /\ CountInv /\ [Next]_vars => CountInv'
  <2> SUFFICES ASSUME Shape, CountInv, [Next]_vars PROVE CountInv'
    OBVIOUS
  <2>1. \A x \in Exported : Balance(x)'
    BY <1>0, BalanceStep, Zenon
  <2>2. Exported' = Exported
    BY DEF Exported
  <2> QED BY <2>1, <2>2, CountTyped, Zenon DEF CountInv
<1>3. CountInv => DenialsCounted
  <2> SUFFICES ASSUME CountInv PROVE DenialsCounted
    OBVIOUS
  <2>1. ASSUME NEW x \in Exported PROVE Pending(x) \/ count[x] = count[Total(x)]
    <3> SUFFICES ASSUME ~Pending(x) PROVE count[x] = count[Total(x)]
      OBVIOUS
    <3>1. Waiting(x) = {}
      BY Zenon DEF Pending, Waiting
    <3>2. Cardinality(Waiting(x)) = 0
      BY <3>1, FS_EmptySet, Zenon
    <3>3. count[x] \in 0..(CountModulus - 1) /\ count[Total(x)] \in 0..(CountModulus - 1)
      BY <1>0, Names DEF CountInv
    <3>4. Even(count[x], 0, count[Total(x)]) /\ 0 \in Nat
      BY <3>2, Zenon DEF CountInv, Balance
    <3> QED BY <3>3, <3>4, EvenSteps, Zenon
  <2>2. /\ "AUTHZ_DENIED" \in Exported /\ Total("AUTHZ_DENIED") = "denied_total"
        /\ "UNAUTHENTICATED" \in Exported /\ Total("UNAUTHENTICATED") = "unauthenticated_total"
    BY DEF Exported, Total
  <2> QED BY <2>1, <2>2, Zenon DEF DenialsCounted
<1> QED BY <1>1, <1>2, <1>3, ShapeAlways, PTL DEF Spec
===============================================================================
