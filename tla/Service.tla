------------------------------- MODULE Service -------------------------------
(***************************************************************************)
(* The gRPC handlers of pool mode (proxy/src/grpc/pooled.rs): admission,   *)
(* the job or the key lookup, what is reported to the circuit breaker, the *)
(* status that is answered and the metrics that are exported.              *)
(*                                                                         *)
(* The breaker is the Breaker module.  The pool, the public key cache, the *)
(* authorizer and the governor are their promises: any outcome their own   *)
(* modules, or the library, allow.  A handler is dropped only where it     *)
(* awaits, which is while it waits for the pool or the cache.              *)
(***************************************************************************)
EXTENDS Naturals, FiniteSets

CONSTANTS
    Tasks,         \* concurrent requests
    Ops,           \* the operations that are called
    Callers,       \* workload identities
    NoCert,        \* a caller without a usable certificate
    Permitted,     \* what the policy grants: pairs of a caller and an operation
    Burst,         \* RateLimitConfig::burst
    Counters,      \* bound: the exported and internal counters that are followed
    CountModulus,  \* the counters are 64 bits wide and wrap; 2^64 in the code
    RatioNum, RatioDen, MinRequests, Window, Cooldown, ProbeSuccesses, PerTick, Modulus

AllOps == {"sign", "encrypt", "decrypt", "verify", "get_public_key"}

ASSUME ServiceConfig ==
    /\ IsFiniteSet(Tasks)
    /\ Ops \subseteq AllOps /\ Burst \in Nat /\ CountModulus \in Nat \ {0}
    /\ NoCert \notin Callers /\ Permitted \subseteq Callers \X AllOps

VARIABLES
    state, startedAgo, successes, failures, openedAgo, probes, trips, rejected, recorded,
    config,    \* which of the optional parts are configured
    tokens,    \* what is left of each caller's bucket
    at,        \* where each handler is
    req,       \* the request it serves
    outcome,   \* what the pool or the cache has answered it
    code,      \* the gRPC status it answers
    count      \* the counters

\* CircuitBreaker::allow is entered by "idle" and "locking" handlers; the ones in
\* between are let in and have not reported yet.
gate == [t \in Tasks |-> CASE at[t] = "locking" -> "locking"
                           [] at[t] \in {"authorize", "limit", "pool"} -> "admitted"
                           [] OTHER -> "idle"]

B == INSTANCE Breaker WITH pc <- gate

breakerVars == <<state, startedAgo, successes, failures, openedAgo, probes, trips,
                 rejected, recorded>>
vars == <<breakerVars, config, tokens, at, req, outcome, code, count>>

\* "noInput" is a request without input, or for decrypt an IV of the wrong length;
\* "badMechanism" one whose mechanism or digest prepare, or require_aes_gcm, refuses.
Forms(op) == CASE op = "get_public_key" -> {"good"}
               [] op = "encrypt"        -> {"good", "badMechanism"}
               [] OTHER                 -> {"good", "noInput", "badMechanism"}

Requests == UNION {[op : {op}, caller : Callers \cup {NoCert}, form : Forms(op)] : op \in Ops}

NoRequest == CHOOSE r \in Requests : TRUE

Goto(t, p)      == at' = [at EXCEPT ![t] = p]

\* The handler has its status; of the request it needs no more.
Answer(t, c) ==
    /\ Goto(t, "record")
    /\ code' = [code EXCEPT ![t] = c]
    /\ req' = [req EXCEPT ![t] = NoRequest]

Bump(cs) == count' = [c \in Counters |-> IF c \in cs THEN (count[c] + 1) % CountModulus
                                         ELSE count[c]]

-----------------------------------------------------------------------------
Init ==
    /\ config \in [authorizer : BOOLEAN, limiter : BOOLEAN]
    /\ tokens = [i \in Callers |-> Burst]
    /\ at = [t \in Tasks |-> "idle"]
    /\ B!Init
    /\ req = [t \in Tasks |-> NoRequest]
    /\ outcome = [t \in Tasks |-> "none"]
    /\ code = [t \in Tasks |-> "none"]
    /\ count = [c \in Counters |-> 0]

\* Time passes: for the breaker, and for the buckets of the governor, which fill up
\* (a bucket that is evicted comes back full).
Tick ==
    /\ UNCHANGED <<config, tokens, at, req, outcome, code, count>>
    /\ B!Tick

Refill(i) ==
    /\ tokens[i] < Burst
    /\ \E n \in (tokens[i] + 1)..Burst : tokens' = [tokens EXCEPT ![i] = n]
    /\ UNCHANGED <<breakerVars, config, at, req, outcome, code, count>>

-----------------------------------------------------------------------------
(* admit. *)

\* 1. The breaker: allow() up to its lock.
Arrive(t, r) ==
    /\ at[t] = "idle"
    /\ req' = [req EXCEPT ![t] = r]
    /\ Goto(t, IF state = "Open" THEN "locking" ELSE "authorize")
    /\ UNCHANGED <<breakerVars, config, tokens, outcome, code, count>>

\* The same, under the lock.
Locked(t) ==
    /\ at[t] = "locking"
    /\ \/ /\ B!CooledDown
          /\ Goto(t, "authorize")
          /\ UNCHANGED <<req, code>>
       \/ /\ ~B!CooledDown
          /\ Answer(t, "Unavailable")
    /\ B!AllowLocked(t)
    /\ UNCHANGED <<config, tokens, outcome, count>>

\* Mutant: the handler goes on after a denial.
Authorize_Ignored(t) ==
    /\ at[t] = "authorize" /\ req[t].caller # NoCert
    /\ Goto(t, "limit")
    /\ UNCHANGED <<breakerVars, config, tokens, req, outcome, code, count>>

\* 2. The authorizer.
Authorize(t) ==
    LET r == req[t] IN
    /\ at[t] = "authorize"
    /\ \/ /\ ~config.authorizer
          /\ Goto(t, "limit")
          /\ UNCHANGED <<req, code, count>>
       \/ /\ config.authorizer /\ <<r.caller, r.op>> \in Permitted
          /\ Goto(t, "limit")
          /\ Bump({"allowed_total"})
          /\ UNCHANGED <<req, code>>
       \/ /\ config.authorizer /\ <<r.caller, r.op>> \notin Permitted
          /\ \/ /\ r.caller = NoCert
                /\ Answer(t, "Unauthenticated")
                /\ Bump({"unauthenticated_total"})
             \/ /\ r.caller # NoCert
                /\ Answer(t, "PermissionDenied")
                /\ Bump({"denied_total"})
    /\ UNCHANGED <<breakerVars, config, tokens, outcome>>

(* What a handler refuses before it submits anything. *)
BadSign(r)    == r.op = "sign" /\ r.form # "good"
BadVerify(r)  == r.op = "verify" /\ r.form = "noInput"
BadEncrypt(r) == r.op = "encrypt" /\ r.form = "badMechanism"
BadDecrypt(r) == r.op = "decrypt" /\ r.form # "good"
Malformed(r)  == BadSign(r) \/ BadVerify(r) \/ BadEncrypt(r) \/ BadDecrypt(r)

Proceed(t) ==
    \/ /\ Malformed(req[t])
       /\ Answer(t, "InvalidArgument")
    \/ /\ ~Malformed(req[t])
       /\ Goto(t, "pool")
       /\ UNCHANGED <<req, code>>

\* 3. The rate limiter, if there is one and the caller is known; then the checks of
\* the request, up to the await.
Limit(t) ==
    LET i == req[t].caller
        limited == config.limiter /\ config.authorizer
    IN  /\ at[t] = "limit"
        /\ \/ /\ ~limited
              /\ Proceed(t)
              /\ UNCHANGED <<tokens, count>>
           \/ /\ limited /\ tokens[i] > 0
              /\ tokens' = [tokens EXCEPT ![i] = @ - 1]
              /\ Bump({"limiter_allowed"})
              /\ Proceed(t)
           \/ /\ limited /\ tokens[i] = 0
              /\ Bump({"limiter_rejected"})
              /\ Answer(t, "ResourceExhausted")
              /\ UNCHANGED tokens
        /\ UNCHANGED <<breakerVars, config, outcome>>

-----------------------------------------------------------------------------
(* The job, or the lookup of the public key, and what comes of it. *)

PoolErrors == {"KeyNotFound", "InvalidRequest", "Overloaded", "Timeout", "ShuttingDown",
               "Hsm", "Internal"}

ToStatus(e) ==
    CASE e = "Ok"             -> "Ok"
      [] e = "KeyNotFound"    -> "NotFound"
      [] e = "InvalidRequest" -> "InvalidArgument"
      [] e = "Overloaded"     -> "ResourceExhausted"
      [] e = "Timeout"        -> "DeadlineExceeded"
      [] e = "ShuttingDown"   -> "Unavailable"
      [] e \in {"Hsm", "Internal"} -> "Internal"

\* Mutant: every error counts.
IsFailure_Any(c) == c # "Ok"

\* observe.
IsFailure(c) == c \in {"Internal", "DeadlineExceeded"}

Observe(c) ==
    /\ recorded < PerTick
    /\ recorded' = recorded + 1
    /\ \/ /\ IsFailure(c)
          /\ B!ProbeFailed \/ B!CountFailure
       \/ /\ ~IsFailure(c)
          /\ B!ProbeSucceeded \/ B!CountSuccess
          /\ UNCHANGED trips
    /\ UNCHANGED rejected

\* The pool answers a job of the operation.
Job(t, op, outcomes) ==
    /\ at[t] = "pool" /\ req[t].op = op
    /\ \E o \in outcomes :
          /\ outcome' = [outcome EXCEPT ![t] = o]
          /\ Observe(ToStatus(o))
          /\ Answer(t, ToStatus(o))
    /\ UNCHANGED <<config, tokens, count>>

\* Only the ciphers' parameters and data are checked by the worker.
Sign(t)    == Job(t, "sign", {"Ok"} \cup (PoolErrors \ {"InvalidRequest"}))
Encrypt(t) == Job(t, "encrypt", {"Ok"} \cup PoolErrors)
Decrypt(t) == Job(t, "decrypt", {"Ok"} \cup PoolErrors)

\* What get_or_load may answer: an entry, or the outcome of a load, one's own or the
\* one that was joined.
LookupOutcomes == {"Hit", "NegativeHit", "Ok"} \cup (PoolErrors \ {"InvalidRequest"})

\* public_key: every error of a load becomes internal, and a key that is not there is
\* an answer.
LookupStatus(o) == IF o \in PoolErrors \ {"KeyNotFound"} THEN ToStatus("Internal") ELSE "Ok"

PublicKey(t, op, o) ==
    /\ at[t] = "pool" /\ req[t].op = op
    /\ outcome' = [outcome EXCEPT ![t] = o]
    /\ Observe(LookupStatus(o))
    /\ UNCHANGED <<config, tokens, count>>

NoKey(o) == o \in {"NegativeHit", "KeyNotFound"}

\* verify: the signature is checked in process.
Verify(t) ==
    \E o \in LookupOutcomes :
        /\ PublicKey(t, "verify", o)
        /\ Answer(t, CASE LookupStatus(o) # "Ok" -> LookupStatus(o)
                       [] LookupStatus(o) = "Ok" /\ NoKey(o) -> "NotFound"
                       [] OTHER -> IF req[t].form = "good" THEN "Ok" ELSE "Internal")

GetPublicKey(t) ==
    \E o \in LookupOutcomes :
        /\ PublicKey(t, "get_public_key", o)
        /\ Answer(t, IF NoKey(o) THEN "NotFound" ELSE LookupStatus(o))

\* Mutant: a denial is taken for a missing identity.
Counted_Merged(c) ==
    CASE c = "Ok" -> {"AUTHZ_ALLOWED"}
      [] c = "ResourceExhausted" -> {"RATE_LIMITED"}
      [] c \in {"PermissionDenied", "Unauthenticated"} -> {"UNAUTHENTICATED"}
      [] OTHER -> {}

\* The counter of the status, by record().
Counted(c) ==
    CASE c = "Ok" -> {"AUTHZ_ALLOWED"}
      [] c = "ResourceExhausted" -> {"RATE_LIMITED"}
      [] c = "PermissionDenied" -> {"AUTHZ_DENIED"}
      [] c = "Unauthenticated" -> {"UNAUTHENTICATED"}
      [] OTHER -> {}

Forget(t) ==
    /\ Goto(t, "idle")
    /\ req' = [req EXCEPT ![t] = NoRequest]
    /\ outcome' = [outcome EXCEPT ![t] = "none"]
    /\ code' = [code EXCEPT ![t] = "none"]

\* Mutant: the final status is reported to the breaker as well.
Record_Observes(t) ==
    /\ at[t] = "record"
    /\ Observe(code[t])
    /\ Bump({"REQUESTS_TOTAL"} \cup Counted(code[t]))
    /\ Forget(t)
    /\ UNCHANGED <<config, tokens>>

\* record, and the response is sent.
Record(t) ==
    /\ at[t] = "record"
    /\ Bump({"REQUESTS_TOTAL"} \cup Counted(code[t]))
    /\ Forget(t)
    /\ UNCHANGED <<breakerVars, config, tokens>>

\* The client goes away, or the request times out in the server: the handler is
\* dropped where it awaits.
Drop(t) ==
    /\ at[t] = "pool"
    /\ Forget(t)
    /\ UNCHANGED <<breakerVars, config, tokens, count>>

Next ==
    \/ Tick
    \/ \E i \in Callers : Refill(i)
    \/ \E t \in Tasks : \/ \E r \in Requests : Arrive(t, r)
                        \/ Locked(t) \/ Authorize(t) \/ Limit(t)
                        \/ Sign(t) \/ Encrypt(t) \/ Decrypt(t) \/ Verify(t) \/ GetPublicKey(t)
                        \/ Record(t) \/ Drop(t)

Spec == Init /\ [][Next]_vars

-----------------------------------------------------------------------------
(* Properties. *)

(* The handlers use the breaker as the Breaker module assumes: they report only   *)
(* after they were let in, at most once, and every other way out reports nothing. *)
UsesBreaker == B!Spec

\* The outcomes that the token, or the path to it, is to blame for.
TokenFaults == {"Hsm", "Internal", "Timeout"}

Answers(t) == at[t] = "pool" /\ at'[t] = "record"

LookupOps == {"verify", "get_public_key"}

(* It takes a failed call to open the breaker: a job that ended in a fault of the *)
(* token or in its timeout, or a key lookup whose load failed.  Denials, limits,  *)
(* malformed requests, missing keys and jobs refused by a full queue do not.      *)
OpensOnFailedCall ==
    [][state # "Open" /\ state' = "Open"
          => \E t \in Tasks :
                /\ Answers(t)
                /\ \/ outcome'[t] \in TokenFaults
                   \/ req[t].op \in LookupOps /\ LookupStatus(outcome'[t]) # "Ok"]_vars

(* "Only failures that indicate the token is unhealthy count" and "Overload is a  *)
(* capacity signal, not a health signal" (observe): it takes a fault of the token *)
(* to open the breaker.                                                           *)
TripsOnTokenFault ==
    [][state # "Open" /\ state' = "Open"
          => \E t \in Tasks : Answers(t) /\ outcome'[t] \in TokenFaults]_vars

(* "an unauthorized caller cannot consume a legitimate identity's tokens" (admit):*)
(* a bucket is drawn on only by a request that the policy grants its owner, and   *)
(* nothing is submitted for a request that the policy does not grant.             *)
OnlyPermittedSpend ==
    [][config.authorizer =>
          /\ \A i \in Callers : tokens'[i] < tokens[i] =>
                \E t \in Tasks : /\ at[t] = "limit" /\ at'[t] # "limit"
                                 /\ req[t].caller = i /\ <<i, req[t].op>> \in Permitted
          /\ \A t \in Tasks : at'[t] = "pool" =>
                <<req'[t].caller, req'[t].op>> \in Permitted]_vars

\* Whether a handler is about to count c.
Pending(c) == \E t \in Tasks : at[t] = "record" /\ c \in Counted(code[t])

(* The exported counters of denials agree with the authorizer's own, once the     *)
(* handlers that were denied have recorded it: dropped handlers lose none.        *)
DenialsCounted ==
    /\ Pending("AUTHZ_DENIED") \/ count["AUTHZ_DENIED"] = count["denied_total"]
    /\ Pending("UNAUTHENTICATED")
          \/ count["UNAUTHENTICATED"] = count["unauthenticated_total"]
==============================================================================
