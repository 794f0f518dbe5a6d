------------------------------ MODULE Admission ------------------------------
(***************************************************************************)
(* Admission of a request (admit in proxy/src/grpc/pooled.rs) behind the   *)
(* breaker: authorization, as in Authz, and then, for a caller that may do *)
(* what it asks, its rate limit, as in RateLimiter.  The rate limiter is   *)
(* optional (RATE_LIMIT_PER_SECOND).                                       *)
(***************************************************************************)
EXTENDS Authz

CONSTANTS
    Buckets, NoBucket, per_second, burst, max_identities, MaxEvictions,
    LimitedFiles    \* bound: the policy files that a limiter is combined with

VARIABLES
    limited,   \* whether a rate limiter is configured
    table, level, held, user, verdict, counts, debt, evicted

L == INSTANCE RateLimiter WITH NoOne <- None

ASSUME LimiterConfigured == L!Configured

lim     == <<table, level, held, user, verdict, counts, debt, evicted>>
allVars == <<vars, limited, lim>>

AdmitInit ==
    /\ Init /\ L!Init
    /\ limited \in BOOLEAN
    /\ limited => file \in LimitedFiles

\* Step 2 of admit.
Authorize(t) ==
    /\ (\E r \in Requests : Receive(t, r)) \/ Identify(t) \/ Store(t) \/ Decide(t)
    /\ UNCHANGED <<limited, lim>>

\* Mutant: the limiter is asked before the policy.
Draw_Early(t) ==
    /\ limited /\ pc[t] \in {"decide", "allowed"}
    /\ L!Get(t, who[t])
    /\ UNCHANGED <<vars, limited>>

\* Step 3: RateLimiter::check for the identity that was established ...
Draw(t) ==
    /\ limited /\ pc[t] = "allowed"
    /\ L!Get(t, who[t])
    /\ UNCHANGED <<vars, limited>>

Spend(t) == L!Check(t) /\ UNCHANGED <<vars, limited>>

\* ... and admit returns, with ResourceExhausted for a rejected request.
Leave(t) ==
    /\ Return(t)
    /\ IF limited /\ pc[t] = "allowed" THEN L!Done(t) ELSE UNCHANGED lim
    /\ UNCHANGED limited

Forget == (\E i \in Identities : L!Evict(i)) /\ UNCHANGED <<vars, limited>>
Elapse == limited /\ L!Refill /\ UNCHANGED <<vars, limited>>

AdmitNext ==
    \/ \E t \in Tasks : Authorize(t) \/ Draw(t) \/ Spend(t) \/ Leave(t)
    \/ Forget
    \/ Elapse

AdmitSpec == AdmitInit /\ [][AdmitNext]_allVars

-----------------------------------------------------------------------------
(* Properties. *)

(* Of the limiter inside admit: all requests of an identity share one burst, and  *)
(* a bucket that the table dropped costs at most what RateLimiter says.           *)
EvictionCost == L!EvictionCost

(* And nobody is refused by admit for what another identity has spent.            *)
RefusedOnlyIfSpent == L!RefusedOnlyIfSpent

(* "an unauthorized caller cannot consume a legitimate identity's tokens"         *)
(* (pooled.rs): whoever spends from an identity's bucket presents a certificate   *)
(* of that identity and may do what it asks, whatever other requests have cached. *)
OnlyGranteesSpend ==
    [][\A b \in Buckets : level'[b] < level[b] =>
          \E t \in Tasks : LET i == Caller(req[t]) IN
              /\ held[t] = b /\ user[t] = i
              /\ IsAllowed(policy, i, req[t].key, req[t].op)]_allVars
==============================================================================
