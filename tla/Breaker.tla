------------------------------- MODULE Breaker -------------------------------
(***************************************************************************)
(* The circuit breaker (proxy/src/resilience/breaker.rs) under concurrent  *)
(* requests.                                                               *)
(*                                                                         *)
(* `state` is an atomic that allow() loads without the lock; everything    *)
(* else, and every store to `state`, happens under the window's mutex, so  *)
(* one locked section is one step.  The one gap is in allow(): between the *)
(* load that saw Open and the lock, other requests may move the breaker.   *)
(*                                                                         *)
(* Instants are ages in ticks.  The code only asks whether an age has      *)
(* reached `window` or `cooldown`, so ages stop growing there.             *)
(***************************************************************************)
EXTENDS Naturals, FiniteSets

CONSTANTS
    Tasks,            \* concurrent request handlers
    RatioNum,         \* failure_ratio = RatioNum / RatioDen
    RatioDen,
    MinRequests,      \* minimum_requests
    Window,           \* window, in ticks
    Cooldown,         \* cooldown, in ticks
    ProbeSuccesses,   \* probe_successes
    PerTick,          \* bound: outcomes recorded in one tick
    Modulus           \* the counters are AtomicU64 and wrap; 2^64 in the code

ASSUME TasksFinite == IsFiniteSet(Tasks)
ASSUME ConfigTyped ==
    /\ RatioNum \in Nat /\ RatioDen \in Nat \ {0}
    /\ MinRequests \in Nat /\ Window \in Nat /\ Cooldown \in Nat
    /\ ProbeSuccesses \in Nat /\ PerTick \in Nat /\ Modulus \in Nat \ {0}

VARIABLES
    state,       \* CircuitBreaker::state
    startedAgo,  \* age of Window::started
    successes,   \* Window::successes
    failures,    \* Window::failures
    openedAgo,   \* age of Window::opened_at, a set of at most one
    probes,      \* Window::probe_successes
    trips,       \* CircuitBreaker::trips
    rejected,    \* CircuitBreaker::rejected
    pc,          \* where each request is
    recorded     \* outcomes recorded in this tick

window == <<startedAgo, successes, failures, openedAgo, probes>>
vars   == <<state, window, trips, rejected, pc, recorded>>

States == {"Closed", "Open", "HalfOpen"}
PCs    == {"idle", "locking", "admitted"}

Goto(t, p) == pc' = [pc EXCEPT ![t] = p]
Older(age, limit) == IF age < limit THEN age + 1 ELSE limit

\* AtomicU64::fetch_add(1).
Incr(n) == (n + 1) % Modulus

-----------------------------------------------------------------------------
\* CircuitBreaker::new.
Init ==
    /\ state = "Closed"
    /\ startedAgo = 0 /\ successes = 0 /\ failures = 0
    /\ openedAgo = {} /\ probes = 0
    /\ trips = 0 /\ rejected = 0
    /\ pc = [t \in Tasks |-> "idle"]
    /\ recorded = 0

Tick ==
    /\ startedAgo' = Older(startedAgo, Window)
    /\ openedAgo' = {Older(a, Cooldown) : a \in openedAgo}
    /\ recorded' = 0
    /\ UNCHANGED <<state, successes, failures, probes, trips, rejected, pc>>

\* allow: the load, and the arms that need no lock.
AllowLoad(t) ==
    /\ pc[t] = "idle"
    /\ Goto(t, IF state = "Open" THEN "locking" ELSE "admitted")
    /\ UNCHANGED <<state, window, trips, rejected, recorded>>

CooledDown == \E a \in openedAgo : a >= Cooldown

\* Mutant: the first request after the trip probes at once.
AllowLocked_NoCooldown(t) ==
    /\ pc[t] = "locking"
    /\ probes' = 0
    /\ state' = "HalfOpen"
    /\ Goto(t, "admitted")
    /\ UNCHANGED <<startedAgo, successes, failures, openedAgo, trips, rejected, recorded>>

\* allow: the Open arm, under the lock.  The state is not loaded again.
AllowLocked(t) ==
    /\ pc[t] = "locking"
    /\ \/ /\ CooledDown
          /\ probes' = 0
          /\ state' = "HalfOpen"
          /\ Goto(t, "admitted")
          /\ UNCHANGED rejected
       \/ /\ ~CooledDown
          /\ rejected' = Incr(rejected)
          /\ Goto(t, "idle")
          /\ UNCHANGED <<state, probes>>
    /\ UNCHANGED <<startedAgo, successes, failures, openedAgo, trips, recorded>>

\* roll_if_stale: the counts that the current outcome is added to.
Stale == startedAgo >= Window
\* Mutant: counts of a past window are kept.
Rolled_Never(n) == n

Rolled(n) == IF Stale THEN 0 ELSE n
RollStart == startedAgo' = IF Stale THEN 0 ELSE startedAgo

Record(t) ==
    /\ pc[t] = "admitted" /\ recorded < PerTick
    /\ recorded' = recorded + 1
    /\ Goto(t, "idle")

\* Mutant: the new state is not stored (and the count stops where the code closes).
ProbeSucceeded_NotStored ==
    /\ state = "HalfOpen"
    /\ probes' = IF probes < ProbeSuccesses THEN probes + 1 ELSE probes
    /\ UNCHANGED <<state, startedAgo, successes, failures, openedAgo>>

ProbeSucceeded ==
    /\ state = "HalfOpen"
    /\ probes' = probes + 1
    /\ \/ /\ probes + 1 >= ProbeSuccesses
          /\ startedAgo' = 0 /\ successes' = 0 /\ failures' = 0
          /\ state' = "Closed"
       \/ /\ probes + 1 < ProbeSuccesses
          /\ UNCHANGED <<state, startedAgo, successes, failures>>
    /\ UNCHANGED openedAgo

CountSuccess ==
    /\ state # "HalfOpen"
    /\ RollStart
    /\ successes' = Rolled(successes) + 1
    /\ failures' = Rolled(failures)
    /\ UNCHANGED <<state, openedAgo, probes>>

RecordSuccess(t) ==
    /\ Record(t)
    /\ ProbeSucceeded \/ CountSuccess
    /\ UNCHANGED <<trips, rejected>>

\* Mutant: a failed probe does not restart the cooldown.
ProbeFailed_OldCooldown ==
    /\ state = "HalfOpen"
    /\ probes' = 0
    /\ state' = "Open"
    /\ UNCHANGED <<startedAgo, successes, failures, openedAgo, trips>>

ProbeFailed ==
    /\ state = "HalfOpen"
    /\ openedAgo' = {0}
    /\ probes' = 0
    /\ state' = "Open"
    /\ UNCHANGED <<startedAgo, successes, failures, trips>>

\* failures / total >= failure_ratio, once total has reached minimum_requests.
TripsAt(s, f) == s + f >= MinRequests /\ f * RatioDen >= RatioNum * (s + f)

\* Mutant: the trip does not set opened_at.
CountFailure_NoTimestamp ==
    /\ state # "HalfOpen"
    /\ RollStart
    /\ successes' = Rolled(successes)
    /\ failures' = Rolled(failures) + 1
    /\ TripsAt(Rolled(successes), Rolled(failures) + 1)
    /\ state' = "Open"
    /\ trips' = Incr(trips)
    /\ UNCHANGED <<openedAgo, probes>>

CountFailure ==
    /\ state # "HalfOpen"
    /\ RollStart
    /\ successes' = Rolled(successes)
    /\ failures' = Rolled(failures) + 1
    /\ \/ /\ TripsAt(Rolled(successes), Rolled(failures) + 1)
          /\ openedAgo' = {0}
          /\ state' = "Open"
          /\ trips' = Incr(trips)
       \/ /\ ~TripsAt(Rolled(successes), Rolled(failures) + 1)
          /\ UNCHANGED <<openedAgo, state, trips>>
    /\ UNCHANGED probes

RecordFailure(t) ==
    /\ Record(t)
    /\ ProbeFailed \/ CountFailure
    /\ UNCHANGED rejected

\* A request that was let in but never reports: denied by a later admission check,
\* malformed, or its handler dropped.
Vanish(t) ==
    /\ pc[t] = "admitted"
    /\ Goto(t, "idle")
    /\ UNCHANGED <<state, window, trips, rejected, recorded>>

Next ==
    \/ Tick
    \/ \E t \in Tasks : \/ AllowLoad(t) \/ AllowLocked(t)
                        \/ RecordSuccess(t) \/ RecordFailure(t) \/ Vanish(t)

Spec == Init /\ [][Next]_vars

-----------------------------------------------------------------------------
(* Properties. *)

(* Type correctness: the ages stay within the window and the cooldown, and the    *)
(* 64-bit counters wrap.                                                          *)
TypeOK ==
    /\ state \in States
    /\ startedAgo \in 0..Window
    /\ successes \in Nat /\ failures \in Nat
    /\ openedAgo \subseteq 0..Cooldown
    /\ probes \in Nat
    /\ trips \in 0..(Modulus - 1) /\ rejected \in 0..(Modulus - 1)
    /\ pc \in [Tasks -> PCs]
    /\ recorded \in 0..PerTick

(* The breaker cannot get stuck: whenever it is open or probing, and whenever a   *)
(* request is about to consult the cooldown, opened_at is set, so the cooldown    *)
(* does run out; and while it probes, the successes that close it are still       *)
(* outstanding.                                                                   *)
NeverStuck ==
    /\ state # "Closed" => openedAgo # {}
    /\ (\E t \in Tasks : pc[t] = "locking") => openedAgo # {}
    /\ \A a, b \in openedAgo : a = b
    /\ state = "HalfOpen" => probes = 0 \/ probes < ProbeSuccesses

(* Failing fast: a request that is let in while the breaker is open is the one    *)
(* that ends the cooldown; before that nobody is let in, whatever the others do.  *)
FailFast ==
    [][\A t \in Tasks :
          pc[t] # "admitted" /\ pc'[t] = "admitted" /\ state = "Open"
              => CooledDown /\ state' = "HalfOpen"]_vars

(* An open breaker is never closed directly: it takes a cooldown and then         *)
(* ProbeSuccesses recorded successes, and a failure while probing reopens it with *)
(* a fresh cooldown.                                                              *)
ReopensOnFailure ==
    [][/\ state = "Open" => state' # "Closed"
       /\ state = "HalfOpen" /\ state' = "Open" => openedAgo' = {0}
       /\ state = "HalfOpen" /\ state' = "Closed" => probes' >= ProbeSuccesses]_vars

Fairness ==
    /\ WF_vars(Tick)
    /\ \A t \in Tasks :
          /\ WF_vars(AllowLoad(t) \/ AllowLocked(t))
          /\ SF_vars(RecordSuccess(t) \/ RecordFailure(t))

FairSpec == Spec /\ Fairness

(* Once the failures stop, the breaker closes and stays closed, provided requests *)
(* keep coming and some of them report: a stale decision in allow() may reopen    *)
(* the probing phase, but only finitely often.                                    *)
Recovers ==
    \/ []<><<\E t \in Tasks : RecordFailure(t)>>_vars
    \/ <>[](state = "Closed")
==============================================================================
