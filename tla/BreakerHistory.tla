--------------------------- MODULE BreakerHistory ---------------------------
(***************************************************************************)
(* Breaker with history variables, for what the code's comments say of the *)
(* past: the outcomes that the window held, and the successes in a row.    *)
(* The history variables never constrain a step.                           *)
(***************************************************************************)
EXTENDS Breaker

VARIABLES
    recent,     \* outcomes of the last Window ticks: their age, which of that tick, and ok
    streak      \* consecutive successes in the current probing phase, up to ProbeSuccesses

hvars == <<vars, recent, streak>>

HInit == Init /\ recent = {} /\ streak = 0

Outcome(age, nth, ok) == [age |-> age, nth |-> nth, ok |-> ok]
Aged(o) == Outcome(o.age + 1, o.nth, o.ok)

\* An outcome joins the window unless it was a probe; closing empties the window.
Remember(ok) ==
    recent' = CASE state' = "Closed" /\ state # "Closed" -> {}
                [] state = "HalfOpen" /\ state' # "Closed" -> recent
                [] OTHER -> recent \cup {Outcome(0, recorded, ok)}

Follow(success) ==
    streak' = CASE state' # "HalfOpen" \/ state # "HalfOpen" -> 0
                [] success -> Older(streak, ProbeSuccesses)
                [] OTHER -> streak

HTick ==
    /\ Tick
    /\ recent' = {Aged(o) : o \in {p \in recent : p.age + 1 < Window}}
    /\ Follow(FALSE)

HAllow(t) ==
    /\ AllowLoad(t) \/ AllowLocked(t) \/ Vanish(t)
    /\ UNCHANGED recent
    /\ Follow(FALSE)

HSuccess(t) == RecordSuccess(t) /\ Remember(TRUE) /\ Follow(TRUE)
HFailure(t) == RecordFailure(t) /\ Remember(FALSE) /\ Follow(FALSE)

HNext == HTick \/ \E t \in Tasks : HAllow(t) \/ HSuccess(t) \/ HFailure(t)

HSpec == HInit /\ [][HNext]_hvars

FairHSpec == HSpec /\ Fairness

-----------------------------------------------------------------------------
\* The outcomes of age at most a that were (ok) or were not (~ok) successes.
Seen(outcomes, a, ok) == Cardinality({o \in outcomes : o.age <= a /\ o.ok = ok})

TripsOn(outcomes, a) == TripsAt(Seen(outcomes, a, TRUE), Seen(outcomes, a, FALSE))

(* The breaker opens only on evidence from the last Window ticks: some suffix of  *)
(* the recent outcomes has the minimum size and the failure ratio, however long   *)
(* the breaker was idle before.                                                   *)
TripJustified ==
    [][state = "Closed" /\ state' = "Open"
          => \E a \in 0..Window : TripsOn(recent', a)]_hvars

(* "Consecutive successes in half-open needed to close again" (breaker.rs): while *)
(* the breaker probes, fewer than ProbeSuccesses consecutive ones were recorded.  *)
StreakCloses == state = "HalfOpen" => streak = 0 \/ streak < ProbeSuccesses
=============================================================================
