--------------------------- MODULE Breaker_proofs ---------------------------
(* Proofs about Breaker, for every configuration and any number of requests. *)
EXTENDS BreakerHistory, FiniteSetTheorems, TLAPS

LEMMA OlderType ==
    ASSUME NEW limit \in Nat, NEW age \in 0..limit
    PROVE  Older(age, limit) \in 0..limit
BY DEF Older

LEMMA IncrType ==
    ASSUME NEW n \in 0..(Modulus - 1)
    PROVE  Incr(n) \in 0..(Modulus - 1)
BY ConfigTyped DEF Incr

(* Every variable of the breaker keeps its type through every locked section.     *)
THEOREM TypeCorrect == Spec => []TypeOK
<1>1. Init => TypeOK
  BY ConfigTyped DEF Init, TypeOK, States, PCs
<1>2. TypeOK /\ [Next]_vars => TypeOK'
  <2> SUFFICES ASSUME TypeOK, [Next]_vars PROVE TypeOK'
    OBVIOUS
  <2> USE ConfigTyped DEF TypeOK, States, PCs, Goto
  <2>1. CASE Tick
    <3>1. startedAgo' \in 0..Window
      BY <2>1, OlderType DEF Tick
    <3>2. openedAgo' \subseteq 0..Cooldown
      BY <2>1, OlderType DEF Tick
    <3> QED BY <2>1, <3>1, <3>2 DEF Tick
  <2>2. ASSUME NEW t \in Tasks, AllowLoad(t) PROVE TypeOK'
    BY <2>2 DEF AllowLoad, window
  <2>3. ASSUME NEW t \in Tasks, AllowLocked(t) PROVE TypeOK'
    BY <2>3, IncrType DEF AllowLocked
  <2>4. ASSUME NEW t \in Tasks, RecordSuccess(t) PROVE TypeOK'
    <3>1. Rolled(successes) + 1 \in Nat /\ Rolled(failures) \in Nat /\ probes + 1 \in Nat
      BY DEF Rolled
    <3>2. CASE ProbeSucceeded
      BY <2>4, <3>1, <3>2 DEF RecordSuccess, Record, ProbeSucceeded
    <3>3. CASE CountSuccess
      BY <2>4, <3>1, <3>3 DEF RecordSuccess, Record, CountSuccess, RollStart
    <3> QED BY <2>4, <3>2, <3>3 DEF RecordSuccess
  <2>5. ASSUME NEW t \in Tasks, RecordFailure(t) PROVE TypeOK'
    <3>1. Rolled(successes) \in Nat /\ Rolled(failures) + 1 \in Nat
      BY DEF Rolled
    <3>2. trips' \in 0..(Modulus - 1)
      BY <2>5, IncrType DEF RecordFailure, ProbeFailed, CountFailure
    <3>3. CASE ProbeFailed
      BY <2>5, <3>2, <3>3 DEF RecordFailure, Record, ProbeFailed
    <3>4. CASE CountFailure
      <4>1. \/ openedAgo' = {0} /\ state' = "Open"
            \/ openedAgo' = openedAgo /\ state' = state
        BY <3>4, Zenon DEF CountFailure
      <4>2. {0} \subseteq 0..Cooldown
        OBVIOUS
      <4>3. openedAgo' \subseteq 0..Cooldown /\ state' \in States
        BY <4>1, <4>2, Zenon DEF States
      <4>4. startedAgo' \in 0..Window
        BY <3>4 DEF CountFailure, RollStart, Stale
      <4> QED
        BY <2>5, <3>1, <3>2, <3>4, <4>3, <4>4 DEF RecordFailure, Record, CountFailure
    <3> QED BY <2>5, <3>3, <3>4 DEF RecordFailure
  <2>6. ASSUME NEW t \in Tasks, Vanish(t) PROVE TypeOK'
    BY <2>6 DEF Vanish, window
  <2>7. CASE UNCHANGED vars
    BY <2>7 DEF vars, window
  <2> QED
    BY <2>1, <2>2, <2>3, <2>4, <2>5, <2>6, <2>7 DEF Next
<1> QED BY <1>1, <1>2, PTL DEF Spec

(* The breaker is never stuck open: opened_at is set whenever the cooldown may    *)
(* be consulted, and a probing breaker still waits for some success.              *)
THEOREM NeverStuckHolds == Spec => []NeverStuck
<1>1. Init => NeverStuck
  BY DEF Init, NeverStuck
<1>2. TypeOK /\ NeverStuck /\ [Next]_vars => NeverStuck'
  <2> SUFFICES ASSUME TypeOK, NeverStuck, [Next]_vars PROVE NeverStuck'
    OBVIOUS
  <2> USE ConfigTyped DEF NeverStuck, TypeOK, PCs, Goto
  <2>1. CASE Tick
    <3>1. openedAgo # {} => openedAgo' # {}
      BY <2>1, Zenon DEF Tick
    <3>2. \A a, b \in openedAgo' : a = b
      BY <2>1 DEF Tick
    <3> QED BY <2>1, <3>1, <3>2 DEF Tick
  <2>2. ASSUME NEW t \in Tasks, AllowLoad(t) PROVE NeverStuck'
    BY <2>2 DEF AllowLoad, window
  <2>3. ASSUME NEW t \in Tasks, AllowLocked(t) PROVE NeverStuck'
    BY <2>3 DEF AllowLocked
  <2>4. ASSUME NEW t \in Tasks, RecordSuccess(t) PROVE NeverStuck'
    <3>1. UNCHANGED openedAgo
      BY <2>4 DEF RecordSuccess, ProbeSucceeded, CountSuccess
    <3>2. \A u \in Tasks : pc'[u] = "locking" => pc[u] = "locking"
      BY <2>4 DEF RecordSuccess, Record
    <3>3. state' # "Closed" => state # "Closed"
      BY <2>4 DEF RecordSuccess, ProbeSucceeded, CountSuccess
    <3>4. state' = "HalfOpen" => probes' < ProbeSuccesses
      BY <2>4 DEF RecordSuccess, ProbeSucceeded, CountSuccess
    <3> QED BY <3>1, <3>2, <3>3, <3>4
  <2>5. ASSUME NEW t \in Tasks, RecordFailure(t) PROVE NeverStuck'
    <3>1. \/ openedAgo' = {0} /\ state' = "Open"
          \/ state # "HalfOpen" /\ UNCHANGED <<openedAgo, state>>
      BY <2>5 DEF RecordFailure, ProbeFailed, CountFailure
    <3>2. \A u \in Tasks : pc'[u] = "locking" => pc[u] = "locking"
      BY <2>5 DEF RecordFailure, Record
    <3> QED BY <3>1, <3>2, Zenon
  <2>6. ASSUME NEW t \in Tasks, Vanish(t) PROVE NeverStuck'
    BY <2>6 DEF Vanish, window
  <2>7. CASE UNCHANGED vars
    BY <2>7 DEF vars, window
  <2> QED
    BY <2>1, <2>2, <2>3, <2>4, <2>5, <2>6, <2>7 DEF Next
<1> QED BY <1>1, <1>2, TypeCorrect, PTL DEF Spec

(* No request is let in by an open breaker, except the one whose locked check     *)
(* finds the cooldown over and moves the breaker to probing.                      *)
THEOREM FailFastHolds == Spec => FailFast
<1>1. TypeOK /\ [Next]_vars =>
        [\A t \in Tasks :
            pc[t] # "admitted" /\ pc'[t] = "admitted" /\ state = "Open"
               => CooledDown /\ state' = "HalfOpen"]_vars
  <2> SUFFICES ASSUME TypeOK, Next, NEW t \in Tasks,
                      pc[t] # "admitted", pc'[t] = "admitted", state = "Open"
               PROVE  CooledDown /\ state' = "HalfOpen"
    OBVIOUS
  <2>1. ~Tick
    BY DEF Tick, TypeOK
  <2>2. PICK u \in Tasks : \/ AllowLoad(u) \/ AllowLocked(u)
                           \/ RecordSuccess(u) \/ RecordFailure(u) \/ Vanish(u)
    BY <2>1 DEF Next
  <2>3. AllowLocked(u)
    BY <2>2 DEF AllowLoad, RecordSuccess, RecordFailure, Record, Vanish, Goto, TypeOK
  <2> QED
    BY <2>3 DEF AllowLocked, Goto, TypeOK
<1> QED BY <1>1, TypeCorrect, PTL DEF Spec, FailFast

(* Open does not go straight to Closed, a failed probe starts a new cooldown, and *)
(* closing takes the configured number of probe successes.                        *)
THEOREM ReopensOnFailureHolds == Spec => ReopensOnFailure
<1>1. TypeOK /\ [Next]_vars =>
        [/\ state = "Open" => state' # "Closed"
         /\ state = "HalfOpen" /\ state' = "Open" => openedAgo' = {0}
         /\ state = "HalfOpen" /\ state' = "Closed" => probes' >= ProbeSuccesses]_vars
  <2> SUFFICES ASSUME TypeOK, Next
               PROVE  /\ state = "Open" => state' # "Closed"
                      /\ state = "HalfOpen" /\ state' = "Open" => openedAgo' = {0}
                      /\ state = "HalfOpen" /\ state' = "Closed"
                            => probes' >= ProbeSuccesses
    OBVIOUS
  <2>1. CASE Tick
    BY <2>1 DEF Tick
  <2>2. ASSUME NEW t \in Tasks, AllowLoad(t) \/ Vanish(t) PROVE UNCHANGED state
    BY <2>2 DEF AllowLoad, Vanish
  <2>3. ASSUME NEW t \in Tasks, AllowLocked(t)
        PROVE  state' = "HalfOpen" \/ UNCHANGED state
    BY <2>3 DEF AllowLocked
  <2>4. ASSUME NEW t \in Tasks, RecordSuccess(t)
        PROVE  \/ UNCHANGED state
               \/ state = "HalfOpen" /\ state' = "Closed" /\ probes' >= ProbeSuccesses
    BY <2>4 DEF RecordSuccess, ProbeSucceeded, CountSuccess
  <2>5. ASSUME NEW t \in Tasks, RecordFailure(t)
        PROVE  UNCHANGED state \/ (state' = "Open" /\ openedAgo' = {0})
    BY <2>5 DEF RecordFailure, ProbeFailed, CountFailure
  <2> QED
    BY <2>1, <2>2, <2>3, <2>4, <2>5 DEF Next
<1> QED BY <1>1, TypeCorrect, PTL DEF Spec, ReopensOnFailure

-----------------------------------------------------------------------------
(* The window.  Unless it is over, its counts are those of the outcomes that are  *)
(* as old as the window or younger.                                               *)

Outcomes == [age : Nat, nth : Nat, ok : BOOLEAN]

Among(outcomes, a, ok) == {o \in outcomes : o.age <= a /\ o.ok = ok}

WindowCounts ==
    /\ recent \in SUBSET Outcomes /\ IsFiniteSet(recent)
    /\ \A o \in recent : o.age = 0 => o.nth < recorded
    /\ Stale => \A o \in recent : o.age # 0
    /\ ~Stale => /\ successes = Cardinality(Among(recent, startedAgo, TRUE))
                 /\ failures = Cardinality(Among(recent, startedAgo, FALSE))

(* Outcomes grow older together, and none of them is lost before the window is.   *)
LEMMA AgingKeepsCount ==
    ASSUME NEW R \in SUBSET Outcomes, IsFiniteSet(R), NEW a \in Nat, NEW w \in Nat, a + 1 < w,
           NEW k \in BOOLEAN
    PROVE  Cardinality(Among({Aged(o) : o \in {p \in R : p.age + 1 < w}}, a + 1, k))
             = Cardinality(Among(R, a, k))
<1> DEFINE S == Among(R, a, k)
           T == Among({Aged(o) : o \in {p \in R : p.age + 1 < w}}, a + 1, k)
           f == [o \in S |-> Aged(o)]
<1>1. \A o \in R : o \in Outcomes /\ o.age \in Nat
  BY DEF Outcomes
<1>2. IsFiniteSet(S)
  <2>1. S \in SUBSET R
    BY DEF Among
  <2> QED BY <2>1, FS_Subset
<1>3. \A o \in S : Aged(o) \in T
  <2> SUFFICES ASSUME NEW o \in S PROVE Aged(o) \in T
    OBVIOUS
  <2>1. o \in R /\ o.age <= a /\ o.ok = k /\ o.age \in Nat
    BY <1>1 DEF Among
  <2>2. Aged(o).age = o.age + 1 /\ Aged(o).ok = k
    BY <2>1 DEF Aged, Outcome
  <2>3. o.age + 1 < w /\ o.age + 1 <= a + 1
    BY <2>1
  <2>4. Aged(o) \in {Aged(q) : q \in {p \in R : p.age + 1 < w}}
    BY <2>1, <2>3
  <2> QED BY <2>2, <2>3, <2>4 DEF Among
<1>4. \A t \in T : \E o \in S : Aged(o) = t
  <2> SUFFICES ASSUME NEW t \in T PROVE \E o \in S : Aged(o) = t
    OBVIOUS
  <2>1. PICK o \in R : t = Aged(o) /\ t.age <= a + 1 /\ t.ok = k
    BY DEF Among
  <2>2. o.age + 1 <= a + 1 /\ o.ok = k /\ o.age \in Nat
    BY <1>1, <2>1 DEF Aged, Outcome
  <2>3. o \in S
    BY <2>2 DEF Among
  <2> QED BY <2>1, <2>3
<1>5. \A o, q \in S : Aged(o) = Aged(q) => o = q
  <2> SUFFICES ASSUME NEW o \in S, NEW q \in S, Aged(o) = Aged(q) PROVE o = q
    OBVIOUS
  <2>1. o \in Outcomes /\ q \in Outcomes
    BY <1>1 DEF Among
  <2>2. Aged(o).age = o.age + 1 /\ Aged(o).nth = o.nth /\ Aged(o).ok = o.ok
    BY DEF Aged, Outcome
  <2>3. Aged(q).age = q.age + 1 /\ Aged(q).nth = q.nth /\ Aged(q).ok = q.ok
    BY DEF Aged, Outcome
  <2>4. o.age = q.age /\ o.nth = q.nth /\ o.ok = q.ok
    BY <2>1, <2>2, <2>3 DEF Outcomes
  <2> QED BY <2>1, <2>4 DEF Outcomes
<1>6. f \in Bijection(S, T)
  <2>1. f \in [S -> T]
    BY <1>3
  <2>2. f \in Injection(S, T)
    BY <1>5, <2>1 DEF Injection, IsInjective
  <2>3. f \in Surjection(S, T)
    BY <1>4, <2>1 DEF Surjection
  <2> QED BY <2>2, <2>3 DEF Bijection
<1> QED BY <1>2, <1>6, FS_Bijection, Zenon DEF ExistsBijection

LEMMA AgingKeepsFinite ==
    ASSUME NEW R \in SUBSET Outcomes, IsFiniteSet(R), NEW w \in Nat
    PROVE  /\ IsFiniteSet({Aged(o) : o \in {p \in R : p.age + 1 < w}})
           /\ {Aged(o) : o \in {p \in R : p.age + 1 < w}} \in SUBSET Outcomes
           /\ \A q \in {Aged(o) : o \in {p \in R : p.age + 1 < w}} : q.age # 0
<1> DEFINE S == {p \in R : p.age + 1 < w}
           T == {Aged(o) : o \in S}
           f == [o \in S |-> Aged(o)]
<1>1. IsFiniteSet(S)
  <2>1. S \in SUBSET R
    OBVIOUS
  <2> QED BY <2>1, FS_Subset
<1>2. f \in Surjection(S, T)
  BY DEF Surjection
<1>3. IsFiniteSet(T)
  BY <1>1, <1>2, FS_Surjection, Zenon
<1>4. \A o \in S : Aged(o) \in Outcomes /\ Aged(o).age # 0
  BY DEF Outcomes, Aged, Outcome
<1> QED BY <1>3, <1>4, Zenon

(* What the counts are in the outcome's own window: one more of its kind.         *)
LEMMA OutcomeCounts ==
    ASSUME TypeOK, WindowCounts, Window # 0, NEW k \in BOOLEAN, NEW R,
           R = recent \cup {Outcome(0, recorded, k)},
           startedAgo' = IF Stale THEN 0 ELSE startedAgo
    PROVE  /\ R \in SUBSET Outcomes /\ IsFiniteSet(R)
           /\ \A o \in R : o.age = 0 => o.nth < recorded + 1
           /\ startedAgo' < Window
           /\ Cardinality(Among(R, startedAgo', k))
                = Rolled(IF k THEN successes ELSE failures) + 1
           /\ Cardinality(Among(R, startedAgo', ~k))
                = Rolled(IF k THEN failures ELSE successes)
<1> DEFINE new == Outcome(0, recorded, k)
<1>1. recorded \in Nat /\ startedAgo \in Nat /\ successes \in Nat /\ failures \in Nat
  BY ConfigTyped DEF TypeOK
<1>2. new \in Outcomes /\ new.age = 0 /\ new.nth = recorded /\ new.ok = k
  BY <1>1 DEF Outcomes, Outcome
<1>3. R \in SUBSET Outcomes /\ IsFiniteSet(R) /\ IsFiniteSet(recent)
  BY <1>2, FS_AddElement DEF WindowCounts
<1>4. \A o \in recent : o \in Outcomes /\ o.age \in Nat /\ o.nth \in Nat
  BY DEF WindowCounts, Outcomes
<1>5. \A o \in R : o.age = 0 => o.nth < recorded + 1
  BY <1>1, <1>2, <1>4 DEF WindowCounts
<1>6. new \notin recent
  BY <1>1, <1>2 DEF WindowCounts
<1>7. startedAgo' < Window
  BY <1>1, ConfigTyped DEF Stale
<1>8. CASE Stale
  <2>1. startedAgo' = 0 /\ \A o \in recent : ~(o.age <= startedAgo')
    BY <1>4, <1>8 DEF WindowCounts
  <2>2. Among(R, startedAgo', k) = {new} /\ Among(R, startedAgo', ~k) = {}
    BY <1>2, <2>1 DEF Among
  <2>3. Cardinality({new}) = 1 /\ Cardinality({}) = 0
    BY FS_EmptySet, FS_Singleton, Zenon
  <2>4. \A n : Rolled(n) = 0
    BY <1>8, Zenon DEF Rolled
  <2>5. Cardinality({new}) = Rolled(IF k THEN successes ELSE failures) + 1
    BY <2>3, <2>4
  <2> QED BY <1>3, <1>5, <1>7, <2>2, <2>3, <2>4, <2>5, Zenon
<1>9. CASE ~Stale
  <2>1. startedAgo' = startedAgo
    BY <1>9
  <2>2. /\ Among(R, startedAgo, k) = Among(recent, startedAgo, k) \cup {new}
        /\ Among(R, startedAgo, ~k) = Among(recent, startedAgo, ~k)
    BY <1>1, <1>2 DEF Among
  <2>3. new \notin Among(recent, startedAgo, k) /\ IsFiniteSet(Among(recent, startedAgo, k))
    <3>1. Among(recent, startedAgo, k) \in SUBSET recent
      BY DEF Among
    <3> QED BY <1>3, <1>6, <3>1, FS_Subset
  <2>4. Cardinality(Among(R, startedAgo, k)) = Cardinality(Among(recent, startedAgo, k)) + 1
    BY <2>2, <2>3, FS_AddElement, ZenonT(30)
  <2>5. /\ Cardinality(Among(recent, startedAgo, k)) = IF k THEN successes ELSE failures
        /\ Cardinality(Among(recent, startedAgo, ~k)) = IF k THEN failures ELSE successes
    <3>1. CASE k = TRUE
      BY <1>9, <3>1, Zenon DEF WindowCounts
    <3>2. CASE k = FALSE
      BY <1>9, <3>2, Zenon DEF WindowCounts
    <3>3. k = TRUE \/ k = FALSE
      OBVIOUS
    <3> QED BY <3>1, <3>2, <3>3, Zenon
  <2> QED BY <1>3, <1>5, <1>7, <1>9, <2>1, <2>2, <2>4, <2>5 DEF Rolled
<1> QED BY <1>8, <1>9

LEMMA CountsStep ==
    ASSUME TypeOK, WindowCounts, Window # 0, [HNext]_hvars
    PROVE  WindowCounts'
<1>1. CASE HTick
  <2>1. /\ startedAgo' = Older(startedAgo, Window) /\ UNCHANGED <<successes, failures>>
        /\ recent' = {Aged(o) : o \in {p \in recent : p.age + 1 < Window}}
    BY <1>1, Zenon DEF HTick, Tick
  <2>2. startedAgo \in 0..Window /\ Window \in Nat
    BY ConfigTyped DEF TypeOK
  <2>3. recent \in SUBSET Outcomes /\ IsFiniteSet(recent)
    BY DEF WindowCounts
  <2>4. /\ recent' \in SUBSET Outcomes /\ IsFiniteSet(recent')
        /\ \A o \in recent' : o.age # 0
    BY <2>1, <2>2, <2>3, AgingKeepsFinite, Zenon
  <2>5. ASSUME ~Stale'
        PROVE  ~Stale /\ startedAgo \in Nat /\ startedAgo' = startedAgo + 1 /\ startedAgo + 1 < Window
    BY <2>1, <2>2, <2>5 DEF Stale, Older
  <2>6. ASSUME ~Stale', NEW k \in BOOLEAN
        PROVE  Cardinality(Among(recent', startedAgo', k)) = Cardinality(Among(recent, startedAgo, k))
    <3>1. startedAgo \in Nat /\ startedAgo' = startedAgo + 1 /\ startedAgo + 1 < Window
      BY <2>5, <2>6, Zenon
    <3>2. Cardinality(Among({Aged(o) : o \in {p \in recent : p.age + 1 < Window}}, startedAgo + 1, k))
            = Cardinality(Among(recent, startedAgo, k))
      BY <2>2, <2>3, <3>1, AgingKeepsCount, Zenon
    <3> QED BY <2>1, <3>1, <3>2, Zenon
  <2> QED BY <2>1, <2>4, <2>5, <2>6, Zenon DEF WindowCounts
<1>2. ASSUME UNCHANGED <<window, recent, recorded>>
      PROVE  WindowCounts'
  BY <1>2, Zenon DEF WindowCounts, Stale, window
<1>3. ASSUME UNCHANGED <<startedAgo, successes, failures, recent>>,
             recorded' = recorded \/ recorded' = recorded + 1
      PROVE  WindowCounts'
  <2>1. recorded \in Nat /\ \A o \in recent : o.nth \in Nat
    BY ConfigTyped DEF TypeOK, WindowCounts, Outcomes
  <2>2. \A o \in recent' : o.age = 0 => o.nth < recorded'
    BY <1>3, <2>1 DEF WindowCounts
  <2> QED BY <1>3, <2>2, Zenon DEF WindowCounts, Stale
<1>4. ASSUME NEW t \in Tasks, HAllow(t) PROVE WindowCounts'
  <2>1. UNCHANGED <<startedAgo, successes, failures, recent, recorded>>
    BY <1>4, Zenon DEF HAllow, AllowLoad, AllowLocked, Vanish, window
  <2> QED BY <1>3, <2>1, Zenon
<1>5. ASSUME NEW k \in BOOLEAN, state # "HalfOpen", recorded' = recorded + 1, RollStart,
             ~(state' = "Closed" /\ state # "Closed"), Remember(k),
             successes' = Rolled(successes) + (IF k THEN 1 ELSE 0),
             failures' = Rolled(failures) + (IF k THEN 0 ELSE 1)
      PROVE  WindowCounts'
  <2>1. recent' = recent \cup {Outcome(0, recorded, k)}
    BY <1>5 DEF Remember
  <2>2. startedAgo' = IF Stale THEN 0 ELSE startedAgo
    BY <1>5 DEF RollStart
  <2>3. /\ recent' \in SUBSET Outcomes /\ IsFiniteSet(recent')
        /\ \A o \in recent' : o.age = 0 => o.nth < recorded + 1
        /\ startedAgo' < Window
        /\ Cardinality(Among(recent', startedAgo', k))
             = Rolled(IF k THEN successes ELSE failures) + 1
        /\ Cardinality(Among(recent', startedAgo', ~k))
             = Rolled(IF k THEN failures ELSE successes)
    BY <2>1, <2>2, OutcomeCounts, ZenonT(30)
  <2>4. ~Stale'
    <3>1. startedAgo' \in Nat /\ Window \in Nat
      BY <2>2, ConfigTyped DEF TypeOK
    <3> QED BY <2>3, <3>1 DEF Stale
  <2>5. Rolled(successes) \in Nat /\ Rolled(failures) \in Nat
    BY DEF Rolled, TypeOK
  <2>6. CASE k = TRUE
    <3>1. successes' = Rolled(successes) + 1 /\ failures' = Rolled(failures)
      BY <1>5, <2>5, <2>6
    <3>2. /\ Cardinality(Among(recent', startedAgo', TRUE)) = Rolled(successes) + 1
          /\ Cardinality(Among(recent', startedAgo', FALSE)) = Rolled(failures)
      BY <2>3, <2>6, Zenon
    <3> QED BY <1>5, <2>3, <2>4, <3>1, <3>2, Zenon DEF WindowCounts
  <2>7. CASE k = FALSE
    <3>1. successes' = Rolled(successes) /\ failures' = Rolled(failures) + 1
      BY <1>5, <2>5, <2>7
    <3>2. /\ Cardinality(Among(recent', startedAgo', FALSE)) = Rolled(failures) + 1
          /\ Cardinality(Among(recent', startedAgo', TRUE)) = Rolled(successes)
      BY <2>3, <2>7, Zenon
    <3> QED BY <1>5, <2>3, <2>4, <3>1, <3>2, Zenon DEF WindowCounts
  <2>8. k = TRUE \/ k = FALSE
    OBVIOUS
  <2> QED BY <2>6, <2>7, <2>8, Zenon
<1>6. ASSUME NEW t \in Tasks, HSuccess(t) PROVE WindowCounts'
  <2>1. recorded' = recorded + 1 /\ Remember(TRUE) /\ (ProbeSucceeded \/ CountSuccess)
    BY <1>6, Zenon DEF HSuccess, RecordSuccess, Record
  <2>2. CASE CountSuccess
    <3>1. /\ state # "HalfOpen" /\ RollStart /\ UNCHANGED state
          /\ successes' = Rolled(successes) + 1 /\ failures' = Rolled(failures)
      BY <2>2, Zenon DEF CountSuccess
    <3>2. Rolled(failures) = Rolled(failures) + 0
      BY DEF Rolled, TypeOK
    <3>3. /\ successes' = Rolled(successes) + (IF TRUE THEN 1 ELSE 0)
          /\ failures' = Rolled(failures) + (IF TRUE THEN 0 ELSE 1)
      BY <3>1, <3>2
    <3> QED BY <1>5, <2>1, <3>1, <3>3, Zenon
  <2>3. CASE ProbeSucceeded
    <3>1. state = "HalfOpen"
      BY <2>3, Zenon DEF ProbeSucceeded
    <3>2. CASE state' = "Closed"
      <4>1. recent' = {}
        BY <2>1, <3>1, <3>2 DEF Remember
      <4>2. startedAgo' = 0 /\ successes' = 0 /\ failures' = 0
        BY <2>3, <3>1, <3>2 DEF ProbeSucceeded
      <4>3. \A a, b : Among({}, a, b) = {}
        BY DEF Among
      <4>4. ~Stale'
        BY <4>2, ConfigTyped DEF Stale
      <4> QED BY <4>1, <4>2, <4>3, <4>4, FS_EmptySet, Zenon DEF WindowCounts
    <3>3. CASE state' # "Closed"
      <4>1. UNCHANGED recent
        BY <2>1, <3>1, <3>3 DEF Remember
      <4>2. UNCHANGED <<startedAgo, successes, failures>>
        BY <2>3, <3>3, Zenon DEF ProbeSucceeded
      <4> QED BY <1>3, <2>1, <4>1, <4>2, Zenon
    <3> QED BY <3>2, <3>3
  <2> QED BY <2>1, <2>2, <2>3
<1>7. ASSUME NEW t \in Tasks, HFailure(t) PROVE WindowCounts'
  <2>1. recorded' = recorded + 1 /\ Remember(FALSE) /\ (ProbeFailed \/ CountFailure)
    BY <1>7, Zenon DEF HFailure, RecordFailure, Record
  <2>2. CASE CountFailure
    <3>1. /\ state # "HalfOpen" /\ RollStart /\ (state' = state \/ state' = "Open")
          /\ successes' = Rolled(successes) /\ failures' = Rolled(failures) + 1
      BY <2>2, Zenon DEF CountFailure
    <3>2. Rolled(successes) = Rolled(successes) + 0
      BY DEF Rolled, TypeOK
    <3>3. /\ successes' = Rolled(successes) + (IF FALSE THEN 1 ELSE 0)
          /\ failures' = Rolled(failures) + (IF FALSE THEN 0 ELSE 1)
      BY <3>1, <3>2
    <3>4. ~(state' = "Closed" /\ state # "Closed")
      BY <3>1
    <3> QED BY <1>5, <2>1, <3>1, <3>3, <3>4, Zenon
  <2>3. CASE ProbeFailed
    <3>1. state = "HalfOpen" /\ state' = "Open" /\ UNCHANGED <<startedAgo, successes, failures>>
      BY <2>3, Zenon DEF ProbeFailed
    <3>2. UNCHANGED recent
      BY <2>1, <3>1 DEF Remember
    <3> QED BY <1>3, <2>1, <3>1, <3>2, Zenon
  <2> QED BY <2>1, <2>2, <2>3
<1>8. CASE UNCHANGED hvars
  BY <1>2, <1>8, Zenon DEF hvars, vars
<1> QED BY <1>1, <1>4, <1>6, <1>7, <1>8, Zenon DEF HNext

(* The outcomes of the window, the one that trips the breaker included, are of    *)
(* the last Window ticks, and they have the minimum size and the failure ratio:   *)
(* what record_failure compares with failure_ratio is never older than that. A    *)
(* window of no length is left out: each outcome would be a window of its own.    *)
THEOREM TripJustifiedHolds ==
    ASSUME Window # 0
    PROVE  HSpec => TripJustified
<1>1. HSpec => []TypeOK
  <2>1. HInit => Init
    BY DEF HInit
  <2>2. [HNext]_hvars => [Next]_vars
    BY Zenon DEF HNext, HTick, HAllow, HSuccess, HFailure, Next, hvars
  <2> QED BY <2>1, <2>2, TypeCorrect, PTL DEF HSpec, Spec
<1>2. HInit => WindowCounts
  <2>1. \A a, b : Among({}, a, b) = {}
    BY DEF Among
  <2>2. HInit => recent = {} /\ successes = 0 /\ failures = 0 /\ startedAgo = 0
    BY Zenon DEF HInit, Init
  <2> QED BY <2>1, <2>2, FS_EmptySet, Zenon DEF WindowCounts
<1>3. TypeOK /\ WindowCounts /\ [HNext]_hvars =>
        [state = "Closed" /\ state' = "Open" => \E a \in 0..Window : TripsOn(recent', a)]_hvars
  <2> SUFFICES ASSUME TypeOK, WindowCounts, HNext, state = "Closed", state' = "Open"
               PROVE  \E a \in 0..Window : TripsOn(recent', a)
    OBVIOUS
  <2>1. ~HTick
    BY DEF HTick, Tick
  <2>2. PICK t \in Tasks : HAllow(t) \/ HSuccess(t) \/ HFailure(t)
    BY <2>1, Zenon DEF HNext
  <2>3. HFailure(t)
    <3>1. ~HAllow(t)
      BY DEF HAllow, AllowLoad, AllowLocked, Vanish
    <3>2. ~HSuccess(t)
      BY DEF HSuccess, RecordSuccess, ProbeSucceeded, CountSuccess
    <3> QED BY <2>2, <3>1, <3>2
  <2>4. CountFailure /\ Remember(FALSE)
    BY <2>3, Zenon DEF HFailure, RecordFailure, ProbeFailed
  <2>5. TripsAt(Rolled(successes), Rolled(failures) + 1) /\ RollStart
    BY <2>4 DEF CountFailure
  <2>6. recent' = recent \cup {Outcome(0, recorded, FALSE)}
    BY <2>4 DEF Remember
  <2>7. startedAgo' = IF Stale THEN 0 ELSE startedAgo
    BY <2>5 DEF RollStart
  <2>8. /\ Cardinality(Among(recent', startedAgo', FALSE)) = Rolled(failures) + 1
        /\ Cardinality(Among(recent', startedAgo', TRUE)) = Rolled(successes)
    <3>1. /\ Cardinality(Among(recent', startedAgo', FALSE))
               = Rolled(IF FALSE THEN successes ELSE failures) + 1
          /\ Cardinality(Among(recent', startedAgo', ~FALSE))
               = Rolled(IF FALSE THEN failures ELSE successes)
      BY <2>6, <2>7, OutcomeCounts, Zenon
    <3> QED BY <3>1, Zenon
  <2>9. TripsOn(recent', startedAgo')
    BY <2>5, <2>8, Zenon DEF TripsOn, Seen, Among
  <2>10. startedAgo' \in 0..Window
    BY <2>7, ConfigTyped DEF TypeOK
  <2> QED BY <2>9, <2>10
<1>4. TypeOK /\ WindowCounts /\ [HNext]_hvars => WindowCounts'
  BY CountsStep, Zenon
<1> QED BY <1>1, <1>2, <1>3, <1>4, PTL DEF HSpec, TripJustified

=============================================================================
