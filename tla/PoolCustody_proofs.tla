------------------------- MODULE PoolCustody_proofs -------------------------
(***************************************************************************)
(* Proofs about the jobs of the worker pool: no accepted job is lost or    *)
(* taken twice, the queue is bounded and no worker sleeps beside it, what  *)
(* a caller was told stands, and how each step moves the jobs between the  *)
(* accounts that the counters are compared with.                           *)
(***************************************************************************)
EXTENDS WorkerPool_proofs

LEMMA QueueDomain ==
    ASSUME NEW q \in Seq(Jobs)
    PROVE  DOMAIN q = 1..Len(q) /\ Len(q) \in Nat
OBVIOUS

LEMMA AppendElems ==
    ASSUME NEW q \in Seq(Jobs), NEW j \in Jobs
    PROVE  /\ Len(Append(q, j)) = Len(q) + 1
           /\ \A i \in 1..Len(q) : Append(q, j)[i] = q[i]
           /\ Append(q, j)[Len(q) + 1] = j
OBVIOUS

LEMMA TailElems ==
    ASSUME NEW q \in Seq(Jobs), q # <<>>
    PROVE  /\ Len(q) >= 1 /\ Head(q) = q[1]
           /\ Len(Tail(q)) = Len(q) - 1
           /\ \A i \in 1..(Len(q) - 1) : Tail(q)[i] = q[i + 1]
OBVIOUS

(* Custody survives a step that leaves the channel and the workers' jobs alone    *)
(* and moves callers only where the job's place allows it.                        *)
LEMMA CallersMove ==
    ASSUME IInv, JobCustody, UNCHANGED <<queue, wjob>>,
           \A j \in Jobs :
              \/ outcome'[j] = outcome[j]
              \/ outcome[j] = "waiting" /\ outcome'[j] \in {"Timeout", "Cancelled"}
              \/ outcome[j] \in {"new", "submitting"} /\ outcome'[j] # "waiting"
    PROVE  JobCustody'
<1>1. \A j \in Jobs : InPool(j)' <=> InPool(j)
  BY DEF InPool
<1>2. \A j \in Jobs : outcome'[j] = "waiting" => outcome[j] = "waiting"
  OBVIOUS
<1>3. \A j \in Jobs : outcome[j] \in {"waiting", "Timeout", "Cancelled"}
                        => outcome'[j] \in {"waiting", "Timeout", "Cancelled"}
  OBVIOUS
<1> QED BY <1>1, <1>2, <1>3 DEF JobCustody

LEMMA HandOverCustody ==
    ASSUME IInv, JobCustody, NEW j \in Jobs, outcome[j] = "submitting", HandOver(j)
    PROVE  JobCustody' /\ \A k \in Jobs : InPool(k)' <=> InPool(k) \/ k = j
<1>1. PICK w \in Workers : /\ wpc[w] = "waiting"
                           /\ wjob' = [wjob EXCEPT ![w] = j]
  BY Zenon DEF HandOver, Waiting
<1>2. wjob[w] = NoJob /\ j # NoJob /\ ~InPool(j)
  BY <1>1, JobsFinite DEF IInv, WorkerConsistent, Consistent, JobCustody
<1>3. /\ \A v \in Workers : wjob'[v] = IF v = w THEN j ELSE wjob[v]
      /\ \A k \in Jobs : outcome'[k] = IF k = j THEN "waiting" ELSE outcome[k]
      /\ queue' = queue
  BY <1>1 DEF IInv, TypeOK, HandOver
<1>4. \A k \in Jobs : InPool(k)' <=> InPool(k) \/ k = j
  BY <1>1, <1>2, <1>3, JobsFinite DEF InPool
<1>5. /\ \A v \in Workers, i \in DOMAIN queue : wjob'[v] # queue[i]
      /\ \A u, v \in Workers : wjob'[u] = wjob'[v] /\ wjob'[u] # NoJob => u = v
  BY <1>2, <1>3 DEF JobCustody, InPool
<1> QED BY <1>3, <1>4, <1>5 DEF JobCustody

LEMMA EnqueueCustody ==
    ASSUME IInv, JobCustody, NEW j \in Jobs, outcome[j] = "submitting", Enqueue(j)
    PROVE  JobCustody' /\ \A k \in Jobs : InPool(k)' <=> InPool(k) \/ k = j
<1>1. /\ DOMAIN queue = 1..Len(queue) /\ Len(queue) \in Nat
      /\ DOMAIN queue' = 1..(Len(queue) + 1)
      /\ \A i \in 1..Len(queue) : queue'[i] = queue[i]
      /\ queue'[Len(queue) + 1] = j
  BY QueueDomain, AppendElems DEF IInv, TypeOK, Enqueue
<1>2. ~InPool(j)
  BY DEF JobCustody
<1>3. /\ \A k \in Jobs : outcome'[k] = IF k = j THEN "waiting" ELSE outcome[k]
      /\ wjob' = wjob
  BY DEF IInv, TypeOK, Enqueue
<1>4. \A k \in Jobs : InPool(k)' <=> InPool(k) \/ k = j
  BY <1>1, <1>3 DEF InPool
<1>5. \A i, k \in DOMAIN queue' : queue'[i] = queue'[k] => i = k
  BY <1>1, <1>2 DEF JobCustody, InPool
<1>6. \A v \in Workers, i \in DOMAIN queue' : wjob'[v] # queue'[i]
  BY <1>1, <1>2, <1>3 DEF JobCustody, InPool
<1> QED BY <1>3, <1>4, <1>5, <1>6 DEF JobCustody

LEMMA RecvJobCustody ==
    ASSUME IInv, JobCustody, NEW w \in Workers, RecvJob(w)
    PROVE  JobCustody' /\ \A k \in Jobs : InPool(k)' <=> InPool(k)
<1>1. /\ DOMAIN queue = 1..Len(queue) /\ Len(queue) \in Nat /\ Len(queue) >= 1
      /\ DOMAIN queue' = 1..(Len(queue) - 1)
      /\ \A i \in 1..(Len(queue) - 1) : queue'[i] = queue[i + 1]
      /\ queue[1] \in Jobs /\ queue[1] # NoJob
  BY QueueDomain, QueueTypes, TailElems, JobsFinite DEF IInv, TypeOK, RecvJob
<1>2. /\ wjob[w] = NoJob
      /\ \A v \in Workers : wjob'[v] = IF v = w THEN queue[1] ELSE wjob[v]
      /\ outcome' = outcome
  BY TailElems, SMTT(60) DEF IInv, TypeOK, WorkerConsistent, Consistent, RecvJob
<1>3. \A k \in Jobs : InPool(k)' <=> InPool(k)
  <2> SUFFICES ASSUME NEW k \in Jobs PROVE InPool(k)' <=> InPool(k)
    OBVIOUS
  <2>1. (\E i \in DOMAIN queue : queue[i] = k)
           <=> queue[1] = k \/ \E i \in DOMAIN queue' : queue'[i] = k
    <3>1. ASSUME NEW i \in DOMAIN queue, queue[i] = k, i # 1
          PROVE  \E m \in DOMAIN queue' : queue'[m] = k
      <4>1. i - 1 \in DOMAIN queue' /\ queue'[i - 1] = queue[i]
        BY <1>1, <3>1
      <4> QED BY <3>1, <4>1
    <3>2. ASSUME NEW i \in DOMAIN queue', queue'[i] = k
          PROVE  \E m \in DOMAIN queue : queue[m] = k
      <4>1. i + 1 \in DOMAIN queue /\ queue'[i] = queue[i + 1]
        BY <1>1, <3>2
      <4> QED BY <3>2, <4>1
    <3> QED BY <1>1, <3>1, <3>2
  <2>2. (\E v \in Workers : wjob'[v] = k) <=> queue[1] = k \/ \E v \in Workers : wjob[v] = k
    BY <1>2, JobsFinite
  <2> QED BY <2>1, <2>2 DEF InPool
<1>4. \A i, k \in DOMAIN queue' : queue'[i] = queue'[k] => i = k
  BY <1>1, SMTT(60) DEF JobCustody
<1>5. \A v \in Workers, i \in DOMAIN queue' : wjob'[v] # queue'[i]
  BY <1>1, <1>2 DEF JobCustody
<1>6. \A u, v \in Workers : wjob'[u] = wjob'[v] /\ wjob'[u] # NoJob => u = v
  BY <1>1, <1>2 DEF JobCustody
<1> QED BY <1>2, <1>3, <1>4, <1>5, <1>6 DEF JobCustody

(* A worker lets go of its job, and the caller, if it is still there, is told.    *)
LEMMA ReleaseCustody ==
    ASSUME IInv, JobCustody, NEW w \in Workers, wjob[w] \in Jobs,
           wjob' = [wjob EXCEPT ![w] = NoJob], UNCHANGED queue,
           NEW r, r # "waiting",
           outcome' = [outcome EXCEPT ![wjob[w]] = IF @ = "waiting" THEN r ELSE @]
    PROVE  JobCustody' /\ \A k \in Jobs : InPool(k)' <=> InPool(k) /\ k # wjob[w]
<1>1. /\ \A v \in Workers : wjob'[v] = IF v = w THEN NoJob ELSE wjob[v]
      /\ \A k \in Jobs : outcome'[k] =
            IF k = wjob[w] /\ outcome[k] = "waiting" THEN r ELSE outcome[k]
  BY DEF IInv, TypeOK
<1>2. \A k \in Jobs : InPool(k)' <=> InPool(k) /\ k # wjob[w]
  BY <1>1, JobsFinite DEF InPool, JobCustody
<1>3. /\ \A v \in Workers, i \in DOMAIN queue : wjob'[v] # queue[i]
      /\ \A u, v \in Workers : wjob'[u] = wjob'[v] /\ wjob'[u] # NoJob => u = v
  <2>1. \A i \in DOMAIN queue : queue[i] # NoJob
    BY QueueDomain, JobsFinite DEF IInv, TypeOK
  <2> QED BY <1>1, <2>1 DEF JobCustody
<1> QED BY <1>1, <1>2, <1>3, SMTT(60) DEF JobCustody

(* Every job is in one place, and a caller that waits has its job in the pool.    *)
THEOREM CustodyAlways == Spec => []JobCustody
<1>1. Init => JobCustody
  <2> SUFFICES ASSUME Init PROVE JobCustody
    OBVIOUS
  <2>1. DOMAIN queue = {}
    BY DEF Init
  <2>2. \A j \in Jobs : ~InPool(j) /\ outcome[j] = "new"
    BY <2>1, JobsFinite DEF Init, InPool
  <2> QED BY <2>1, <2>2 DEF Init, JobCustody
<1>2. IInv /\ JobCustody /\ [Next]_vars => JobCustody'
  <2> SUFFICES ASSUME IInv, JobCustody, [Next]_vars PROVE JobCustody'
    OBVIOUS
  <2>1. ASSUME NEW w \in Workers, RecvJob(w) PROVE JobCustody'
    BY <2>1, RecvJobCustody
  <2>2. ASSUME NEW w \in Workers, Respond(w) PROVE JobCustody'
    <3>1. wjob[w] \in Jobs /\ wres[w] \in Results /\ wres[w] # "waiting"
      BY <2>2, JobInHand, Zenon
         DEF Respond, Serving, IInv, TypeOK, WorkerConsistent, Consistent,
                             Results, Errors
    <3> QED BY <2>2, <3>1, ReleaseCustody, Zenon DEF Respond
  <2>3. ASSUME NEW w \in Workers, Panic(w) PROVE JobCustody'
    <3>1. wjob[w] \in Jobs
      BY <2>3, JobInHand, Zenon DEF Panic, Serving
    <3>2. ASSUME NEW r, r = "ShuttingDown" PROVE r # "waiting"
      BY <3>2
    <3> QED BY <2>3, <3>1, <3>2, ReleaseCustody, Zenon DEF Panic
  <2>4. ASSUME NEW j \in Jobs, Caller(j), ~HandOver(j), ~Enqueue(j) PROVE JobCustody'
    <3>1. UNCHANGED <<queue, wjob>>
      BY <2>4, Zenon DEF Caller, Submit, TrySend, RejectFull, RejectDisconnected, Timeout,
                         Cancel, workerVars
    <3>2. \/ outcome[j] = "waiting" /\ outcome'[j] \in {"Timeout", "Cancelled"}
          \/ outcome[j] \in {"new", "submitting"} /\ outcome'[j] # "waiting"
      <4>1. outcome'[j] # "waiting" \/ outcome'[j] \in {"Timeout", "Cancelled"}
        <5>1. PICK r : outcome' = [outcome EXCEPT ![j] = r] /\ r # "waiting"
          BY <2>4, Zenon DEF Caller, Submit, TrySend, RejectFull, RejectDisconnected,
                             Timeout, Cancel
        <5>2. outcome \in [Jobs -> {"new", "submitting", "waiting"} \cup Final]
          BY Zenon DEF IInv, TypeOK
        <5> QED BY <5>1, <5>2, Zenon
      <4>2. Told(outcome[j], outcome'[j])
        BY <2>4, CallerOutcome DEF IInv
      <4> QED BY <4>1, <4>2, Zenon DEF Told
    <3>3. \A k \in Jobs : k # j => outcome'[k] = outcome[k]
      BY <2>4, CallerOutcome DEF IInv
    <3> QED BY <3>1, <3>2, <3>3, CallersMove, Zenon
  <2>5. ASSUME NEW j \in Jobs, Caller(j), HandOver(j) \/ Enqueue(j) PROVE JobCustody'
    <3>1. outcome[j] = "submitting"
      <4>1. outcome' = [outcome EXCEPT ![j] = "waiting"]
        BY <2>5, Zenon DEF HandOver, Enqueue
      <4>2. outcome'[j] = "waiting"
        BY <4>1, Zenon DEF IInv, TypeOK
      <4> QED BY <2>5, <4>2, CallerOutcome, Zenon DEF IInv, Told
    <3> QED BY <2>5, <3>1, HandOverCustody, EnqueueCustody, Zenon
  <2>6. CASE UNCHANGED <<queue, wjob, outcome>>
    BY <2>6, CallersMove
  <2>7. ASSUME NEW w \in Workers, WorkerStep(w) \/ Crash(w), ~RecvJob(w), ~Respond(w)
        PROVE  UNCHANGED <<queue, wjob, outcome>>
    BY <2>7, Zenon DEF WorkerStep, Spawn, OpenSession, Login, Reopen, RecvBlock,
                       RecvClosed, Lookup, Operate, Complete, CountFailed, Crash, poolVars
  <2>8. CASE PoolStep \/ Token \/ UNCHANGED vars \/ \E w \in Workers : SpawnFails(w)
    BY <2>6, <2>8, QuietSteps
  <2> QED
    BY <2>1, <2>2, <2>3, <2>4, <2>5, <2>6, <2>7, <2>8
       DEF Next, WorkerFault, Caller
<1> QED BY <1>1, <1>2, ConsistentAlways, PTL DEF Spec, IInv

(* What submit has returned is never changed by a worker that answers later.      *)
THEOREM OutcomeStandsHolds == Spec => OutcomeStands
<1>1. IInv /\ [Next]_vars =>
        [\A j \in Jobs : outcome[j] \in Final => outcome'[j] = outcome[j]]_vars
  <2> SUFFICES ASSUME IInv, Next, NEW j \in Jobs, outcome[j] \in Final
               PROVE  outcome'[j] = outcome[j]
    OBVIOUS
  <2>1. outcome[j] \notin {"new", "submitting", "waiting"}
    BY DEF Final, Results, Errors
  <2>2. ASSUME NEW w \in Workers, WorkerStep(w) \/ Panic(w) \/ Crash(w)
        PROVE  outcome'[j] = outcome[j]
    BY <2>1, <2>2, WorkerOutcome, Zenon
  <2>3. ASSUME NEW k \in Jobs, Caller(k) PROVE outcome'[j] = outcome[j]
    BY <2>1, <2>3, CallerOutcome, Zenon DEF IInv, Told
  <2>4. CASE PoolStep \/ Token \/ \E w \in Workers : SpawnFails(w)
    BY <2>4, QuietSteps
  <2> QED BY <2>2, <2>3, <2>4, Zenon DEF Next, WorkerFault
<1> QED BY <1>1, ConsistentAlways, PTL DEF Spec, IInv, OutcomeStands

(* Only RecvBlock puts a worker to sleep, and only Enqueue and RecvJob change the *)
(* channel.                                                                       *)
LEMMA SleepAndQueue ==
    ASSUME IInv, [Next]_vars
    PROVE  \/ \E j \in Jobs : Enqueue(j)
           \/ \E w \in Workers : RecvJob(w) \/ RecvBlock(w)
           \/ queue' = queue /\ Waiting' \subseteq Waiting
<1>1. ASSUME NEW w \in Workers, WorkerStep(w) \/ Panic(w) \/ Crash(w), ~RecvJob(w), ~RecvBlock(w)
      PROVE  queue' = queue /\ Waiting' \subseteq Waiting
  <2>1. queue' = queue
    BY <1>1, Zenon DEF WorkerStep, Panic, Crash, Spawn, OpenSession, Login, Reopen,
                       RecvClosed, Lookup, Operate, Complete, CountFailed, Respond, poolVars
  <2>2. wpc'[w] # "waiting"
    <3>1. CASE wpc[w] # "idle"
      BY <1>1, <3>1, WorkerMoves, Zenon DEF IInv, Edge
    <3>2. CASE wpc[w] = "idle"
      <4>1. wpc' = [wpc EXCEPT ![w] = "exited"]
        BY <1>1, <3>2, Zenon
           DEF WorkerStep, Panic, Crash, Opening, Spawn, OpenSession, Login, Reopen,
               RecvClosed, Lookup, Operate, Complete, CountFailed, Respond, DropWorker, Goto
      <4>2. wpc \in [Workers -> PCs]
        BY Zenon DEF IInv, TypeOK
      <4> QED BY <4>1, <4>2, Zenon
    <3> QED BY <3>1, <3>2
  <2> QED BY <1>1, <2>1, <2>2, WorkerMoves, Zenon DEF IInv, Waiting
<1>2. ASSUME NEW j \in Jobs, Caller(j), ~Enqueue(j)
      PROVE  queue' = queue /\ Waiting' \subseteq Waiting
  <2>1. queue' = queue
    BY <1>2, Zenon DEF Caller, Submit, TrySend, HandOver, RejectFull, RejectDisconnected,
                       Timeout, Cancel
  <2>2. \A v \in Workers : wpc'[v] = wpc[v] \/ wpc'[v] = "lookup"
    BY <1>2, CallerMoves, Zenon DEF IInv
  <2> QED BY <2>1, <2>2, Zenon DEF Waiting
<1>3. CASE PoolStep \/ Token \/ UNCHANGED vars \/ \E w \in Workers : SpawnFails(w)
  BY <1>3, QuietSteps DEF Waiting
<1> QED BY <1>1, <1>2, <1>3, Zenon DEF Next, WorkerFault

(* The channel never exceeds its depth, and no worker sleeps in recv while a job  *)
(* is queued.                                                                     *)
THEOREM WorkConservingAlways == Spec => []WorkConserving
<1> DEFINE Bounded == Len(queue) <= QueueDepth /\ (Waiting # {} => queue = <<>>)
<1>1. Init => Bounded
  BY BoundsTyped DEF Init, Waiting
<1>2. IInv /\ Bounded /\ [Next]_vars => Bounded'
  <2> SUFFICES ASSUME IInv, Bounded, [Next]_vars PROVE Bounded'
    OBVIOUS
  <2>1. ASSUME NEW j \in Jobs, Enqueue(j) PROVE Bounded'
    <3>1. Len(queue') = Len(queue) + 1 /\ Len(queue) \in Nat
      <4>1. queue \in Seq(Jobs) /\ queue' = Append(queue, j)
        BY <2>1, Zenon DEF Enqueue, IInv, TypeOK
      <4> QED BY <4>1, AppendElems, QueueDomain
    <3> QED BY <2>1, <3>1, BoundsTyped DEF Enqueue, Waiting
  <2>2. ASSUME NEW w \in Workers, RecvJob(w) PROVE Bounded'
    <3>1. Len(queue') = Len(queue) - 1 /\ Len(queue) \in Nat
      <4>1. queue \in Seq(Jobs) /\ queue # <<>> /\ queue' = Tail(queue)
        BY <2>2, Zenon DEF RecvJob, IInv, TypeOK
      <4> QED BY <4>1, TailElems, QueueDomain
    <3>2. Waiting = {} /\ Waiting' = {}
      <4>1. queue # <<>> /\ wpc' = [wpc EXCEPT ![w] = "lookup"]
        BY <2>2, Zenon DEF RecvJob, Goto
      <4>2. wpc \in [Workers -> PCs]
        BY Zenon DEF IInv, TypeOK
      <4> QED BY <4>1, <4>2 DEF Waiting
    <3> QED BY <3>1, <3>2, BoundsTyped
  <2>3. ASSUME NEW w \in Workers, RecvBlock(w) PROVE Bounded'
    BY <2>3 DEF RecvBlock, poolVars
  <2>4. CASE queue' = queue /\ Waiting' \subseteq Waiting
    BY <2>4
  <2> QED BY <2>1, <2>2, <2>3, <2>4, SleepAndQueue
<1>3. IInv /\ Bounded => WorkConserving
  BY SMTT(60) DEF IInv, WorkerConsistent, Consistent, WorkConserving
<1> QED BY <1>1, <1>2, <1>3, ConsistentAlways, PTL DEF Spec, IInv

-----------------------------------------------------------------------------
(* Nobody submits unless the pool serves, and a worker only leaves an empty       *)
(* channel whose sender is gone.                                                  *)
Ended ==
    /\ phase \in {"starting", "failed"} => \A j \in Jobs : outcome[j] = "new"
    /\ phase = "closed" => \A j \in Jobs : outcome[j] # "submitting"
    /\ \A w \in Workers : wpc[w] = "exited" => phase \in {"failed", "closed"} /\ queue = <<>>

LEMMA EndedCaller ==
    ASSUME IInv, Ended, NEW j \in Jobs, Caller(j)
    PROVE  Ended'
<1>1. phase' = phase
  BY PhaseStays
<1>2. /\ Told(outcome[j], outcome'[j])
      /\ \A k \in Jobs : k # j => outcome'[k] = outcome[k]
  BY CallerOutcome DEF IInv
<1>3. phase \notin {"starting", "failed"}
  <2>1. phase \in {"starting", "failed"} => phase # "serving" /\ outcome[j] = "new"
    BY Zenon DEF Ended
  <2>2. outcome[j] = "new" => Submit(j)
    BY Zenon DEF Caller, TrySend, Timeout, Cancel
  <2> QED BY <2>1, <2>2, Zenon DEF Submit
<1>4. phase = "closed" => outcome'[j] # "submitting"
  <2>1. outcome'[j] = "submitting" => outcome[j] = "new"
    BY <1>2, Zenon DEF Told
  <2>2. outcome[j] = "new" => Submit(j)
    BY Zenon DEF Caller, TrySend, Timeout, Cancel
  <2> QED BY <2>1, <2>2, Zenon DEF Submit
<1>5. \A v \in Workers : wpc'[v] = "exited" => wpc[v] = "exited"
  BY CallerMoves, Zenon DEF IInv
<1>6. CASE queue' = queue
  BY <1>1, <1>2, <1>3, <1>4, <1>5, <1>6, Zenon DEF Ended
<1>7. CASE outcome[j] = "submitting"
  BY <1>1, <1>2, <1>3, <1>4, <1>5, <1>7, Zenon DEF Ended
<1> QED BY <1>6, <1>7, Zenon DEF Caller, Submit, TrySend, Timeout, Cancel

LEMMA EndedWorker ==
    ASSUME IInv, Ended, NEW w \in Workers, WorkerStep(w) \/ Panic(w) \/ Crash(w)
    PROVE  Ended'
<1>1. phase' = phase
  BY PhaseStays
<1>2. ASSUME NEW j \in Jobs
      PROVE  outcome'[j] = outcome[j] \/ (outcome[j] = "waiting" /\ outcome'[j] # "submitting")
  <2>1. \A r \in Results : r # "submitting"
    BY DEF Results, Errors
  <2> QED BY <2>1, WorkerOutcome, Zenon
<1>3. \A v \in Workers : wpc'[v] = "exited" =>
         phase \in {"failed", "closed"} /\ queue' = <<>>
  <2>1. CASE RecvClosed(w)
    <3>1. phase \in {"starting", "serving", "failed", "closed"}
      BY Zenon DEF IInv, TypeOK
    <3> QED BY <2>1, <3>1, Zenon DEF RecvClosed, SenderAlive, poolVars
  <2>2. ASSUME NEW v \in Workers, wpc'[v] = "exited", ~RecvClosed(w)
        PROVE  wpc[v] = "exited"
    <3>1. CASE v # w
      BY <2>2, <3>1, WorkerMoves, Zenon DEF IInv
    <3>2. CASE v = w
      <4>1. Edge(wpc[w], "exited")
        BY <2>2, <3>2, WorkerMoves, Zenon DEF IInv
      <4>2. wpc[w] \in {"idle", "waiting"}
        BY <4>1, Zenon DEF Edge
      <4>3. Goto(w, "lookup") \/ Goto(w, "waiting")
        BY <2>2, <4>2, Zenon
           DEF WorkerStep, Panic, Crash, Opening, Spawn, OpenSession, Login, Reopen,
               RecvJob, RecvBlock, Lookup, Operate, Complete, CountFailed, Respond
      <4>4. wpc'[w] # "exited"
        BY <4>3, Zenon DEF Goto, IInv, TypeOK
      <4> QED BY <2>2, <3>2, <4>4
    <3> QED BY <3>1, <3>2
  <2>3. CASE ~RecvClosed(w)
    <3>1. queue' = queue \/ queue # <<>>
      BY <2>3, Zenon DEF WorkerStep, Panic, Crash, Spawn, OpenSession, Login, Reopen,
                         RecvJob, RecvBlock, Lookup, Operate, Complete, CountFailed, Respond,
                         poolVars
    <3> QED BY <2>2, <2>3, <3>1, Zenon DEF Ended
  <2> QED BY <2>1, <2>3
<1> QED BY <1>1, <1>2, <1>3, Zenon DEF Ended

(* When the workers have ended after shutdown, the channel has been drained: what *)
(* a caller that left had put there was still executed.                           *)
THEOREM DrainedAtExitAlways == Spec => []DrainedAtExit
<1>1. Init => Ended
  BY DEF Init, Ended
<1>2. IInv /\ Ended /\ [Next]_vars => Ended'
  <2> SUFFICES ASSUME IInv, Ended, [Next]_vars PROVE Ended'
    OBVIOUS
  <2>1. CASE PoolStep \/ \E w \in Workers : SpawnFails(w)
    <3>1. UNCHANGED <<outcome, wpc, queue>>
      BY <2>1, QuietSteps
    <3>2. \/ phase = "starting" /\ phase' \in {"serving", "failed"}
          \/ /\ phase = "serving" /\ phase' = "closed"
             /\ \A j \in Jobs : outcome[j] # "submitting"
      BY <2>1, Zenon DEF PoolStep, StartOk, StartErr, Shutdown, SpawnFails
    <3> QED BY <3>1, <3>2 DEF Ended
  <2>2. CASE Token \/ UNCHANGED vars
    <3>1. UNCHANGED <<phase, outcome, wpc, queue>>
      BY <2>2, Zenon DEF Token, TokenRemoved, TokenRestored, SessionLost, KeyRotated,
                         vars, poolVars, workerVars
    <3> QED BY <3>1 DEF Ended
  <2> QED BY <2>1, <2>2, EndedCaller, EndedWorker, Zenon DEF Next, WorkerFault
<1>3. Ended => DrainedAtExit
  BY DEF Ended, DrainedAtExit
<1> QED BY <1>1, <1>2, <1>3, ConsistentAlways, PTL DEF Spec, IInv
-----------------------------------------------------------------------------
(* Accounting.  The counters balance with the jobs that are on their way, so that *)
(* every step moves one job from one account to the next.                         *)

Has(x, S) == IF x \in S THEN 1 ELSE 0

(* The sizes of finite sets, as far as the accounts need them: two sets that      *)
(* agree but for x differ in size by whether they have x.  PoolCounts_proofs      *)
(* proves SizeFacts; what rests on it is proved here, from it.                    *)
SizeFacts ==
    /\ \A S : IsFiniteSet(S) => Cardinality(S) \in Nat
    /\ \A S, T : IsFiniteSet(S) /\ T \subseteq S => IsFiniteSet(T)
    /\ \A S, T, x : IsFiniteSet(S) /\ (\A y : y # x => (y \in T <=> y \in S)) =>
          /\ Cardinality(T) \in Nat
          /\ Cardinality(T) + Has(x, S) = Cardinality(S) + Has(x, T)

(* The threads and the callers that the accounts count are finitely many.         *)
LEMMA FinitelyMany ==
    ASSUME SizeFacts
    PROVE  /\ \A P : IsFiniteSet(At(P)) /\ Cardinality(At(P)) \in Nat
           /\ IsFiniteSet(Submitting) /\ Cardinality(Submitting) \in Nat
           /\ IsFiniteSet(TimedOut) /\ Cardinality(TimedOut) \in Nat
           /\ IsFiniteSet(Answered) /\ Cardinality(Answered) \in Nat
<1>1. \A P : At(P) \subseteq Workers
  BY Zenon DEF At
<1>2. Submitting \subseteq Jobs /\ TimedOut \subseteq Jobs /\ Answered \subseteq Jobs
  BY Zenon DEF Submitting, TimedOut, Answered
<1>3. IsFiniteSet(Workers) /\ IsFiniteSet(Jobs)
  BY WorkersFinite, JobsFinite, Zenon
<1> QED BY <1>1, <1>2, <1>3, Zenon DEF SizeFacts

Executing  == At(Busy \ Counted)
LookedUp   == At(Busy \ ({"lookup"} \cup Counted))
Responding == At(Counted)
Failing    == At({"fail"})
Queued     == Len(queue)

(* The balance that Accounting states, and that a worker about to respond has     *)
(* already counted its job as completed.                                          *)
Books(m, l, submitting, queued, executing, lookedUp, timedOut, responding, failing,
      answered) ==
    /\ m["submitted"] = m["rejected"] + l + submitting + queued + executing + m["completed"]
    /\ m["hits"] + m["misses"] >= m["completed"] + lookedUp
    /\ m["timedOut"] = timedOut
    /\ m["failed"] + failing <= m["completed"]
    /\ answered + responding <= m["completed"]

AccountInv ==
    Books(metrics, lost, Cardinality(Submitting), Queued, Cardinality(Executing),
          Cardinality(LookedUp), Cardinality(TimedOut), Cardinality(Responding),
          Cardinality(Failing), Cardinality(Answered))

(* Where the threads are that the accounts count.                                 *)
LEMMA Accounts ==
    /\ Busy \ Counted = {"lookup", "operate", "open", "login", "reopen", "count"}
    /\ Busy \ ({"lookup"} \cup Counted) = {"operate", "open", "login", "reopen", "count"}
    /\ Counted = {"fail", "respond"}
BY DEF Busy, Counted

(* A step that moves one worker changes an account by that worker.                *)
LEMMA WorkerAccount ==
    ASSUME SizeFacts, NEW P, NEW w \in Workers,
           \A v \in Workers : v # w => wpc'[v] = wpc[v] /\ wjob'[v] = wjob[v]
    PROVE  /\ Cardinality(At(P)) \in Nat /\ Cardinality(At(P)') \in Nat
           /\ Cardinality(At(P)') + Has(w, At(P)) = Cardinality(At(P)) + Has(w, At(P)')
<1>1. IsFiniteSet(At(P)) /\ Cardinality(At(P)) \in Nat
  BY FinitelyMany, Zenon
<1>2. \A v : v # w => (v \in At(P)' <=> v \in At(P))
  BY Zenon DEF At
<1> QED BY <1>1, <1>2, Zenon DEF SizeFacts

(* A step that moves one caller changes an account by that caller.                *)
LEMMA CallerAccounts ==
    ASSUME SizeFacts, NEW j \in Jobs, \A k \in Jobs : k # j => outcome'[k] = outcome[k]
    PROVE  /\ Cardinality(Submitting) \in Nat /\ Cardinality(Submitting') \in Nat
           /\ Cardinality(Submitting') + Has(j, Submitting)
                = Cardinality(Submitting) + Has(j, Submitting')
           /\ Cardinality(TimedOut) \in Nat /\ Cardinality(TimedOut') \in Nat
           /\ Cardinality(TimedOut') + Has(j, TimedOut)
                = Cardinality(TimedOut) + Has(j, TimedOut')
           /\ Cardinality(Answered) \in Nat /\ Cardinality(Answered') \in Nat
           /\ Cardinality(Answered') + Has(j, Answered)
                = Cardinality(Answered) + Has(j, Answered')
<1>1. /\ IsFiniteSet(Submitting) /\ IsFiniteSet(TimedOut) /\ IsFiniteSet(Answered)
      /\ Cardinality(Submitting) \in Nat /\ Cardinality(TimedOut) \in Nat
      /\ Cardinality(Answered) \in Nat
  BY FinitelyMany, Zenon
<1>2. \A k : k # j => /\ k \in Submitting' <=> k \in Submitting
                      /\ k \in TimedOut' <=> k \in TimedOut
                      /\ k \in Answered' <=> k \in Answered
  BY Zenon DEF Submitting, TimedOut, Answered
<1>3. Cardinality(Submitting) \in Nat /\ Cardinality(Submitting') \in Nat
      /\ Cardinality(Submitting') + Has(j, Submitting)
           = Cardinality(Submitting) + Has(j, Submitting')
  BY <1>1, <1>2, Zenon DEF SizeFacts
<1>4. Cardinality(TimedOut) \in Nat /\ Cardinality(TimedOut') \in Nat
      /\ Cardinality(TimedOut') + Has(j, TimedOut)
           = Cardinality(TimedOut) + Has(j, TimedOut')
  BY <1>1, <1>2, Zenon DEF SizeFacts
<1>5. Cardinality(Answered) \in Nat /\ Cardinality(Answered') \in Nat
      /\ Cardinality(Answered') + Has(j, Answered)
           = Cardinality(Answered) + Has(j, Answered')
  BY <1>1, <1>2, Zenon DEF SizeFacts
<1> QED BY <1>3, <1>4, <1>5

(* Counting one event leaves the other counters alone.                            *)
LEMMA Counting ==
    ASSUME NEW c \in Counters, metrics \in [Counters -> Nat], Count(c)
    PROVE  /\ metrics'[c] = metrics[c] + 1
           /\ \A d \in Counters : d # c => metrics'[d] = metrics[d]
BY DEF Count

LEMMA CounterTypes ==
    ASSUME metrics \in [Counters -> Nat]
    PROVE  /\ metrics["submitted"] \in Nat /\ metrics["rejected"] \in Nat
           /\ metrics["completed"] \in Nat /\ metrics["failed"] \in Nat
           /\ metrics["hits"] \in Nat /\ metrics["misses"] \in Nat
           /\ metrics["timedOut"] \in Nat
BY DEF Counters

(* The accounts of the threads after a step of one worker.                        *)
LEMMA ThreadAccounts ==
    ASSUME SizeFacts, TypeOK, NEW w \in Workers, WorkerStep(w) \/ Panic(w) \/ Crash(w)
    PROVE  /\ Cardinality(Executing) \in Nat /\ Cardinality(Executing') \in Nat
           /\ Cardinality(LookedUp) \in Nat /\ Cardinality(LookedUp') \in Nat
           /\ Cardinality(Responding) \in Nat /\ Cardinality(Responding') \in Nat
           /\ Cardinality(Executing') + Has(w, Executing)
                = Cardinality(Executing) + Has(w, Executing')
           /\ Cardinality(LookedUp') + Has(w, LookedUp)
                = Cardinality(LookedUp) + Has(w, LookedUp')
           /\ Cardinality(Responding') + Has(w, Responding)
                = Cardinality(Responding) + Has(w, Responding')
           /\ Cardinality(Failing) \in Nat /\ Cardinality(Failing') \in Nat
           /\ Cardinality(Failing') + Has(w, Failing)
                = Cardinality(Failing) + Has(w, Failing')
           /\ w \notin Responding /\ w \notin Responding'
                => Cardinality(Failing') = Cardinality(Failing)
<1>1. \A v \in Workers : v # w => wpc'[v] = wpc[v] /\ wjob'[v] = wjob[v]
  BY OthersUntouched, Zenon
<1>2. /\ Cardinality(Executing) \in Nat /\ Cardinality(Executing') \in Nat
      /\ Cardinality(Executing') + Has(w, Executing)
           = Cardinality(Executing) + Has(w, Executing')
  BY <1>1, WorkerAccount, Zenon DEF Executing
<1>3. /\ Cardinality(LookedUp) \in Nat /\ Cardinality(LookedUp') \in Nat
      /\ Cardinality(LookedUp') + Has(w, LookedUp)
           = Cardinality(LookedUp) + Has(w, LookedUp')
  BY <1>1, WorkerAccount, Zenon DEF LookedUp
<1>4. /\ Cardinality(Responding) \in Nat /\ Cardinality(Responding') \in Nat
      /\ Cardinality(Responding') + Has(w, Responding)
           = Cardinality(Responding) + Has(w, Responding')
  BY <1>1, WorkerAccount, Zenon DEF Responding
<1>5. /\ Cardinality(Failing) \in Nat /\ Cardinality(Failing') \in Nat
      /\ Cardinality(Failing') + Has(w, Failing)
           = Cardinality(Failing) + Has(w, Failing')
  BY <1>1, WorkerAccount, Zenon DEF Failing
<1>6. (w \in Failing => w \in Responding) /\ (w \in Failing' => w \in Responding')
  BY Accounts, Zenon DEF Failing, Responding, At
<1>7. w \notin Responding /\ w \notin Responding' => Cardinality(Failing') = Cardinality(Failing)
  BY <1>5, <1>6 DEF Has
<1> QED BY <1>2, <1>3, <1>4, <1>5, <1>7

(* What the accounts say of one worker, by where its thread is.                   *)
LEMMA InAccount ==
    ASSUME IInv, NEW w \in Workers
    PROVE  /\ wpc[w] \in {"off", "idle", "waiting", "dead", "crashed", "exited"} =>
                w \notin Executing /\ w \notin LookedUp /\ w \notin Responding
           /\ wpc[w] = "lookup" => w \in Executing /\ w \notin LookedUp /\ w \notin Responding
           /\ wpc[w] \in {"operate", "count"} =>
                w \in Executing /\ w \in LookedUp /\ w \notin Responding
           /\ wpc[w] \in {"open", "login", "reopen"} =>
                /\ w \in Executing <=> wjob[w] # NoJob
                /\ w \in LookedUp <=> wjob[w] # NoJob
                /\ w \notin Responding
           /\ wpc[w] \in Counted => w \notin Executing /\ w \notin LookedUp /\ w \in Responding
           /\ w \in Failing <=> wpc[w] = "fail"
<1>1. Consistent(w)
  BY Zenon DEF IInv, WorkerConsistent
<1>2. /\ wpc[w] \in {"lookup", "operate", "count", "fail", "respond"} => wjob[w] # NoJob
      /\ wpc[w] \in {"off", "idle", "waiting", "dead", "crashed", "exited"} => wjob[w] = NoJob
  BY <1>1 DEF Consistent, Serving, Gone
<1>3. /\ w \in Executing <=> /\ wpc[w] \in {"lookup", "operate", "open", "login", "reopen", "count"}
                             /\ wjob[w] # NoJob
      /\ w \in LookedUp <=> /\ wpc[w] \in {"operate", "open", "login", "reopen", "count"}
                            /\ wjob[w] # NoJob
      /\ w \in Responding <=> wpc[w] \in {"fail", "respond"} /\ wjob[w] # NoJob
      /\ w \in Failing <=> wpc[w] = "fail" /\ wjob[w] # NoJob
  BY Accounts, Zenon DEF Executing, LookedUp, Responding, Failing, At
<1> QED BY <1>2, <1>3, Accounts

LEMMA InAccountNext ==
    ASSUME IInv', NEW w \in Workers
    PROVE  /\ wpc'[w] \in {"off", "idle", "waiting", "dead", "crashed", "exited"} =>
                w \notin Executing' /\ w \notin LookedUp' /\ w \notin Responding'
           /\ wpc'[w] = "lookup" =>
                w \in Executing' /\ w \notin LookedUp' /\ w \notin Responding'
           /\ wpc'[w] \in {"operate", "count"} =>
                w \in Executing' /\ w \in LookedUp' /\ w \notin Responding'
           /\ wpc'[w] \in {"open", "login", "reopen"} =>
                /\ w \in Executing' <=> wjob'[w] # NoJob
                /\ w \in LookedUp' <=> wjob'[w] # NoJob
                /\ w \notin Responding'
           /\ wpc'[w] \in Counted =>
                w \notin Executing' /\ w \notin LookedUp' /\ w \in Responding'
           /\ w \in Failing' <=> wpc'[w] = "fail"
<1>1. Consistent(w)'
  BY Zenon DEF IInv, WorkerConsistent
<1>2. /\ wpc'[w] \in {"lookup", "operate", "count", "fail", "respond"} => wjob'[w] # NoJob
      /\ wpc'[w] \in {"off", "idle", "waiting", "dead", "crashed", "exited"} => wjob'[w] = NoJob
  BY <1>1 DEF Consistent, Serving, Gone
<1>3. /\ w \in Executing' <=>
           /\ wpc'[w] \in {"lookup", "operate", "open", "login", "reopen", "count"}
           /\ wjob'[w] # NoJob
      /\ w \in LookedUp' <=> /\ wpc'[w] \in {"operate", "open", "login", "reopen", "count"}
                             /\ wjob'[w] # NoJob
      /\ w \in Responding' <=> wpc'[w] \in {"fail", "respond"} /\ wjob'[w] # NoJob
      /\ w \in Failing' <=> wpc'[w] = "fail" /\ wjob'[w] # NoJob
  BY Accounts, Zenon DEF Executing, LookedUp, Responding, Failing, At
<1> QED BY <1>2, <1>3, Accounts

(* A worker that opens a session, or waits for work, moves no account.            *)
LEMMA IdleBooks ==
    ASSUME SizeFacts, IInv, IInv', AccountInv, NEW w \in Workers,
           \/ Spawn(w) \/ OpenSession(w) \/ Login(w) \/ Reopen(w)
           \/ RecvBlock(w) \/ RecvClosed(w) \/ Crash(w)
    PROVE  AccountInv'
<1>1. UNCHANGED <<queue, outcome, metrics, lost, wjob>>
  BY Zenon DEF Spawn, OpenSession, Login, Reopen, RecvBlock, RecvClosed, Crash, poolVars
<1>2. (WorkerStep(w) \/ Crash(w)) /\ TypeOK
  BY Zenon DEF WorkerStep, IInv
<1>3. /\ wpc[w] \in {"off", "open", "login", "reopen", "idle", "waiting"}
      /\ wpc'[w] \in {"open", "login", "reopen", "idle", "waiting", "dead", "crashed",
                       "exited", "count"}
  <2>1. wpc[w] \in {"off", "open", "login", "reopen", "idle", "waiting"} /\ wpc'[w] # "lookup"
    <3>1. wpc \in [Workers -> PCs]
      BY <1>2, Zenon DEF TypeOK
    <3>2. CASE Spawn(w) \/ RecvBlock(w) \/ RecvClosed(w)
      BY <3>1, <3>2, Zenon DEF Spawn, RecvBlock, RecvClosed, DropWorker, Goto
    <3>3. CASE OpenSession(w) \/ Login(w) \/ Reopen(w) \/ Crash(w)
      <4>1. wpc[w] \in {"open", "login", "reopen"}
        BY <3>3, Zenon DEF OpenSession, Login, Reopen, Crash, Opening
      <4> QED BY <4>1, <1>2, WorkerMoves DEF Edge
    <3> QED BY <3>2, <3>3
  <2> QED BY <2>1, <1>2, WorkerMoves DEF Edge
<1>4. wjob'[w] = wjob[w]
  BY <1>1, Zenon
<1>5. Consistent(w) /\ Consistent(w)'
  BY Zenon DEF IInv, WorkerConsistent
<1>6. /\ wpc[w] \in {"off", "idle", "waiting"} => wjob[w] = NoJob
      /\ wpc'[w] \in {"idle", "waiting", "dead", "crashed", "exited"} => wjob[w] = NoJob
      /\ wpc'[w] = "count" => wjob[w] # NoJob
  BY <1>4, <1>5 DEF Consistent, Gone, Serving
<1>7. /\ w \in Executing' <=> w \in Executing
      /\ w \in LookedUp' <=> w \in LookedUp
      /\ w \notin Responding' /\ w \notin Responding
  <2>1. /\ w \in Executing <=> wjob[w] # NoJob
        /\ w \in LookedUp <=> wjob[w] # NoJob
        /\ w \notin Responding
    BY <1>3, <1>6, InAccount
  <2>2. /\ w \in Executing' <=> wjob[w] # NoJob
        /\ w \in LookedUp' <=> wjob[w] # NoJob
        /\ w \notin Responding'
    <3>1. /\ wpc'[w] \in {"off", "idle", "waiting", "dead", "crashed", "exited"} =>
               w \notin Executing' /\ w \notin LookedUp' /\ w \notin Responding'
          /\ wpc'[w] \in {"operate", "count"} =>
               w \in Executing' /\ w \in LookedUp' /\ w \notin Responding'
          /\ wpc'[w] \in {"open", "login", "reopen"} =>
               /\ w \in Executing' <=> wjob'[w] # NoJob
               /\ w \in LookedUp' <=> wjob'[w] # NoJob
               /\ w \notin Responding'
      BY InAccountNext, Zenon
    <3> QED BY <3>1, <1>3, <1>4, <1>6
  <2> QED BY <2>1, <2>2
<1>8. /\ Cardinality(Executing') = Cardinality(Executing)
      /\ Cardinality(LookedUp') = Cardinality(LookedUp)
      /\ Cardinality(Responding') = Cardinality(Responding)
      /\ Cardinality(Failing') = Cardinality(Failing)
  BY <1>2, <1>7, ThreadAccounts DEF Has
<1>9. Submitting' = Submitting /\ TimedOut' = TimedOut /\ Answered' = Answered
  BY <1>1, Zenon DEF Submitting, TimedOut, Answered
<1> QED BY <1>1, <1>8, <1>9, Zenon DEF AccountInv, Queued

(* Taking a job from the channel, looking its key up and executing it.            *)
LEMMA ExecuteBooks ==
    ASSUME SizeFacts, IInv, IInv', AccountInv, NEW w \in Workers,
           RecvJob(w) \/ Lookup(w) \/ Operate(w) \/ Complete(w) \/ CountFailed(w)
    PROVE  AccountInv'
<1>1. WorkerStep(w) /\ TypeOK
  BY Zenon DEF WorkerStep, IInv
<1>2. /\ metrics \in [Counters -> Nat] /\ lost \in Nat /\ queue \in Seq(Jobs)
      /\ wpc \in [Workers -> PCs]
  BY <1>1, Zenon DEF TypeOK
<1>3. outcome' = outcome /\ lost' = lost
  BY Zenon DEF RecvJob, Lookup, Operate, Complete, CountFailed, poolVars
<1>4. Submitting' = Submitting /\ TimedOut' = TimedOut /\ Answered' = Answered
  BY <1>3, Zenon DEF Submitting, TimedOut, Answered
<1>5. /\ Cardinality(Submitting) \in Nat /\ Cardinality(TimedOut) \in Nat
      /\ Cardinality(Answered) \in Nat /\ Queued \in Nat
  <2>1. Queued \in Nat
    BY <1>2 DEF Queued
  <2> QED BY <2>1, FinitelyMany, Zenon
<1>6. /\ metrics["submitted"] \in Nat /\ metrics["rejected"] \in Nat
       /\ metrics["completed"] \in Nat /\ metrics["failed"] \in Nat
       /\ metrics["hits"] \in Nat /\ metrics["misses"] \in Nat
       /\ metrics["timedOut"] \in Nat /\ lost \in Nat
  BY <1>2, CounterTypes, Zenon
<1>7. /\ metrics["submitted"] = metrics["rejected"] + lost + Cardinality(Submitting)
                + Queued + Cardinality(Executing) + metrics["completed"]
       /\ metrics["hits"] + metrics["misses"] >= metrics["completed"] + Cardinality(LookedUp)
       /\ metrics["timedOut"] = Cardinality(TimedOut)
       /\ metrics["failed"] + Cardinality(Failing) <= metrics["completed"]
       /\ Cardinality(Answered) + Cardinality(Responding) <= metrics["completed"]
  BY Zenon DEF AccountInv, Books
<1>8. CASE RecvJob(w)
  <2>1. wpc[w] = "idle" /\ wpc'[w] = "lookup" /\ metrics' = metrics
    BY <1>2, <1>8, Zenon DEF RecvJob, Goto
  <2>2. Queued' = Queued - 1
    <3>1. queue # <<>> /\ queue' = Tail(queue)
      BY <1>8, Zenon DEF RecvJob
    <3> QED BY <1>2, <3>1 DEF Queued
  <2>3. /\ w \notin Executing /\ w \notin LookedUp /\ w \notin Responding
        /\ w \in Executing' /\ w \notin LookedUp' /\ w \notin Responding'
    BY <2>1, InAccount, InAccountNext
  <2>4. /\ Cardinality(Executing') = Cardinality(Executing) + 1
        /\ Cardinality(LookedUp') = Cardinality(LookedUp)
        /\ Cardinality(Responding') = Cardinality(Responding)
        /\ Cardinality(Failing') = Cardinality(Failing)
        /\ Cardinality(Executing) \in Nat
    BY <1>1, <2>3, ThreadAccounts DEF Has
  <2>5. /\ Cardinality(Submitting') = Cardinality(Submitting)
        /\ Cardinality(TimedOut') = Cardinality(TimedOut)
        /\ Cardinality(Answered') = Cardinality(Answered)
    BY <1>4, Zenon
  <2>6. metrics["submitted"] = metrics["rejected"] + lost + Cardinality(Submitting)
                + Queued' + Cardinality(Executing') + metrics["completed"]
    BY <1>5, <1>6, <1>7, <2>2, <2>4
  <2> QED BY <1>3, <1>7, <2>1, <2>4, <2>5, <2>6, Zenon DEF AccountInv, Books
<1>9. CASE Lookup(w)
  <2>1. /\ wpc[w] = "lookup" /\ wpc'[w] \in {"operate", "count"} /\ queue' = queue
        /\ Count("hits") \/ Count("misses")
    BY <1>2, <1>9, Zenon DEF Lookup, LookupHit, LookupFound, LookupFails, Done, Goto, poolVars
  <2>2. /\ w \in Executing /\ w \notin LookedUp /\ w \notin Responding
        /\ w \in Executing' /\ w \in LookedUp' /\ w \notin Responding'
    BY <2>1, InAccount, InAccountNext
  <2>3. /\ Cardinality(Executing') = Cardinality(Executing)
        /\ Cardinality(LookedUp') = Cardinality(LookedUp) + 1
        /\ Cardinality(Responding') = Cardinality(Responding)
        /\ Cardinality(Failing') = Cardinality(Failing)
        /\ Cardinality(LookedUp) \in Nat
    BY <1>1, <2>2, ThreadAccounts DEF Has
  <2>4. /\ metrics'["hits"] + metrics'["misses"] = metrics["hits"] + metrics["misses"] + 1
        /\ metrics'["submitted"] = metrics["submitted"]
        /\ metrics'["rejected"] = metrics["rejected"]
        /\ metrics'["completed"] = metrics["completed"]
        /\ metrics'["failed"] = metrics["failed"]
        /\ metrics'["timedOut"] = metrics["timedOut"]
    <3>1. CASE Count("hits")
      BY <1>2, <1>6, <3>1 DEF Count, Counters
    <3>2. CASE Count("misses")
      BY <1>2, <1>6, <3>2 DEF Count, Counters
    <3> QED BY <2>1, <3>1, <3>2
  <2>5. Queued' = Queued
    BY <2>1, Zenon DEF Queued
  <2> QED BY <1>3, <1>4, <1>5, <1>6, <2>3, <2>4, <2>5 DEF AccountInv, Books
<1>10. CASE Operate(w)
  <2>1. /\ wpc[w] = "operate" /\ wpc'[w] \in {"count", "open"} /\ queue' = queue
        /\ metrics' = metrics \/ Count("resets")
    BY <1>2, <1>10, Zenon
       DEF Operate, OperateOk, OperateError, OperateFatal, Done, Goto, poolVars
  <2>2. wjob' = wjob
    BY <1>10, Zenon DEF Operate
  <2>3. wjob[w] # NoJob
    BY <2>1, JobInHand, JobsFinite DEF Serving
  <2>4. /\ w \in Executing /\ w \in LookedUp /\ w \notin Responding
        /\ w \in Executing' /\ w \in LookedUp' /\ w \notin Responding'
    BY <2>1, <2>2, <2>3, InAccount, InAccountNext
  <2>5. /\ Cardinality(Executing') = Cardinality(Executing)
        /\ Cardinality(LookedUp') = Cardinality(LookedUp)
        /\ Cardinality(Responding') = Cardinality(Responding)
        /\ Cardinality(Failing') = Cardinality(Failing)
    BY <1>1, <2>4, ThreadAccounts DEF Has
  <2>6. \A c \in Counters \ {"resets"} : metrics'[c] = metrics[c]
    <3>1. CASE Count("resets")
      BY <1>2, <3>1, Counting DEF Counters
    <3> QED BY <2>1, <3>1
  <2>7. Queued' = Queued
    BY <2>1, Zenon DEF Queued
  <2> QED BY <1>3, <1>4, <2>5, <2>6, <2>7 DEF AccountInv, Books, Counters
<1>11. CASE Complete(w)
  <2>1. /\ wpc[w] = "count" /\ wpc'[w] \in {"fail", "respond"} /\ queue' = queue
        /\ Count("completed")
    BY <1>2, <1>11, Zenon DEF Complete, Goto, poolVars
  <2>2. /\ w \in Executing /\ w \in LookedUp /\ w \notin Responding /\ w \notin Failing
        /\ w \notin Executing' /\ w \notin LookedUp' /\ w \in Responding'
    BY <2>1, InAccount, InAccountNext, Accounts
  <2>3. /\ Cardinality(Executing) = Cardinality(Executing') + 1
        /\ Cardinality(LookedUp) = Cardinality(LookedUp') + 1
        /\ Cardinality(Responding') = Cardinality(Responding) + 1
        /\ Cardinality(Failing') <= Cardinality(Failing) + 1
        /\ Cardinality(Executing') \in Nat /\ Cardinality(LookedUp') \in Nat
        /\ Cardinality(Responding) \in Nat
        /\ Cardinality(Failing) \in Nat /\ Cardinality(Failing') \in Nat
    BY <1>1, <2>2, ThreadAccounts DEF Has
  <2>4. /\ metrics'["completed"] = metrics["completed"] + 1
        /\ \A c \in Counters : c # "completed" => metrics'[c] = metrics[c]
    BY <1>2, <2>1, Counting, Zenon DEF Counters
  <2>5. /\ metrics'["submitted"] = metrics["submitted"]
        /\ metrics'["rejected"] = metrics["rejected"]
        /\ metrics'["failed"] = metrics["failed"]
        /\ metrics'["hits"] = metrics["hits"] /\ metrics'["misses"] = metrics["misses"]
        /\ metrics'["timedOut"] = metrics["timedOut"]
    BY <2>4 DEF Counters
  <2>6. Queued' = Queued
    BY <2>1, Zenon DEF Queued
  <2>7. metrics["submitted"] = metrics["rejected"] + lost + Cardinality(Submitting)
                + Queued + Cardinality(Executing') + metrics'["completed"]
    BY <1>5, <1>6, <1>7, <2>3, <2>4
  <2>8. metrics["hits"] + metrics["misses"] >= metrics'["completed"] + Cardinality(LookedUp')
    BY <1>6, <1>7, <2>3, <2>4
  <2>9. metrics["failed"] + Cardinality(Failing') <= metrics'["completed"]
    BY <1>6, <1>7, <2>3, <2>4
  <2>10. Cardinality(Answered) + Cardinality(Responding') <= metrics'["completed"]
    BY <1>5, <1>6, <1>7, <2>3, <2>4
  <2> QED BY <1>3, <1>4, <1>7, <2>5, <2>6, <2>7, <2>8, <2>9, <2>10, Zenon
          DEF AccountInv, Books
<1>12. CASE CountFailed(w)
  <2>1. /\ wpc[w] = "fail" /\ wpc'[w] = "respond" /\ queue' = queue /\ Count("failed")
    BY <1>2, <1>12, Zenon DEF CountFailed, Goto, poolVars
  <2>2. /\ w \notin Executing /\ w \notin LookedUp /\ w \in Responding /\ w \in Failing
        /\ w \notin Executing' /\ w \notin LookedUp' /\ w \in Responding' /\ w \notin Failing'
    BY <2>1, InAccount, InAccountNext, Accounts
  <2>3. /\ Cardinality(Executing') = Cardinality(Executing)
        /\ Cardinality(LookedUp') = Cardinality(LookedUp)
        /\ Cardinality(Responding') = Cardinality(Responding)
        /\ Cardinality(Failing) = Cardinality(Failing') + 1
        /\ Cardinality(Failing') \in Nat
    BY <1>1, <2>2, ThreadAccounts DEF Has
  <2>4. /\ metrics'["failed"] = metrics["failed"] + 1
        /\ \A c \in Counters : c # "failed" => metrics'[c] = metrics[c]
    BY <1>2, <2>1, Counting, Zenon DEF Counters
  <2>5. /\ metrics'["submitted"] = metrics["submitted"]
        /\ metrics'["rejected"] = metrics["rejected"]
        /\ metrics'["completed"] = metrics["completed"]
        /\ metrics'["hits"] = metrics["hits"] /\ metrics'["misses"] = metrics["misses"]
        /\ metrics'["timedOut"] = metrics["timedOut"]
    BY <2>4 DEF Counters
  <2>6. Queued' = Queued
    BY <2>1, Zenon DEF Queued
  <2>7. metrics'["failed"] + Cardinality(Failing') <= metrics["completed"]
    BY <1>6, <1>7, <2>3, <2>4
  <2> QED BY <1>3, <1>4, <1>7, <2>3, <2>5, <2>6, <2>7, Zenon DEF AccountInv, Books
<1> QED BY <1>8, <1>9, <1>10, <1>11, <1>12

(* A worker that responds, or dies, lets its job go.                              *)
LEMMA ReleaseBooks ==
    ASSUME SizeFacts, IInv, IInv', AccountInv, NEW w \in Workers, Respond(w) \/ Panic(w)
    PROVE  AccountInv'
<1>1. (WorkerStep(w) \/ Panic(w) \/ Crash(w)) /\ TypeOK
  BY Zenon DEF WorkerStep, IInv
<1>2. /\ metrics \in [Counters -> Nat] /\ wpc \in [Workers -> PCs]
      /\ outcome \in [Jobs -> {"new", "submitting", "waiting"} \cup Final]
  BY <1>1, Zenon DEF TypeOK
<1>3. metrics' = metrics /\ queue' = queue
  BY Zenon DEF Respond, Panic
<1>4. /\ metrics["submitted"] \in Nat /\ metrics["rejected"] \in Nat
      /\ metrics["completed"] \in Nat /\ lost \in Nat
  BY <1>1, <1>2, CounterTypes, Zenon DEF TypeOK
<1>5. Queued' = Queued /\ Queued \in Nat
  BY <1>1, <1>3 DEF TypeOK, Queued
<1>6. wjob[w] \in Jobs
  BY JobInHand, Zenon DEF Respond, Panic, Serving
<1>7. \A k \in Jobs : k # wjob[w] => outcome'[k] = outcome[k]
  BY <1>1, WorkerOutcome, Zenon
<1>8. \/ outcome'[wjob[w]] = outcome[wjob[w]]
      \/ /\ outcome[wjob[w]] = "waiting"
         /\ \/ Respond(w) /\ outcome'[wjob[w]] \in Results
            \/ Panic(w) /\ outcome'[wjob[w]] = "ShuttingDown"
  BY <1>1, <1>6, WorkerOutcome, Zenon
<1>9. /\ wjob[w] \in Submitting' <=> wjob[w] \in Submitting
      /\ wjob[w] \in TimedOut' <=> wjob[w] \in TimedOut
      /\ wjob[w] \in Answered => wjob[w] \in Answered'
      /\ Panic(w) => (wjob[w] \in Answered' <=> wjob[w] \in Answered)
  <2>1. \A r \in Results \cup {"ShuttingDown", "waiting"} : r # "submitting" /\ r # "Timeout"
    BY DEF Results, Errors
  <2>2. "waiting" \notin Results /\ "ShuttingDown" \notin Results
    BY DEF Results, Errors
  <2>3. Respond(w) => ~Panic(w)
    BY Zenon DEF Respond, Panic
  <2> QED BY <1>6, <1>8, <2>1, <2>2, <2>3, Zenon DEF Submitting, TimedOut, Answered
<1>10. /\ Cardinality(Submitting') = Cardinality(Submitting)
       /\ Cardinality(TimedOut') = Cardinality(TimedOut)
       /\ \/ Cardinality(Answered') = Cardinality(Answered)
          \/ Respond(w) /\ Cardinality(Answered') = Cardinality(Answered) + 1
       /\ Cardinality(Submitting) \in Nat /\ Cardinality(Answered) \in Nat
  BY <1>6, <1>7, <1>9, CallerAccounts DEF Has
<1>11. CASE Respond(w)
  <2>1. wpc[w] = "respond" /\ wpc'[w] = "idle" /\ lost' = lost
    BY <1>2, <1>11, Zenon DEF Respond, Goto
  <2>2. /\ w \notin Executing /\ w \notin LookedUp /\ w \in Responding /\ w \notin Failing
        /\ w \notin Executing' /\ w \notin LookedUp' /\ w \notin Responding' /\ w \notin Failing'
    BY <2>1, InAccount, InAccountNext, Accounts
  <2>3. /\ Cardinality(Executing') = Cardinality(Executing)
        /\ Cardinality(LookedUp') = Cardinality(LookedUp)
        /\ Cardinality(Responding) = Cardinality(Responding') + 1
        /\ Cardinality(Failing') = Cardinality(Failing)
        /\ Cardinality(Responding') \in Nat
    BY <1>1, <2>2, ThreadAccounts DEF Has
  <2>4. Cardinality(Answered) + Cardinality(Responding) <= metrics["completed"]
    BY Zenon DEF AccountInv, Books
  <2>5. Cardinality(Answered') + Cardinality(Responding') <= metrics["completed"]
    BY <1>4, <1>10, <2>3, <2>4
  <2> QED BY <1>3, <1>5, <1>10, <2>1, <2>3, <2>5, Zenon DEF AccountInv, Books
<1>12. CASE Panic(w)
  <2>1. wpc[w] \in {"lookup", "operate"} /\ wpc'[w] = "dead" /\ lost' = lost + 1
    BY <1>2, <1>12, Zenon DEF Panic, DropWorker, Goto
  <2>2. /\ w \in Executing /\ w \notin Responding
        /\ w \notin Executing' /\ w \notin LookedUp' /\ w \notin Responding'
    BY <2>1, InAccount, InAccountNext
  <2>3. /\ Cardinality(Executing) = Cardinality(Executing') + 1
        /\ \/ Cardinality(LookedUp') = Cardinality(LookedUp)
           \/ Cardinality(LookedUp) = Cardinality(LookedUp') + 1
        /\ Cardinality(Responding') = Cardinality(Responding)
        /\ Cardinality(Failing') = Cardinality(Failing)
        /\ Cardinality(Executing') \in Nat /\ Cardinality(LookedUp') \in Nat
    BY <1>1, <2>2, ThreadAccounts DEF Has
  <2>4. ~Respond(w)
    BY <1>12, Zenon DEF Respond, Panic
  <2>5. /\ metrics["submitted"] = metrics["rejected"] + lost + Cardinality(Submitting)
                + Queued + Cardinality(Executing) + metrics["completed"]
        /\ metrics["hits"] + metrics["misses"] >= metrics["completed"] + Cardinality(LookedUp)
    BY Zenon DEF AccountInv, Books
  <2>6. metrics["submitted"] = metrics["rejected"] + lost' + Cardinality(Submitting)
                + Queued + Cardinality(Executing') + metrics["completed"]
    BY <1>4, <1>5, <1>10, <2>1, <2>3, <2>5
  <2>7. metrics["hits"] + metrics["misses"] >= metrics["completed"] + Cardinality(LookedUp')
    <3>1. metrics["hits"] \in Nat /\ metrics["misses"] \in Nat
      BY <1>2, CounterTypes, Zenon
    <3> QED BY <1>4, <2>3, <2>5, <3>1
  <2> QED BY <1>3, <1>5, <1>10, <2>3, <2>4, <2>6, <2>7, Zenon DEF AccountInv, Books
<1> QED BY <1>11, <1>12

(* A caller is counted when it submits, when it is refused and when it times out. *)
LEMMA CallerBooks ==
    ASSUME SizeFacts, IInv, IInv', AccountInv, NEW j \in Jobs, Caller(j)
    PROVE  AccountInv'
<1>1. TypeOK
  BY Zenon DEF IInv
<1>2. /\ metrics \in [Counters -> Nat] /\ queue \in Seq(Jobs)
      /\ outcome \in [Jobs -> {"new", "submitting", "waiting"} \cup Final]
      /\ wpc \in [Workers -> PCs] /\ wjob \in [Workers -> Jobs \cup {NoJob}]
  BY <1>1, Zenon DEF TypeOK
<1>3. /\ metrics["submitted"] \in Nat /\ metrics["rejected"] \in Nat
      /\ metrics["completed"] \in Nat /\ metrics["timedOut"] \in Nat /\ lost \in Nat
  BY <1>1, <1>2, CounterTypes, Zenon DEF TypeOK
<1>4. Queued \in Nat
  BY <1>2 DEF Queued
<1>5. \A k \in Jobs : k # j => outcome'[k] = outcome[k]
  BY <1>1, CallerOutcome, Zenon
<1>6. Cardinality(Executing) \in Nat
  BY FinitelyMany, Zenon DEF Executing
<1>7. /\ metrics["submitted"] = metrics["rejected"] + lost + Cardinality(Submitting)
              + Queued + Cardinality(Executing) + metrics["completed"]
      /\ metrics["timedOut"] = Cardinality(TimedOut)
  BY Zenon DEF AccountInv, Books
<1>8. /\ j \in Submitting <=> outcome[j] = "submitting"
      /\ j \in Submitting' <=> outcome'[j] = "submitting"
      /\ j \in TimedOut <=> outcome[j] = "Timeout"
      /\ j \in TimedOut' <=> outcome'[j] = "Timeout"
      /\ j \in Answered <=> outcome[j] \in Results
      /\ j \in Answered' <=> outcome'[j] \in Results
  BY Zenon DEF Submitting, TimedOut, Answered
<1>9. \A r \in {"new", "submitting", "waiting", "Overloaded", "ShuttingDown", "Timeout",
                "Cancelled"} : r \notin Results
  BY DEF Results, Errors
<1>10. ASSUME wpc' = wpc, wjob' = wjob
       PROVE  /\ Executing' = Executing /\ LookedUp' = LookedUp
              /\ Responding' = Responding /\ Failing' = Failing
  BY <1>10, Zenon DEF Executing, LookedUp, Responding, Failing, At
<1>11. CASE Submit(j)
  <2>1. /\ outcome[j] = "new" /\ outcome'[j] = "submitting"
        /\ queue' = queue /\ wpc' = wpc /\ wjob' = wjob /\ lost' = lost /\ Count("submitted")
    BY <1>2, <1>11, Zenon DEF Submit, workerVars
  <2>2. /\ Cardinality(Submitting') = Cardinality(Submitting) + 1
        /\ Cardinality(TimedOut') = Cardinality(TimedOut)
        /\ Cardinality(Answered') = Cardinality(Answered)
        /\ Cardinality(Submitting) \in Nat
    BY <1>5, <1>8, <1>9, <2>1, CallerAccounts DEF Has
  <2>3. /\ metrics'["submitted"] = metrics["submitted"] + 1
        /\ \A c \in Counters : c # "submitted" => metrics'[c] = metrics[c]
    BY <1>2, <2>1, Counting, Zenon DEF Counters
  <2>4. /\ metrics'["rejected"] = metrics["rejected"]
        /\ metrics'["completed"] = metrics["completed"]
        /\ metrics'["failed"] = metrics["failed"]
        /\ metrics'["hits"] = metrics["hits"] /\ metrics'["misses"] = metrics["misses"]
        /\ metrics'["timedOut"] = metrics["timedOut"]
    BY <2>3 DEF Counters
  <2>5. metrics'["submitted"] = metrics["rejected"] + lost + Cardinality(Submitting')
              + Queued + Cardinality(Executing) + metrics["completed"]
    BY <1>3, <1>4, <1>6, <1>7, <2>2, <2>3
  <2>6. /\ Executing' = Executing /\ LookedUp' = LookedUp
        /\ Responding' = Responding /\ Failing' = Failing
    BY <1>10, <2>1, Zenon
  <2>7. Queued' = Queued
    BY <2>1, Zenon DEF Queued
  <2> QED BY <2>1, <2>2, <2>4, <2>5, <2>6, <2>7, Zenon DEF AccountInv, Books
<1>12. CASE Timeout(j)
  <2>1. /\ outcome[j] = "waiting" /\ outcome'[j] = "Timeout"
        /\ queue' = queue /\ wpc' = wpc /\ wjob' = wjob /\ lost' = lost /\ Count("timedOut")
    BY <1>2, <1>12, Zenon DEF Timeout, workerVars
  <2>2. /\ Cardinality(Submitting') = Cardinality(Submitting)
        /\ Cardinality(TimedOut') = Cardinality(TimedOut) + 1
        /\ Cardinality(Answered') = Cardinality(Answered)
    BY <1>5, <1>8, <1>9, <2>1, CallerAccounts DEF Has
  <2>3. /\ metrics'["timedOut"] = metrics["timedOut"] + 1
        /\ \A c \in Counters : c # "timedOut" => metrics'[c] = metrics[c]
    BY <1>2, <2>1, Counting, Zenon DEF Counters
  <2>4. /\ metrics'["submitted"] = metrics["submitted"]
        /\ metrics'["rejected"] = metrics["rejected"]
        /\ metrics'["completed"] = metrics["completed"]
        /\ metrics'["failed"] = metrics["failed"]
        /\ metrics'["hits"] = metrics["hits"] /\ metrics'["misses"] = metrics["misses"]
    BY <2>3 DEF Counters
  <2>5. /\ Executing' = Executing /\ LookedUp' = LookedUp
        /\ Responding' = Responding /\ Failing' = Failing
    BY <1>10, <2>1, Zenon
  <2>6. Queued' = Queued
    BY <2>1, Zenon DEF Queued
  <2>7. metrics'["timedOut"] = Cardinality(TimedOut')
    BY <1>7, <2>2, <2>3, Zenon
  <2> QED BY <2>1, <2>2, <2>4, <2>5, <2>6, <2>7, Zenon DEF AccountInv, Books
<1>13. CASE Cancel(j)
  <2>1. /\ outcome[j] = "waiting" /\ outcome'[j] = "Cancelled" /\ metrics' = metrics
        /\ queue' = queue /\ wpc' = wpc /\ wjob' = wjob /\ lost' = lost
    BY <1>2, <1>13, Zenon DEF Cancel, workerVars
  <2>2. /\ Cardinality(Submitting') = Cardinality(Submitting)
        /\ Cardinality(TimedOut') = Cardinality(TimedOut)
        /\ Cardinality(Answered') = Cardinality(Answered)
    BY <1>5, <1>8, <1>9, <2>1, CallerAccounts DEF Has
  <2>3. /\ Executing' = Executing /\ LookedUp' = LookedUp
        /\ Responding' = Responding /\ Failing' = Failing
    BY <1>10, <2>1, Zenon
  <2> QED BY <2>1, <2>2, <2>3, Zenon DEF AccountInv, Queued
<1>14. CASE TrySend(j)
  <2>1. outcome[j] = "submitting" /\ outcome'[j] \in {"waiting", "Overloaded", "ShuttingDown"}
    BY <1>2, <1>14, Zenon
       DEF TrySend, HandOver, Enqueue, RejectFull, RejectDisconnected
  <2>2. /\ Cardinality(Submitting) = Cardinality(Submitting') + 1
        /\ Cardinality(TimedOut') = Cardinality(TimedOut)
        /\ Cardinality(Answered') = Cardinality(Answered)
        /\ Cardinality(Submitting') \in Nat
    BY <1>5, <1>8, <1>9, <2>1, CallerAccounts DEF Has
  <2>3. CASE HandOver(j)
    <3>1. /\ metrics' = metrics /\ lost' = lost /\ queue' = queue
      BY <2>3, Zenon DEF HandOver
    <3>2. PICK w \in Workers : /\ wpc[w] = "waiting"
                               /\ wjob' = [wjob EXCEPT ![w] = j]
                               /\ wpc' = [wpc EXCEPT ![w] = "lookup"]
      BY <2>3, Zenon DEF HandOver, Waiting, Goto
    <3>3. /\ wpc'[w] = "lookup"
          /\ \A v \in Workers : v # w => wpc'[v] = wpc[v] /\ wjob'[v] = wjob[v]
      BY <1>2, <3>2, Zenon
    <3>4. /\ w \notin Executing /\ w \notin LookedUp /\ w \notin Responding
          /\ w \in Executing' /\ w \notin LookedUp' /\ w \notin Responding'
      BY <3>2, <3>3, InAccount, InAccountNext
    <3>5. /\ Cardinality(Executing') + Has(w, Executing)
               = Cardinality(Executing) + Has(w, Executing')
          /\ Cardinality(Executing') \in Nat
      BY <3>3, WorkerAccount, Zenon DEF Executing
    <3>6. Cardinality(Executing') = Cardinality(Executing) + 1
      BY <1>6, <3>4, <3>5 DEF Has
    <3>7. LookedUp' = LookedUp /\ Responding' = Responding /\ Failing' = Failing
      <4>1. \A v \in Workers : /\ v \in LookedUp' <=> v \in LookedUp
                               /\ v \in Responding' <=> v \in Responding
                               /\ v \in Failing' <=> v \in Failing
        BY <3>2, <3>3, <3>4, Zenon DEF LookedUp, Responding, Failing, At
      <4>2. /\ LookedUp \subseteq Workers /\ LookedUp' \subseteq Workers
            /\ Responding \subseteq Workers /\ Responding' \subseteq Workers
            /\ Failing \subseteq Workers /\ Failing' \subseteq Workers
        BY Zenon DEF LookedUp, Responding, Failing, At
      <4> QED BY <4>1, <4>2, Zenon
    <3>8. metrics["submitted"] = metrics["rejected"] + lost + Cardinality(Submitting')
                + Queued + Cardinality(Executing') + metrics["completed"]
      BY <1>3, <1>4, <1>6, <1>7, <2>2, <3>6
    <3>9. Queued' = Queued
      BY <3>1, Zenon DEF Queued
    <3> QED BY <2>2, <3>1, <3>7, <3>8, <3>9, Zenon DEF AccountInv, Books
  <2>4. CASE Enqueue(j)
    <3>1. /\ metrics' = metrics /\ lost' = lost /\ queue' = Append(queue, j)
          /\ wpc' = wpc /\ wjob' = wjob
      BY <2>4, Zenon DEF Enqueue
    <3>2. Queued' = Queued + 1
      BY <1>2, <3>1 DEF Queued
    <3>3. /\ Executing' = Executing /\ LookedUp' = LookedUp
          /\ Responding' = Responding /\ Failing' = Failing
      BY <1>10, <3>1, Zenon
    <3>4. metrics["submitted"] = metrics["rejected"] + lost + Cardinality(Submitting')
                + Queued' + Cardinality(Executing) + metrics["completed"]
      BY <1>3, <1>4, <1>6, <1>7, <2>2, <3>2
    <3> QED BY <2>2, <3>1, <3>3, <3>4, Zenon DEF AccountInv, Books
  <2>5. CASE RejectFull(j)
    <3>1. /\ queue' = queue /\ lost' = lost /\ wpc' = wpc /\ wjob' = wjob
          /\ Count("rejected")
      BY <2>5, Zenon DEF RejectFull
    <3>2. /\ Executing' = Executing /\ LookedUp' = LookedUp
          /\ Responding' = Responding /\ Failing' = Failing
      BY <1>10, <3>1, Zenon
    <3>3. /\ metrics'["rejected"] = metrics["rejected"] + 1
          /\ \A c \in Counters : c # "rejected" => metrics'[c] = metrics[c]
      BY <1>2, <3>1, Counting, Zenon DEF Counters
    <3>4. /\ metrics'["submitted"] = metrics["submitted"]
          /\ metrics'["completed"] = metrics["completed"]
          /\ metrics'["failed"] = metrics["failed"]
          /\ metrics'["hits"] = metrics["hits"] /\ metrics'["misses"] = metrics["misses"]
          /\ metrics'["timedOut"] = metrics["timedOut"]
      BY <3>3 DEF Counters
    <3>5. metrics["submitted"] = metrics'["rejected"] + lost + Cardinality(Submitting')
                + Queued + Cardinality(Executing) + metrics["completed"]
      BY <1>3, <1>4, <1>6, <1>7, <2>2, <3>3
    <3>6. Queued' = Queued
      BY <3>1, Zenon DEF Queued
    <3> QED BY <2>2, <3>1, <3>2, <3>4, <3>5, <3>6, Zenon DEF AccountInv, Books
  <2>6. CASE RejectDisconnected(j)
    <3>1. /\ metrics' = metrics /\ lost' = lost + 1 /\ queue' = queue
          /\ wpc' = wpc /\ wjob' = wjob
      BY <2>6, Zenon DEF RejectDisconnected
    <3>2. /\ Executing' = Executing /\ LookedUp' = LookedUp
          /\ Responding' = Responding /\ Failing' = Failing
      BY <1>10, <3>1, Zenon
    <3>3. metrics["submitted"] = metrics["rejected"] + lost' + Cardinality(Submitting')
                + Queued + Cardinality(Executing) + metrics["completed"]
      BY <1>3, <1>4, <1>6, <1>7, <2>2, <3>1
    <3>4. Queued' = Queued
      BY <3>1, Zenon DEF Queued
    <3> QED BY <2>2, <3>1, <3>2, <3>3, <3>4, Zenon DEF AccountInv, Books
  <2> QED BY <1>14, <2>3, <2>4, <2>5, <2>6, Zenon DEF TrySend
<1> QED BY <1>11, <1>12, <1>13, <1>14, Zenon DEF Caller

LEMMA NextBooks ==
    ASSUME SizeFacts, IInv, IInv', AccountInv, [Next]_vars
    PROVE  AccountInv'
<1>1. ASSUME NEW w \in Workers, WorkerStep(w) \/ Panic(w) \/ Crash(w) PROVE AccountInv'
  BY <1>1, IdleBooks, ExecuteBooks, ReleaseBooks, Zenon DEF WorkerStep
<1>2. ASSUME NEW k \in Jobs, Caller(k) PROVE AccountInv'
  BY <1>2, CallerBooks
<1>3. CASE PoolStep \/ Token \/ UNCHANGED vars \/ \E w \in Workers : SpawnFails(w)
  <2>1. UNCHANGED <<queue, outcome, wpc, wjob, metrics, lost>>
    BY <1>3, QuietSteps, Zenon
  <2>2. /\ Executing' = Executing /\ LookedUp' = LookedUp
        /\ Responding' = Responding /\ Failing' = Failing
        /\ Submitting' = Submitting /\ TimedOut' = TimedOut /\ Answered' = Answered
        /\ Queued' = Queued
    BY <2>1, Zenon
       DEF Executing, LookedUp, Responding, Failing, At, Submitting, TimedOut, Answered, Queued
  <2> QED BY <2>1, <2>2, Zenon DEF AccountInv
<1> QED BY <1>1, <1>2, <1>3, Zenon DEF Next, WorkerFault

=============================================================================
