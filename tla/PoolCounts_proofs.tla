-------------------------- MODULE PoolCounts_proofs --------------------------
(***************************************************************************)
(* Proofs about the numbers of jobs in the worker pool: that it implements *)
(* JobService, which sheds load only when QueueDepth jobs are pending, and *)
(* that the counters of PoolMetrics balance.                               *)
(***************************************************************************)
EXTENDS PoolCustody_proofs, FiniteSetTheorems

(* The size of a finite set is a natural number.                                  *)
LEMMA SizeIsNatural ==
    ASSUME NEW S, IsFiniteSet(S)
    PROVE  Cardinality(S) \in Nat
BY FS_CardinalityType

LEMMA EmptySize == IsFiniteSet({}) /\ Cardinality({}) = 0
BY FS_EmptySet

(* A subset of a finite set is finite and no larger.                              *)
LEMMA SubsetSize ==
    ASSUME NEW S, IsFiniteSet(S), NEW T, T \subseteq S
    PROVE  /\ IsFiniteSet(T) /\ Cardinality(T) \in Nat /\ Cardinality(S) \in Nat
           /\ Cardinality(T) <= Cardinality(S)
BY FS_Subset, FS_CardinalityType

(* A sequence of members of S that never repeats is no longer than S is large.    *)
LEMMA NoRepeats ==
    ASSUME NEW S, IsFiniteSet(S), NEW n \in Nat, NEW f \in [1..n -> S],
           \A i, k \in 1..n : f[i] = f[k] => i = k
    PROVE  n <= Cardinality(S)
<1>1. f \in Injection(1..n, S)
  BY Zenon DEF Injection, IsInjective
<1>2. Cardinality(1..n) <= Cardinality(S)
  BY <1>1, FS_Injection
<1>3. Cardinality(1..n) = n
  <2>1. 1 \in Int /\ n \in Int /\ (1 > n => n = 0)
    OBVIOUS
  <2>2. Cardinality(1..n) = IF 1 > n THEN 0 ELSE n - 1 + 1
    BY <2>1, FS_Interval, Zenon
  <2> QED BY <2>1, <2>2
<1> QED BY <1>2, <1>3

(* Two finite sets that agree but for x differ in size by whether they have x.    *)
LEMMA OneElement ==
    ASSUME NEW S, NEW T, NEW x, IsFiniteSet(S), \A y : y # x => (y \in T <=> y \in S)
    PROVE  /\ Cardinality(S) \in Nat /\ Cardinality(T) \in Nat
           /\ Cardinality(T) + Has(x, S) = Cardinality(S) + Has(x, T)
<1>1. Cardinality(S) \in Nat
  BY FS_CardinalityType
<1>2. CASE x \in S /\ x \notin T
  <2>1. T = S \ {x}
    BY <1>2, Zenon
  <2>2. IsFiniteSet(S \ {x}) /\ Cardinality(S \ {x}) = Cardinality(S) - 1
    BY <1>2, FS_RemoveElement, Zenon
  <2>3. Cardinality(T) \in Nat
    BY <2>1, <2>2, FS_CardinalityType
  <2> QED BY <1>1, <1>2, <2>1, <2>2, <2>3 DEF Has
<1>3. CASE x \notin S /\ x \in T
  <2>1. T = S \cup {x}
    BY <1>3, Zenon
  <2>2. Cardinality(S \cup {x}) = Cardinality(S) + 1
    BY <1>3, FS_AddElement, Zenon
  <2> QED BY <1>1, <1>3, <2>1, <2>2 DEF Has
<1>4. CASE x \in S <=> x \in T
  <2>1. \A y : y \in T <=> y \in S
    BY <1>4, Zenon
  <2>2. T = S
    BY <2>1, Zenon
  <2> QED BY <1>1, <1>4, <2>2 DEF Has
<1> QED BY <1>2, <1>3, <1>4, Zenon

LEMMA SizesHold == SizeFacts
BY SizeIsNatural, SubsetSize, OneElement DEF SizeFacts

-----------------------------------------------------------------------------
(* The worker pool implements JobService, and leaves nothing in the channel    *)
(* when its workers have ended.                                                *)

Pending == {j \in Jobs : InPool(j)}

(* A full channel means that many jobs are pending: no job is queued twice.       *)
LEMMA QueueIsPending ==
    ASSUME IInv, JobCustody
    PROVE  Len(queue) <= Cardinality(Pending)
<1>1. queue \in Seq(Jobs) /\ Len(queue) \in Nat /\ DOMAIN queue = 1..Len(queue)
  BY QueueDomain DEF IInv, TypeOK
<1>2. \A i \in 1..Len(queue) : queue[i] \in Pending
  <2>1. ASSUME NEW i \in 1..Len(queue) PROVE queue[i] \in Jobs /\ InPool(queue[i])
    <3>1. queue[i] \in Jobs
      BY <1>1
    <3>2. InPool(queue[i])
      BY <1>1, Zenon DEF InPool
    <3> QED BY <3>1, <3>2
  <2> QED BY <2>1, Zenon DEF Pending
<1>3. queue \in [1..Len(queue) -> Pending]
  BY <1>1, <1>2
<1>4. \A i, k \in 1..Len(queue) : queue[i] = queue[k] => i = k
  BY <1>1, Zenon DEF JobCustody
<1>5. IsFiniteSet(Pending)
  BY JobsFinite, SubsetSize, Zenon DEF Pending
<1> QED BY <1>1, <1>3, <1>4, <1>5, NoRepeats, Zenon

(* The instance's cardinality is the one defined in FiniteSets.                   *)
LEMMA SameCardinality == ASSUME NEW S PROVE Promise!Cardinality(S) = Cardinality(S)
BY Zenon DEF Promise!Cardinality, Cardinality

(* What each step of the pool is to its callers.                                  *)
LEMMA TakeStep ==
    ASSUME IInv, JobCustody, NEW j \in Jobs, TrySend(j), HandOver(j) \/ Enqueue(j)
    PROVE  Promise!Take(j)
<1>1. outcome[j] = "submitting" /\ outcome' = [outcome EXCEPT ![j] = "waiting"]
  BY Zenon DEF TrySend, HandOver, Enqueue
<1>2. Pending' = Pending \cup {j}
  BY <1>1, HandOverCustody, EnqueueCustody DEF Pending
<1> QED BY <1>1, <1>2 DEF Promise!Take, Promise!Becomes, Pending

LEMMA RefusalStep ==
    ASSUME IInv, JobCustody, NEW j \in Jobs, TrySend(j), RejectFull(j) \/ RejectDisconnected(j)
    PROVE  Promise!Shed(j) \/ Promise!Refuse(j)
<1>1. UNCHANGED <<queue, wjob>> /\ outcome[j] = "submitting"
  BY DEF TrySend, RejectFull, RejectDisconnected
<1>2. Pending' = Pending
  BY <1>1 DEF Pending, InPool
<1>3. CASE RejectFull(j)
  <2>1. Len(queue) \in Nat /\ Cardinality(Pending) \in Nat
    <3>1. queue \in Seq(Jobs)
      BY Zenon DEF IInv, TypeOK
    <3>2. IsFiniteSet(Pending)
      BY JobsFinite, SubsetSize, Zenon DEF Pending
    <3> QED BY <3>1, <3>2, QueueDomain, SizeIsNatural
  <2>2. Cardinality(Pending) >= QueueDepth
    BY <1>3, <2>1, QueueIsPending, BoundsTyped DEF RejectFull
  <2>3. outcome' = [outcome EXCEPT ![j] = "Overloaded"]
    BY <1>3 DEF RejectFull
  <2>4. Promise!Shed(j)
    BY <1>1, <1>2, <2>2, <2>3, SameCardinality, Zenon
       DEF Promise!Shed, Promise!Becomes, Pending
  <2> QED BY <2>4
<1>4. CASE RejectDisconnected(j)
  BY <1>1, <1>2, <1>4 DEF RejectDisconnected, Promise!Refuse, Promise!Becomes, Pending
<1> QED BY <1>3, <1>4

LEMMA FinishStep ==
    ASSUME IInv, JobCustody, NEW w \in Workers, wjob[w] \in Jobs,
           wjob' = [wjob EXCEPT ![w] = NoJob], UNCHANGED queue,
           NEW r \in Results \cup {"ShuttingDown"},
           outcome' = [outcome EXCEPT ![wjob[w]] = IF @ = "waiting" THEN r ELSE @]
    PROVE  Promise!Finish(wjob[w])
<1> DEFINE j == wjob[w]
<1>1. r # "waiting"
  BY DEF Results, Errors
<1>2. \A k \in Jobs : InPool(k)' <=> InPool(k) /\ k # j
  BY <1>1, ReleaseCustody, Zenon
<1>3. InPool(j)
  BY DEF InPool
<1>4. Pending' = Pending \ {j} /\ j \in Pending
  BY <1>2, <1>3 DEF Pending
<1>0. outcome \in [Jobs -> {"new", "submitting", "waiting"} \cup Final]
  BY Zenon DEF IInv, TypeOK
<1>5. CASE outcome[j] = "waiting"
  <2>1. outcome' = [outcome EXCEPT ![j] = r]
    BY <1>0, <1>5
  <2> QED BY <1>4, <1>5, <2>1, Zenon DEF Promise!Finish, Promise!Becomes, Pending
<1>6. CASE outcome[j] # "waiting"
  <2>1. outcome' = outcome
    BY <1>0, <1>6
  <2> QED BY <1>4, <1>6, <2>1, Zenon DEF Promise!Finish, Pending
<1> QED BY <1>5, <1>6

LEMMA CallerStep ==
    ASSUME NEW j \in Jobs, Submit(j) \/ Timeout(j) \/ Cancel(j)
    PROVE  Promise!Call(j) \/ Promise!GiveUp(j)
<1>1. UNCHANGED <<queue, wjob>>
  BY Zenon DEF Submit, Timeout, Cancel, workerVars
<1>2. Pending' = Pending
  BY <1>1 DEF Pending, InPool
<1> QED
  BY <1>2, Zenon
     DEF Submit, Timeout, Cancel, Promise!Call, Promise!GiveUp, Promise!Becomes, Pending

(* The pool does what submit promises: it takes a job once, finishes it at most   *)
(* once, tells its caller one outcome, and sheds load only with a channelful of   *)
(* jobs pending, for any number of workers, jobs and faults.                      *)
THEOREM PromiseKept == Spec => KeepsPromise
<1>1. Init => Promise!Init
  <2> SUFFICES ASSUME Init PROVE Promise!Init
    OBVIOUS
  <2>1. \A j \in Jobs : ~InPool(j)
    BY JobsFinite DEF Init, InPool
  <2> QED BY <2>1 DEF Init, Promise!Init
<1>2. IInv /\ JobCustody /\ [Next]_vars => [Promise!Next]_<<outcome, Pending>>
  <2> SUFFICES ASSUME IInv, JobCustody, [Next]_vars
               PROVE  Promise!Next \/ UNCHANGED <<outcome, Pending>>
    OBVIOUS
  <2>1. ASSUME NEW w \in Workers, RecvJob(w) PROVE UNCHANGED <<outcome, Pending>>
    BY <2>1, RecvJobCustody, Zenon DEF RecvJob, Pending
  <2>2. ASSUME NEW w \in Workers, Respond(w) PROVE Promise!Next
    <3>1. wjob[w] \in Jobs /\ wres[w] \in Results
      BY <2>2, JobInHand, Zenon
         DEF Respond, Serving, IInv, TypeOK, WorkerConsistent, Consistent
    <3> QED BY <2>2, <3>1, FinishStep, Zenon DEF Respond, Promise!Next
  <2>3. ASSUME NEW w \in Workers, Panic(w) PROVE Promise!Next
    <3>1. wjob[w] \in Jobs
      BY <2>3, JobInHand DEF Panic, Serving
    <3> QED BY <2>3, <3>1, FinishStep, Zenon DEF Panic, Promise!Next
  <2>4. ASSUME NEW j \in Jobs, TrySend(j) PROVE Promise!Next
    BY <2>4, TakeStep, RefusalStep, Zenon DEF TrySend, Promise!Next
  <2>5. ASSUME NEW j \in Jobs, Submit(j) \/ Timeout(j) \/ Cancel(j) PROVE Promise!Next
    BY <2>5, CallerStep DEF Promise!Next
  <2>6. CASE UNCHANGED <<queue, wjob, outcome>>
    BY <2>6 DEF Pending, InPool
  <2>7. ASSUME NEW w \in Workers, WorkerStep(w) \/ Crash(w), ~RecvJob(w), ~Respond(w)
        PROVE  UNCHANGED <<queue, wjob, outcome>>
    BY <2>7, Zenon DEF WorkerStep, Spawn, OpenSession, Login, Reopen, RecvBlock,
                       RecvClosed, Lookup, Operate, Complete, CountFailed, Crash, poolVars
  <2>8. CASE PoolStep \/ Token \/ UNCHANGED vars \/ \E w \in Workers : SpawnFails(w)
    BY <2>6, <2>8, QuietSteps
  <2> QED
    BY <2>1, <2>2, <2>3, <2>4, <2>5, <2>6, <2>7, <2>8
       DEF Next, WorkerFault, Caller
<1> QED BY <1>1, <1>2, ConsistentAlways, CustodyAlways, PTL
        DEF Spec, IInv, KeepsPromise, Promise!Spec, Pending

-----------------------------------------------------------------------------
(* The balance of the counters.                                                   *)

(* The counters of PoolMetrics balance in every reachable state, whatever number  *)
(* of workers, callers and token failures: no job is missing from the counts or   *)
(* counted twice, and none is answered before it is counted.                      *)
THEOREM AccountingAlways == Spec => []Accounting
<1>1. Init => AccountInv
  <2> SUFFICES ASSUME Init PROVE AccountInv
    OBVIOUS
  <2>1. /\ \A c \in Counters : metrics[c] = 0
        /\ lost = 0 /\ queue = <<>>
        /\ \A w \in Workers : wjob[w] = NoJob
        /\ \A k \in Jobs : outcome[k] = "new"
    BY Zenon DEF Init
  <2>2. Executing = {} /\ LookedUp = {} /\ Responding = {} /\ Failing = {}
    BY <2>1, Zenon DEF Executing, LookedUp, Responding, Failing, At
  <2>3. Submitting = {} /\ TimedOut = {} /\ Answered = {}
    BY <2>1 DEF Submitting, TimedOut, Answered, Results, Errors
  <2>4. Cardinality({}) = 0
    BY EmptySize
  <2>5. Queued = 0
    BY <2>1 DEF Queued
  <2>6. /\ metrics["submitted"] = 0 /\ metrics["rejected"] = 0 /\ metrics["completed"] = 0
        /\ metrics["failed"] = 0 /\ metrics["hits"] = 0 /\ metrics["misses"] = 0
        /\ metrics["timedOut"] = 0
    BY <2>1 DEF Counters
  <2>7. lost = 0
    BY <2>1
  <2> QED BY <2>2, <2>3, <2>4, <2>5, <2>6, <2>7 DEF AccountInv, Books
<1>2. IInv /\ IInv' /\ AccountInv /\ [Next]_vars => AccountInv'
  BY SizesHold, NextBooks
<1>3. IInv /\ AccountInv => Accounting
  <2> SUFFICES ASSUME IInv, AccountInv PROVE Accounting
    OBVIOUS
  <2>1. /\ metrics["completed"] \in Nat /\ Cardinality(Answered) \in Nat
        /\ Cardinality(Responding) \in Nat
    <3>1. metrics["completed"] \in Nat
      BY CounterTypes, Zenon DEF IInv, TypeOK
    <3> QED BY <3>1, SizesHold, FinitelyMany, Zenon DEF Responding
  <2>2. Cardinality(Answered) + Cardinality(Responding) <= metrics["completed"]
    BY Zenon DEF AccountInv, Books
  <2>3. Cardinality(Answered) <= metrics["completed"]
    BY <2>1, <2>2
  <2>4. /\ metrics["submitted"] = metrics["rejected"] + lost + Cardinality(Submitting)
                + Len(queue) + Cardinality(At(Busy \ Counted)) + metrics["completed"]
        /\ metrics["hits"] + metrics["misses"]
             >= metrics["completed"] + Cardinality(At(Busy \ ({"lookup"} \cup Counted)))
        /\ metrics["timedOut"] = Cardinality(TimedOut)
        /\ metrics["failed"] + Cardinality(At({"fail"})) <= metrics["completed"]
    BY Zenon DEF AccountInv, Books, Executing, LookedUp, Failing, Queued
  <2> QED BY <2>3, <2>4, Zenon DEF Accounting
<1>4. Spec => []IInv
  BY InitConsistent, NextConsistent, PTL DEF Spec
<1> QED BY <1>1, <1>2, <1>3, <1>4, PTL DEF Spec
=============================================================================
