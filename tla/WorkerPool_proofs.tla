-------------------------- MODULE WorkerPool_proofs --------------------------
(***************************************************************************)
(* Proofs about the worker pool, for any number of workers, jobs, labels   *)
(* and faults and any queue depth: types and the agreement of each         *)
(* worker's state, sessions, handles and the login, and what callers are   *)
(* told as long as the token does not fail.                                *)
(***************************************************************************)
EXTENDS WorkerPool, TLAPS

(* Every request names a label and one of the five operations.                    *)
LEMMA RequestShape ==
    ASSUME NEW r \in Requests
    PROVE  r.label \in Labels /\ r.op \in Ops /\ KindOf(r.op) \in Kinds
<1>1. r.label \in Labels /\ r.op \in Ops
  BY RequestsTyped
<1> QED BY <1>1 DEF KindOf, Ops, Kinds

(* The result of taking the first job off a non-empty queue, and of adding one.   *)
LEMMA QueueTypes ==
    ASSUME NEW q \in Seq(Jobs)
    PROVE  /\ q # <<>> => Head(q) \in Jobs /\ Tail(q) \in Seq(Jobs)
           /\ \A j \in Jobs : Append(q, j) \in Seq(Jobs)
OBVIOUS

(* A counter of PoolMetrics stays a natural number when it is incremented.        *)
LEMMA CountType ==
    ASSUME NEW c \in Counters, metrics \in [Counters -> Nat], Count(c)
    PROVE  metrics' \in [Counters -> Nat]
BY DEF Count

(* faults never passes its bound.                                                 *)
LEMMA FaultType ==
    ASSUME NEW f, faults \in 0..MaxFaults, Fault(f) \/ NoFault
    PROVE  faults' \in 0..MaxFaults
BY BoundsTyped DEF Fault, NoFault

IInv == TypeOK /\ WorkerConsistent

LEMMA InitConsistent == Init => IInv
<1> SUFFICES ASSUME Init PROVE IInv
  OBVIOUS
<1>1. TypeOK
  <2>1. faults \in 0..MaxFaults /\ lost \in Nat /\ metrics \in [Counters -> Nat]
    BY BoundsTyped DEF Init
  <2>2. /\ version \in [Labels -> Nat]
        /\ sess \in [Workers -> Nat] /\ tmp \in [Workers -> Nat]
        /\ opened \in [Workers -> Nat]
    BY DEF Init
  <2>3. wkey \in [Workers -> SUBSET Handle] /\ handles \in [Workers -> SUBSET Handle]
    BY DEF Init
  <2>4. /\ wpc \in [Workers -> PCs]
        /\ wjob \in [Workers -> Jobs \cup {NoJob}]
        /\ wres \in [Workers -> Results \cup {"none"}]
        /\ outcome \in [Jobs -> {"new", "submitting", "waiting"} \cup Final]
    BY DEF Init, PCs
  <2>5. /\ phase \in {"starting", "serving", "failed", "closed"}
        /\ queue \in Seq(Jobs) /\ req \in [Jobs -> Requests]
    BY DEF Init
  <2>6. live \subseteq Workers \X Nat /\ up \in BOOLEAN /\ loggedIn \in BOOLEAN
    BY Zenon DEF Init
  <2> QED
    BY <2>1, <2>2, <2>3, <2>4, <2>5, <2>6, Zenon DEF TypeOK
<1>2. WorkerConsistent
  BY DEF Init, WorkerConsistent, Consistent, Gone, Serving
<1> QED BY <1>1, <1>2 DEF IInv

(***************************************************************************)
(* Each action preserves IInv.                                             *)
(***************************************************************************)

(* A step that changes nothing of worker v keeps it consistent.                   *)
LEMMA OthersConsistent ==
    ASSUME TypeOK, NEW v \in Workers, Consistent(v),
           wpc'[v] = wpc[v], wjob'[v] = wjob[v], wres'[v] = wres[v],
           handles'[v] = handles[v], sess'[v] = sess[v], tmp'[v] = tmp[v]
    PROVE  Consistent(v)'
BY DEF Consistent

LEMMA SpawnConsistent ==
    ASSUME IInv, NEW w \in Workers, Spawn(w)
    PROVE  IInv'
<1> USE DEF IInv
<1>1. wpc' \in [Workers -> PCs]
  BY DEF TypeOK, Spawn, Goto, PCs, Busy
<1>2. TypeOK'
  BY <1>1, Zenon DEF TypeOK, Spawn, poolVars, tokenVars
<1>3. ASSUME NEW v \in Workers PROVE Consistent(v)'
  <2>1. Consistent(v)
    BY DEF WorkerConsistent
  <2>2. CASE v = w
    BY <2>1, <2>2 DEF TypeOK, Consistent, Spawn, Goto, Gone, Serving
  <2>3. CASE v # w
    BY <2>1, <2>3, OthersConsistent, Zenon DEF TypeOK, Spawn, Goto
  <2> QED BY <2>2, <2>3
<1> QED BY <1>2, <1>3 DEF WorkerConsistent

(* Closing sessions keeps the token's state typed.                                *)
LEMMA CloseTypes ==
    ASSUME TypeOK, NEW S, CloseSessions(S)
    PROVE  live' \subseteq Workers \X Nat /\ loggedIn' \in BOOLEAN
BY Zenon DEF TypeOK, CloseSessions

LEMMA OpenSessionConsistent ==
    ASSUME IInv, NEW w \in Workers, OpenSession(w)
    PROVE  IInv'
<1> USE DEF IInv
<1>1. opened[w] + 1 \in Nat \ {0}
  BY DEF TypeOK
<1>2. wpc' \in [Workers -> PCs]
  BY Zenon DEF TypeOK, OpenSession, AfterFailedOpen, Goto, PCs, Busy, Gone
<1>3. opened' \in [Workers -> Nat] /\ tmp' \in [Workers -> Nat]
  <2>1. /\ [opened EXCEPT ![w] = opened[w] + 1] \in [Workers -> Nat]
        /\ [tmp EXCEPT ![w] = opened[w] + 1] \in [Workers -> Nat]
    BY <1>1 DEF TypeOK
  <2> QED BY <2>1, Zenon DEF TypeOK, OpenSession
<1>4. live' \subseteq Workers \X Nat
  BY <1>1 DEF TypeOK, OpenSession
<1>5. faults' \in 0..MaxFaults
  BY FaultType DEF TypeOK, OpenSession
<1>6. TypeOK'
  BY <1>2, <1>3, <1>4, <1>5, Zenon DEF TypeOK, OpenSession, poolVars
<1>7. ASSUME NEW v \in Workers PROVE Consistent(v)'
  <2>1. Consistent(v)
    BY DEF WorkerConsistent
  <2>2. CASE v = w
    <3>1. wpc \in [Workers -> PCs] /\ tmp \in [Workers -> Nat]
      BY Zenon DEF TypeOK
    <3> QED BY <1>1, <2>1, <2>2, <3>1 DEF Consistent, OpenSession, AfterFailedOpen, Goto,
                                          Gone, Serving
  <2>3. CASE v # w
    BY <2>1, <2>3, OthersConsistent, Zenon DEF TypeOK, OpenSession, Goto
  <2> QED BY <2>2, <2>3
<1> QED BY <1>6, <1>7 DEF WorkerConsistent

LEMMA LoginConsistent ==
    ASSUME IInv, NEW w \in Workers, Login(w)
    PROVE  IInv'
<1> USE DEF IInv
<1>1. Consistent(w) /\ wpc[w] = "login"
  BY DEF WorkerConsistent, Login
<1>2. tmp[w] \in Nat \ {0}
  BY <1>1 DEF TypeOK, Consistent
<1>3. /\ UNCHANGED <<poolVars, wjob, wkey, wres, handles, opened, up, version,
                     metrics, lost>>
      /\ \/ Adopt(w, tmp[w]) /\ loggedIn' = TRUE /\ NoFault
         \/ /\ CloseSessions({<<w, tmp[w]>>})
            /\ Goto(w, "reopen") \/ Goto(w, AfterFailedOpen(w))
            /\ tmp' = [tmp EXCEPT ![w] = 0]
            /\ sess' = sess
            /\ NoFault \/ Fault("transient")
  BY Zenon DEF Login
<1>4. wpc' \in [Workers -> PCs]
  BY <1>3, Zenon DEF TypeOK, Adopt, AfterOpen, AfterFailedOpen, Goto, PCs, Busy, Gone
<1>5. sess' \in [Workers -> Nat] /\ tmp' \in [Workers -> Nat]
  <2>1. /\ [sess EXCEPT ![w] = tmp[w]] \in [Workers -> Nat]
        /\ [tmp EXCEPT ![w] = 0] \in [Workers -> Nat]
    BY <1>2 DEF TypeOK
  <2> QED BY <1>3, <2>1, Zenon DEF TypeOK, Adopt
<1>6. live' \subseteq Workers \X Nat
  <2>1. CASE CloseSessions({<<w, tmp[w]>>})
    BY <2>1, CloseTypes
  <2>2. CASE Adopt(w, tmp[w])
    BY <1>2, <2>2 DEF TypeOK, Adopt
  <2> QED BY <1>3, <2>1, <2>2
<1>7. loggedIn' \in BOOLEAN
  BY <1>3, CloseTypes, Zenon
<1>8. faults' \in 0..MaxFaults
  BY <1>3, FaultType, Zenon DEF TypeOK
<1>9. TypeOK'
  BY <1>3, <1>4, <1>5, <1>6, <1>7, <1>8, Zenon DEF TypeOK, poolVars
<1>10. ASSUME NEW v \in Workers PROVE Consistent(v)'
  <2>1. Consistent(v)
    BY DEF WorkerConsistent
  <2>2. CASE v = w
    <3>1. wpc \in [Workers -> PCs] /\ sess \in [Workers -> Nat] /\ tmp \in [Workers -> Nat]
      BY Zenon DEF TypeOK
    <3> QED BY <1>1, <1>2, <1>3, <2>2, <3>1 DEF Consistent, Adopt, AfterOpen,
                                                AfterFailedOpen, Goto, Gone, Serving
  <2>3. CASE v # w
    BY <1>3, <2>1, <2>3, OthersConsistent, Zenon DEF TypeOK, Adopt, Goto
  <2> QED BY <2>2, <2>3
<1> QED BY <1>9, <1>10 DEF WorkerConsistent

LEMMA ReopenConsistent ==
    ASSUME IInv, NEW w \in Workers, Reopen(w)
    PROVE  IInv'
<1> USE DEF IInv
<1>1. opened[w] + 1 \in Nat \ {0}
  BY DEF TypeOK
<1>2. wpc' \in [Workers -> PCs]
  BY Zenon DEF TypeOK, Reopen, Adopt, AfterOpen, AfterFailedOpen, Goto, PCs, Busy, Gone
<1>3. /\ opened' \in [Workers -> Nat] /\ tmp' \in [Workers -> Nat]
      /\ sess' \in [Workers -> Nat]
  <2>1. /\ [opened EXCEPT ![w] = opened[w] + 1] \in [Workers -> Nat]
        /\ [sess EXCEPT ![w] = opened[w] + 1] \in [Workers -> Nat]
        /\ [tmp EXCEPT ![w] = 0] \in [Workers -> Nat]
    BY <1>1 DEF TypeOK
  <2> QED BY <2>1, Zenon DEF TypeOK, Reopen, Adopt
<1>4. live' \subseteq Workers \X Nat
  BY <1>1 DEF TypeOK, Reopen, Adopt
<1>5. faults' \in 0..MaxFaults
  BY FaultType DEF TypeOK, Reopen
<1>6. TypeOK'
  BY <1>2, <1>3, <1>4, <1>5, Zenon DEF TypeOK, Reopen, poolVars
<1>7. ASSUME NEW v \in Workers PROVE Consistent(v)'
  <2>1. Consistent(v)
    BY DEF WorkerConsistent
  <2>2. CASE v = w
    <3>1. wpc \in [Workers -> PCs] /\ sess \in [Workers -> Nat] /\ tmp \in [Workers -> Nat]
      BY Zenon DEF TypeOK
    <3> QED BY <1>1, <2>1, <2>2, <3>1 DEF Consistent, Reopen, Adopt, AfterOpen,
                                          AfterFailedOpen, Goto, Gone, Serving
  <2>3. CASE v # w
    BY <2>1, <2>3, OthersConsistent, Zenon DEF TypeOK, Reopen, Adopt, Goto
  <2> QED BY <2>2, <2>3
<1> QED BY <1>6, <1>7 DEF WorkerConsistent

LEMMA RecvJobConsistent ==
    ASSUME IInv, NEW w \in Workers, RecvJob(w)
    PROVE  IInv'
<1> USE DEF IInv
<1>1. queue \in Seq(Jobs) /\ Head(queue) \in Jobs /\ Tail(queue) \in Seq(Jobs)
  BY QueueTypes DEF TypeOK, RecvJob
<1>2. /\ [wpc EXCEPT ![w] = "lookup"] \in [Workers -> PCs]
      /\ [wjob EXCEPT ![w] = Head(queue)] \in [Workers -> Jobs \cup {NoJob}]
  BY <1>1 DEF TypeOK, PCs, Busy
<1>3. TypeOK'
  BY <1>1, <1>2, Zenon DEF TypeOK, RecvJob, Goto, tokenVars
<1>4. ASSUME NEW v \in Workers PROVE Consistent(v)'
  <2>1. Consistent(v)
    BY DEF WorkerConsistent
  <2>2. CASE v = w
    BY <1>1, <2>1, <2>2, JobsFinite, Zenon DEF TypeOK, Consistent, RecvJob, Goto, Gone, Serving
  <2>3. CASE v # w
    BY <2>1, <2>3, OthersConsistent, Zenon DEF TypeOK, RecvJob, Goto
  <2> QED BY <2>2, <2>3
<1> QED BY <1>3, <1>4 DEF WorkerConsistent

LEMMA RecvBlockConsistent ==
    ASSUME IInv, NEW w \in Workers, RecvBlock(w)
    PROVE  IInv'
<1> USE DEF IInv
<1>1. [wpc EXCEPT ![w] = "waiting"] \in [Workers -> PCs]
  BY DEF TypeOK, PCs
<1>2. TypeOK'
  BY <1>1, Zenon DEF TypeOK, RecvBlock, Goto, poolVars, tokenVars
<1>3. ASSUME NEW v \in Workers PROVE Consistent(v)'
  <2>1. Consistent(v)
    BY DEF WorkerConsistent
  <2>2. CASE v = w
    BY <2>1, <2>2 DEF TypeOK, Consistent, RecvBlock, Goto, Gone, Serving
  <2>3. CASE v # w
    BY <2>1, <2>3, OthersConsistent, Zenon DEF TypeOK, RecvBlock, Goto
  <2> QED BY <2>2, <2>3
<1> QED BY <1>2, <1>3 DEF WorkerConsistent

LEMMA RecvClosedConsistent ==
    ASSUME IInv, NEW w \in Workers, RecvClosed(w)
    PROVE  IInv'
<1> USE DEF IInv
<1>1. /\ [wpc EXCEPT ![w] = "exited"] \in [Workers -> PCs]
      /\ [sess EXCEPT ![w] = 0] \in [Workers -> Nat]
      /\ [handles EXCEPT ![w] = {}] \in [Workers -> SUBSET Handle]
      /\ [wkey EXCEPT ![w] = {}] \in [Workers -> SUBSET Handle]
  BY DEF TypeOK, PCs, Gone
<1>2. live' \subseteq Workers \X Nat /\ loggedIn' \in BOOLEAN
  BY Zenon DEF TypeOK, RecvClosed
<1>3. TypeOK'
  BY <1>1, <1>2, Zenon DEF TypeOK, RecvClosed, DropWorker, Goto, poolVars
<1>4. ASSUME NEW v \in Workers PROVE Consistent(v)'
  <2>1. Consistent(v)
    BY DEF WorkerConsistent
  <2>2. CASE v = w
    BY <2>1, <2>2, Zenon DEF TypeOK, Consistent, RecvClosed, DropWorker, Goto, Gone, Serving
  <2>3. CASE v # w
    BY <2>1, <2>3, OthersConsistent, Zenon DEF TypeOK, RecvClosed, DropWorker, Goto
  <2> QED BY <2>2, <2>3
<1> QED BY <1>3, <1>4 DEF WorkerConsistent

(* The job of a worker that executes one, and the label and class it names.       *)
LEMMA JobInHand ==
    ASSUME IInv, NEW w \in Workers, wpc[w] \in Serving
    PROVE  /\ wjob[w] \in Jobs /\ req[wjob[w]] \in Requests
           /\ Label(w) \in Labels /\ Op(w) \in Ops /\ Kind(w) \in Kinds
<1>1. wjob[w] \in Jobs
  BY DEF IInv, TypeOK, WorkerConsistent, Consistent, Serving
<1>2. req[wjob[w]] \in Requests
  BY <1>1 DEF IInv, TypeOK
<1> QED BY <1>1, <1>2, RequestShape DEF Label, Op, Kind

(* Ending a job with a result.                                                    *)
LEMMA DoneConsistent ==
    ASSUME IInv, NEW w \in Workers, wpc[w] \in {"lookup", "operate"},
           NEW r \in Results, Done(w, r),
           UNCHANGED <<wjob, handles, sess, tmp>>
    PROVE  /\ wpc' \in [Workers -> PCs]
           /\ wres' \in [Workers -> Results \cup {"none"}]
           /\ wkey' \in [Workers -> SUBSET Handle]
           /\ \A v \in Workers : Consistent(v)'
<1> USE DEF IInv
<1>1. /\ wpc' \in [Workers -> PCs]
      /\ wres' \in [Workers -> Results \cup {"none"}]
      /\ wkey' \in [Workers -> SUBSET Handle]
  BY DEF TypeOK, Done, Goto, PCs, Busy
<1>2. "none" \notin Results
  BY DEF Results, Errors
<1>3. ASSUME NEW v \in Workers PROVE Consistent(v)'
  <2>1. Consistent(v)
    BY DEF WorkerConsistent
  <2>2. CASE v = w
    BY <1>2, <2>1, <2>2, Zenon DEF TypeOK, Consistent, Done, Goto, Gone, Serving
  <2>3. CASE v # w
    BY <2>1, <2>3, OthersConsistent, Zenon DEF TypeOK, Done, Goto
  <2> QED BY <2>2, <2>3
<1> QED BY <1>1, <1>3

LEMMA LookupConsistent ==
    ASSUME IInv, NEW w \in Workers, Lookup(w)
    PROVE  IInv'
<1> USE DEF IInv
<1>1. wpc[w] = "lookup" /\ wpc[w] \in Serving /\ Consistent(w)
  BY DEF Lookup, Serving, WorkerConsistent
<1>2. CASE LookupHit(w)
  <2>1. PICK h \in Cached(w) : wkey' = [wkey EXCEPT ![w] = {h}]
    BY <1>2, Zenon DEF LookupHit
  <2>2. /\ wkey' \in [Workers -> SUBSET Handle] /\ wpc' \in [Workers -> PCs]
        /\ metrics' \in [Counters -> Nat]
    <3>1. h \in Handle
      BY <2>1 DEF Cached, TypeOK
    <3>2. /\ [wkey EXCEPT ![w] = {h}] \in [Workers -> SUBSET Handle]
          /\ [wpc EXCEPT ![w] = "operate"] \in [Workers -> PCs]
      BY <3>1, Zenon DEF TypeOK, PCs, Busy
    <3>3. metrics' \in [Counters -> Nat]
      BY <1>2, CountType DEF LookupHit, TypeOK, Counters
    <3> QED BY <1>2, <2>1, <3>2, <3>3, Zenon DEF LookupHit, Goto
  <2>3. TypeOK'
    BY <1>2, <2>2, Zenon DEF TypeOK, Lookup, LookupHit, NoFault, poolVars, tokenVars
  <2>4. ASSUME NEW v \in Workers PROVE Consistent(v)'
    <3>1. Consistent(v)
      BY DEF WorkerConsistent
    <3>2. CASE v = w
      BY <1>1, <1>2, <3>2, Zenon
         DEF TypeOK, Consistent, Lookup, LookupHit, Goto, Gone, Serving
    <3>3. CASE v # w
      BY <1>2, <3>1, <3>3, OthersConsistent, Zenon DEF TypeOK, Lookup, LookupHit, Goto
    <3> QED BY <3>2, <3>3
  <2> QED BY <2>3, <2>4 DEF WorkerConsistent
<1>3. CASE LookupFound(w)
  <2> DEFINE h == [label |-> Label(w), kind |-> Kind(w),
                   sess |-> sess[w], version |-> version[Label(w)]]
  <2>1. h \in Handle
    BY <1>1, JobInHand, Zenon DEF Handle, TypeOK
  <2>2. /\ [wkey EXCEPT ![w] = {h}] \in [Workers -> SUBSET Handle]
        /\ [handles EXCEPT ![w] = @ \cup {h}] \in [Workers -> SUBSET Handle]
        /\ [wpc EXCEPT ![w] = "operate"] \in [Workers -> PCs]
    <3> HIDE DEF h
    <3> QED BY <2>1 DEF TypeOK, PCs, Busy
  <2>3. metrics' \in [Counters -> Nat]
    BY <1>3, CountType, Zenon DEF LookupFound, TypeOK, Counters
  <2>4. TypeOK'
    BY <1>3, <2>2, <2>3, Zenon DEF TypeOK, Lookup, LookupFound, NoFault, Goto,
                                   poolVars, tokenVars
  <2>5. ASSUME NEW v \in Workers PROVE Consistent(v)'
    <3>1. Consistent(v)
      BY DEF WorkerConsistent
    <3>2. CASE v = w
      BY <1>1, <1>3, <3>2, Zenon
         DEF TypeOK, Consistent, Lookup, LookupFound, Goto, Gone, Serving
    <3>3. CASE v # w
      BY <1>3, <3>1, <3>3, OthersConsistent, Zenon DEF TypeOK, Lookup, LookupFound, Goto
    <3> QED BY <3>2, <3>3
  <2> QED BY <2>4, <2>5 DEF WorkerConsistent
<1>4. CASE LookupFails(w)
  <2>1. PICK r \in Results : Done(w, r)
    BY <1>4, Zenon DEF LookupFails, Results, Errors
  <2>2. metrics' \in [Counters -> Nat]
    BY <1>4, CountType DEF LookupFails, TypeOK, Counters
  <2>3. faults' \in 0..MaxFaults
    BY <1>4, FaultType, Zenon DEF LookupFails, TypeOK
  <2>4. UNCHANGED <<wjob, handles, sess, tmp>>
    BY <1>4 DEF LookupFails, Lookup
  <2>5. /\ wpc' \in [Workers -> PCs]
        /\ wres' \in [Workers -> Results \cup {"none"}]
        /\ wkey' \in [Workers -> SUBSET Handle]
        /\ WorkerConsistent'
    BY <1>1, <2>1, <2>4, DoneConsistent DEF WorkerConsistent
  <2>6. TypeOK'
    BY <1>4, <2>2, <2>3, <2>5, Zenon DEF TypeOK, Lookup, LookupFails, poolVars, tokenVars
  <2> QED BY <2>5, <2>6
<1> QED BY <1>2, <1>3, <1>4 DEF Lookup

LEMMA OperateConsistent ==
    ASSUME IInv, NEW w \in Workers, Operate(w)
    PROVE  IInv'
<1> USE DEF IInv
<1>1. wpc[w] = "operate" /\ wpc[w] \in Serving /\ Consistent(w)
  BY DEF Operate, Serving, WorkerConsistent
<1>2. /\ UNCHANGED <<poolVars, wjob, sess, tmp, opened, tokenVars, lost>>
      /\ \/ \E r \in Results : Done(w, r) /\ UNCHANGED <<handles, metrics>>
         \/ /\ wres' = [wres EXCEPT ![w] = "Hsm"]
            /\ wkey' = [wkey EXCEPT ![w] = {}]
            /\ handles' = [handles EXCEPT ![w] = {}]
            /\ Count("resets")
            /\ Goto(w, "open")
  BY Zenon DEF Operate, OperateOk, OperateError, OperateFatal, Results, Errors
<1>3. faults' \in 0..MaxFaults
  BY FaultType, Zenon DEF Operate, OperateOk, OperateError, OperateFatal, TypeOK
<1>4. CASE \E r \in Results : Done(w, r) /\ UNCHANGED <<handles, metrics>>
  <2>1. /\ wpc' \in [Workers -> PCs]
        /\ wres' \in [Workers -> Results \cup {"none"}]
        /\ wkey' \in [Workers -> SUBSET Handle]
        /\ WorkerConsistent'
    BY <1>1, <1>2, <1>4, DoneConsistent DEF WorkerConsistent
  <2>2. TypeOK'
    BY <1>2, <1>3, <1>4, <2>1, Zenon DEF TypeOK, poolVars, tokenVars
  <2> QED BY <2>1, <2>2
<1>5. CASE /\ wres' = [wres EXCEPT ![w] = "Hsm"]
           /\ wkey' = [wkey EXCEPT ![w] = {}]
           /\ handles' = [handles EXCEPT ![w] = {}]
           /\ Count("resets")
           /\ Goto(w, "open")
  <2>1. /\ wpc' \in [Workers -> PCs]
        /\ wres' \in [Workers -> Results \cup {"none"}]
        /\ wkey' \in [Workers -> SUBSET Handle]
        /\ handles' \in [Workers -> SUBSET Handle]
    BY <1>5 DEF TypeOK, Goto, PCs, Busy, Results, Errors
  <2>2. metrics' \in [Counters -> Nat]
    BY <1>5, CountType DEF TypeOK, Counters
  <2>3. TypeOK'
    BY <1>2, <1>3, <2>1, <2>2, Zenon DEF TypeOK, poolVars, tokenVars
  <2>4. ASSUME NEW v \in Workers PROVE Consistent(v)'
    <3>1. Consistent(v)
      BY DEF WorkerConsistent
    <3>2. CASE v = w
      BY <1>1, <1>2, <1>5, <3>2, Zenon DEF TypeOK, Consistent, Goto, Gone, Serving
    <3>3. CASE v # w
      BY <1>2, <1>5, <3>1, <3>3, OthersConsistent, Zenon DEF TypeOK, Goto
    <3> QED BY <3>2, <3>3
  <2> QED BY <2>3, <2>4 DEF WorkerConsistent
<1> QED BY <1>2, <1>4, <1>5

LEMMA CompleteConsistent ==
    ASSUME IInv, NEW w \in Workers, Complete(w) \/ CountFailed(w)
    PROVE  IInv'
<1> USE DEF IInv
<1>1. PICK pc \in {"fail", "respond"} : wpc' = [wpc EXCEPT ![w] = pc]
  BY Zenon DEF Complete, CountFailed, Goto
<1>2. wpc' \in [Workers -> PCs]
  BY <1>1 DEF TypeOK, PCs, Busy
<1>3. metrics' \in [Counters -> Nat]
  <2>1. metrics \in [Counters -> Nat] /\ (Count("completed") \/ Count("failed"))
    BY Zenon DEF TypeOK, Complete, CountFailed
  <2>2. "completed" \in Counters /\ "failed" \in Counters
    BY DEF Counters
  <2> QED BY <2>1, <2>2, CountType
<1>4. UNCHANGED <<wjob, wres, handles, sess, tmp>> /\ wpc[w] \in {"count", "fail"}
  BY Zenon DEF Complete, CountFailed
<1>5. TypeOK'
  BY <1>2, <1>3, Zenon DEF TypeOK, Complete, CountFailed, poolVars, tokenVars
<1>6. ASSUME NEW v \in Workers PROVE Consistent(v)'
  <2>1. Consistent(v)
    BY DEF WorkerConsistent
  <2>2. CASE v = w
    BY <1>1, <1>4, <2>1, <2>2, Zenon DEF TypeOK, Consistent, Gone, Serving
  <2>3. CASE v # w
    BY <1>1, <1>4, <2>1, <2>3, OthersConsistent, Zenon DEF TypeOK
  <2> QED BY <2>2, <2>3
<1> QED BY <1>5, <1>6 DEF WorkerConsistent

LEMMA RespondConsistent ==
    ASSUME IInv, NEW w \in Workers, Respond(w)
    PROVE  IInv'
<1> USE DEF IInv
<1>1. /\ wpc[w] = "respond" /\ wpc[w] \in Serving /\ Consistent(w)
      /\ wjob[w] \in Jobs /\ wres[w] \in Results
  BY JobInHand, Zenon DEF Respond, Serving, WorkerConsistent, Consistent, TypeOK
<1>2. wpc' \in [Workers -> PCs]
  BY DEF TypeOK, Respond, Goto, PCs
<1>3. /\ wjob' \in [Workers -> Jobs \cup {NoJob}]
      /\ wres' \in [Workers -> Results \cup {"none"}]
  BY Zenon DEF TypeOK, Respond
<1>4. outcome' \in [Jobs -> {"new", "submitting", "waiting"} \cup Final]
  BY <1>1, Zenon DEF TypeOK, Respond, Final
<1>5. TypeOK'
  BY <1>2, <1>3, <1>4, Zenon DEF TypeOK, Respond, tokenVars
<1>6. ASSUME NEW v \in Workers PROVE Consistent(v)'
  <2>1. Consistent(v)
    BY DEF WorkerConsistent
  <2>2. CASE v = w
    BY <1>1, <2>2, Zenon DEF TypeOK, Consistent, Respond, Goto, Gone, Serving
  <2>3. CASE v # w
    BY <2>1, <2>3, OthersConsistent, Zenon DEF TypeOK, Respond, Goto
  <2> QED BY <2>2, <2>3
<1> QED BY <1>5, <1>6 DEF WorkerConsistent

LEMMA PanicConsistent ==
    ASSUME IInv, NEW w \in Workers, Panic(w)
    PROVE  IInv'
<1> USE DEF IInv
<1>1. /\ wpc[w] \in Serving /\ Consistent(w) /\ wjob[w] \in Jobs
  BY JobInHand, Zenon DEF Panic, Serving, WorkerConsistent
<1>2. /\ wpc' \in [Workers -> PCs]
      /\ wjob' \in [Workers -> Jobs \cup {NoJob}]
      /\ sess' \in [Workers -> Nat]
  BY Zenon DEF TypeOK, Panic, DropWorker, Goto, PCs, Gone
<1>3. /\ wkey' \in [Workers -> SUBSET Handle]
      /\ handles' \in [Workers -> SUBSET Handle]
  BY Zenon DEF TypeOK, Panic, DropWorker
<1>4. outcome' \in [Jobs -> {"new", "submitting", "waiting"} \cup Final]
  BY <1>1, Zenon DEF TypeOK, Panic, Final
<1>5. lost' \in Nat /\ faults' \in 0..MaxFaults
  <2>1. lost \in Nat /\ faults \in 0..MaxFaults /\ lost' = lost + 1 /\ Fault("panic")
    BY Zenon DEF TypeOK, Panic
  <2> QED BY <2>1, FaultType
<1>6. TypeOK'
  BY <1>2, <1>3, <1>4, <1>5, CloseTypes, Zenon DEF TypeOK, Panic
<1>7. ASSUME NEW v \in Workers PROVE Consistent(v)'
  <2>1. Consistent(v)
    BY DEF WorkerConsistent
  <2>2. CASE v = w
    BY <1>1, <2>2, Zenon DEF TypeOK, Consistent, Panic, DropWorker, Goto, Gone, Serving
  <2>3. CASE v # w
    BY <2>1, <2>3, OthersConsistent, Zenon DEF TypeOK, Panic, DropWorker, Goto
  <2> QED BY <2>2, <2>3
<1> QED BY <1>6, <1>7 DEF WorkerConsistent

LEMMA CrashConsistent ==
    ASSUME IInv, NEW w \in Workers, Crash(w)
    PROVE  IInv'
<1> USE DEF IInv
<1>1. /\ wpc[w] \in {"open", "login", "reopen"} /\ sess[w] = 0
      /\ Consistent(w) /\ wjob[w] = NoJob
  BY Zenon DEF Crash, Opening, WorkerConsistent, Consistent
<1>2. /\ wpc' \in [Workers -> PCs]
      /\ sess' \in [Workers -> Nat] /\ tmp' \in [Workers -> Nat]
      /\ wkey' \in [Workers -> SUBSET Handle] /\ handles' \in [Workers -> SUBSET Handle]
  BY DEF TypeOK, Crash, DropWorker, Goto, PCs, Gone
<1>3. faults' \in 0..MaxFaults
  BY FaultType, Zenon DEF TypeOK, Crash
<1>4. TypeOK'
  BY <1>2, <1>3, CloseTypes, Zenon DEF TypeOK, Crash, poolVars
<1>5. ASSUME NEW v \in Workers PROVE Consistent(v)'
  <2>1. Consistent(v)
    BY DEF WorkerConsistent
  <2>2. CASE v = w
    BY <1>1, <2>2, Zenon DEF TypeOK, Consistent, Crash, DropWorker, Goto, Gone, Serving
  <2>3. CASE v # w
    BY <2>1, <2>3, OthersConsistent, Zenon DEF TypeOK, Crash, DropWorker, Goto
  <2> QED BY <2>2, <2>3
<1> QED BY <1>4, <1>5 DEF WorkerConsistent

LEMMA TrySendConsistent ==
    ASSUME IInv, NEW j \in Jobs, TrySend(j)
    PROVE  IInv'
<1> USE DEF IInv
<1>1. outcome' \in [Jobs -> {"new", "submitting", "waiting"} \cup Final]
  BY Zenon DEF TypeOK, TrySend, HandOver, Enqueue, RejectFull, RejectDisconnected, Final
<1>2. queue' \in Seq(Jobs)
  <2>1. queue \in Seq(Jobs) /\ (queue' = queue \/ queue' = Append(queue, j))
    BY Zenon DEF TypeOK, TrySend, HandOver, Enqueue, RejectFull, RejectDisconnected
  <2> QED BY <2>1, QueueTypes
<1>3. wpc' \in [Workers -> PCs] /\ wjob' \in [Workers -> Jobs \cup {NoJob}]
  <2>1. CASE HandOver(j)
    <3>1. PICK w \in Workers : wjob' = [wjob EXCEPT ![w] = j] /\ Goto(w, "lookup")
      BY <2>1, Zenon DEF HandOver, Waiting
    <3> QED BY <3>1, Zenon DEF TypeOK, Goto, PCs, Busy
  <2>2. CASE UNCHANGED <<wpc, wjob>>
    BY <2>2 DEF TypeOK
  <2> QED BY <2>1, <2>2 DEF TrySend, Enqueue, RejectFull, RejectDisconnected
<1>4. lost' \in Nat /\ metrics' \in [Counters -> Nat]
  <2>1. /\ lost \in Nat /\ metrics \in [Counters -> Nat]
        /\ lost' = lost \/ lost' = lost + 1
        /\ metrics' = metrics \/ Count("rejected")
    BY Zenon DEF TypeOK, TrySend, HandOver, Enqueue, RejectFull, RejectDisconnected
  <2>2. "rejected" \in Counters
    BY DEF Counters
  <2> QED BY <2>1, <2>2, CountType
<1>5. TypeOK'
  BY <1>1, <1>2, <1>3, <1>4, Zenon DEF TypeOK, TrySend, tokenVars
<1>6. ASSUME NEW v \in Workers PROVE Consistent(v)'
  <2>1. Consistent(v)
    BY DEF WorkerConsistent
  <2>2. UNCHANGED <<wres, handles, sess, tmp>>
    BY DEF TrySend
  <2>3. \/ wpc'[v] = wpc[v] /\ wjob'[v] = wjob[v]
        \/ wpc[v] = "waiting" /\ wpc'[v] = "lookup" /\ wjob'[v] = j
    BY Zenon
       DEF TypeOK, TrySend, HandOver, Enqueue, RejectFull, RejectDisconnected, Goto,
           Waiting
  <2>4. CASE wpc'[v] = wpc[v] /\ wjob'[v] = wjob[v]
    BY <2>1, <2>2, <2>4, OthersConsistent, Zenon
  <2>5. CASE wpc[v] = "waiting" /\ wpc'[v] = "lookup" /\ wjob'[v] = j
    BY <2>1, <2>2, <2>5, JobsFinite, Zenon DEF Consistent, Gone, Serving
  <2> QED BY <2>3, <2>4, <2>5
<1> QED BY <1>5, <1>6 DEF WorkerConsistent

(* The other steps touch no worker: callers that submit or leave, the phases of   *)
(* the pool, and the token.                                                       *)
LEMMA QuietConsistent ==
    ASSUME IInv, UNCHANGED workerVars, TypeOK'
    PROVE  IInv'
BY OthersConsistent, Zenon DEF IInv, WorkerConsistent, workerVars

LEMMA CallerConsistent ==
    ASSUME IInv, NEW j \in Jobs, Submit(j) \/ Timeout(j) \/ Cancel(j)
    PROVE  IInv'
<1> USE DEF IInv
<1>1. outcome' \in [Jobs -> {"new", "submitting", "waiting"} \cup Final]
  BY Zenon DEF TypeOK, Submit, Timeout, Cancel, Final
<1>2. metrics' \in [Counters -> Nat]
  BY CountType, Zenon DEF TypeOK, Submit, Timeout, Cancel, Counters
<1>3. TypeOK'
  BY <1>1, <1>2, Zenon DEF TypeOK, Submit, Timeout, Cancel, workerVars, tokenVars
<1> QED BY <1>3, QuietConsistent DEF Submit, Timeout, Cancel

LEMMA PhaseConsistent ==
    ASSUME IInv, PoolStep \/ \E w \in Workers : SpawnFails(w)
    PROVE  IInv'
<1> USE DEF IInv
<1>1. phase' \in {"starting", "serving", "failed", "closed"}
  BY DEF PoolStep, StartOk, StartErr, Shutdown, SpawnFails
<1>2. faults' \in 0..MaxFaults
  BY FaultType, Zenon DEF TypeOK, PoolStep, StartOk, StartErr, Shutdown, SpawnFails
<1>3. UNCHANGED <<queue, req, outcome, workerVars, tokenVars, metrics, lost>>
  BY Zenon DEF PoolStep, StartOk, StartErr, Shutdown, SpawnFails
<1>4. TypeOK'
  BY <1>1, <1>2, <1>3, Zenon DEF TypeOK, workerVars, tokenVars
<1> QED BY <1>3, <1>4, QuietConsistent

LEMMA TokenConsistent ==
    ASSUME IInv, Token
    PROVE  IInv'
<1> USE DEF IInv
<1>1. faults' \in 0..MaxFaults
  BY FaultType, Zenon
     DEF TypeOK, Token, TokenRemoved, TokenRestored, SessionLost, KeyRotated
<1>2. live' \subseteq Workers \X Nat /\ loggedIn' \in BOOLEAN
  BY CloseTypes, Zenon DEF TypeOK, Token, TokenRemoved, TokenRestored, SessionLost,
                           KeyRotated
<1>3. up' \in BOOLEAN
  BY Zenon DEF TypeOK, Token, TokenRemoved, TokenRestored, SessionLost, KeyRotated
<1>4. version' \in [Labels -> Nat]
  <2>1. ASSUME NEW l \in Labels, KeyRotated(l) PROVE version' \in [Labels -> Nat]
    <3>1. version \in [Labels -> Nat] /\ version' = [version EXCEPT ![l] = @ + 1]
      BY <2>1, Zenon DEF TypeOK, KeyRotated
    <3> QED BY <3>1
  <2>2. \/ version' = version
        \/ \E l \in Labels : KeyRotated(l)
    BY Zenon DEF Token, TokenRemoved, TokenRestored, SessionLost
  <2> QED BY <2>1, <2>2, Zenon DEF TypeOK
<1>5. UNCHANGED <<poolVars, workerVars, metrics, lost>>
  BY Zenon DEF Token, TokenRemoved, TokenRestored, SessionLost, KeyRotated
<1>6. TypeOK'
  BY <1>1, <1>2, <1>3, <1>4, <1>5, Zenon DEF TypeOK, poolVars, workerVars
<1> QED BY <1>5, <1>6, QuietConsistent

LEMMA StutterConsistent ==
    ASSUME IInv, UNCHANGED vars
    PROVE  IInv'
<1>1. TypeOK'
  BY Zenon DEF IInv, TypeOK, vars, poolVars, workerVars, tokenVars
<1> QED BY <1>1, QuietConsistent DEF vars

LEMMA NextConsistent == IInv /\ [Next]_vars => IInv'
<1> SUFFICES ASSUME IInv, [Next]_vars PROVE IInv'
  OBVIOUS
<1>1. ASSUME NEW w \in Workers, WorkerStep(w) PROVE IInv'
  BY <1>1, SpawnConsistent, OpenSessionConsistent, LoginConsistent, ReopenConsistent,
     RecvJobConsistent, RecvBlockConsistent, RecvClosedConsistent, LookupConsistent,
     OperateConsistent, CompleteConsistent, RespondConsistent DEF WorkerStep
<1>2. ASSUME NEW w \in Workers, WorkerFault(w) PROVE IInv'
  BY <1>2, PanicConsistent, CrashConsistent, PhaseConsistent DEF WorkerFault
<1>3. ASSUME NEW j \in Jobs, Caller(j) PROVE IInv'
  BY <1>3, TrySendConsistent, CallerConsistent DEF Caller
<1>4. CASE PoolStep
  BY <1>4, PhaseConsistent
<1>5. CASE Token
  BY <1>5, TokenConsistent
<1>6. CASE UNCHANGED vars
  BY <1>6, StutterConsistent
<1> QED BY <1>1, <1>2, <1>3, <1>4, <1>5, <1>6 DEF Next

(* Type correctness, and the agreement of each worker's thread, job, session and  *)
(* handles, through every reset, failed reset, panic and shutdown.                *)
THEOREM ConsistentAlways == Spec => [](TypeOK /\ WorkerConsistent)
BY InitConsistent, NextConsistent, PTL DEF Spec, IInv

(* In particular the channel, the counters, the token's sessions and every result *)
(* stay of their types, whatever callers and faults do.                           *)
THEOREM PoolTypes == Spec => []TypeOK
BY ConsistentAlways, PTL

-----------------------------------------------------------------------------
(* What a step may touch: the facts that the proofs about custody, accounting and *)
(* the sessions start from.                                                       *)

(* The control flow of a worker's thread.                                         *)
Edge(a, b) ==
    \/ a = "off" /\ b = "open"
    \/ a = "open" /\ b \in {"login", "dead", "crashed", "count"}
    \/ a = "login" /\ b \in {"idle", "reopen", "dead", "crashed", "count"}
    \/ a = "reopen" /\ b \in {"idle", "dead", "crashed", "count"}
    \/ a = "idle" /\ b \in {"lookup", "waiting", "exited"}
    \/ a = "waiting" /\ b = "exited"
    \/ a = "lookup" /\ b \in {"operate", "count", "dead"}
    \/ a = "operate" /\ b \in {"count", "open", "dead"}
    \/ a = "count" /\ b \in {"fail", "respond"}
    \/ a = "fail" /\ b = "respond"
    \/ a = "respond" /\ b = "idle"

Moves(w) == \E pc : Goto(w, pc) /\ Edge(wpc[w], pc)

LEMMA OpeningMoves ==
    ASSUME NEW w \in Workers, OpenSession(w) \/ Login(w) \/ Reopen(w)
    PROVE  Moves(w)
<1>1. AfterOpen(w) \in {"idle", "count"} /\ AfterFailedOpen(w) \in {"dead", "count"}
  BY Zenon DEF AfterOpen, AfterFailedOpen
<1>2. CASE OpenSession(w)
  BY <1>1, <1>2, Zenon DEF OpenSession, Moves, Edge
<1>3. CASE Login(w)
  BY <1>1, <1>3, Zenon DEF Login, Adopt, Moves, Edge
<1>4. CASE Reopen(w)
  BY <1>1, <1>4, Zenon DEF Reopen, Adopt, Moves, Edge
<1> QED BY <1>2, <1>3, <1>4

LEMMA ServingMoves ==
    ASSUME NEW w \in Workers, \/ Lookup(w) \/ Operate(w) \/ Complete(w) \/ CountFailed(w)
                              \/ Respond(w) \/ Panic(w) \/ Crash(w)
    PROVE  Moves(w)
<1>1. CASE Lookup(w)
  BY <1>1, Zenon DEF Lookup, LookupHit, LookupFound, LookupFails, Done, Moves, Edge
<1>2. CASE Operate(w)
  BY <1>2, Zenon DEF Operate, OperateOk, OperateError, OperateFatal, Done, Moves, Edge
<1>3. CASE Complete(w) \/ CountFailed(w) \/ Respond(w)
  BY <1>3, Zenon DEF Complete, CountFailed, Respond, Moves, Edge
<1>4. CASE Panic(w)
  BY <1>4, Zenon DEF Panic, DropWorker, Moves, Edge
<1>5. CASE Crash(w)
  BY <1>5, Zenon DEF Crash, Opening, DropWorker, Moves, Edge
<1> QED BY <1>1, <1>2, <1>3, <1>4, <1>5

LEMMA ReceivingMoves ==
    ASSUME NEW w \in Workers, Spawn(w) \/ RecvJob(w) \/ RecvBlock(w) \/ RecvClosed(w)
    PROVE  Moves(w)
BY Zenon DEF Spawn, RecvJob, RecvBlock, RecvClosed, DropWorker, Moves, Edge

(* A worker's step moves its own thread along an edge and no other thread.        *)
LEMMA WorkerMoves ==
    ASSUME TypeOK, NEW w \in Workers, WorkerStep(w) \/ Panic(w) \/ Crash(w)
    PROVE  /\ Edge(wpc[w], wpc'[w])
           /\ \A v \in Workers : v # w => wpc'[v] = wpc[v]
<1>1. PICK pc : wpc' = [wpc EXCEPT ![w] = pc] /\ Edge(wpc[w], pc)
  BY OpeningMoves, ServingMoves, ReceivingMoves, Zenon DEF WorkerStep, Moves, Goto
<1>2. wpc \in [Workers -> PCs]
  BY Zenon DEF TypeOK
<1> QED BY <1>1, <1>2, Zenon

(* A worker's step changes nothing of another worker, and no request.             *)
LEMMA OthersUntouched ==
    ASSUME TypeOK, NEW w \in Workers, WorkerStep(w) \/ Panic(w) \/ Crash(w), NEW v \in Workers, v # w
    PROVE  /\ req' = req
           /\ wpc'[v] = wpc[v] /\ wjob'[v] = wjob[v] /\ wkey'[v] = wkey[v]
           /\ wres'[v] = wres[v] /\ handles'[v] = handles[v]
           /\ sess'[v] = sess[v] /\ tmp'[v] = tmp[v]
<1>1. wpc'[v] = wpc[v]
  BY WorkerMoves
<1>2. req' = req /\ wjob'[v] = wjob[v]
  BY Zenon DEF TypeOK, WorkerStep, Panic, Crash, Spawn, OpenSession, Login, Reopen, RecvJob,
               RecvBlock, RecvClosed, Lookup, Operate, Complete, CountFailed, Respond, poolVars
<1>3. wkey'[v] = wkey[v] /\ wres'[v] = wres[v] /\ handles'[v] = handles[v]
  <2>1. CASE Lookup(w)
    BY <2>1, Zenon DEF TypeOK, Lookup, LookupHit, LookupFound, LookupFails, Done
  <2>2. CASE Operate(w)
    BY <2>2, Zenon DEF TypeOK, Operate, OperateOk, OperateError, OperateFatal, Done
  <2>3. CASE RecvClosed(w) \/ Panic(w) \/ Crash(w) \/ Respond(w)
    BY <2>3, Zenon DEF TypeOK, RecvClosed, Panic, Crash, DropWorker, Respond
  <2>4. CASE UNCHANGED <<wkey, wres, handles>>
    BY <2>4
  <2> QED BY <2>1, <2>2, <2>3, <2>4, Zenon
             DEF WorkerStep, Spawn, OpenSession, Login, Reopen, RecvJob, RecvBlock, Complete,
                 CountFailed
<1>4. sess'[v] = sess[v] /\ tmp'[v] = tmp[v]
  <2>1. CASE OpenSession(w) \/ Login(w) \/ Reopen(w)
    BY <2>1, Zenon DEF TypeOK, OpenSession, Login, Reopen, Adopt
  <2>2. CASE RecvClosed(w) \/ Panic(w) \/ Crash(w)
    BY <2>2, Zenon DEF TypeOK, RecvClosed, Panic, Crash, DropWorker
  <2>3. CASE UNCHANGED <<sess, tmp>>
    BY <2>3
  <2> QED BY <2>1, <2>2, <2>3, Zenon
             DEF WorkerStep, Spawn, RecvJob, RecvBlock, Lookup, Operate, Complete, CountFailed, Respond
<1> QED BY <1>1, <1>2, <1>3, <1>4, Zenon

(* Only TrySend changes a worker from outside: it wakes one with a job.           *)
LEMMA CallerMoves ==
    ASSUME TypeOK, NEW j \in Jobs, Caller(j), NEW v \in Workers
    PROVE  \/ wpc'[v] = wpc[v] /\ wjob'[v] = wjob[v]
           \/ wpc[v] = "waiting" /\ wpc'[v] = "lookup" /\ wjob'[v] = j
<1>1. wpc \in [Workers -> PCs] /\ wjob \in [Workers -> Jobs \cup {NoJob}]
  BY Zenon DEF TypeOK
<1>2. CASE HandOver(j)
  <2>1. PICK w \in Workers : /\ wpc[w] = "waiting"
                             /\ wjob' = [wjob EXCEPT ![w] = j]
                             /\ wpc' = [wpc EXCEPT ![w] = "lookup"]
    BY <1>2, Zenon DEF HandOver, Waiting, Goto
  <2> QED BY <1>1, <2>1, Zenon
<1>3. CASE UNCHANGED <<wpc, wjob>>
  BY <1>3
<1> QED
  BY <1>2, <1>3, Zenon DEF Caller, Submit, TrySend, Enqueue, RejectFull, RejectDisconnected,
                           Timeout, Cancel, workerVars

(* What a caller sees, as its own steps and as those of its worker change it.     *)
Told(a, b) ==
    \/ a = "new" /\ b = "submitting"
    \/ a = "submitting" /\ b \in {"waiting", "Overloaded", "ShuttingDown"}
    \/ a = "waiting" /\ b \in {"Timeout", "Cancelled"}

LEMMA CallerOutcome ==
    ASSUME TypeOK, NEW j \in Jobs, Caller(j)
    PROVE  /\ Told(outcome[j], outcome'[j])
           /\ \A k \in Jobs : k # j => outcome'[k] = outcome[k]
<1>1. PICK r : outcome' = [outcome EXCEPT ![j] = r] /\ Told(outcome[j], r)
  BY Zenon DEF Caller, Submit, TrySend, HandOver, Enqueue, RejectFull, RejectDisconnected,
               Timeout, Cancel, Told
<1>2. outcome \in [Jobs -> {"new", "submitting", "waiting"} \cup Final]
  BY Zenon DEF TypeOK
<1> QED BY <1>1, <1>2, Zenon

(* A worker's step leaves every caller alone, but for the one whose job it        *)
(* finishes or loses, if that caller still waits.                                 *)
LEMMA WorkerOutcome ==
    ASSUME IInv, NEW w \in Workers, WorkerStep(w) \/ Panic(w) \/ Crash(w), NEW k \in Jobs
    PROVE  \/ outcome'[k] = outcome[k]
           \/ /\ k = wjob[w] /\ outcome[k] = "waiting"
              /\ \/ Respond(w) /\ outcome'[k] = wres[w] /\ wres[w] \in Results
                 \/ Panic(w) /\ outcome'[k] = "ShuttingDown"
<1>1. CASE ~Respond(w) /\ ~Panic(w)
  BY <1>1, Zenon DEF WorkerStep, Spawn, OpenSession, Login, Reopen, RecvJob, RecvBlock,
                     RecvClosed, Lookup, Operate, Complete, CountFailed, Crash, poolVars
<1>2. outcome \in [Jobs -> {"new", "submitting", "waiting"} \cup Final]
  BY Zenon DEF IInv, TypeOK
<1>3. CASE Respond(w)
  <2>1. wjob[w] \in Jobs /\ wres[w] \in Results
    BY <1>3, JobInHand, Zenon
       DEF Respond, Serving, IInv, TypeOK, WorkerConsistent, Consistent
  <2>2. outcome' = [outcome EXCEPT ![wjob[w]] = IF @ = "waiting" THEN wres[w] ELSE @]
    BY <1>3, Zenon DEF Respond
  <2> QED BY <1>2, <1>3, <2>1, <2>2, Zenon
<1>4. CASE Panic(w)
  <2>1. wjob[w] \in Jobs
    BY <1>4, JobInHand, Zenon DEF Panic, Serving
  <2>2. outcome' = [outcome EXCEPT
                      ![wjob[w]] = IF @ = "waiting" THEN "ShuttingDown" ELSE @]
    BY <1>4, Zenon DEF Panic
  <2> QED BY <1>2, <1>4, <2>1, <2>2, Zenon
<1> QED BY <1>1, <1>3, <1>4, Zenon

(* Neither callers nor running workers change the phase of the pool.              *)
LEMMA PhaseStays ==
    ASSUME \/ \E w \in Workers : WorkerStep(w) \/ Panic(w) \/ Crash(w)
           \/ \E j \in Jobs : Caller(j)
    PROVE  phase' = phase
<1>1. ASSUME NEW w \in Workers, WorkerStep(w) \/ Panic(w) \/ Crash(w) PROVE phase' = phase
  BY <1>1, Zenon DEF WorkerStep, Panic, Crash, Spawn, OpenSession, Login, Reopen, RecvJob,
     RecvBlock, RecvClosed, Lookup, Operate, Complete, CountFailed, Respond, poolVars
<1>2. ASSUME NEW j \in Jobs, Caller(j) PROVE phase' = phase
  BY <1>2, Zenon DEF Caller, Submit, TrySend, Timeout, Cancel
<1> QED BY <1>1, <1>2

(* The other steps, of the pool's phases and of the token.                        *)
LEMMA QuietSteps ==
    ASSUME PoolStep \/ Token \/ UNCHANGED vars \/ \E w \in Workers : SpawnFails(w)
    PROVE  UNCHANGED <<queue, req, outcome, wpc, wjob, wkey, wres, handles, sess, tmp,
                       opened, metrics, lost>>
BY Zenon DEF PoolStep, StartOk, StartErr, Shutdown, Token, TokenRemoved, TokenRestored,
             SessionLost, KeyRotated, SpawnFails, vars, poolVars, workerVars

-----------------------------------------------------------------------------
(* The keys.  A worker's handles belong to the session it holds now.              *)

KeyOk(w) ==
    /\ \A h \in handles[w] : h.sess = sess[w]
    /\ wpc[w] = "operate" =>
         \E h \in handles[w] : /\ wkey[w] = {h}
                               /\ h.label = Label(w) /\ h.kind = Kind(w)

(* A step that changes nothing of worker v leaves its keys right.                 *)
LEMMA OthersKey ==
    ASSUME NEW v \in Workers, KeyOk(v), req' = req,
           wpc'[v] = wpc[v], wjob'[v] = wjob[v], wkey'[v] = wkey[v],
           handles'[v] = handles[v], sess'[v] = sess[v]
    PROVE  KeyOk(v)'
BY DEF KeyOk, Label, Op, Kind

(* A worker that is not about to call the token only has to mind its cache.       *)
LEMMA CacheOnly ==
    ASSUME NEW v \in Workers, wpc'[v] # "operate",
           \A h \in handles'[v] : h.sess = sess'[v]
    PROVE  KeyOk(v)'
BY DEF KeyOk

LEMMA LookupKey ==
    ASSUME IInv, NEW w \in Workers, KeyOk(w), Lookup(w)
    PROVE  KeyOk(w)'
<1> USE DEF IInv, TypeOK
<1>1. /\ req' = req /\ wjob' = wjob /\ sess' = sess
      /\ Label(w)' = Label(w) /\ Kind(w)' = Kind(w)
  BY DEF Lookup, poolVars, Label, Op, Kind
<1>2. CASE LookupHit(w)
  <2>1. PICK h \in Cached(w) : wkey' = [wkey EXCEPT ![w] = {h}]
    BY <1>2, Zenon DEF LookupHit
  <2>2. /\ handles' = handles /\ wkey'[w] = {h} /\ h \in handles[w]
        /\ h.label = Label(w) /\ h.kind = Kind(w)
    BY <1>2, <2>1, Zenon DEF LookupHit, Cached
  <2> QED BY <1>1, <2>2 DEF KeyOk
<1>3. CASE LookupFound(w)
  <2> DEFINE h == [label |-> Label(w), kind |-> Kind(w),
                   sess |-> sess[w], version |-> version[Label(w)]]
  <2>1. /\ h.label = Label(w) /\ h.kind = Kind(w) /\ h.sess = sess[w]
    OBVIOUS
  <2>2. handles'[w] = handles[w] \cup {h} /\ wkey'[w] = {h}
    BY <1>3 DEF LookupFound
  <2> HIDE DEF h
  <2> QED BY <1>1, <2>1, <2>2 DEF KeyOk
<1>4. CASE LookupFails(w)
  <2>1. wpc'[w] = "count" /\ handles' = handles
    BY <1>4 DEF LookupFails, Done, Goto
  <2> QED BY <1>1, <2>1 DEF KeyOk
<1> QED BY <1>2, <1>3, <1>4 DEF Lookup

(* An operation that finishes, and a reset, only forget handles.                  *)
LEMMA OperateKey ==
    ASSUME IInv, NEW w \in Workers, KeyOk(w), Operate(w)
    PROVE  KeyOk(w)'
<1>1. sess' = sess
  BY Zenon DEF Operate
<1>2. handles'[w] \subseteq handles[w]
  <2>1. handles' = handles \/ handles' = [handles EXCEPT ![w] = {}]
    BY Zenon DEF Operate, OperateOk, OperateError, OperateFatal
  <2>2. handles \in [Workers -> SUBSET Handle]
    BY Zenon DEF IInv, TypeOK
  <2> QED BY <2>1, <2>2, Zenon
<1>3. wpc'[w] # "operate"
  BY WorkerMoves, Zenon DEF IInv, WorkerStep, Operate, Edge
<1> QED BY <1>1, <1>2, <1>3, CacheOnly, Zenon DEF KeyOk

LEMMA NextKey ==
    ASSUME IInv, RightKey, [Next]_vars
    PROVE  RightKey'
<1>1. ASSUME NEW v \in Workers PROVE KeyOk(v) /\ Consistent(v)
  BY DEF RightKey, KeyOk, IInv, WorkerConsistent
<1> SUFFICES ASSUME NEW v \in Workers PROVE KeyOk(v)'
  BY Zenon DEF RightKey, KeyOk
<1>2. ASSUME NEW w \in Workers, WorkerStep(w) \/ Panic(w) \/ Crash(w), w # v PROVE KeyOk(v)'
  BY <1>1, <1>2, OthersUntouched, OthersKey, Zenon DEF IInv
<1>3. CASE OpenSession(v) \/ Login(v) \/ Reopen(v)
  <2>1. handles'[v] = {}
    BY <1>1, <1>3, Zenon DEF OpenSession, Login, Reopen, Consistent
  <2>2. wpc'[v] # "operate"
    BY <1>3, WorkerMoves, Zenon DEF IInv, WorkerStep, OpenSession, Login, Reopen, Edge
  <2> QED BY <2>1, <2>2, CacheOnly, Zenon
<1>4. CASE RecvClosed(v) \/ Panic(v) \/ Crash(v)
  <2>1. handles'[v] = {}
    BY <1>4, Zenon DEF RecvClosed, Panic, Crash, DropWorker, IInv, TypeOK
  <2>2. wpc'[v] # "operate"
    BY <1>4, Zenon DEF RecvClosed, Panic, Crash, DropWorker, Goto, IInv, TypeOK
  <2> QED BY <2>1, <2>2, CacheOnly, Zenon
<1>5. CASE Spawn(v) \/ RecvJob(v) \/ RecvBlock(v) \/ Complete(v) \/ CountFailed(v) \/ Respond(v)
  <2>1. UNCHANGED <<handles, sess>>
    BY <1>5, Zenon DEF Spawn, RecvJob, RecvBlock, Complete, CountFailed, Respond
  <2>2. wpc'[v] # "operate"
    BY <1>5, WorkerMoves, Zenon
       DEF IInv, WorkerStep, Spawn, RecvJob, RecvBlock, Complete, CountFailed, Respond, Edge
  <2> QED BY <1>1, <2>1, <2>2, CacheOnly, Zenon DEF KeyOk
<1>6. ASSUME NEW j \in Jobs, Caller(j) PROVE KeyOk(v)'
  <2>1. UNCHANGED <<req, wkey, handles, sess>>
    BY <1>6, Zenon DEF Caller, Submit, TrySend, Timeout, Cancel, workerVars
  <2>2. wpc'[v] = "lookup" \/ (wpc'[v] = wpc[v] /\ wjob'[v] = wjob[v])
    BY <1>6, CallerMoves, Zenon DEF IInv
  <2> QED BY <1>1, <2>1, <2>2, CacheOnly, OthersKey, Zenon DEF KeyOk
<1>7. CASE PoolStep \/ Token \/ UNCHANGED vars \/ \E w \in Workers : SpawnFails(w)
  BY <1>1, <1>7, QuietSteps, OthersKey
<1> QED
  BY <1>1, <1>2, <1>3, <1>4, <1>5, <1>6, <1>7, LookupKey, OperateKey, Zenon
     DEF Next, WorkerStep, WorkerFault

(* Every token operation uses a handle for the label and the class its request    *)
(* names, from the cache of the session the worker holds now.                     *)
THEOREM RightKeyAlways == Spec => []RightKey
<1>1. Init => RightKey
  BY DEF Init, RightKey
<1> QED BY <1>1, NextKey, ConsistentAlways, PTL DEF Spec, IInv

(* A pool that serves consists of workers that have their session or have ended.  *)
THEOREM NoHalfBuiltPoolAlways == Spec => []NoHalfBuiltPool
<1>1. Init => NoHalfBuiltPool
  BY DEF Init, NoHalfBuiltPool
<1>2. IInv /\ NoHalfBuiltPool /\ [Next]_vars => NoHalfBuiltPool'
  <2> SUFFICES ASSUME IInv, NoHalfBuiltPool, [Next]_vars, phase' = "serving",
                      NEW v \in Workers
               PROVE  sess'[v] # 0 \/ wpc'[v] \in Gone
    BY DEF NoHalfBuiltPool
  <2>1. Consistent(v) /\ wpc[v] \in PCs
    BY Zenon DEF IInv, TypeOK, WorkerConsistent
  <2>2. CASE StartOk
    BY <2>1, <2>2, Zenon DEF StartOk, Consistent, Opening, Gone, Serving, PCs, Busy, workerVars
  <2>3. ASSUME phase = "serving", sess'[v] = sess[v], wpc'[v] = wpc[v] \/ wpc[v] \notin Gone
        PROVE  sess'[v] # 0 \/ wpc'[v] \in Gone
    BY <2>3, Zenon DEF NoHalfBuiltPool
  <2>4. ASSUME NEW w \in Workers, WorkerStep(w) \/ Panic(w) \/ Crash(w), w # v
        PROVE  sess'[v] # 0 \/ wpc'[v] \in Gone
    BY <2>3, <2>4, OthersUntouched, PhaseStays, Zenon DEF IInv
  <2>5. CASE OpenSession(v) \/ Login(v) \/ Reopen(v)
    <3>1. sess'[v] = sess[v] \/ sess'[v] = opened[v] + 1 \/ (wpc[v] = "login" /\ sess'[v] = tmp[v])
      BY <2>5, Zenon DEF OpenSession, Login, Reopen, Adopt, IInv, TypeOK
    <3>2. opened[v] \in Nat /\ (wpc[v] = "login" => tmp[v] # 0) /\ wpc[v] \notin Gone
      BY <2>1, <2>5, Zenon
         DEF OpenSession, Login, Reopen, Gone, Consistent, IInv, TypeOK
    <3>3. opened[v] + 1 # 0
      BY <3>2
    <3>4. phase = "serving"
      BY <2>5, PhaseStays, Zenon DEF WorkerStep
    <3> QED BY <2>3, <3>1, <3>2, <3>3, <3>4, Zenon
  <2>6. CASE RecvClosed(v) \/ Panic(v) \/ Crash(v)
    BY <2>6, Zenon DEF RecvClosed, Panic, Crash, DropWorker, Goto, Gone, IInv, TypeOK
  <2>7. CASE \/ Spawn(v) \/ RecvJob(v) \/ RecvBlock(v) \/ Lookup(v) \/ Operate(v)
             \/ Complete(v) \/ CountFailed(v) \/ Respond(v)
    <3>1. sess' = sess /\ wpc[v] \notin Gone
      BY <2>7, Zenon
         DEF Spawn, RecvJob, RecvBlock, Lookup, Operate, Complete, CountFailed, Respond, Gone
    <3>2. phase = "serving"
      BY <2>7, PhaseStays, Zenon DEF WorkerStep
    <3> QED BY <2>3, <3>1, <3>2
  <2>8. ASSUME NEW j \in Jobs, Caller(j) PROVE sess'[v] # 0 \/ wpc'[v] \in Gone
    <3>1. phase = "serving" /\ sess' = sess
      BY <2>8, PhaseStays, Zenon DEF Caller, Submit, TrySend, Timeout, Cancel, workerVars
    <3>2. wpc'[v] = wpc[v] \/ wpc[v] = "waiting"
      BY <2>8, CallerMoves, Zenon DEF IInv
    <3> QED BY <2>3, <3>1, <3>2, Zenon DEF Gone
  <2>9. CASE StartErr \/ Shutdown \/ \E w \in Workers : SpawnFails(w)
    BY <2>9 DEF StartErr, Shutdown, SpawnFails
  <2>10. CASE Token \/ UNCHANGED vars
    <3>1. phase' = phase
      BY <2>10, Zenon DEF Token, TokenRemoved, TokenRestored, SessionLost, KeyRotated,
                          vars, poolVars
    <3> QED BY <2>3, <2>10, <3>1, QuietSteps
  <2> QED
    BY <2>2, <2>4, <2>5, <2>6, <2>7, <2>8, <2>9, <2>10, Zenon
       DEF Next, WorkerStep, WorkerFault, PoolStep
<1> QED BY <1>1, <1>2, ConsistentAlways, PTL DEF Spec, IInv

(***************************************************************************)
(* The login.  While the token has not failed and the sender is alive, a   *)
(* worker without a session is the only one that opens one; the session    *)
(* under login is valid; and somebody's session holds the login whenever   *)
(* there is one, so that a worker that lost the race for C_Login never     *)
(* closes the last session.                                                *)
(***************************************************************************)
Calm == faults = 0 /\ SenderAlive

LoginInv ==
    Calm =>
      /\ up
      /\ \A w \in Workers :
            /\ sess[w] # 0 => <<w, sess[w]>> \in live /\ loggedIn
            /\ wpc[w] = "login" => <<w, tmp[w]>> \in live
            /\ wpc[w] = "reopen" => loggedIn
            /\ wpc[w] \in {"open", "login", "reopen"} => sess[w] = 0
      /\ loggedIn => \E w \in Workers : sess[w] # 0

(* Faults only grow: a step to a state without faults is itself without one.      *)
LEMMA FaultsGrow ==
    ASSUME IInv, [Next]_vars, faults' = 0
    PROVE  faults' = faults /\ \A f : ~Fault(f)
<1>1. faults \in Nat
  BY DEF IInv, TypeOK
<1>2. \A f : ~Fault(f)
  BY <1>1 DEF Fault
<1>3. ASSUME NEW w \in Workers, WorkerStep(w) \/ WorkerFault(w)
      PROVE  faults' = faults \/ \E f : Fault(f)
  <2>1. CASE WorkerFault(w)
    BY <2>1, Zenon DEF WorkerFault, SpawnFails, Panic, Crash
  <2>2. CASE Spawn(w) \/ OpenSession(w) \/ Login(w) \/ Reopen(w)
    BY <2>2, Zenon DEF Spawn, OpenSession, Login, Reopen, NoFault
  <2>3. CASE RecvJob(w) \/ RecvBlock(w) \/ RecvClosed(w) \/ Complete(w) \/ CountFailed(w) \/ Respond(w)
    BY <2>3, Zenon DEF RecvJob, RecvBlock, RecvClosed, Complete, CountFailed, Respond
  <2>4. CASE Lookup(w)
    BY <2>4, Zenon DEF Lookup, LookupHit, LookupFound, LookupFails, NoFault
  <2>5. CASE Operate(w)
    BY <2>5, Zenon DEF Operate, OperateOk, OperateError, OperateFatal, NoFault
  <2> QED BY <1>3, <2>1, <2>2, <2>3, <2>4, <2>5, Zenon DEF WorkerStep
<1>4. ASSUME NEW j \in Jobs, Caller(j) PROVE faults' = faults
  BY <1>4, Zenon DEF Caller, Submit, TrySend, Timeout, Cancel
<1>5. PoolStep => faults' = faults
  BY Zenon DEF PoolStep, StartOk, StartErr, Shutdown
<1>6. Token => faults' = faults \/ \E f : Fault(f)
  BY Zenon DEF Token, TokenRemoved, TokenRestored, SessionLost, KeyRotated
<1>7. UNCHANGED vars => faults' = faults
  BY DEF vars
<1> QED BY <1>2, <1>3, <1>4, <1>5, <1>6, <1>7, Zenon DEF Next

(* The calm ends and does not come back: a dropped sender stays dropped.          *)
LEMMA CalmBefore ==
    ASSUME IInv, [Next]_vars, Calm'
    PROVE  Calm /\ faults' = faults /\ \A f : ~Fault(f)
<1>1. faults' = faults /\ \A f : ~Fault(f)
  BY FaultsGrow, Zenon DEF Calm
<1>2. ASSUME NEW w \in Workers, WorkerStep(w) \/ WorkerFault(w)
      PROVE  phase' = phase \/ phase' = "failed"
  BY <1>2, PhaseStays, Zenon DEF WorkerFault, SpawnFails
<1>3. ASSUME NEW j \in Jobs, Caller(j) PROVE phase' = phase
  BY <1>3, PhaseStays
<1>4. PoolStep => StartOk \/ phase' \in {"failed", "closed"}
  BY Zenon DEF PoolStep, StartErr, Shutdown
<1>5. Token \/ UNCHANGED vars => phase' = phase
  BY Zenon DEF Token, TokenRemoved, TokenRestored, SessionLost, KeyRotated, vars, poolVars
<1>6. phase' = phase \/ StartOk \/ phase' \in {"failed", "closed"}
  BY <1>2, <1>3, <1>4, <1>5, Zenon DEF Next
<1>7. SenderAlive
  BY <1>6 DEF Calm, SenderAlive, StartOk
<1> QED BY <1>1, <1>7 DEF Calm

(* A step that leaves the sessions and the token alone, and sends no worker with  *)
(* a session to open another, keeps the login.                                    *)
LEMMA LoginFrame ==
    ASSUME IInv, LoginInv, Calm' => Calm,
           UNCHANGED <<sess, tmp, live, up, loggedIn>>,
           \A v \in Workers : \/ wpc'[v] = wpc[v]
                              \/ wpc'[v] \notin {"login", "reopen"} /\ wpc'[v] # "open"
                              \/ wpc'[v] = "open" /\ sess[v] = 0
    PROVE  LoginInv'
BY DEF LoginInv

LEMMA LoginLogin ==
    ASSUME IInv, LoginInv, NEW w \in Workers, Login(w), Calm, \A f : ~Fault(f)
    PROVE  LoginInv'
<1>0. /\ wpc \in [Workers -> PCs] /\ sess \in [Workers -> Nat] /\ tmp \in [Workers -> Nat]
      /\ Consistent(w)
  BY Zenon DEF IInv, TypeOK, WorkerConsistent
<1>1. /\ <<w, tmp[w]>> \in live /\ sess[w] = 0 /\ tmp[w] # 0 /\ up' = up /\ up
  BY <1>0, Zenon DEF LoginInv, Login, Consistent
<1>2. CASE ~loggedIn /\ Adopt(w, tmp[w]) /\ loggedIn' = TRUE
  <2>1. \A v \in Workers : sess'[v] = IF v = w THEN tmp[w] ELSE 0
    BY <1>0, <1>2, Zenon DEF Adopt, LoginInv
  <2>2. live' = (live \cup {<<w, tmp[w]>>}) \ {<<w, 0>>} /\ Goto(w, "idle")
    BY <1>1, <1>2, Zenon DEF Adopt, AfterOpen
  <2>3. /\ \A v \in Workers : v # w => wpc'[v] = wpc[v] /\ tmp'[v] = tmp[v]
        /\ wpc'[w] = "idle"
    BY <1>0, <1>2, <2>2, Zenon DEF Adopt, Goto
  <2> QED BY <1>1, <1>2, <2>1, <2>2, <2>3, Zenon DEF LoginInv
<1>3. CASE /\ loggedIn /\ CloseSessions({<<w, tmp[w]>>}) /\ UNCHANGED sess
           /\ Goto(w, "reopen")
           /\ tmp' = [tmp EXCEPT ![w] = 0]
  <2>1. PICK u \in Workers : sess[u] # 0
    BY <1>3, Zenon DEF LoginInv
  <2>2. u # w /\ <<u, sess[u]>> \in live \ {<<w, tmp[w]>>}
    BY <1>1, <2>1, Zenon DEF LoginInv
  <2>3. loggedIn' = TRUE /\ live' = live \ {<<w, tmp[w]>>}
    BY <1>3, <2>2, Zenon DEF CloseSessions
  <2>4. /\ \A v \in Workers : v # w => wpc'[v] = wpc[v] /\ tmp'[v] = tmp[v]
        /\ wpc'[w] = "reopen"
    BY <1>0, <1>3, Zenon DEF Goto
  <2>5. ASSUME NEW v \in Workers
        PROVE  /\ sess'[v] # 0 => <<v, sess'[v]>> \in live'
               /\ wpc'[v] = "login" => <<v, tmp'[v]>> \in live'
               /\ wpc'[v] \in {"open", "login", "reopen"} => sess'[v] = 0
    <3>1. CASE v = w
      BY <1>1, <1>3, <2>4, <3>1, Zenon
    <3>2. CASE v # w
      <4>1. \A n : <<v, n>> \in live => <<v, n>> \in live'
        BY <2>3, <3>2, Zenon
      <4> QED BY <1>3, <2>4, <3>2, <4>1, Zenon DEF LoginInv
    <3> QED BY <3>1, <3>2
  <2> QED BY <1>1, <1>3, <2>1, <2>3, <2>5, Zenon DEF LoginInv
<1> QED BY <1>1, <1>2, <1>3, Zenon DEF Login

LEMMA ReopenLogin ==
    ASSUME IInv, LoginInv, NEW w \in Workers, Reopen(w), Calm, \A f : ~Fault(f)
    PROVE  LoginInv'
<1>0. /\ wpc \in [Workers -> PCs] /\ sess \in [Workers -> Nat] /\ tmp \in [Workers -> Nat]
      /\ opened[w] \in Nat
  BY Zenon DEF IInv, TypeOK
<1>1. loggedIn /\ sess[w] = 0 /\ UNCHANGED <<up, loggedIn>> /\ up /\ opened[w] + 1 # 0
  <2>1. opened[w] + 1 # 0
    BY <1>0
  <2> QED BY <2>1, Zenon DEF LoginInv, Reopen
<1>2. Adopt(w, opened[w] + 1)
  BY <1>1, Zenon DEF Reopen
<1>3. /\ live' = (live \cup {<<w, opened[w] + 1>>}) \ {<<w, 0>>}
      /\ \A v \in Workers : v # w => /\ wpc'[v] = wpc[v] /\ tmp'[v] = tmp[v]
                                     /\ sess'[v] = sess[v]
      /\ wpc'[w] = "idle" /\ sess'[w] = opened[w] + 1
  BY <1>0, <1>1, <1>2, Zenon DEF Adopt, AfterOpen, Goto
<1>4. ASSUME NEW v \in Workers
      PROVE  /\ sess'[v] # 0 => <<v, sess'[v]>> \in live'
             /\ wpc'[v] = "login" => <<v, tmp'[v]>> \in live'
             /\ wpc'[v] \in {"open", "login", "reopen"} => sess'[v] = 0
  BY <1>1, <1>3, Zenon DEF LoginInv
<1> QED BY <1>1, <1>3, <1>4, Zenon DEF LoginInv

LEMMA OpenLogin ==
    ASSUME IInv, LoginInv, NEW w \in Workers, OpenSession(w), Calm, \A f : ~Fault(f)
    PROVE  LoginInv'
<1>0. wpc \in [Workers -> PCs] /\ tmp \in [Workers -> Nat]
  BY Zenon DEF IInv, TypeOK
<1>1. up /\ sess[w] = 0 /\ UNCHANGED <<up, loggedIn, sess>>
  BY Zenon DEF LoginInv, OpenSession
<1>2. /\ live' = live \cup {<<w, opened[w] + 1>>}
      /\ tmp' = [tmp EXCEPT ![w] = opened[w] + 1]
      /\ Goto(w, "login")
  BY <1>1, Zenon DEF OpenSession
<1>3. /\ \A v \in Workers : v # w => wpc'[v] = wpc[v] /\ tmp'[v] = tmp[v]
      /\ wpc'[w] = "login" /\ <<w, tmp'[w]>> \in live' /\ live \subseteq live'
  BY <1>0, <1>2, Zenon DEF Goto
<1> QED BY <1>1, <1>3, Zenon DEF LoginInv

LEMMA NextLogin ==
    ASSUME IInv, LoginInv, [Next]_vars
    PROVE  LoginInv'
<1> SUFFICES ASSUME Calm' PROVE LoginInv'
  BY Zenon DEF LoginInv
<1>1. Calm /\ faults' = faults /\ \A f : ~Fault(f)
  BY CalmBefore
<1>2. ASSUME NEW w \in Workers, Lookup(w) \/ Operate(w) PROVE LoginInv'
  <2>1. UNCHANGED <<sess, tmp, live, up, loggedIn>>
    BY <1>2, Zenon DEF Lookup, Operate, tokenVars
  <2>2. ~SessionFatal(w)
    BY <1>1, <1>2, Zenon
       DEF LoginInv, IInv, WorkerConsistent, Consistent, Serving, Lookup, Operate,
           SessionFatal, SessionValid
  <2>3. wpc'[w] # "open"
    <3>1. CASE Lookup(w)
      BY <3>1, WorkerMoves, Zenon DEF IInv, WorkerStep, Lookup, Edge
    <3>2. CASE Operate(w)
      BY <1>1, <2>2, <3>2, Zenon
         DEF Operate, OperateOk, OperateError, OperateFatal, Done, Goto, IInv, TypeOK
    <3> QED BY <1>2, <3>1, <3>2
  <2>4. wpc'[w] \notin {"login", "reopen"}
    BY <1>2, WorkerMoves, Zenon DEF IInv, WorkerStep, Lookup, Operate, Edge
  <2>5. \A v \in Workers : v # w => wpc'[v] = wpc[v]
    BY <1>2, WorkerMoves, Zenon DEF IInv, WorkerStep
  <2> QED BY <1>1, <2>1, <2>3, <2>4, <2>5, LoginFrame, Zenon
<1>3. ASSUME NEW w \in Workers,
             Spawn(w) \/ RecvJob(w) \/ RecvBlock(w) \/ Complete(w) \/ CountFailed(w) \/ Respond(w)
      PROVE  LoginInv'
  <2>1. UNCHANGED <<sess, tmp, live, up, loggedIn>>
    BY <1>3, Zenon DEF Spawn, RecvJob, RecvBlock, Complete, CountFailed, Respond, tokenVars
  <2>2. wpc[w] \in {"off", "idle", "count", "fail", "respond"} /\ (wpc[w] = "off" => sess[w] = 0)
    BY <1>3, Zenon DEF Spawn, RecvJob, RecvBlock, Complete, CountFailed, Respond, IInv,
                       WorkerConsistent, Consistent
  <2>3. Edge(wpc[w], wpc'[w]) /\ \A v \in Workers : v # w => wpc'[v] = wpc[v]
    BY <1>3, WorkerMoves, Zenon DEF IInv, WorkerStep
  <2>4. \/ wpc'[w] \notin {"login", "reopen"} /\ wpc'[w] # "open"
        \/ wpc'[w] = "open" /\ sess[w] = 0
    BY <2>2, <2>3, Zenon DEF Edge
  <2> QED BY <1>1, <2>1, <2>3, <2>4, LoginFrame, Zenon
<1>4. ASSUME NEW w \in Workers PROVE ~RecvClosed(w) /\ ~WorkerFault(w)
  BY <1>1, Zenon DEF Calm, RecvClosed, WorkerFault, SpawnFails, Panic, Crash
<1>5. ASSUME NEW j \in Jobs, Caller(j) PROVE LoginInv'
  <2>1. UNCHANGED <<sess, tmp, live, up, loggedIn>>
    BY <1>5, Zenon DEF Caller, Submit, TrySend, Timeout, Cancel, workerVars, tokenVars
  <2>2. \A v \in Workers : wpc'[v] = wpc[v] \/ wpc'[v] = "lookup"
    BY <1>5, CallerMoves, Zenon DEF IInv
  <2> QED BY <1>1, <2>1, <2>2, LoginFrame, Zenon
<1>6. CASE PoolStep \/ UNCHANGED vars
  <2>1. UNCHANGED <<sess, tmp, live, up, loggedIn, wpc>>
    BY <1>6, Zenon DEF PoolStep, StartOk, StartErr, Shutdown, vars, workerVars, tokenVars
  <2> QED BY <1>1, <2>1, LoginFrame, Zenon
<1>7. ~Token
  BY <1>1, Zenon DEF LoginInv, Token, TokenRemoved, TokenRestored, SessionLost, KeyRotated
<1> QED
  BY <1>1, <1>2, <1>3, <1>4, <1>5, <1>6, <1>7, OpenLogin, LoginLogin, ReopenLogin, Zenon
     DEF Next, WorkerStep

(* The workers' concurrent logins leave every session valid and the application   *)
(* logged in as long as the token does not fail.                                  *)
THEOREM LoginHeldAlways == Spec => []LoginHeld
<1>1. Init => LoginInv
  BY DEF Init, LoginInv
<1>2. LoginInv => LoginHeld
  BY Zenon DEF LoginInv, LoginHeld, Calm, SessionValid
<1> QED BY <1>1, <1>2, NextLogin, ConsistentAlways, PTL DEF Spec, IInv

(***************************************************************************)
(* The answers.  A caller in submit borrows the pool, so that its job ends *)
(* while the sender is alive; and then, without a fault, every worker is   *)
(* there, has found its handles in the version that the token still has,   *)
(* and holds no result that blames the token.                              *)
(***************************************************************************)
Borrowed ==
    \A j \in Jobs : outcome[j] \in {"submitting", "waiting"} => phase = "serving"

Absent(j) == <<req[j].label, KindOf(req[j].op)>> \notin Objects

Blameless(w) ==
    /\ wpc[w] \notin Gone
    /\ \A h \in handles[w] : h.version = version[h.label]
    /\ wpc[w] \in {"count", "fail", "respond"} =>
          /\ wres[w] \notin {"Hsm", "Internal"}
          /\ wres[w] = "KeyNotFound" => Absent(wjob[w])

AnswerInv ==
    /\ Borrowed
    /\ Calm => \A w \in Workers : Blameless(w)
    /\ FaultFreeAnswers

LEMMA NextBorrowed ==
    ASSUME IInv, Borrowed, [Next]_vars
    PROVE  Borrowed'
<1>1. ASSUME NEW w \in Workers, WorkerStep(w) \/ Panic(w) \/ Crash(w) PROVE Borrowed'
  <2>1. phase' = phase
    BY <1>1, PhaseStays
  <2>2. \A j \in Jobs : outcome'[j] = outcome[j] \/ outcome[j] = "waiting"
    BY <1>1, WorkerOutcome, Zenon
  <2> QED BY <2>1, <2>2, Zenon DEF Borrowed
<1>2. ASSUME NEW j \in Jobs, Caller(j) PROVE Borrowed'
  <2>1. phase = "serving"
    BY <1>2, Zenon DEF Caller, Submit, TrySend, Timeout, Cancel, Borrowed
  <2>2. phase' = phase
    BY <1>2, PhaseStays
  <2> QED BY <2>1, <2>2, Zenon DEF Borrowed
<1>3. CASE PoolStep \/ \E w \in Workers : SpawnFails(w)
  <2>1. outcome' = outcome
    BY <1>3, QuietSteps
  <2>2. \/ phase = "starting"
        \/ \A j \in Jobs : outcome[j] \notin {"submitting", "waiting"}
    BY <1>3, Zenon DEF PoolStep, StartOk, StartErr, Shutdown, SpawnFails
  <2> QED BY <2>1, <2>2, Zenon DEF Borrowed
<1>4. CASE Token \/ UNCHANGED vars
  <2>1. phase' = phase /\ outcome' = outcome
    BY <1>4, Zenon DEF Token, TokenRemoved, TokenRestored, SessionLost, KeyRotated, vars,
                       poolVars
  <2> QED BY <2>1, Zenon DEF Borrowed
<1> QED BY <1>1, <1>2, <1>3, <1>4, Zenon DEF Next, WorkerFault

LEMMA OthersBlameless ==
    ASSUME NEW v \in Workers, Blameless(v), req' = req, version' = version,
           wpc'[v] = wpc[v], wjob'[v] = wjob[v], wres'[v] = wres[v],
           handles'[v] = handles[v]
    PROVE  Blameless(v)'
BY Zenon DEF Blameless, Absent

(* A worker that is not about to report a result only has to mind its cache.      *)
LEMMA CacheBlameless ==
    ASSUME NEW v \in Workers, Blameless(v), version' = version,
           handles'[v] \subseteq handles[v],
           wpc'[v] \notin Gone \cup {"count", "fail", "respond"}
    PROVE  Blameless(v)'
BY Zenon DEF Blameless

LEMMA LookupBlameless ==
    ASSUME IInv, LoginInv, Calm, \A f : ~Fault(f), NEW w \in Workers, Blameless(w),
           Lookup(w)
    PROVE  Blameless(w)'
<1>1. /\ UNCHANGED <<req, wjob, version>>
      /\ wpc[w] = "lookup" /\ sess[w] # 0
  BY Zenon DEF Lookup, poolVars, tokenVars, IInv, WorkerConsistent, Consistent, Serving
<1>2. SessionValid(w) /\ loggedIn
  BY <1>1, Zenon DEF LoginInv, SessionValid
<1>3. CASE LookupHit(w)
  <2>1. handles' = handles /\ wpc'[w] = "operate"
    BY <1>3, Zenon DEF LookupHit, Goto, IInv, TypeOK
  <2> QED BY <1>1, <2>1, CacheBlameless, Zenon DEF Gone
<1>4. CASE LookupFound(w)
  <2> DEFINE h == [label |-> Label(w), kind |-> Kind(w),
                   sess |-> sess[w], version |-> version[Label(w)]]
  <2>1. h.version = version[h.label]
    OBVIOUS
  <2>2. handles'[w] = handles[w] \cup {h} /\ wpc'[w] = "operate"
    BY <1>4, Zenon DEF LookupFound, Goto, IInv, TypeOK
  <2> HIDE DEF h
  <2> QED BY <1>1, <2>1, <2>2, Zenon DEF Blameless, Gone
<1>5. CASE LookupFails(w)
  <2>1. /\ ~Visible(Label(w), Kind(w)) /\ Done(w, "KeyNotFound")
        /\ handles' = handles
    BY <1>2, <1>5, Zenon DEF LookupFails
  <2>2. wres'[w] = "KeyNotFound" /\ wpc'[w] = "count"
    BY <2>1, Zenon DEF Done, Goto, IInv, TypeOK
  <2>3. Absent(wjob[w])'
    BY <1>1, <1>2, <2>1, Zenon DEF Visible, Absent, Label, Kind, Op
  <2> QED BY <1>1, <2>1, <2>2, <2>3, Zenon DEF Blameless, Gone
<1> QED BY <1>3, <1>4, <1>5, Zenon DEF Lookup

LEMMA OperateBlameless ==
    ASSUME IInv, LoginInv, Calm, \A f : ~Fault(f), NEW w \in Workers, Blameless(w), KeyOk(w),
           Operate(w)
    PROVE  Blameless(w)'
<1>1. /\ UNCHANGED <<req, wjob, version>>
      /\ wpc[w] = "operate" /\ sess[w] # 0
  BY Zenon DEF Operate, poolVars, tokenVars, IInv, WorkerConsistent, Consistent, Serving
<1>2. ~SessionFatal(w)
  BY <1>1, Zenon DEF LoginInv, SessionValid, SessionFatal
<1>3. ~Stale(w)
  BY <1>1, Zenon DEF KeyOk, Blameless, Stale
<1>4. OperateOk(w)
  BY <1>2, <1>3, Zenon DEF Operate, OperateError, OperateFatal
<1>5. handles' = handles /\ (Done(w, "Ok") \/ Done(w, "InvalidRequest"))
  BY <1>4, Zenon DEF OperateOk
<1>6. wres'[w] \in {"Ok", "InvalidRequest"} /\ wpc'[w] = "count"
  BY <1>5, Zenon DEF Done, Goto, IInv, TypeOK
<1> QED BY <1>1, <1>5, <1>6, Zenon DEF Blameless, Gone

LEMMA OpeningBlameless ==
    ASSUME IInv, LoginInv, Calm, \A f : ~Fault(f), NEW w \in Workers, Blameless(w),
           OpenSession(w) \/ Login(w) \/ Reopen(w)
    PROVE  Blameless(w)'
<1>1. handles' = handles /\ version' = version
  BY Zenon DEF OpenSession, Login, Reopen
<1>2. up /\ sess[w] = 0 /\ (wpc[w] = "login" => <<w, tmp[w]>> \in live)
  BY Zenon DEF LoginInv, OpenSession, Login, Reopen
<1>3. Goto(w, "login") \/ Goto(w, "idle") \/ Goto(w, "reopen")
  BY <1>2, Zenon DEF OpenSession, Login, Reopen, Adopt, AfterOpen
<1>4. wpc'[w] \in {"login", "idle", "reopen"}
  BY <1>3, Zenon DEF Goto, IInv, TypeOK
<1> QED BY <1>1, <1>4, CacheBlameless, Zenon DEF Gone

LEMMA NextBlameless ==
    ASSUME IInv, LoginInv, RightKey, \A w \in Workers : Blameless(w), [Next]_vars, Calm',
           NEW v \in Workers
    PROVE  Blameless(v)'
<1>1. Calm /\ \A f : ~Fault(f)
  BY CalmBefore
<1>2. Blameless(v) /\ KeyOk(v)
  BY Zenon DEF RightKey, KeyOk
<1>3. ~Token /\ \A w \in Workers : ~RecvClosed(w) /\ ~WorkerFault(w)
  BY <1>1, Zenon DEF LoginInv, Token, TokenRemoved, TokenRestored, SessionLost, KeyRotated,
                     Calm, RecvClosed, WorkerFault, SpawnFails, Panic, Crash
<1>4. ASSUME NEW w \in Workers, WorkerStep(w) PROVE version' = version
  BY <1>3, <1>4, Zenon DEF WorkerStep, Spawn, OpenSession, Login, Reopen, RecvJob, RecvBlock,
                           Lookup, Operate, Complete, CountFailed, Respond, tokenVars
<1>5. ASSUME NEW w \in Workers, WorkerStep(w), w # v PROVE Blameless(v)'
  BY <1>2, <1>4, <1>5, OthersUntouched, OthersBlameless, Zenon DEF IInv
<1>6. CASE Spawn(v) \/ RecvJob(v) \/ RecvBlock(v) \/ Respond(v)
  <2>1. handles' = handles
    BY <1>6, Zenon DEF Spawn, RecvJob, RecvBlock, Respond
  <2>2. wpc'[v] \in {"open", "lookup", "waiting", "idle"}
    BY <1>6, Zenon DEF Spawn, RecvJob, RecvBlock, Respond, Goto, IInv, TypeOK
  <2> QED BY <1>2, <1>4, <1>6, <2>1, <2>2, CacheBlameless, Zenon DEF Gone, WorkerStep
<1>7. CASE Complete(v) \/ CountFailed(v)
  <2>1. UNCHANGED <<req, handles, wres, wjob, version>> /\ wpc[v] \in {"count", "fail"}
    BY <1>7, Zenon DEF Complete, CountFailed, poolVars, tokenVars
  <2>2. wpc'[v] \in {"fail", "respond"}
    BY <1>7, Zenon DEF Complete, CountFailed, Goto, IInv, TypeOK
  <2> QED BY <1>2, <2>1, <2>2, Zenon DEF Blameless, Absent, Gone
<1>8. ASSUME NEW j \in Jobs, Caller(j) PROVE Blameless(v)'
  <2>1. UNCHANGED <<req, handles, wres, version>>
    BY <1>8, Zenon DEF Caller, Submit, TrySend, Timeout, Cancel, workerVars, tokenVars
  <2>2. wpc'[v] = "lookup" \/ (wpc'[v] = wpc[v] /\ wjob'[v] = wjob[v])
    BY <1>8, CallerMoves, Zenon DEF IInv
  <2> QED BY <1>2, <2>1, <2>2, CacheBlameless, OthersBlameless, Zenon DEF Gone
<1>9. CASE PoolStep \/ UNCHANGED vars
  <2>1. UNCHANGED <<req, wpc, wjob, wres, handles, version>>
    BY <1>9, Zenon DEF PoolStep, StartOk, StartErr, Shutdown, vars, poolVars, workerVars,
                       tokenVars
  <2> QED BY <1>2, <2>1, OthersBlameless
<1> QED
  BY <1>1, <1>2, <1>3, <1>5, <1>6, <1>7, <1>8, <1>9, LookupBlameless, OperateBlameless,
     OpeningBlameless, Zenon DEF Next, WorkerStep

LEMMA NextAnswers ==
    ASSUME Workers # {}, IInv, LoginInv, RightKey, AnswerInv, [Next]_vars
    PROVE  AnswerInv'
<1>1. Borrowed'
  BY NextBorrowed DEF AnswerInv
<1>2. Calm' => \A w \in Workers : Blameless(w)'
  BY CalmBefore, NextBlameless, Zenon DEF AnswerInv
<1>3. ASSUME faults' = 0, NEW j \in Jobs
      PROVE  /\ outcome'[j] \notin {"Hsm", "Internal", "ShuttingDown"}
             /\ outcome'[j] = "KeyNotFound" => Absent(j)'
  <2>1. faults = 0 /\ \A f : ~Fault(f)
    BY <1>3, FaultsGrow
  <2>2. req' = req
    BY Zenon DEF Next, WorkerStep, WorkerFault, SpawnFails, Panic, Crash, Spawn, OpenSession, Login,
       Reopen, RecvJob, RecvBlock, RecvClosed, Lookup, Operate, Complete, CountFailed, Respond, Caller,
       Submit, TrySend, Timeout, Cancel, PoolStep, StartOk, StartErr, Shutdown, Token,
       TokenRemoved, TokenRestored, SessionLost, KeyRotated, vars, poolVars
  <2>3. /\ outcome[j] \notin {"Hsm", "Internal", "ShuttingDown"}
        /\ outcome[j] = "KeyNotFound" => Absent(j)
    BY <2>1, Zenon DEF AnswerInv, FaultFreeAnswers, Absent
  <2>4. CASE outcome'[j] = outcome[j]
    BY <2>2, <2>3, <2>4, Zenon DEF Absent
  <2>5. ASSUME outcome[j] \in {"submitting", "waiting"}, NEW w \in Workers
        PROVE  Blameless(w)
    BY <2>1, <2>5, Zenon DEF AnswerInv, Borrowed, Calm, SenderAlive
  <2>6. ASSUME NEW w \in Workers, WorkerStep(w) \/ Panic(w) \/ Crash(w), outcome'[j] # outcome[j]
        PROVE  /\ outcome'[j] \notin {"Hsm", "Internal", "ShuttingDown"}
               /\ outcome'[j] = "KeyNotFound" => Absent(j)'
    <3>1. ~Panic(w) /\ ~Crash(w)
      BY <2>1, Zenon DEF Panic, Crash
    <3>2. /\ j = wjob[w] /\ outcome[j] = "waiting" /\ wpc[w] = "respond"
          /\ outcome'[j] = wres[w] /\ wres[w] \in Results
      BY <2>6, <3>1, WorkerOutcome, Zenon DEF Respond
    <3>3. "ShuttingDown" \notin Results
      BY DEF Results, Errors
    <3> QED BY <2>2, <2>5, <3>2, <3>3, Zenon DEF Blameless, Absent
  <2>7. ASSUME NEW k \in Jobs, Caller(k), outcome'[j] # outcome[j]
        PROVE  outcome'[j] \notin {"Hsm", "Internal", "ShuttingDown", "KeyNotFound"}
    <3>1. k = j /\ Told(outcome[j], outcome'[j])
      BY <2>7, CallerOutcome, Zenon DEF IInv
    <3>2. CASE outcome'[j] # "ShuttingDown"
      BY <3>1, <3>2, Zenon DEF Told
    <3>3. CASE outcome'[j] = "ShuttingDown"
      <4>1. outcome[j] = "submitting"
        BY <3>1, <3>3, Zenon DEF Told
      <4>2. PICK w \in Workers : wpc[w] \notin Gone
        BY <2>5, <4>1, Zenon DEF Blameless
      <4>3. PICK r : outcome' = [outcome EXCEPT ![j] = r] /\ r \in {"waiting", "Overloaded"}
        BY <2>7, <3>1, <4>1, <4>2, Zenon DEF Caller, Submit, TrySend, HandOver, Enqueue,
           RejectFull, RejectDisconnected, ReceiversGone, Timeout, Cancel
      <4>4. outcome'[j] # "ShuttingDown"
        BY <4>3, Zenon DEF IInv, TypeOK
      <4> QED BY <3>3, <4>4
    <3> QED BY <3>2, <3>3
  <2>8. CASE PoolStep \/ Token \/ UNCHANGED vars \/ \E w \in Workers : SpawnFails(w)
    BY <2>4, <2>8, QuietSteps
  <2> QED BY <2>4, <2>6, <2>7, <2>8, Zenon DEF Next, WorkerFault
<1> QED BY <1>1, <1>2, <1>3, Zenon DEF AnswerInv, FaultFreeAnswers, Absent

(* As long as the token does not fail and the pool has a worker, no caller is     *)
(* told of an HSM or internal error or of a shutdown, and "not found" is only     *)
(* said of a key that the token lacks, for any number of callers that time out,   *)
(* leave, or race with the shutdown.  HSM_WORKERS = 0 is not refused by           *)
(* PoolConfig, and without a worker every submit is told of a shutdown.           *)
THEOREM FaultFreeAnswersAlways == ASSUME Workers # {} PROVE Spec => []FaultFreeAnswers
<1>1. Init => LoginInv /\ RightKey /\ AnswerInv
  <2>1. Init => LoginInv /\ RightKey
    BY DEF Init, LoginInv, RightKey
  <2>2. Init => AnswerInv
    BY Zenon DEF Init, AnswerInv, Borrowed, Blameless, FaultFreeAnswers, Gone
  <2> QED BY <2>1, <2>2
<1>2. IInv /\ LoginInv /\ RightKey /\ AnswerInv /\ [Next]_vars
        => (LoginInv /\ RightKey /\ AnswerInv)'
  BY NextLogin, NextKey, NextAnswers
<1>3. AnswerInv => FaultFreeAnswers
  BY DEF AnswerInv
<1> QED BY <1>1, <1>2, <1>3, ConsistentAlways, PTL DEF Spec, IInv

=============================================================================
