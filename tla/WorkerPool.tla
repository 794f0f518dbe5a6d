----------------------------- MODULE WorkerPool -----------------------------
(***************************************************************************)
(* The PKCS#11 worker pool (proxy/src/pkcs11): Pool::start, Pool::submit   *)
(* and Pool::shutdown around a bounded flume channel, and the worker       *)
(* threads, each with one session, a cache of object handles and a reset   *)
(* after a session-level failure.                                          *)
(*                                                                         *)
(* A job is one call of Pool::submit.  Every call into the token is a step *)
(* of its own, because the token may change between two of them.  The      *)
(* token itself is external: its sessions, its application-wide login and  *)
(* its key objects are modelled as far as the pool's code relies on them.  *)
(***************************************************************************)
EXTENDS Naturals, Sequences, FiniteSets

CONSTANTS
    Workers,      \* worker threads (HSM_WORKERS of them)
    Jobs,         \* calls of Pool::submit
    NoJob,        \* "this worker holds no job"
    Labels,       \* key labels that requests name
    Objects,      \* the <<label, kind>> pairs provisioned on the token
    Requests,     \* the requests that callers make
    QueueDepth,   \* capacity of the channel (HSM_QUEUE_DEPTH)
    FaultKinds,   \* which faults the environment may inject
    MaxFaults     \* bound on the number of injected faults

Kinds == {"Private", "Public", "Secret"}
Ops   == {"Sign", "Verify", "Encrypt", "Decrypt", "GetPublicKey"}
Faults == {"removed", "lost", "transient", "rotate", "panic", "spawn"}

ASSUME WorkersFinite == IsFiniteSet(Workers)
ASSUME JobsFinite    == IsFiniteSet(Jobs) /\ NoJob \notin Jobs
ASSUME ObjectsTyped  == Objects \subseteq Labels \X Kinds
ASSUME RequestsTyped == Requests \subseteq [op : Ops, label : Labels]
ASSUME BoundsTyped   == /\ QueueDepth \in Nat
                        /\ FaultKinds \subseteq Faults
                        /\ MaxFaults \in Nat

VARIABLES
    phase,      \* of the Pool: "starting", "serving", "failed", "closed"
    queue,      \* jobs in the channel
    req,        \* request of each job
    outcome,    \* what the caller of each job has seen
    wpc,        \* where each worker thread is
    wjob,       \* the job a worker holds
    wkey,       \* the handle a worker is about to use, a set of at most one
    wres,       \* the result a worker has computed for its job
    handles,    \* Worker::handles, the handle cache
    sess,       \* Worker::session, as the number of the open that made it
    tmp,        \* the session login_session has opened but not yet returned
    opened,     \* how many sessions a worker has opened
    live,       \* sessions that are valid on the token
    up,         \* is the token present
    loggedIn,   \* is the application logged in to the token
    version,    \* how often the key under each label has been replaced
    metrics,    \* PoolMetrics
    lost,       \* auxiliary: jobs refused by a dead channel or dropped by a panic
    faults      \* faults injected so far

poolVars   == <<phase, queue, req, outcome>>
workerVars == <<wpc, wjob, wkey, wres, handles, sess, tmp, opened>>
tokenVars  == <<live, up, loggedIn, version>>
vars       == <<poolVars, workerVars, tokenVars, metrics, lost, faults>>

-----------------------------------------------------------------------------
(* Requests, results and handles. *)

\* dispatch: the class of key object that each operation resolves.
KindOf(op) ==
    CASE op = "Sign"                          -> "Private"
      [] op \in {"Verify", "GetPublicKey"}    -> "Public"
      [] op \in {"Encrypt", "Decrypt"}        -> "Secret"

Errors  == {"KeyNotFound", "InvalidRequest", "Hsm", "Internal"}
Results == {"Ok"} \cup Errors
Final   == Results \cup {"Overloaded", "Timeout", "ShuttingDown", "Cancelled"}

\* A handle names an object, in the version that was found, and belongs to the
\* session that found it.
Handle == [label : Labels, kind : Kinds, sess : Nat, version : Nat]

Counters == {"submitted", "completed", "failed", "rejected", "timedOut",
             "resets", "hits", "misses"}

Label(w) == req[wjob[w]].label
Op(w)    == req[wjob[w]].op
Kind(w)  == KindOf(Op(w))

Count(c) == metrics' = [metrics EXCEPT ![c] = @ + 1]

Fault(f) == f \in FaultKinds /\ faults < MaxFaults /\ faults' = faults + 1
NoFault  == faults' = faults

-----------------------------------------------------------------------------
(* The token (external). *)

SessionValid(w) == <<w, sess[w]>> \in live

\* C_CloseSession of S: closing the last session logs the application out.
CloseSessions(S) ==
    /\ live' = live \ S
    /\ loggedIn' = (loggedIn /\ live \ S # {})

\* An object can be found if it exists and, unless public, the login is held.
Visible(label, kind) ==
    <<label, kind>> \in Objects /\ (kind = "Public" \/ loggedIn)

TokenRemoved ==
    /\ up /\ Fault("removed")
    /\ up' = FALSE
    /\ CloseSessions(live)
    /\ UNCHANGED <<poolVars, workerVars, version, metrics, lost>>

TokenRestored ==
    /\ ~up
    /\ up' = TRUE
    /\ UNCHANGED <<poolVars, workerVars, live, loggedIn, version, metrics, lost,
                   faults>>

SessionLost(s) ==
    /\ Fault("lost")
    /\ CloseSessions({s})
    /\ UNCHANGED <<poolVars, workerVars, up, version, metrics, lost>>

\* An administrator replaces the key objects under a label.
KeyRotated(l) ==
    /\ Fault("rotate")
    /\ version' = [version EXCEPT ![l] = @ + 1]
    /\ UNCHANGED <<poolVars, workerVars, live, up, loggedIn, metrics, lost>>

-----------------------------------------------------------------------------
(* Opening a session: open_worker_session, run by Worker::new while the    *)
(* worker has no session yet and by reset_session afterwards.              *)

Goto(w, pc) == wpc' = [wpc EXCEPT ![w] = pc]

\* Mutant: a failed reset tears the worker down.
AfterFailedOpen_TearsDown(w) == "dead"

\* Worker::new returned an error, or reset_session kept the old session.
AfterFailedOpen(w) == IF sess[w] = 0 THEN "dead" ELSE "count"

\* Worker::new returned the worker, or reset_session replaced the session.
AfterOpen(w) == IF sess[w] = 0 THEN "idle" ELSE "count"

\* The new session s replaces the worker's session, which is dropped.
Adopt(w, s) ==
    /\ sess' = [sess EXCEPT ![w] = s]
    /\ tmp' = [tmp EXCEPT ![w] = 0]
    /\ live' = (live \cup {<<w, s>>}) \ {<<w, sess[w]>>}
    /\ Goto(w, AfterOpen(w))

\* login_session: C_OpenSession.
OpenSession(w) ==
    LET s == opened[w] + 1 IN
    /\ wpc[w] = "open"
    /\ \/ /\ up
          /\ opened' = [opened EXCEPT ![w] = s]
          /\ tmp' = [tmp EXCEPT ![w] = s]
          /\ live' = live \cup {<<w, s>>}
          /\ Goto(w, "login")
          /\ NoFault
       \/ /\ (~up /\ NoFault) \/ (up /\ Fault("transient"))
          /\ Goto(w, AfterFailedOpen(w))
          /\ UNCHANGED <<opened, tmp, live>>
    /\ UNCHANGED <<poolVars, wjob, wkey, wres, handles, sess, up, loggedIn,
                   version, metrics, lost>>

\* Mutant: UserAlreadyLoggedIn returns the session that has just been dropped.
Login_ReturnsDropped(w) ==
    LET opening == <<w, tmp[w]>> IN
    /\ wpc[w] = "login" /\ opening \in live /\ NoFault
    /\ \/ ~loggedIn /\ Adopt(w, tmp[w]) /\ loggedIn' = TRUE
       \/ /\ loggedIn /\ CloseSessions({opening})
          /\ Goto(w, AfterOpen(w))
          /\ sess' = [sess EXCEPT ![w] = tmp[w]]
          /\ tmp' = [tmp EXCEPT ![w] = 0]
    /\ UNCHANGED <<poolVars, wjob, wkey, wres, handles, opened, up, version,
                   metrics, lost>>

\* login_session: C_Login on the session just opened.  UserAlreadyLoggedIn drops
\* that session and opens another; any other error is returned.
Login(w) ==
    LET opening == <<w, tmp[w]>> IN
    /\ wpc[w] = "login"
    /\ \/ /\ opening \in live /\ ~loggedIn /\ NoFault
          /\ Adopt(w, tmp[w])
          /\ loggedIn' = TRUE
       \/ /\ opening \in live /\ loggedIn /\ NoFault
          /\ CloseSessions({opening})
          /\ Goto(w, "reopen")
          /\ tmp' = [tmp EXCEPT ![w] = 0]
          /\ UNCHANGED sess
       \/ /\ \/ opening \notin live /\ NoFault
             \/ opening \in live /\ Fault("transient")
          /\ CloseSessions({opening})
          /\ Goto(w, AfterFailedOpen(w))
          /\ tmp' = [tmp EXCEPT ![w] = 0]
          /\ UNCHANGED sess
    /\ UNCHANGED <<poolVars, wjob, wkey, wres, handles, opened, up, version,
                   metrics, lost>>

\* open_worker_session: already logged in, so a plain session is enough.
Reopen(w) ==
    LET s == opened[w] + 1 IN
    /\ wpc[w] = "reopen"
    /\ \/ /\ up /\ NoFault
          /\ opened' = [opened EXCEPT ![w] = s]
          /\ Adopt(w, s)
       \/ /\ (~up /\ NoFault) \/ (up /\ Fault("transient"))
          /\ Goto(w, AfterFailedOpen(w))
          /\ UNCHANGED <<sess, tmp, opened, live>>
    /\ UNCHANGED <<poolVars, wjob, wkey, wres, handles, up, loggedIn, version,
                   metrics, lost>>

-----------------------------------------------------------------------------
(* Pool::start and Pool::shutdown. *)

Opening == {"off", "open", "login", "reopen"}
Gone    == {"dead", "crashed", "exited"}

Spawn(w) ==
    /\ phase = "starting" /\ wpc[w] = "off"
    /\ Goto(w, "open")
    /\ UNCHANGED <<poolVars, wjob, wkey, wres, handles, sess, tmp, opened,
                   tokenVars, metrics, lost, faults>>

\* Builder::spawn fails: start returns, dropping the sender.
SpawnFails(w) ==
    /\ phase = "starting" /\ wpc[w] = "off" /\ Fault("spawn")
    /\ phase' = "failed"
    /\ UNCHANGED <<queue, req, outcome, workerVars, tokenVars, metrics, lost>>

\* Mutant: the ready loop stops at the first Ok.
StartOk_FirstOk ==
    /\ phase = "starting"
    /\ \E w \in Workers : wpc[w] \notin Opening \cup Gone
    /\ phase' = "serving"
    /\ UNCHANGED <<queue, req, outcome, workerVars, tokenVars, metrics, lost, faults>>

\* The ready loop has heard Ok from every worker.
StartOk ==
    /\ phase = "starting"
    /\ \A w \in Workers : wpc[w] \notin Opening \cup Gone
    /\ phase' = "serving"
    /\ UNCHANGED <<queue, req, outcome, workerVars, tokenVars, metrics, lost, faults>>

\* The ready loop hears one Err, or that nobody is left who could report: every
\* running worker holds a ready_tx.  start returns an error, dropping the sender.
StartErr ==
    /\ phase = "starting"
    /\ \A w \in Workers : wpc[w] # "off"
    /\ \/ \E w \in Workers : wpc[w] = "dead"
       \/ Workers # {} /\ \A w \in Workers : wpc[w] = "crashed"
    /\ phase' = "failed"
    /\ UNCHANGED <<queue, req, outcome, workerVars, tokenVars, metrics, lost, faults>>

\* shutdown takes the Pool by value, so no submit future still borrows it.
Shutdown ==
    /\ phase = "serving"
    /\ \A j \in Jobs : outcome[j] \notin {"submitting", "waiting"}
    /\ phase' = "closed"
    /\ UNCHANGED <<queue, req, outcome, workerVars, tokenVars, metrics, lost, faults>>

SenderAlive == phase \in {"starting", "serving"}

-----------------------------------------------------------------------------
(* Pool::submit. *)

\* jobs_submitted is incremented before the job is offered to the channel.
Submit(j) ==
    /\ phase = "serving" /\ outcome[j] = "new"
    /\ outcome' = [outcome EXCEPT ![j] = "submitting"]
    /\ Count("submitted")
    /\ UNCHANGED <<phase, queue, req, workerVars, tokenVars, lost, faults>>

ReceiversGone == \A w \in Workers : wpc[w] \in Gone
Waiting == {w \in Workers : wpc[w] = "waiting"}

\* flume's try_send (external): a receiver blocked in recv gets the message itself.
HandOver(j) ==
    /\ ~ReceiversGone
    /\ \E w \in Waiting :
          /\ wjob' = [wjob EXCEPT ![w] = j]
          /\ Goto(w, "lookup")
    /\ outcome' = [outcome EXCEPT ![j] = "waiting"]
    /\ UNCHANGED <<queue, metrics, lost>>

\* Mutant: the capacity check is off by one.
Enqueue_OffByOne(j) ==
    /\ ~ReceiversGone /\ Waiting = {} /\ Len(queue) <= QueueDepth
    /\ queue' = Append(queue, j)
    /\ outcome' = [outcome EXCEPT ![j] = "waiting"]
    /\ UNCHANGED <<wpc, wjob, metrics, lost>>

Enqueue(j) ==
    /\ ~ReceiversGone /\ Waiting = {} /\ Len(queue) < QueueDepth
    /\ queue' = Append(queue, j)
    /\ outcome' = [outcome EXCEPT ![j] = "waiting"]
    /\ UNCHANGED <<wpc, wjob, metrics, lost>>

\* Mutant: load is shed whenever no worker is blocked in recv.
RejectFull_NoReceiver(j) ==
    /\ ~ReceiversGone /\ Waiting = {}
    /\ outcome' = [outcome EXCEPT ![j] = "Overloaded"]
    /\ Count("rejected")
    /\ UNCHANGED <<queue, wpc, wjob, lost>>

RejectFull(j) ==
    /\ ~ReceiversGone /\ Waiting = {} /\ Len(queue) >= QueueDepth
    /\ outcome' = [outcome EXCEPT ![j] = "Overloaded"]
    /\ Count("rejected")
    /\ UNCHANGED <<queue, wpc, wjob, lost>>

RejectDisconnected(j) ==
    /\ ReceiversGone
    /\ outcome' = [outcome EXCEPT ![j] = "ShuttingDown"]
    /\ lost' = lost + 1
    /\ UNCHANGED <<queue, wpc, wjob, metrics>>

TrySend(j) ==
    /\ outcome[j] = "submitting"
    /\ HandOver(j) \/ Enqueue(j) \/ RejectFull(j) \/ RejectDisconnected(j)
    /\ UNCHANGED <<phase, req, wkey, wres, handles, sess, tmp, opened, tokenVars,
                   faults>>

\* job_timeout elapses: the caller leaves, the job stays where it is.
Timeout(j) ==
    /\ outcome[j] = "waiting"
    /\ outcome' = [outcome EXCEPT ![j] = "Timeout"]
    /\ Count("timedOut")
    /\ UNCHANGED <<phase, queue, req, workerVars, tokenVars, lost, faults>>

\* The handler's future is dropped (client gone, or the server's request timeout).
Cancel(j) ==
    /\ outcome[j] = "waiting"
    /\ outcome' = [outcome EXCEPT ![j] = "Cancelled"]
    /\ UNCHANGED <<phase, queue, req, workerVars, tokenVars, metrics, lost, faults>>

-----------------------------------------------------------------------------
(* Worker::run: receive, execute, count, respond. *)

\* Mutant: the job is read but not removed.
RecvJob_Peek(w) ==
    /\ wpc[w] = "idle" /\ queue # <<>>
    /\ wjob' = [wjob EXCEPT ![w] = Head(queue)]
    /\ Goto(w, "lookup")
    /\ UNCHANGED <<poolVars, wkey, wres, handles, sess, tmp, opened, tokenVars,
                   metrics, lost, faults>>

RecvJob(w) ==
    /\ wpc[w] = "idle" /\ queue # <<>>
    /\ wjob' = [wjob EXCEPT ![w] = Head(queue)]
    /\ queue' = Tail(queue)
    /\ Goto(w, "lookup")
    /\ UNCHANGED <<phase, req, outcome, wkey, wres, handles, sess, tmp, opened,
                   tokenVars, metrics, lost, faults>>

\* Mutant: the receiver goes to sleep without looking at the queue.
RecvBlock_LostWakeup(w) ==
    /\ wpc[w] = "idle" /\ SenderAlive
    /\ Goto(w, "waiting")
    /\ UNCHANGED <<poolVars, wjob, wkey, wres, handles, sess, tmp, opened,
                   tokenVars, metrics, lost, faults>>

RecvBlock(w) ==
    /\ wpc[w] = "idle" /\ queue = <<>> /\ SenderAlive
    /\ Goto(w, "waiting")
    /\ UNCHANGED <<poolVars, wjob, wkey, wres, handles, sess, tmp, opened,
                   tokenVars, metrics, lost, faults>>

\* The thread ends and drops its Worker, whose session is closed.
DropWorker(w, pc) ==
    /\ Goto(w, pc)
    /\ sess' = [sess EXCEPT ![w] = 0]
    /\ handles' = [handles EXCEPT ![w] = {}]
    /\ wkey' = [wkey EXCEPT ![w] = {}]

\* Mutants: a worker leaves as soon as the sender is gone, without draining; a
\* worker that sleeps in recv is not woken when the sender is dropped.
RecvClosed_NoDrain(w) ==
    /\ wpc[w] \in {"idle", "waiting"} /\ ~SenderAlive
    /\ DropWorker(w, "exited")
    /\ CloseSessions({<<w, sess[w]>>})
    /\ UNCHANGED <<poolVars, wjob, wres, tmp, opened, up, version, metrics, lost,
                   faults>>

RecvClosed_NotWoken(w) ==
    /\ wpc[w] = "idle" /\ queue = <<>> /\ ~SenderAlive
    /\ DropWorker(w, "exited")
    /\ CloseSessions({<<w, sess[w]>>})
    /\ UNCHANGED <<poolVars, wjob, wres, tmp, opened, up, version, metrics, lost,
                   faults>>

\* recv reports a closed, empty channel: C_Logout, then the session is dropped.
\* The logout takes effect for the whole application.
RecvClosed(w) ==
    /\ wpc[w] \in {"idle", "waiting"} /\ queue = <<>> /\ ~SenderAlive
    /\ DropWorker(w, "exited")
    /\ live' = live \ {<<w, sess[w]>>}
    /\ loggedIn' = (loggedIn /\ ~SessionValid(w) /\ live' # {})
    /\ UNCHANGED <<poolVars, wjob, wres, tmp, opened, up, version, metrics, lost,
                   faults>>

\* Mutant: a path through dispatch leaves no result behind.
Done_NoResult(w, r) ==
    /\ wkey' = [wkey EXCEPT ![w] = {}]
    /\ Goto(w, "count")
    /\ UNCHANGED wres

\* execute: a result that is not session-fatal ends the job.
Done(w, r) ==
    /\ wres' = [wres EXCEPT ![w] = r]
    /\ wkey' = [wkey EXCEPT ![w] = {}]
    /\ Goto(w, "count")

\* Mutant: the cache is consulted by label alone, not by object class.
Cached_ByLabel(w) == {h \in handles[w] : h.label = Label(w)}

\* The cached handles that answer a request for this label and class.
Cached(w) == {h \in handles[w] : h.label = Label(w) /\ h.kind = Kind(w)}

LookupHit(w) ==
    /\ \E h \in Cached(w) : wkey' = [wkey EXCEPT ![w] = {h}]
    /\ Goto(w, "operate")
    /\ Count("hits")
    /\ NoFault
    /\ UNCHANGED <<wres, handles>>

\* find_object succeeds, and the handle is cached for this session.
LookupFound(w) ==
    LET h == [label |-> Label(w), kind |-> Kind(w),
              sess |-> sess[w], version |-> version[Label(w)]] IN
    /\ Cached(w) = {} /\ SessionValid(w) /\ Visible(Label(w), Kind(w))
    /\ handles' = [handles EXCEPT ![w] = @ \cup {h}]
    /\ wkey' = [wkey EXCEPT ![w] = {h}]
    /\ Goto(w, "operate")
    /\ Count("misses")
    /\ NoFault
    /\ UNCHANGED wres

\* Mutant: an absent object is reported like a failed search.
LookupFails_AbsentIsInternal(w) ==
    /\ Cached(w) = {}
    /\ ~SessionValid(w) \/ ~Visible(Label(w), Kind(w))
    /\ NoFault /\ Done(w, "Internal")
    /\ Count("misses")
    /\ UNCHANGED handles

\* find_object reports an error, which becomes Internal whatever its cause, or
\* finds nothing.
LookupFails(w) ==
    /\ Cached(w) = {}
    /\ \/ ~SessionValid(w) /\ NoFault /\ Done(w, "Internal")
       \/ SessionValid(w) /\ Fault("transient") /\ Done(w, "Internal")
       \/ /\ SessionValid(w) /\ ~Visible(Label(w), Kind(w))
          /\ NoFault /\ Done(w, "KeyNotFound")
    /\ Count("misses")
    /\ UNCHANGED handles

\* Worker::handle.
Lookup(w) ==
    /\ wpc[w] = "lookup"
    /\ LookupHit(w) \/ LookupFound(w) \/ LookupFails(w)
    /\ UNCHANGED <<poolVars, wjob, sess, tmp, opened, tokenVars, lost>>

\* is_session_fatal for the errors that the operation's own call can report.
SessionFatal(w) == ~SessionValid(w) \/ (Kind(w) # "Public" /\ ~loggedIn)

\* The object behind the handle has been replaced since it was found.
Stale(w) == \E h \in wkey[w] : h.version # version[h.label]

\* The call succeeds, or the token rejects the caller's data.
OperateOk(w) ==
    /\ ~SessionFatal(w) /\ ~Stale(w) /\ NoFault
    /\ \/ Done(w, "Ok")
       \/ Op(w) \in {"Encrypt", "Decrypt"} /\ Done(w, "InvalidRequest")
    /\ UNCHANGED <<handles, metrics>>

\* The call fails with an error that leaves the session usable.
OperateError(w) ==
    /\ ~SessionFatal(w)
    /\ (Stale(w) /\ NoFault) \/ (~Stale(w) /\ Fault("transient"))
    /\ Done(w, IF Op(w) = "GetPublicKey" THEN "Internal" ELSE "Hsm")
    /\ UNCHANGED <<handles, metrics>>

\* The call fails because of the session (or with a device error).  execute resets
\* the session unless the operation was GetPublicKey, whose errors are Internal.
OperateFatal(w) ==
    /\ (SessionFatal(w) /\ NoFault) \/ (~SessionFatal(w) /\ Fault("transient"))
    /\ \/ /\ Op(w) = "GetPublicKey"
          /\ Done(w, "Internal")
          /\ UNCHANGED <<handles, metrics>>
       \/ /\ Op(w) # "GetPublicKey"
          /\ wres' = [wres EXCEPT ![w] = "Hsm"]
          /\ wkey' = [wkey EXCEPT ![w] = {}]
          /\ handles' = [handles EXCEPT ![w] = {}]
          /\ Count("resets")
          /\ Goto(w, "open")

\* The token call of dispatch, and execute's reaction to its result.
Operate(w) ==
    /\ wpc[w] = "operate"
    /\ OperateOk(w) \/ OperateError(w) \/ OperateFatal(w)
    /\ UNCHANGED <<poolVars, wjob, sess, tmp, opened, tokenVars, lost>>

\* Mutant: a failed job counts as failed only.
Complete_FailedOnly(w) ==
    /\ wpc[w] = "count"
    /\ \/ wres[w] = "Ok" /\ Count("completed") /\ Goto(w, "respond")
       \/ wres[w] # "Ok" /\ UNCHANGED metrics /\ Goto(w, "fail")
    /\ UNCHANGED <<poolVars, wjob, wkey, wres, handles, sess, tmp, opened,
                   tokenVars, lost, faults>>

\* jobs_completed is incremented before the caller is answered.
Complete(w) ==
    /\ wpc[w] = "count"
    /\ Count("completed")
    /\ Goto(w, IF wres[w] = "Ok" THEN "respond" ELSE "fail")
    /\ UNCHANGED <<poolVars, wjob, wkey, wres, handles, sess, tmp, opened,
                   tokenVars, lost, faults>>

\* And then, for an error, jobs_failed.
CountFailed(w) ==
    /\ wpc[w] = "fail"
    /\ Count("failed")
    /\ Goto(w, "respond")
    /\ UNCHANGED <<poolVars, wjob, wkey, wres, handles, sess, tmp, opened,
                   tokenVars, lost, faults>>

\* A caller that has left is no error.
Respond(w) ==
    /\ wpc[w] = "respond"
    /\ outcome' = [outcome EXCEPT
                     ![wjob[w]] = IF @ = "waiting" THEN wres[w] ELSE @]
    /\ wjob' = [wjob EXCEPT ![w] = NoJob]
    /\ wres' = [wres EXCEPT ![w] = "none"]
    /\ Goto(w, "idle")
    /\ UNCHANGED <<phase, queue, req, wkey, handles, sess, tmp, opened, tokenVars,
                   metrics, lost, faults>>

\* The thread unwinds out of dispatch: the responder and the session are dropped.
Panic(w) ==
    /\ wpc[w] \in {"lookup", "operate"} /\ Fault("panic")
    /\ outcome' = [outcome EXCEPT
                     ![wjob[w]] = IF @ = "waiting" THEN "ShuttingDown" ELSE @]
    /\ wjob' = [wjob EXCEPT ![w] = NoJob]
    /\ DropWorker(w, "dead")
    /\ lost' = lost + 1
    /\ CloseSessions({<<w, sess[w]>>})
    /\ UNCHANGED <<phase, queue, req, wres, tmp, opened, up, version, metrics>>

\* The same in Worker::new: the thread ends without a word to start.
Crash(w) ==
    /\ wpc[w] \in Opening \ {"off"} /\ sess[w] = 0 /\ Fault("panic")
    /\ DropWorker(w, "crashed")
    /\ tmp' = [tmp EXCEPT ![w] = 0]
    /\ CloseSessions({<<w, tmp[w]>>})
    /\ UNCHANGED <<poolVars, wjob, wres, opened, up, version, metrics, lost>>

-----------------------------------------------------------------------------
Init ==
    /\ phase = "starting"
    /\ queue = <<>>
    /\ req \in [Jobs -> Requests]
    /\ outcome = [j \in Jobs |-> "new"]
    /\ wpc = [w \in Workers |-> "off"]
    /\ wjob = [w \in Workers |-> NoJob]
    /\ wkey = [w \in Workers |-> {}]
    /\ wres = [w \in Workers |-> "none"]
    /\ handles = [w \in Workers |-> {}]
    /\ sess = [w \in Workers |-> 0]
    /\ tmp = [w \in Workers |-> 0]
    /\ opened = [w \in Workers |-> 0]
    /\ live = {}
    /\ up = TRUE
    /\ loggedIn = FALSE
    /\ version = [l \in Labels |-> 0]
    /\ metrics = [c \in Counters |-> 0]
    /\ lost = 0
    /\ faults = 0

WorkerStep(w) ==
    \/ Spawn(w) \/ OpenSession(w) \/ Login(w) \/ Reopen(w)
    \/ RecvJob(w) \/ RecvBlock(w) \/ RecvClosed(w)
    \/ Lookup(w) \/ Operate(w) \/ Complete(w) \/ CountFailed(w) \/ Respond(w)

WorkerFault(w) == SpawnFails(w) \/ Panic(w) \/ Crash(w)

Caller(j) == Submit(j) \/ TrySend(j) \/ Timeout(j) \/ Cancel(j)

PoolStep == StartOk \/ StartErr \/ Shutdown

Token ==
    \/ TokenRemoved \/ TokenRestored
    \/ \E s \in live : SessionLost(s)
    \/ \E l \in Labels : KeyRotated(l)

Next ==
    \/ \E w \in Workers : WorkerStep(w) \/ WorkerFault(w)
    \/ \E j \in Jobs : Caller(j)
    \/ PoolStep
    \/ Token

Spec == Init /\ [][Next]_vars

-----------------------------------------------------------------------------
(* Properties. *)

Busy == {"lookup", "operate", "open", "login", "reopen", "count", "fail", "respond"}
PCs  == {"off", "idle", "waiting"} \cup Busy \cup Gone

(* Type correctness of the pool, the workers, the token and the counters.         *)
TypeOK ==
    /\ phase \in {"starting", "serving", "failed", "closed"}
    /\ queue \in Seq(Jobs)
    /\ req \in [Jobs -> Requests]
    /\ outcome \in [Jobs -> {"new", "submitting", "waiting"} \cup Final]
    /\ wpc \in [Workers -> PCs]
    /\ wjob \in [Workers -> Jobs \cup {NoJob}]
    /\ wkey \in [Workers -> SUBSET Handle]
    /\ wres \in [Workers -> Results \cup {"none"}]
    /\ handles \in [Workers -> SUBSET Handle]
    /\ sess \in [Workers -> Nat]
    /\ tmp \in [Workers -> Nat]
    /\ opened \in [Workers -> Nat]
    /\ live \subseteq Workers \X Nat
    /\ up \in BOOLEAN
    /\ loggedIn \in BOOLEAN
    /\ version \in [Labels -> Nat]
    /\ metrics \in [Counters -> Nat]
    /\ lost \in Nat
    /\ faults \in 0..MaxFaults

Serving == {"lookup", "operate", "count", "fail", "respond"}

Consistent(w) ==
    /\ wpc[w] \in {"off"} \cup Gone => sess[w] = 0 /\ wjob[w] = NoJob /\ handles[w] = {}
    /\ wpc[w] \in {"idle", "waiting"} => sess[w] # 0 /\ wjob[w] = NoJob
    /\ wpc[w] \in Serving => sess[w] # 0 /\ wjob[w] # NoJob
    /\ wpc[w] \in {"open", "login", "reopen"} =>
          /\ sess[w] = 0 <=> wjob[w] = NoJob
          /\ wjob[w] # NoJob => wres[w] # "none"
          /\ handles[w] = {}
    /\ wpc[w] \in {"count", "fail", "respond"} => wres[w] # "none"
    /\ wpc[w] = "login" => tmp[w] # 0

(* A worker's thread, job, session and handles agree, also when a reset fails     *)
(* half way: it holds a job exactly while it executes one, a worker that reopens  *)
(* its session in the middle of a job has the job's result in hand, and only a    *)
(* worker that has not started or has ended is without a session.                 *)
WorkerConsistent == \A w \in Workers : Consistent(w)

\* Job j is in the channel or with a worker.
InPool(j) == (\E i \in DOMAIN queue : queue[i] = j) \/ (\E w \in Workers : wjob[w] = j)

(* Every job is in one place: at most one position of the channel or one worker.  *)
(* A caller that waits in submit has its job in the pool, and a job in the pool   *)
(* was accepted, not rejected, and has not been answered.  So no accepted job is  *)
(* lost or executed twice, whatever callers time out or workers die.              *)
JobCustody ==
    /\ \A i, k \in DOMAIN queue : queue[i] = queue[k] => i = k
    /\ \A w \in Workers, i \in DOMAIN queue : wjob[w] # queue[i]
    /\ \A v, w \in Workers : wjob[v] = wjob[w] /\ wjob[v] # NoJob => v = w
    /\ \A j \in Jobs : outcome[j] = "waiting" => InPool(j)
    /\ \A j \in Jobs : InPool(j) => outcome[j] \in {"waiting", "Timeout", "Cancelled"}

Submitting == {j \in Jobs : outcome[j] = "submitting"}
TimedOut   == {j \in Jobs : outcome[j] = "Timeout"}
Answered   == {j \in Jobs : outcome[j] \in Results}
At(pcs)    == {w \in Workers : wpc[w] \in pcs /\ wjob[w] # NoJob}
Counted    == {"fail", "respond"}

(* The counters of PoolMetrics balance in every state, not only when the pool is  *)
(* quiet: a submitted job is rejected, lost with a dead worker, on its way into   *)
(* the channel, queued, executing, or completed; every executed lookup is a cache *)
(* hit or a miss; jobs_timed_out counts the callers that timed out; a failed job  *)
(* is among the completed ones, also for a reader between the two increments; and *)
(* a caller that has its answer finds the job already counted as completed.       *)
Accounting ==
    /\ metrics["submitted"] = metrics["rejected"] + lost + Cardinality(Submitting)
                              + Len(queue) + Cardinality(At(Busy \ Counted))
                              + metrics["completed"]
    /\ metrics["hits"] + metrics["misses"]
         >= metrics["completed"] + Cardinality(At(Busy \ ({"lookup"} \cup Counted)))
    /\ metrics["timedOut"] = Cardinality(TimedOut)
    /\ metrics["failed"] + Cardinality(At({"fail"})) <= metrics["completed"]
    /\ Cardinality(Answered) <= metrics["completed"]

(* The channel is the only place where work waits, it is bounded, and no worker   *)
(* sleeps in recv while a job is queued: the pool holds at most one job per       *)
(* worker besides QueueDepth, so a caller that is accepted waits behind no more   *)
(* than QueueDepth others.                                                        *)
WorkConserving ==
    /\ Len(queue) <= QueueDepth
    /\ Waiting # {} => queue = <<>>
    /\ \A w \in Workers : wpc[w] \in {"idle", "waiting"} \cup Gone => wjob[w] = NoJob

(* A token operation uses a handle for the label and the object class that the    *)
(* request names, found on the session that the worker holds now; and so is every *)
(* handle in the worker's cache, through every reset and every failed reset.      *)
RightKey ==
    \A w \in Workers :
        /\ \A h \in handles[w] : h.sess = sess[w]
        /\ wpc[w] = "operate" =>
             \E h \in handles[w] : /\ wkey[w] = {h}
                                   /\ h.label = Label(w) /\ h.kind = Kind(w)

(* The pool serves only when every worker has its session: a worker without one   *)
(* has ended, after serving began.                                                *)
NoHalfBuiltPool ==
    phase = "serving" => \A w \in Workers : sess[w] # 0 \/ wpc[w] \in Gone

(* As long as the token does not fail, the workers' concurrent logins leave every *)
(* session valid and the application logged in until the sender is dropped,       *)
(* although only one login succeeds and the losers close the session they opened. *)
LoginHeld ==
    faults = 0 /\ SenderAlive =>
        \A w \in Workers : sess[w] # 0 => SessionValid(w) /\ loggedIn

(* As long as the token does not fail, no caller sees an HSM or internal error or *)
(* a shutdown, and "not found" is only said of keys that the token lacks.         *)
FaultFreeAnswers ==
    faults = 0 =>
        \A j \in Jobs :
            /\ outcome[j] \notin {"Hsm", "Internal", "ShuttingDown"}
            /\ outcome[j] = "KeyNotFound" =>
                   <<req[j].label, KindOf(req[j].op)>> \notin Objects

(* What submit has returned stands: the answer of a worker that finishes after    *)
(* the caller has timed out or was cancelled goes nowhere.                        *)
OutcomeStands ==
    [][\A j \in Jobs : outcome[j] \in Final => outcome'[j] = outcome[j]]_vars

(* The pool keeps the promise of JobService: it takes a job once, finishes it at   *)
(* most once, gives its caller one outcome, and sheds load only when a channelful *)
(* of jobs is pending, through every race of answers, timeouts and faults.        *)
Promise == INSTANCE JobService WITH pending <- {j \in Jobs : InPool(j)}
KeepsPromise == Promise!Spec

(* "recover before the next job rather than failing every subsequent request on   *)
(* this worker" (worker.rs, execute): a token call made on a session that is no   *)
(* longer valid does not end the job before the session has been reopened.        *)
SessionFailureResets ==
    [][\A w \in Workers :
          wpc[w] \in {"lookup", "operate"} /\ ~SessionValid(w) => wpc'[w] # "count"]_vars

-----------------------------------------------------------------------------
(* Liveness: the threads run and the token calls return.  Nothing is assumed of   *)
(* callers, timeouts or the token.                                                *)

Fairness ==
    /\ \A w \in Workers : WF_vars(WorkerStep(w))
    /\ WF_vars(StartOk \/ StartErr)

FairSpec == Spec /\ Fairness

(* An accepted job leaves the pool, executed or lost with its worker, unless all  *)
(* workers have died; it does not need its caller to stay.                        *)
AcceptedJobRuns ==
    \A j \in Jobs : InPool(j) ~> ~InPool(j) \/ ReceiversGone

(* Once the sender is dropped, by shutdown or by a failed start, every spawned    *)
(* worker ends, so that shutdown's joins return.                                  *)
WorkersEnd ==
    ~SenderAlive ~> \A w \in Workers : wpc[w] \in Gone \cup {"off"}

(* When the workers have ended without a panic, the channel has been drained.     *)
DrainedAtExit ==
    phase = "closed" /\ (\A w \in Workers : wpc[w] = "exited") /\ Workers # {}
        => queue = <<>>

=============================================================================
