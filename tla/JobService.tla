----------------------------- MODULE JobService -----------------------------
(***************************************************************************)
(* What Pool::submit promises its callers, without channel, workers, token *)
(* or faults: a job is taken or refused at once; one that is taken is      *)
(* finished at most once, whether or not its caller still waits; the       *)
(* caller gets one outcome; and load is shed only when at least a          *)
(* channelful of jobs is pending.  WorkerPool implements this.             *)
(***************************************************************************)
EXTENDS Naturals, FiniteSets

CONSTANTS
    Jobs,         \* calls of Pool::submit
    Results,      \* what a worker may answer
    QueueDepth    \* capacity of the channel (HSM_QUEUE_DEPTH)

VARIABLES
    outcome,   \* what the caller of each job has seen
    pending    \* jobs that were taken and are not finished

Becomes(j, from, to) ==
    /\ outcome[j] = from
    /\ outcome' = [outcome EXCEPT ![j] = to]

Init ==
    /\ outcome = [j \in Jobs |-> "new"]
    /\ pending = {}

Call(j) == Becomes(j, "new", "submitting") /\ UNCHANGED pending

Take(j) ==
    /\ Becomes(j, "submitting", "waiting")
    /\ pending' = pending \cup {j}

Shed(j) ==
    /\ Cardinality(pending) >= QueueDepth
    /\ Becomes(j, "submitting", "Overloaded")
    /\ UNCHANGED pending

\* No worker is left.
Refuse(j) == Becomes(j, "submitting", "ShuttingDown") /\ UNCHANGED pending

\* The caller's timeout elapses, or its future is dropped; the job stays.
GiveUp(j) ==
    /\ Becomes(j, "waiting", "Timeout") \/ Becomes(j, "waiting", "Cancelled")
    /\ UNCHANGED pending

\* The job has run, or has died with its worker.
Finish(j) ==
    /\ j \in pending
    /\ pending' = pending \ {j}
    /\ \/ \E r \in Results \cup {"ShuttingDown"} : Becomes(j, "waiting", r)
       \/ outcome[j] # "waiting" /\ UNCHANGED outcome

Next == \E j \in Jobs : Call(j) \/ Take(j) \/ Shed(j) \/ Refuse(j) \/ GiveUp(j) \/ Finish(j)

Spec == Init /\ [][Next]_<<outcome, pending>>
=============================================================================
