------------------------------- MODULE Ceiling -------------------------------
(***************************************************************************)
(* One point of hsm-ceiling (run_point in proxy/src/bin/hsm-ceiling.rs):   *)
(* threads that open a session and find the key, meet main at a barrier,   *)
(* and sign until main tells them to stop; main then joins them, in order. *)
(* An error ends a thread at once, also before the barrier.                *)
(***************************************************************************)
EXTENDS Provision

CONSTANTS
    Threads     \* how many threads; main is 0, and they are 1..Threads

ASSUME ThreadsTyped == Threads \in Nat \ {0}

VARIABLES
    measured,   \* the label of the key that is measured
    pos,        \* where main and the threads are
    waiting,    \* who waits at the barrier
    stop        \* the flag that ends the loops

ceilingVars == <<measured, pos, waiting, stop>>

CeilingInit ==
    /\ measured = "none"
    /\ pos = [x \in 0..Threads |-> "new"]
    /\ waiting = {} /\ stop = FALSE

Goto(x, p) == pos' = [pos EXCEPT ![x] = p]

\* main takes a key, spawns the threads and goes on to the barrier.
RunPoint ==
    /\ pos[0] = "new" /\ completed
    /\ measured' \in KeyPairs
    /\ Goto(0, "ready")
    /\ UNCHANGED <<provVars, waiting, stop>>

\* A thread opens its session, by login or, once another has logged in, without, and
\* finds the key.  An error of the token, or a missing key, ends it.
Prepares(x) ==
    /\ x # 0 /\ pos[x] = "new" /\ pos[0] # "new"
    /\ \/ /\ Found(objects, "Private", measured) # {}
          /\ Goto(x, "ready")
       \/ Goto(x, "failed")
    /\ UNCHANGED <<provVars, measured, waiting, stop>>

\* Mutant: the barrier is for the threads alone.
Size_Threads == Threads

\* Barrier::new.
Size == Threads + 1

\* barrier.wait: the last one to arrive lets everyone through.
Wait(x) ==
    /\ pos[x] = "ready"
    /\ LET here == waiting \cup {x} IN
       \/ /\ Cardinality(here) < Size
          /\ waiting' = here
          /\ Goto(x, "waiting")
       \/ /\ Cardinality(here) = Size
          /\ waiting' = {}
          /\ pos' = [y \in 0..Threads |-> IF y \in here THEN "running" ELSE pos[y]]
    /\ UNCHANGED <<provVars, measured, stop>>

\* main has slept for the duration of the point.
Stop ==
    /\ pos[0] = "running"
    /\ stop' = TRUE
    /\ Goto(0, "joining")
    /\ UNCHANGED <<provVars, measured, waiting>>

\* A thread leaves its loop: it has seen the flag, or a signature has failed.
Leave(x) ==
    /\ x # 0 /\ pos[x] = "running"
    /\ \/ stop /\ Goto(x, "done")
       \/ Goto(x, "failed")
    /\ UNCHANGED <<provVars, measured, waiting, stop>>

\* The threads are joined in order; the first error is the result.
Join ==
    /\ pos[0] = "joining"
    /\ \/ /\ \A x \in 1..Threads : pos[x] = "done"
          /\ Goto(0, "done")
       \/ /\ \E x \in 1..Threads : pos[x] = "failed" /\ \A y \in 1..(x - 1) : pos[y] = "done"
          /\ Goto(0, "failed")
    /\ UNCHANGED <<provVars, measured, waiting, stop>>

CeilingNext ==
    \/ RunPoint \/ Stop \/ Join
    \/ \E x \in 0..Threads : Prepares(x) \/ Wait(x) \/ Leave(x)

-----------------------------------------------------------------------------
\* The threads run, the sleep ends, and every call of the token returns.
CeilingFairness ==
    /\ WF_<<provVars, ceilingVars>>(Wait(0) \/ Stop \/ Join)
    /\ \A x \in 1..Threads :
          WF_<<provVars, ceilingVars>>(Prepares(x) \/ Wait(x) \/ Leave(x))

FailedEarly == \E x \in 1..Threads : pos[x] = "failed" /\ pos[0] \in {"ready", "waiting"}

(* run_point returns, with a figure or with the error of a thread: nobody is left *)
(* at the barrier and no join waits for ever, unless a thread fails before the    *)
(* barrier (main then waits for it for ever, and its error is not seen).          *)
PointReturns == pos[0] = "ready" ~> pos[0] \in {"done", "failed"} \/ FailedEarly
==============================================================================
