------------------------------ MODULE Lifecycle ------------------------------
(***************************************************************************)
(* The process in pool mode (proxy/src/main.rs): start-up in its order,    *)
(* serving, the signal, and the drain of the worker pool at the end.       *)
(*                                                                         *)
(* The pool is behind an Arc.  Whoever holds it is in `holders`: main, the *)
(* gauge sampler (telemetry/metrics.rs), which never ends by itself, the   *)
(* service, and the handlers that are loading a key.  A handler that times *)
(* out or is dropped leaves its job behind in the pool.                    *)
(***************************************************************************)
EXTENDS Naturals, FiniteSets

CONSTANTS
    Handlers    \* handlers that may be running at a time, and their jobs

VARIABLES
    phase,      \* how far main has come
    holders,    \* who holds the Arc<Pool>
    running,    \* handlers that have not returned yet
    jobs,       \* accepted jobs that no worker has finished
    signalled   \* SIGINT or SIGTERM has arrived

vars == <<phase, holders, running, jobs, signalled>>

Init ==
    /\ phase = "security"
    /\ holders = {}
    /\ running = {} /\ jobs = {}
    /\ signalled = FALSE

-----------------------------------------------------------------------------
(* Start-up.  An error anywhere ends main, and drops what main holds. *)

\* The steps that may fail: the certificates and the policy, the pool, and the
\* metrics and listening addresses.
Fails ==
    /\ phase \in {"security", "pool", "metrics"}
    /\ phase' = "exited"
    /\ holders' = {}
    /\ UNCHANGED <<running, jobs, signalled>>

\* load_security: certificates and policy, before anything is opened.
LoadSecurity ==
    /\ phase = "security"
    /\ phase' = "pool"
    /\ UNCHANGED <<holders, running, jobs, signalled>>

\* Pool::start.
StartPool ==
    /\ phase = "pool"
    /\ phase' = "sampler"
    /\ holders' = {"main"}
    /\ UNCHANGED <<running, jobs, signalled>>

\* spawn_gauge_sampler: a task that loops for ever.
SpawnSampler ==
    /\ phase = "sampler"
    /\ phase' = "metrics"
    /\ holders' = holders \cup {"sampler"}
    /\ UNCHANGED <<running, jobs, signalled>>

\* METRICS_ADDR parses, the endpoint is spawned, the service is built and served.
Serve ==
    /\ phase = "metrics"
    /\ phase' = "serving"
    /\ holders' = holders \cup {"service"}
    /\ UNCHANGED <<running, jobs, signalled>>

-----------------------------------------------------------------------------
(* Serving (the server is external). *)

\* A request is accepted, and submits a job; a key lookup clones the Arc.
Begin(h) ==
    /\ phase = "serving" /\ ~signalled
    /\ h \notin running /\ h \notin jobs
    /\ running' = running \cup {h}
    /\ jobs' = jobs \cup {h}
    /\ \E S \in {{}, {h}} : holders' = holders \cup S
    /\ UNCHANGED <<phase, signalled>>

\* The handler returns: it has its answer, has timed out, or is dropped.
End(h) ==
    /\ h \in running
    /\ running' = running \ {h}
    /\ holders' = holders \ {h}
    /\ UNCHANGED <<phase, jobs, signalled>>

\* A worker finishes a job.
JobDone(h) ==
    /\ h \in jobs /\ phase # "exited"
    /\ jobs' = jobs \ {h}
    /\ UNCHANGED <<phase, holders, running, signalled>>

\* shutdown_signal.
Signal ==
    /\ phase = "serving" /\ ~signalled
    /\ signalled' = TRUE
    /\ UNCHANGED <<phase, holders, running, jobs>>

\* serve_with_shutdown returns once its connections are done; the service goes.
ServeReturns ==
    /\ phase = "serving" /\ signalled /\ running = {}
    /\ phase' = "unwrap"
    /\ holders' = holders \ {"service"}
    /\ UNCHANGED <<running, jobs, signalled>>

-----------------------------------------------------------------------------
\* Arc::try_unwrap: drain if main is the only holder, or else skip it and return.
Unwrap ==
    /\ phase = "unwrap"
    /\ \/ /\ holders = {"main"}
          /\ phase' = "draining"
          /\ UNCHANGED holders
       \/ /\ holders # {"main"}
          /\ phase' = "exited"
          /\ holders' = {}
    /\ UNCHANGED <<running, jobs, signalled>>

\* Pool::shutdown returns when the workers have finished what was accepted.
Drained ==
    /\ phase = "draining" /\ jobs = {}
    /\ phase' = "exited"
    /\ holders' = {}
    /\ UNCHANGED <<running, jobs, signalled>>

Next ==
    \/ Fails \/ LoadSecurity \/ StartPool \/ SpawnSampler \/ Serve
    \/ \E h \in Handlers : Begin(h) \/ End(h) \/ JobDone(h)
    \/ Signal \/ ServeReturns \/ Unwrap \/ Drained

Spec == Init /\ [][Next]_vars

-----------------------------------------------------------------------------
(* "Drain in-flight work before the module is finalized" (main.rs): when the      *)
(* process ends after a signal, no accepted job is left in the pool.              *)
DrainsBeforeExit == phase = "exited" /\ signalled => jobs = {}
==============================================================================
