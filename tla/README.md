# A TLA+ verification of the gRPC HSM proxy

The proxy (`src/proxy`) serves signing, verification, encryption, decryption and
key lookup over gRPC from a PKCS#11 token. It is a concurrent program: tonic
handlers on a tokio runtime, a circuit breaker, an authorizer, a rate limiter and
a key cache shared by all of them, a bounded channel, and a pool of OS threads
that each own one PKCS#11 session. Around it are the container that fills the
token, a health check, a baseline with a single session and a benchmark. This
directory models these programs in TLA+, checks them with TLC on small instances,
and proves with TLAPS, for every instance, each safety property that the passing
runs check: of the pool, the breaker, the cache, the authorizer, the rate limiter,
the deployment, and of the admission and the handlers that compose them.
`PROJECT.json` holds the map from definitions to source lines, the runs, the
mutants, the findings, the hazards and the theorems.

Contents: [the system](#the-system), [modules](#the-modules-and-the-code),
[runs](#the-runs), [bounds](#bounds-and-why-they-are-enough),
[fairness](#fairness), [proofs](#what-is-proved),
[disagreements](#where-the-code-and-its-words-differ),
[what is not modelled](#what-is-not-modelled).

## The system

A request goes through these parts, in this order (pool mode; paths are relative
to `src/proxy/src`):

| Part | Source | State | Operations |
|---|---|---|---|
| gRPC service | `grpc/pooled.rs` | none of its own; exported counters | `admit`, five handlers, `public_key`, `observe`, `record` |
| Circuit breaker | `resilience/breaker.rs` | an atomic `state`; a window, `opened_at` and the probe count behind a mutex; two counters | `allow`, `record_success`, `record_failure` |
| Authorization | `authz/` | the compiled policy (constant); a map of parsed certificates behind a `RwLock`; counters | `Policy::parse`, `is_allowed`, `identify`, `authorize` |
| Rate limiter | `resilience/ratelimit.rs` | one governor bucket per identity in a bounded moka table | `check` |
| Public key cache | `cache/mod.rs` | moka entries with two lifetimes; counters | `get_or_load`, `invalidate` |
| Session pool | `pkcs11/pool.rs`, `job.rs`, `metrics.rs` | a bounded flume channel, the threads, the counters | `start`, `submit`, `shutdown` |
| Pool worker | `pkcs11/worker.rs`, `session.rs`, `errors.rs` | a session, a cache of object handles | `run`, `execute`, `dispatch`, `handle`, `reset_session`, `open_worker_session` |
| Process lifecycle | `main.rs` | who holds the `Arc<Pool>` | start-up, serving, the signal, the drain |
| Telemetry | `telemetry/` | last sampled values | the gauge sampler, the exporter |
| Crypto helpers | `crypto.rs` | none | `prepare`, `verify_public`, DER conversions |
| Single-session baseline | `grpc/service.rs` | one session behind a mutex | the same five operations |
| Provisioning | `pkcs11/provision.rs`, `bin/provision.rs`, `docker/softhsm-init/init-token.sh` | the token directory and its owner | the init script, `ensure_demo_keys` |
| Health check | `bin/token-check.rs` | its list of failures | `check_keypair`, the secret keys, `write_probe` |
| Ceiling benchmark | `bin/hsm-ceiling.rs` | a barrier, a stop flag, the threads | `run_point` |

How they interact. A handler asks the breaker, then the authorizer, then the rate
limiter; it checks its input; it submits a job and awaits the answer, or it looks
a public key up in the cache, which loads it by a job at most once at a time. What
comes of the await is reported to the breaker and turned into a status; the
status is counted. The client or the server's timeout may drop the handler at
the await, and only there. The job meanwhile belongs to the pool: it is executed
whether or not anybody still waits.

Before all that the init container creates the token and its keys and hands the
directory over; compose starts the proxy when it has ended with status 0 and runs
the health check beside it. In single mode a handler checks its input, waits for
the lock on the one session, and makes its token calls with the lock held.

What makes it hard, and is modelled:

- the token is shared: login is one flag of the application, sessions and keys
  may vanish between any two calls, and each worker caches handles that only its
  session understands;
- a timeout may race the answer, a reset of the session may fail half way, a
  worker may panic with a job in hand, and a start may fail after some of the
  workers have started;
- `allow` acts under the lock on a state that it loaded without it;
- requests that were let in long ago report to a breaker that has moved on, and
  some never report;
- requests that miss the key cache together share a load, whose owner may fail or
  be dropped, while the key on the token changes;
- the map of identities is read under one lock and written under another;
- the table of rate-limit buckets drops a bucket that a request still draws on;
- the init container fails, is repeated or is killed between any two writes, while
  the health check reads the token and the proxy serves from it.

`PROJECT.json` lists the hazards at their lines, with the properties that cover
them.

## The modules and the code

One module per component; its actions are named after the code's functions, and
each action is one atomic section of the code: what happens under one lock, in
one atomic operation, in one call into the token, or between two awaits.

**`WorkerPool`** is the pool with its workers and the token. A *job* is one call of
`Pool::submit`. The caller's side is `Submit` (counting, making the job), `TrySend`
(accepted, refused, or disconnected), `Timeout` and `Cancel`. The thread's side is
the program counter `wpc`: `Spawn`, `OpenSession`, `Login` and `Reopen`
(`open_worker_session`), `RecvJob`, `RecvBlock` and `RecvClosed` (`rx.recv()`),
`Lookup` (`Worker::handle`), `Operate` (the token call of `dispatch`, and whether it
starts a reset), `Complete` and `CountFailed` (one counter each, as two calls of
`fetch_add` are), `Respond`. `Panic` unwinds out of `dispatch`, `Crash` out of
`Worker::new`. `StartOk`, `StartErr` and `Shutdown` are the pool's; `StartErr` has
both of its reasons, a worker that reports an error and a channel that fails because
every thread has died unreported. The token is external and modelled from the calls
the code makes: sessions that are valid or not, one login that ends with the last
session, objects that are found only when the login is held, handles tied to a
session and a version of the key. It may be removed and restored, lose a session,
fail once, or have a key replaced. A handle is a record of label, class, session and
version; payloads and signatures are left out.

**`JobService`** is what the pool promises a caller, without channel, workers,
token or faults: a job is taken or refused once, finished at most once whether or
not its caller still waits, told one outcome, and load is shed only when at least
a channelful of jobs is pending. `WorkerPool` implements it (`KeepsPromise`) with
the jobs in the channel or at a worker as the pending ones.

**`Breaker`** is the circuit breaker. `AllowLoad` is the unlocked load,
`AllowLocked` the section under the lock in the Open arm; `RecordSuccess` and
`RecordFailure` are one section each. Instants are ages in ticks that stop growing
at the limit the code compares them with, which keeps exactly the comparisons the
code makes. **`BreakerHistory`** adds two history variables, the outcomes that
a window can hold (each with its age, its place in its tick and its result) and the
successes in a row, for what the comments say about the past.

**`PublicKeyCache`** is `get_or_load` with the load of `public_key` and the part
of the worker that matters to it, the cached handle. A key is its version, 0 being
"not found". `Probe` is the call that only attributes the request; `Get` is moka's
`try_get_with`: take the entry, join a load, or become the loader. `Load`,
`LoadFails`, `Insert`, `Return` and `Abort` follow. moka is external: entries
expire, are evicted when the room is short, and a dropped loader is replaced by
one of those who waited.

**`Authz`** is `Policy::parse` as recursive functions over the entries and grants
of a file (`Compile`, `AddGrants`), `parse_identity`, the map of identities
(`Identify` under the read lock, `Store`
under the write lock) and the decision. Certificates are what the parser finds in
them.

**`RateLimiter`** is `RateLimiter::check`: `Get` takes the bucket out of the table
or makes a full one, `Check` draws on it. In between the table may drop it
(`Evict`, moka's choice once it has outgrown its capacity), and the request goes
on with the bucket it holds. `Refill` is the governor's clock. Two auxiliary
variables count what an identity was given and how often its bucket was dropped.
**`Admission`** composes `Authz` with it in the order of `admit`.

**`Service`** composes the handlers with the breaker: it instantiates `Breaker`
with a program counter derived from the handler's position, so that the breaker's
own steps happen inside the handlers' (`Locked`, `Observe`). The authorizer is
what the policy grants; the pool and the cache are the outcomes that their modules
allow; the governor's buckets fill up at any time.

**`Lifecycle`** is `main` in pool mode, reduced to the order of its steps and to
who holds the `Arc<Pool>`.

**`Crypto`** is `crypto.rs` as operators. A byte string is known by what it was made
from (a message, how often it was hashed, whether it carries a DigestInfo), which
is all that the code decides: `prepare`, the four ways of `verify_public`,
`verification_digest`. What the token does with a mechanism is external.
`unwrap_der_octet_string` works on the length and the first bytes of a value, and
`ec_spki` makes the key of what it returns if that is the point: `from_sec1_bytes`
(external) is taken to refuse 65 bytes that begin anywhere else, as they are not the
coordinates of a point of the curve.

**`Provision`** is the life of the token: `init-token.sh` as the steps `Up`,
`Initialize`, `OpenToken`, one `Ensure` per key, `Chown` (file after file) and
`Chmod`, each of which may fail as the script lets it; `Kill` ends it anywhere, also
between the two objects of a key pair. Any number of tokens may carry the label, and
one of them is followed. The script counts those that it is shown: a failure of
`--show-slots` is lost in the pipe and in `|| true`, so `Initialize` may see fewer,
and the auxiliary variable `blind` remembers that. `token-check` is a second process
(`CheckStart`, `CheckKeypair`, `CheckRest`) that sees only what was handed over.
**`SingleSession`** is the proxy in single mode on that token: `Call` is a handler
up to the lock, `Find` takes the lock and looks the key up, `Use` is the token call
and the answer, `Drop` a handler that goes away while it waits; any token call may
fail. What comes as a signature need not be one, and `GcmParams::new` may refuse
what a request carries. **`Ceiling`** is `run_point`. **`Deployment`** puts the
token together with one of the two programs.

`MCWorkerPool`, `MCAuthz`, `MCAdmission`, `MCService` and `MCDeployment` give
constants their values and define the symmetry; `*_proofs` hold the theorems.
Definitions with a suffix after an underscore (`Store_Unbounded`) are plausible
bugs of the definition they are named after: `PROJECT.json` pairs each checked
property with one that violates it.

## The runs

| Run | Instance | Checks | Shows |
|---|---|---|---|
| `pool_faults` | 2 workers, 2 jobs, queue of 1, any 2 of 6 kinds of fault | `TypeOK`, `WorkerConsistent`, `JobCustody`, `Accounting`, `RightKey`, `NoHalfBuiltPool`, `LoginHeld`, `WorkConserving`, `DrainedAtExit`, `KeepsPromise` | jobs, sessions, handles and counters stay consistent through resets, failed resets, deaths and failed starts; the queue at its limit, late answers and the drain; the pool implements `JobService` |
| `pool_liveness` | 2 workers, 2 jobs, a lost session or a panic | `FaultFreeAnswers`, `AcceptedJobRuns`, `WorkersEnd` | no lost wake-up; shutdown's joins return; without a fault callers hear only of absent keys and refused data |
| `pool_reset` | 2 workers, a lost session | `SessionFailureResets` (violated) | see below |
| `breaker` | 3 requests, window and cooldown of 2 ticks, 2 probes | `NeverStuck`, `FailFast`, `ReopensOnFailure`, `TripJustified`, `Recovers` | the breaker with stale loads, late and missing reports |
| `breaker_streak` | 3 requests | `StreakCloses` (violated) | see below |
| `cache` | 3 requests, 1 label, no room to spare, ttl 2, negative ttl 1, job timeout 1 | `SingleFlight`, `BoundedStaleness`, `WaitersReturn` | one load at a time, and how stale an entry can be |
| `cache_rotation` | 2 requests, 2 versions of a key | `RotatedKeyServed` (violated) | see below |
| `authz` | 2 requests, 4 certificates, room for 2, about 50 policy files; for one of them a limiter with burst 1, room for 1 of 2 identities | `CacheTruthful`, `CacheBounded`, `Decisions`, `PolicyMeansFile`, `EvictionCost`, `RefusedOnlyIfSpent`, `OnlyGranteesSpend` | the right identity, the right decision, and who draws on which bucket |
| `service` | 2 requests of any of 5 operations, with and without authorizer and limiter | `DenialsCounted`, `UsesBreaker`, `OpensOnFailedCall`, `OnlyPermittedSpend` | every way out of a handler |
| `service_overload` | 1 key lookup | `TripsOnTokenFault` (violated) | see below |
| `deployment` | a key pair and a secret key, up to 2 tokens, 2 runs of the container, 1 kill; 2 handlers with 4 requests, or 2 threads | `OneOfEach`, `HealthyMeansKeys`, `CompletedMeansReadable`, `BackendsAgree`, `PointFound`, `HealthyAnswers`, `CallsReturn`, `PointReturns` | what a passed health check is worth, every request in single mode is answered, the benchmark returns |
| `lifecycle_drain` | 2 handlers | `DrainsBeforeExit` (violated) | see below |

`UsesBreaker` is a refinement: `Service` implements the specification of `Breaker`
under the mapping of positions to the breaker's program counter, so what is checked
and proved of `Breaker` holds of the breaker inside the service. `KeepsPromise` is
one as well, and contains `OutcomeStands`. `BoundedStaleness` is the consequence
that a user of the cache cares about of `Freshness`, its inductive form, which is
proved; `EvictionCost` contains `FairShare`, the case of a bucket that was never
dropped. `HealthyAnswers` joins the modules of the deployment: after a passed check
no demo key is missing, and a signature that the proxy gave, by message or by
digest, verifies on the token whenever the in-process check would accept it.
`BackendsAgree` and `PointFound` say that pure operators of `Crypto` are right
(`Agreement`: every mechanism, input, key and signature; `EveryPoint`: every bare,
short and long form of a point, whole or cut off anywhere, at 65 bytes as well) as
soon as a caller holds a signature, or can read a public key. The operators do not
depend on the state, so neither does what is shown of them.

Deadlock is checked except in the pool runs, where a pool that has shut down and
whose jobs are answered has nothing left to do, in `lifecycle_drain`, where the
process exits, and in `deployment`, where the container has run as often as the
bound allows.

## Bounds, and why they are enough

- *Workers, jobs, queue depth* (2, 2, 1). The pool's races are between two
  workers (login, the last session, the closing of the channel) and between a
  caller and a worker; two jobs fill a queue of one, and the second is refused,
  while the workers are still busy with a reset or not yet there to receive. The
  theorems hold for any number of each.
- *`MaxFaults`* (2). A second fault is what a reset after the first can meet.
- *`PerTick`* bounds the outcomes recorded in one tick of the breaker's clock, so
  that the window's counts stay finite; two or three reach `MinRequests` within a
  tick and across one. *`Window`*, *`Cooldown`* and *`ProbeSuccesses`* of 2 tell
  "at once", "before" and "at the limit" apart.
- *`Ttl`* 2 and *`NegativeTtl`* 1 differ, so that the wrong lifetime shows;
  *`JobTimeout`* 1 lets a key change while it is loaded. *`MaxEntries`* is the
  room that the labels outside the model leave; with 0 an entry may be evicted
  whenever it is there. Ages and `changed` stop at the largest limit that is
  compared with them. *`MaxVersion`* bounds how many keys are created.
- *`MaxCached`* 2 with three certificates that have an identity fills the map and
  clears it while the other request is between its lookup and its store.
- *`Buckets`* 3 are the two that identities hold and one that a request still holds
  after it was dropped; a name that nobody refers to is used again.
  *`MaxEvictions`* 1 per identity lets a bucket come back full. *`LimitedFiles`*
  combines the limiter with one policy file; the theorems have no such bounds.
- *`DemoKeys`* has a key pair and a secret key (the code's second pair takes the
  same path); *`MaxRuns`* 2 and *`MaxKills`* 1 let a run meet what a killed one
  left, *`MaxTokens`* 2 what a listing that failed does, and *`Requests`* has one for
  each class of object, among them a ciphertext that is not authentic, and one that is
  refused at once.
  Half pairs, repeated runs and duplicates all occur. The theorems hold for any list
  of keys, any requests and any number of tokens, runs and kills.
- *`Threads`* 2: main and two threads at the barrier, one of which may fail.
- *`Bytes`* are the second and third bytes that are tried in a point: values on
  both sides of each limit in the code. The theorem holds for all of them.
- *Policy files* have one or two entries and grants, over two names and two keys:
  repeated workloads, repeated keys and entries without a grant are among them.
- *Counters* wrap at `Modulus` (2^64 in the code); the runs use 1 or 2, so that
  they do wrap. `Counters` in `Service` selects the ones a run follows.
- *Symmetry* of workers, jobs and requests is used in the safety runs only.

## Fairness

Safety properties assume none. The liveness properties assume what the threads
and the runtime guarantee, and nothing about the environment:

- `pool_liveness`: each worker thread runs (weak fairness of `WorkerStep(w)`) and so
  does the one that called `Pool::start` (weak fairness of `StartOk \/ StartErr`).
  Token calls return. Nothing is assumed of callers, timeouts or faults, and a job
  is only promised to leave the pool while a worker lives.
- `breaker` (`Recovers`): the clock runs, requests keep coming (weak fairness of
  `allow`) and those that are let in again and again do report now and then
  (strong fairness, since any single one may vanish). It is these assumptions that
  a service under traffic meets; without traffic the breaker rightly stays open.
- `cache` (`WaitersReturn`): handlers run and jobs end by their timeout (weak
  fairness of each handler's own step), except that handlers dropped for ever
  excuse it.
- `deployment` (`CallsReturn`): the handler whose turn it is runs and token calls
  return, with success or not. The lock is tokio's, which is fair, so the queue is
  part of the model and nothing stronger is needed. `PointReturns`: `main` and each
  of the threads run (weak fairness of each one's next step) and the sleep ends.
  Nothing is assumed of the container or the check.
- `cache_rotation` adds that the clock runs, that each label is requested again
  and again and that each worker gets to load; the violation persists under all of
  these.

## What is proved

TLAPS proves these for every value of the constants that satisfies the named
assumptions (`WorkersFinite`, `JobsFinite`, `ObjectsTyped`, `RequestsTyped`,
`BoundsTyped` for the pool; `TasksFinite`, `ConfigTyped` for the breaker;
`CacheConfig` for the cache; `CertsFinite`, `NoneIsNoName`, `ContentTyped`,
`FilesTyped`, `BoundsTyped` for the authorizer; `LimiterConfigured` for the rate
limiter, whose own theorems have `Configured` as a hypothesis; `ServiceConfig` for
the handlers; `KeysTyped`, `BoundsTyped`, `RequestsTyped`, `BytesTyped` for the
deployment), which only fix types and finiteness. Four theorems assume more, and say
so:

- `FaultFreeAnswersAlways` that there is a worker: `HSM_WORKERS=0` is not refused,
  and a pool without workers answers every `submit` as if it were shutting down;
- `TripJustifiedHolds` that the window has a length;
- `DenialsCountedAlways` that the four counters of denials are among those that
  the instance follows;
- `HealthyAnswersHold` that `token-check` looks for every demo key (`AllExpected`;
  the two lists in the code agree) and that no request is the value `NoRequest`,
  whatever signature comes with it (`Apart`).

| Theorem | Module | States |
|---|---|---|
| `ConsistentAlways` | `WorkerPool_proofs` | `TypeOK` and `WorkerConsistent` |
| `PoolTypes` | `WorkerPool_proofs` | `TypeOK` |
| `RightKeyAlways` | `WorkerPool_proofs` | `RightKey` |
| `NoHalfBuiltPoolAlways` | `WorkerPool_proofs` | `NoHalfBuiltPool` |
| `LoginHeldAlways` | `WorkerPool_proofs` | `LoginHeld` |
| `FaultFreeAnswersAlways` | `WorkerPool_proofs` | `FaultFreeAnswers` |
| `CustodyAlways` | `PoolCustody_proofs` | `JobCustody` |
| `WorkConservingAlways` | `PoolCustody_proofs` | `WorkConserving` |
| `OutcomeStandsHolds` | `PoolCustody_proofs` | `OutcomeStands` |
| `DrainedAtExitAlways` | `PoolCustody_proofs` | `DrainedAtExit` |
| `PromiseKept` | `PoolCounts_proofs` | `KeepsPromise` |
| `AccountingAlways` | `PoolCounts_proofs` | `Accounting` |
| `TypeCorrect` | `Breaker_proofs` | `TypeOK` |
| `NeverStuckHolds` | `Breaker_proofs` | `NeverStuck` |
| `FailFastHolds` | `Breaker_proofs` | `FailFast` |
| `ReopensOnFailureHolds` | `Breaker_proofs` | `ReopensOnFailure` |
| `TripJustifiedHolds` | `Breaker_proofs` | `TripJustified` |
| `CacheTypes` | `PublicKeyCache_proofs` | `TypeOK` |
| `SingleFlightAlways` | `PublicKeyCache_proofs` | `SingleFlight` |
| `FreshnessAlways` | `PublicKeyCache_proofs` | `Freshness` |
| `StalenessBounded` | `PublicKeyCache_proofs` | `BoundedStaleness` |
| `CacheTruthfulAlways` | `Admission_proofs` | `CacheTruthful` of `Authz` |
| `CacheBoundedAlways` | `Admission_proofs` | `CacheBounded` of `Authz` |
| `DecisionsAlways` | `Admission_proofs` | `Decisions` of `Authz` |
| `PolicyMeansFileAlways` | `Admission_proofs` | `PolicyMeansFile` of `Authz` |
| `FairShareAlways` | `Admission_proofs` | `FairShare` of `RateLimiter` |
| `RefusedOnlyIfSpentHolds` | `Admission_proofs` | `RefusedOnlyIfSpent` of `RateLimiter` |
| `EvictionCostAlways` | `Admission_proofs` | `EvictionCost` of `RateLimiter` |
| `AdmissionAuthorizes` | `Admission_proofs` | `Admission` implements `Authz` |
| `AdmissionLimits` | `Admission_proofs` | `Admission` implements `RateLimiter` |
| `AdmissionCost` | `Admission_proofs` | `EvictionCost` of `Admission` |
| `AdmissionRefuses` | `Admission_proofs` | `RefusedOnlyIfSpent` of `Admission` |
| `GranteesSpend` | `Admission_proofs` | `OnlyGranteesSpend` |
| `UsesBreakerHolds` | `Service_proofs` | `UsesBreaker`: the handlers implement `Breaker` |
| `OpensOnFailedCallHolds` | `Service_proofs` | `OpensOnFailedCall` |
| `OnlyPermittedSpendHolds` | `Service_proofs` | `OnlyPermittedSpend` |
| `DenialsCountedAlways` | `Service_proofs` | `DenialsCounted` |
| `ProvisionedOnce` | `Deployment_proofs` | `OneOfEach` |
| `HealthyIsTrue` | `Deployment_proofs` | `HealthyMeansKeys` |
| `CompletedIsReadable` | `Deployment_proofs` | `CompletedMeansReadable` |
| `BackendsAlwaysAgree` | `Deployment_proofs` | `BackendsAgree` |
| `PointAlwaysFound` | `Deployment_proofs` | `PointFound` |
| `HealthyAnswersHold` | `Deployment_proofs` | `HealthyAnswers` |

*The pool.* The inductive invariant is `IInv`, `TypeOK` and `WorkerConsistent`
together: the type of a step's result depends on a worker holding a job, a
session and a result exactly where its program counter says, and that in turn
needs the types. One lemma per action shows that it is preserved. The other
theorems build on it. Custody adds nothing to the invariant: it is preserved
because an action moves a job from one place to exactly one other, which the
lemmas say for handing over, queueing, receiving and releasing. `WorkConserving`
rests on `SleepAndQueue`: only three actions touch the channel or put a worker to
sleep, and each minds the other side. `PromiseKept` is the refinement: each action
maps to one step of `JobService` or to none, and the one that sheds load needs
`QueueIsPending`, that a full channel is that many distinct pending jobs, which
follows from custody. `RightKey` is preserved by resets because
the handles are dropped before the session is replaced. `LoginHeld` needs a
stronger statement, `LoginInv`: as long as no fault has happened (`Calm`), the
session a worker has, or has opened and not logged in yet, is valid, a worker that
opens its session again finds the application logged in, and somebody's session
holds the login, so that a loser of the race never closes the last one.

`FaultFreeAnswers` goes further along that line with `AnswerInv`. A caller inside
`submit` borrows the pool, so that it is still serving (`Borrowed`); and a worker of
a calm pool has not ended, has only handles of the present keys, and holds no result
that blames the token or a key that is there (`Blameless`). The control flow of
a worker is stated once, in `Edge`, and the lemmas about single actions say which
edge they take. `Accounting` is the consequence of `AccountInv`, five equations
between the counters and the numbers of threads and callers at each place
(`Books`): an action moves one thread or one caller, so each cardinality changes by
one or not at all. The three facts about cardinalities that this takes
(`SizeFacts`) are proved from the library in `PoolCounts_proofs` and are a
hypothesis of the lemmas in `PoolCustody_proofs`.

*The breaker.* `TypeOK` is inductive, and so is `NeverStuck` together with it: its
second conjunct, that a request on its way to the lock finds `opened_at` set, is
what carries the unlocked load through the steps of others. `FailFast` and
`ReopensOnFailure` are action properties that follow from the types.
`TripJustified` compares the counters with the history: `WindowCounts` says that,
until the window is over, they are the numbers of the successes and of the failures
recorded since it began, which the clock keeps by ageing both (`AgingKeepsCount`).
A breaker that opens then has the failures it needs among outcomes of one window.

*The cache.* `SingleFlight` is inductive with the types. `FlightKept` settles the
steps that make nobody a loader or a waiter; the others are a request that becomes
one (`Get`) and a loader that stops being one, which by the first conjunct was the
only one for its label, so that releasing the waiters of that label is enough.
`BoundedStaleness` is not inductive: it says nothing about a key that has been read
and not inserted yet. `Freshness` adds that, and bounds the staleness of an entry
by its age and one job timeout; an entry's lifetime then gives the bound.

*The authorizer.* The inductive invariant `Inv` is `Shape`, which says that cached
names are names and where requests are, with the three invariants. `Decisions`
needs `CacheTruthful`, since a hit is taken from the cache. `CacheBounded` is
preserved because the write lock covers both the clearing of a full map and the
insertion, and needs that there are finitely many certificates.

`PolicyMeansFile` is what `Compile` computes, for every file. The library's
induction theorems cannot be used, so the induction is made from the least element
of a set of numbers (`LeastElement`, `Induct`), and that the recursive functions
have the values their definitions say is proved first, by extending a function on
`0..n` to one on `0..n+1`. Then `AddGrantMeans`, `AddGrantsMeans`,
`AddWorkloadMeans` and `CompileMeans` climb from a grant to the file: after `n`
entries a policy allows what it allowed before or what one of them grants.

*The rate limiter.* The invariant says who owns a bucket, in the table or in a
request's hand (`Owned`), that what is missing from a bucket its identity was given
(`Covered`), and that an identity whose bucket was never dropped has only that one
and was given no more than is missing from it (`Single`). `FairShare` follows from
the last, `RefusedOnlyIfSpent` from the second. `EvictionCost` needs to know what
requests that still hold a dropped bucket may yet draw: `Cost` bounds what an
identity was given beyond the refill, plus what its present bucket has left
(`Current`), plus a cell for each request that holds an old one (`Credit`), by the
burst and one `Margin` for each eviction. When every request holds an old bucket and
all of these are empty (`Dry`), the credit is one less: the first of them will be
refused.

*Admission.* A step of `admit` is a step of the authorizer or none
(`AuthorizerStep`), and a step of the limiter or none (`LimiterStep`), so each keeps
its invariants in the composition. `Linked` ties them: a request that holds a bucket
was allowed, and holds that of the identity its certificate names, which together
with `Decisions` gives `OnlyGranteesSpend`.

*The service.* `UsesBreaker` is a refinement: each step of a handler is a step of
`Breaker` for its task, or none. `OnlyPermitted` says that a handler past the
authorizer has a permitted caller, and gives `OnlyPermittedSpend`; the authorizer's
presence is configuration and never changes. `CountInv` says for each kind of denial
that what the handlers have counted, with those that still have to, is what the
authorizer has counted, modulo the width; when no handler is in between, the two
counters are equal.

*The deployment.* The programs that use the token leave it alone (`OthersRead`),
and a step of the container keeps the objects, adds a whole key that had no marker,
or tears a pair (`TokenStep`). `OneOfEach` is inductive: as long as pairs are
complete, a missing marker means that nothing of the key is there
(`NothingThere`). `HealthyMeansKeys` needs `Checked`, that the key pairs the check
has passed so far are still complete and readable, which holds because what is
visible stays visible (`VisibleGrows`). `CompletedMeansReadable` needs where the
script is, and that it got there with one token or without having seen them all
(`Scripted`). `BackendsAlwaysAgree` rests on `AgreementHolds`, which goes
through a normal form: each mechanism has one form of signature (`Form`), which
`prepare` reaches from a message and from a digest (`PreparedForm`), `verify_public`
compares with (`PublicForm`), and which tells keys, mechanisms and contents apart
(`FormInjective`).

`PointFound` is a fact about `ec_spki`: a value of the length of one of the three
forms gives the key (`KeyMade`), a bare point whatever its second and third byte are,
and one that was cut at any length gives none (`CutRefused`). 65 bytes of an OCTET
STRING pass `unwrap_der_octet_string` as a bare point; it is `from_sec1_bytes` that
refuses them. `HealthyAnswers` needs `Serving`, which ties the caller's request, the
queue behind the mutex and its holder: a waiting handler is queued once
(`NoRepeats`), what the holder has found is an object of the token with the label
and class that it asked for, and a signature that a caller has is by a key of the
token. When no object is there twice, the public key that is found belongs to the
private key that has signed (`OnePublicKey`), and the token's answer to a
verification is the one `verify_public` gives (`OneVerdict`).

Only model-checked: liveness (`AcceptedJobRuns`, `WorkersEnd`, `Recovers`,
`WaitersReturn`, `CallsReturn`, `PointReturns`), since reasoning about fairness is
out of this prover's reach. The runs that end in a counterexample need no proof;
the lifecycle has only such a run.

## Where the code and its words differ

Each has a run that finds the shortest way there and a finding with the quoted
lines.

- `pool_reset`: "recover before the next job rather than failing every subsequent
  request on this worker" (`worker.rs:155`). Errors of the key lookup and of
  `GetPublicKey` become `PoolError::Internal`, which resets nothing: a worker whose
  session is gone and that has no handle for the request fails job after job.
- `breaker_streak`: "Consecutive successes in half-open needed to close again"
  (`breaker.rs:64`). A request that loaded Open before the probing began resets
  the count in the middle of the streak. `Recovers` shows that it still closes.
- `cache_rotation`: "a key rotated under the same label starts verifying against
  the new key within minutes rather than requiring a restart" (`cache/mod.rs`).
  The worker keeps the handle of the destroyed object, and every load on it fails.
- `service_overload`: "Overload is a capacity signal, not a health signal"
  (`pooled.rs:147`). A key lookup that meets a full queue is reported as an
  internal error, and opens the breaker. `OpensOnFailedCall` is what does hold.
- `lifecycle_drain`: "Drain in-flight work before the module is finalized"
  (`main.rs:186`). The gauge sampler holds the pool for ever, so `try_unwrap`
  never succeeds and the drain is skipped.

Smaller ones were met while modelling and are visible in the modules, without a run
of their own: the window is emptied, not rolled (`Rolled`); `trips` is not
incremented by a failed probe and is by late failures (`ProbeFailed`,
`CountFailure`); half-open lets everyone in (`AllowLoad`), where `breaker.rs:23`
says "a limited number of requests", and cache hits and overloads count as
successful probes (`Observe`); `served_from_cache` is read before the lookup it
describes (`Probe`, `Get`); a load overtaken by an `invalidate` inserts the old key
(`Insert`); `RATE_LIMITED` also counts full queues, and `AUTHZ_ALLOWED` counts
successes (`Counted`); a malformed `Verify` is answered `INTERNAL`, a malformed
`Sign` `INVALID_ARGUMENT` (`Verify`), while single mode answers both
`INVALID_ARGUMENT` (`Call`) and "two backends serve the same API" (`main.rs:3`); a
`provision` that fails is hidden by the pipe behind it, so the init container ends
with status 0 and the proxy starts without its keys until the health check says so
(`OpenToken`, `Ensure`); a run that is killed inside `C_GenerateKeyPair` leaves half
a pair that no later run repairs (`Kill`); a run that cannot list the tokens makes a
second one and ends with status 0 (`Initialize`), while `init-token.sh:4` says
"every step checks for its own result first, so re-running this container is a
no-op"; a worker thread that dies before it has reported is noticed only when all
the others have died as well, and otherwise `Pool::start` waits for ever
(`StartErr`), where `pool.rs:126` says "Fail startup loudly"; and a thread of
`hsm-ceiling` that fails before the barrier leaves `main` waiting there, with its
error unseen (`Prepares`, `FailedEarly`).

## What is not modelled

- Cryptography, DER encoding, X.509, TOML and gRPC encoding: the libraries'.
- The transport limits and keep-alives that `main` passes to tonic.
- The exporter and the sampler's differences of counters: they go to the metrics
  system, and nothing in the proxy reads them.
- `main` and `verify_cost` of `hsm-ceiling`, `spike` and the Go baseline: sequential
  measuring loops without state that outlives a call.
- Two init containers at once: compose runs one, and the code relies on it.
- Relaxed memory: the counters are independent atomics whose order nothing relies
  on, and the breaker's atomic is stored under its mutex.
- A worker that answers a job with another operation's variant: `dispatch` cannot.

Six hazards are in the models and no property covers them: how many probes a
half-open breaker lets in, what a probe that never reaches the token should count
as, a wrong `served_from_cache`, a handler that is dropped before it reports, a list
of tokens that cannot be read, and a start that waits for a thread that has died.
`PROJECT.json` says why.
