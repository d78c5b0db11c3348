# servex in TLA+

servex is a Go library of building blocks for services: messaging, scheduling,
storage, middleware, transports. This directory holds TLA+ modules for the parts
of it that run concurrently or have to survive failures, the TLC configurations
that check them on small instances, and TLAPS proofs of what matters most.
Paths of Go files below are relative to the root of the repository.

Contents

1. Inventory: the components, their state, what is hard about them
2. The modules, and how they correspond to the code
3. What each run checks, its bounds, and why they are enough
4. Fairness
5. What is proved, and along which argument
6. What is only model-checked, and what is not modelled
7. Where the code and its documentation differ
8. Plan

To repeat the checks: `tlc -config Outbox_timely.cfg MCOutbox` (the module of each
run is in the table of section 3), and `tlapm OutboxProofs.tla` for the proofs.

## 1. Inventory

"Status" says whether the component is modelled here (M), in part (m), planned (P), or
left out (-).

| Component | State it keeps | Operations | What is hard about it | Status |
|---|---|---|---|---|
| Transactional outbox (`domain/outbox`, `/gorm`) | table `outbox_message`; per relay the batch in hand, three goroutines, `running` | Save in a transaction, FetchPending, Publish, MarkSent, MarkFailed, ResetStale, Cleanup, Start, Stop | relays on one table; crash between publish and mark; rows found stale while somebody works on them; Stop that times out and Start after it | M |
| Circuit breaker (`middleware/circuitbreaker`) | state, counters, time of the last change, half-open slots | Execute (before, fn, after), State, Reset | the state changes while fn runs; late results, panics and resets against the slot counter | M |
| Distributed lock (`storage/lock`) | the entry in Redis; `held[key]` per instance | TryLock, Lock, Unlock, Extend | goroutines that share an instance; entry and counter are written apart; expiry, lost answers, crashes | M |
| Scheduler (`scheduler`) | job table, cron entries, `running`, `closed`, wait groups, job state | Add, Remove, Start, Stop, Shutdown, Trigger, executeJob with retries | ticks against Stop and Shutdown; one instance in a cluster under the lock's ttl; singleton marks | M |
| Job queue (`messaging/jobqueue`, `/database`, `/redis`) | rows, or a hash of jobs and a sorted set; worker loop, semaphore, goroutine per job | Enqueue, Dequeue, MarkRunning, MarkDone, MarkFailed, MarkDead, Requeue, Close, Register | several workers, two-step stores, lost answers, cancellation and Close in the middle of a fetch | M |
| Saga (`domain/saga`) | the steps' results in memory, a record of them in a key-value store | Execute with retries, compensate, Save | the saga's timeout ends the context of its own compensations and saves; several compensations fail; crash between steps | M |
| Event sourcing (`domain/eventsourcing`, `/gorm`) | event table, one snapshot row per aggregate, uncommitted events in memory | RaiseEvent, Save, Load | optimistic conflicts; events and snapshot are read and written at two moments; snapshots at multiples only | M |
| Event bus (`messaging/eventbus`) | subscriptions, bounded channel, workers, `closed` under two mutexes | Subscribe, Publish, PublishAsync, Close | send against close; handlers that publish or close | M |
| Idempotency (`middleware/idempotency`) | result key and lock key | Get, SetNX, Set around a handler | look and lock are two commands; expiry of the lock under its maker, or of the client's patience | M |
| Semaphore (`middleware/semaphore`) | a counter under a key with a ttl | TryAcquire, Acquire, Release | increment and expire are two commands; expiry while permits are held; failed releases | M |
| Caches (`storage/cache`) | Redis keys; the memory cache's map | the commands | those the lock, the semaphore and idempotency use are part of those modules | m |
| Rate limiters (`middleware/ratelimit`, `bizx/ratelimit`) | counter with a window | Allow, Wait | increment and expire are two commands | P |
| Load shedding (`middleware/loadshed`) | in-flight count, last latency | one request | a state no request leaves | P |
| Delay and blocking queues (`collections`) | heap, signal channel | Enqueue, Dequeue | wake-ups with several consumers | P |
| Application (`app`) | servers, error channel, cleanups | Run, Stop | two receivers of one error channel; order of shutdown | P |
| Hubs (`transport/websocket`, `transport/sse`) | client table, register, unregister and broadcast channels | Register, Unregister, Broadcast, Send, Close | channels served in any order; send against close | P |
| Workflow engine (`bizx/workflow`) | instances in a store | Execute, Approve, Reject, Cancel | whole-instance writes without a version | P |
| Persistent retries (`bizx/retry`) | tasks in a store | poll, run, update | no claim: two schedulers take one task | P |
| Job queue on Kafka and RabbitMQ | offsets and deliveries at the broker | the same interface | redelivery is the broker's protocol | - |
| Other bizx packages, collections, domain model, CQRS | tables under one mutex, sequential structures | | little: one critical section each | - |
| Transports, filters, notifications, LLM clients, identity, configuration, discovery, observability, storage clients, encodings, utilities, tools, examples | requests, connections | | I/O and wiring over libraries | - |

How they interact: the outbox writes into the same transaction as the business
code and publishes through `messaging/pubsub`; a distributed job of the scheduler
takes a lock of `storage/lock`, which issues commands of `storage/cache`; the
notifications are sent by handlers of the job queue; the handlers of the event bus may
call the bus again; breaker, limiter, semaphore and idempotency wrap one call each, and
when a server chains them they share the request: its context, its panics and the
process it runs in. Interactions that carry a protocol are modelled by composition
(`SchedulerCluster` instantiates `RedisLock`, `RequestGuards` puts `Idempotency` under a
permit of `DistributedSemaphore`); the broker and the databases appear as the outcomes
a call may have.

What makes each modelled component correct:

* *Outbox*: no committed message is lost and none of a rolled-back transaction is
  published; copies are paid for by resets; two relays never hold a row at once
  while none is slow; a Stop that returned nil left nothing running; everything
  owed is settled while some relay stays.
* *Breaker*: one probe at a time; it closes only on enough probes of this very
  half-open phase; the slot is never lost; it recovers when the service does.
* *Lock*: mutual exclusion while work fits the ttl; late callers displace nobody
  of another instance; a holder is not turned away by the shared counter, which does not drift.
* *Scheduler*: one instance of a distributed job in the cluster; singleton runs
  do not overlap and leave no mark; one cron entry per job; Stop silences the ticks;
  Shutdown waits for the tasks; both end.
* *Job queue*: one owner per job; retries are neither exceeded nor cut short;
  a settled job stays settled; nothing is dropped when nothing fails; every
  job ends; Start returns.
* *Saga*: all steps stand, or those that can be taken back are, or the saga says that it
  failed to; compensation runs backwards; what the store says about it is true; Execute returns.
* *Event sourcing*: an aggregate in memory or in a snapshot is what its log builds; nothing is
  decided on events unseen; replays stay short; what Save acknowledged Load finds.
* *Event bus*: nothing is sent on the closed channel; a Close that returned left no task;
  calls return unless handlers tie up the workers.
* *Semaphore and idempotency*: no more than size at once, and one execution per key, but for
  reasons that can be named; whatever happened to those before it, the next request finds both open.

The file PROJECT.json lists every source file with its component, and under
"hazards" the lines where each of these things could go wrong.

## 2. The modules, and how they correspond to the code

| Module | What it is | Code |
|---|---|---|
| `Outbox` | the outbox, its relays and the GORM store | `domain/outbox`, `domain/outbox/gorm` |
| `AtLeastOnce` | what an outbox promises: a debt per committed message, delivered at least once before it is settled | abstract |
| `CircuitBreaker` | the breaker under concurrent callers | `middleware/circuitbreaker/circuitbreaker.go` |
| `RedisLock` | the lock of one key | `storage/lock/redis.go`, `storage/cache/redis/redis.go` |
| `Mutex` | what a lock promises | abstract |
| `SchedulerCluster` | one distributed job in several processes, on `RedisLock` | `scheduler/cron.go` (executeJob, runWithRetry), `scheduler/job.go` |
| `CronScheduler` | the scheduler's life cycle in one process | `scheduler/cron.go`, `scheduler/scheduler.go` |
| `JobQueue` | client, workers and the two pollable stores | `messaging/jobqueue`, `/database`, `/redis` |
| `Saga` | one execution of a saga and its record | `domain/saga/saga.go`, `state.go`, `step.go`, `/kvstore` |
| `AllOrNothing` | what a saga promises: committed, aborted, or openly torn | abstract |
| `EventSourcing` | sessions on the repository and its two tables | `domain/eventsourcing`, `/gorm` |
| `OptimisticLog` | what a repository promises its sessions: logs that only grow, looked at and added to in one piece | abstract |
| `EventBus` | the bus, its workers, handlers that call it | `messaging/eventbus/eventbus.go` |
| `RequestContext` | what the guards of a request share: its context and the faults | `middleware/idempotency/http.go`; Go contexts as the guards use them |
| `DistributedSemaphore` | the semaphore of one key | `middleware/semaphore/distributed.go`, `storage/cache/redis/redis.go` |
| `Idempotency` | the guard of one idempotency key | `middleware/idempotency/store.go`, `http.go` |
| `RequestGuards` | requests that pass both, one under the other | `middleware/semaphore/middleware.go` and composition |
| `MC*` | small instances for TLC | |
| `SchedulerProofs` | theorems about `SchedulerCluster` and `CronScheduler` | |
| `MiddlewareProofs` | theorems about `CircuitBreaker` and `RequestGuards` | |
| other `*Proofs` | theorems about the module of that name | |

`CronScheduler` and `CircuitBreaker` share a proof module with another specification, so their
`Init`, `Next`, `Spec`, `TypeOK` and `vars` carry the prefix Cron or Breaker.

The same conventions hold everywhere:

* One step is what nothing else can come between: a critical section, an SQL
  statement or transaction, a Redis command or script, a hand-over between
  goroutines. Where the code lets go of a mutex or awaits an answer, the model
  has two actions.
* A call to a database, to Redis or to the broker ends in one of three ways: it did
  its work, it did nothing and failed, or it did its work and the answer was lost.
* Time is a choice wherever the code only waits (a ticker, a poll interval, a ttl, a
  row's age). It is counted only in `SchedulerCluster`, where the code computes the
  lock's ttl from other durations.
* Faults are chosen per instance by a constant (`Faults`, `Hazards`), and their number
  is bounded by another. Variables marked "(history)" in a module are read by
  properties only, and by the guards that bound the model.
* A definition that starts with the comment "mutant" is a plausible mistake in the
  definition below it, used to see that the properties notice it. It is not part of
  the specification.

**Outbox.** `tx` and `status` are the two sides of a business transaction: the row of
an open transaction is invisible (`SavedInTx`), `Commit` shows it. A relay is
started several times; a *loop* is one generation of it, with the poll loop in `pc`,
`todo`, `sent`, `failing` (the batch of `poll`, in the order of the ids) and the other
two goroutines in `aux`. `Fetch` is the transaction of `FetchPending`, `Send` one
turn of the for loop of `poll` (`SendOutcomes`: a message at `maxRetries` is refused, a
cancelled context makes Publish fail), `MarkFailed` and `MarkSent` the two updates by
id, `ResetStale` and `Cleanup` the periodic statements. `Start`, `Stop`,
`StopReturns`, `StopTimesOut` and `Crash` are the life of the relay; the one WaitGroup
of all generations is the guard of `StopReturns`. The fault "slow" is a row found
stale while somebody works on it.

**CircuitBreaker.** `Begin` is beforeExecute with the lazy transition to half-open,
`End` is the return of fn and afterExecute, which judges by the state it finds.
`Panic` is the way out of Execute without afterExecute. `Expire` lets OpenTimeout pass;
`happened` remembers which hazards have occurred, so that one run has all of them
and each property names the ones it does not survive.

**RedisLock.** `key` is the entry, whose value is the instance's owner id; `held` the
counter per instance; `at[c]` where goroutine `c` stands between the command and the
critical section that follows. `TryLock`, `Lock`/`GiveUp`, `Count`, `Extend`/
`ExtendRuns`/`DropHeld`, `Unlock`/`UnlockRuns`/`Uncount` are the code's calls cut at those
points; `Lapse` is the ttl. `taker` (history) is the caller whose SETNX wrote
the entry, `lapses` (history) counts, per instance, the entries that expired under their
holder. `NobodyLate` says that there was none; what holds only until then says so.

**SchedulerCluster** instantiates RedisLock with the processes as instances and the
runs of the job as callers; every action on the lock is an action of that
module. `TTL` is what executeJob asks for. `Outlived` says when the entry may expire
under a run: when the attempts so far may have taken that long.

**CronScheduler.** `jobs` and `entries` are the scheduler's table and cron's; `fired`,
`triggers` and `tasks` count the closures cron runs, the calls of Trigger past their checks,
and the goroutines of the wait group. Stop and Shutdown are cut where they wait.
`old` (history) are the tasks that were under way when Shutdown was called.

**JobQueue.** The store is chosen in `Init`. `loop[w]` is the for loop of Start, a *slot* a
place in its semaphore together with the goroutine in it. Database: `SelectRow` and
`ClaimRow` are the two statements of Dequeue, `MarkRunning`, `MarkFailed`,
`MarkDead`, `Requeue` and `MarkDone` one statement each. Redis: `PopId` and `ReadData`;
every Mark is a read (`ReadBack`) and a write of the whole job; `Requeue` and
`RequeueId`, `EnqueueData` and `EnqueueId` are two commands. `Register` may come at any
time. The client may call Enqueue again after an error, with the same job. A handler
that panics takes its process down, which is `Crash`.

**Saga.** ExecuteWithData is one goroutine: `pc` is its place, `cur` the index of the loop over
the steps, forward and then back, `status` and `result` the state it keeps, `record` what the
store holds. `Begin`, `Enter`, `ActOk`/`ActFails`, `RetryNow`/`RetryCancelled` and `Succeed` go
forward; `OutOfTime` and a failed last attempt lead to `TurnBack`, then `NothingToUndo` or
`Undo` per step, and `Finish`. Each call out of the package (Action, Compensate, Save) is one
step and ends in one of the three ways; `ContextEnds` is the saga's timeout or the caller, and
after it every such call may fail without a fault, since all are given that context. `took` and
`undone` (history) are the effects in the world, which the record may not know of.

**EventSourcing.** `row[k][v]` is the event table with its unique index, `snap[k]` the snapshot row.
A *session* creates or loads an aggregate (`LoadSnapshot`, `LoadEvents`: two statements), raises
events and saves them (`SaveEvents`, `SaveSnapshot`); `state` is the sequence of events applied to the
copy in memory. `Later` and `Replayed` are the query and the loop of Load, `Conflicts` the unique
index. The constant `RestoresId` says whether the application's own ApplyEvent puts back the id
that Load does not (section 7).

**EventBus.** Workers and outside goroutines take the same steps, since a handler may call
`PublishAsync` or `Close`. `readers` and `WriterWaits` are the RWMutex `closeMu`; `Enter`, `Send`
(one task at a time) and `Leave` are PublishAsync, `Receive`, `HandlerReturns` and `Exit` a worker,
`Close`, `CloseChannel` and `CloseReturns` the three parts of Close. `Publish` runs the handlers in
the caller (`CallNext`). `accepted` and `handled` (history) count tasks.

**RequestGuards** with **RequestContext**, **DistributedSemaphore** and **Idempotency.** `sat[r]` and
`iat[r]` are where request `r` stands with each guard; `GuardedStep` runs the inner guard while the outer
is "in", `Returns` is the deferred Release. Every command of both guards takes its outcome from
`Outcomes(r)` of RequestContext: it may fail by a fault, and for free once the client has gone.
Semaphore: `Increment`, `ExpireFirst`, `Refresh`, `GoBack`, `Retry`/`GiveUp` (WithBlock) and
`Release` are the commands of TryAcquire, Acquire and Release; `KeyExpires` is the ttl, and
`forgotten` and `untimed` (history) what it forgot and how often nobody set it. Idempotency: `Look`,
`LookAgain`, `TakeLock`/`InProgress`/`LockFails`, `Save` and `Unlock` are Get, SetNX and Set command by
command. `causes` (history) counts the reasons the code has to execute a key once more, at the step
that gives the reason: a result saved between a request's last look and its SETNX (`blind`), a
lock that went before its result was there (`LetsOneMore`), an expired result, a handler run beside
the guard.

## 3. What each run checks

All runs but `events_lost` pass; that one shows a difference between code and documentation
(section 7). A property of a passing run has a mutant of the code that violates it. The
type invariants are not among the runs' properties: all of them are theorems (section 5).

| Run | Instance | Properties | Shows |
|---|---|---|---|
| `outbox_timely` (MCOutbox) | 2 relays, 2 messages, batch 2, 1 fault of broker, db, crash | OneHolder, KeepsPromise | a message is in one pair of hands, and the outbox implements AtLeastOnce |
| `outbox_restart` (MCOutbox) | 1 relay started twice, 1 message, 2 faults of any kind, slow ones included | NothingLost, DuplicatesAreResets, StopIsQuiet, EverythingSettled, StopEnds | nothing lost, duplicates paid for by resets; a Stop that returned nil is quiet; owed messages are settled; Stop returns |
| `breaker_all` (MCCircuitBreaker) | 3 callers, thresholds 2 and 3, late calls, panics, 2 resets | OneProbe, NeverWedged, ClosedByProbes, Recovers | the half-open phase, each property as long as its hazard stays away |
| `lock_all` (MCRedisLock) | 2 goroutines of one instance, 1 of another, 1 failing command, crashes, two entries of an instance may expire under their holder | CounterFollows, OnlyLateLose, ImplementsMutex, SomebodyGetsIn | the lock is a mutex until somebody is late, late callers displace nobody of another instance, the counter follows its callers, waiting ends |
| `cluster_fits` (MCSchedulerCluster) | 2 processes, 3 runs of a singleton, 2 attempts of 3 with 1 between, ttl 8, 1 failing command, crashes, refusing hooks | OneInstance, SingletonKept, UsesLock, NothingStaysTaken | one instance at a time, and nothing stays taken |
| `cron_life` (MCCronScheduler) | 2 jobs of one name (one singleton, one with a bad schedule) and a third, 1 stopper, 2 starts, 1 task per job at a time | OneEntryEach, StoppedIsSilent, ShutdownWaits, BothReturn | table and cron agree; Stop and Shutdown leave no tick; both return |
| `jobs_all` (MCJobQueue) | 1 job, 2 workers of one slot, either store, 1 fault, one worker cancellable, the other closable, MaxRetries 2 | Accounted, RetriesSpent, SettledForGood, EveryJobEnds, StartReturns | one owner, the right number of attempts, nothing dropped, and an end to everything |
| `saga_all` (MCSaga) | 4 steps, the first two with a Compensate, 1 retry, 4 faults of any kind | RecordIsTruthful, KeepsPromise, BackwardsOnly, Returns | the saga implements AllOrNothing, the record is true of the steps, compensation runs backwards, Execute returns |
| `events_all` (MCEventSourcing) | 2 sessions on 1 aggregate of up to 4 events, snapshots at every second version, 2 faults of any kind | ReplayAgrees, ReplayIsShort, KeepsPromise | memory, snapshots and log agree; the repository implements OptimisticLog, so nothing is built over unseen events; replays are short unless a due snapshot was missed |
| `events_lost` (MCEventSourcing) | the same without faults, with an aggregate that does not restore its id itself | AckedIsFound (violated) | what is saved after a Load goes under the empty id |
| `bus_all` (MCEventBus) | 2 outside goroutines, 1 worker with room for 1 task, handlers that do nothing, publish or close, 3 events | CloseIsClean, HangsOnlyWedged | Close is clean, and calls hang only in the ways `Wedged` names |
| `guards_all` (MCRequestGuards) | 3 requests with one key, 2 permits, one request WithBlock, one WithSkipOnError, 2 faults of any kind | NeverOverAdmits, RepeatsExplained, GuardsReopen | over-admission and repeated execution only for the reasons named; both guards open again |

Why these bounds are enough to be interesting:

* *Outbox.* Two relays are what it takes for two owners; two messages with a batch of
  two let a poll fail on one and send the other; MaxRetries 1 gives both a refused and an
  attempted send. With one message, two faults give a slow loop and a lost mark or
  a crash in one behaviour, and two generations a Stop that timed out under a
  new Start, whose loops are then two that share the table. The run with two relays uses symmetry
  of the relays (its properties are an invariant, and a step property that does not name a relay).
* *Breaker.* Three callers give a probe, a late call admitted while closed, and a caller
  that is turned away; a success threshold of 3 leaves room for two counted successes
  before the closing one.
* *Lock.* Two goroutines of one instance share the counter while a third caller of
  another instance takes the entry; two lapses let a late Unlock meet a second late caller.
* *Cluster.* Two runs in one process meet in the singleton guard, the third in the lock; two
  attempts of 3 with 1 between are 7 of a ttl of 8, so one attempt more would not fit.
* *Cron.* A name used twice and a schedule that does not parse reach the refused Add and the
  Start that fails half way; two starts reach Start after Stop.
* *Jobs.* With one job, two workers race for every row and id; MaxRetries 2 gives a
  requeue and a burial, MaxAttempts 3 is one above what the budget allows; one fault may be
  a failing or a lost call at any statement, or a crash. Jobs do not touch each other
  in the stores, so a second one adds only load.
* *Saga.* Four steps with two that can be undone give a failure behind both, between them, and a
  step without Compensate in the way; four faults are a first attempt and its retry, a
  compensation, and a save or the end of the context.
* *Event sourcing.* Two sessions conflict and overwrite each other's snapshots; with snapshots
  at every second of four versions a batch of two may step over the multiple, and an older snapshot
  come after a later one; two faults lose an insert and a snapshot. Aggregates share nothing but
  the empty id.
* *Bus.* One worker with room for one task is the smallest bus that a publishing handler
  wedges; three events are one handled, one queued and one that waits; the second outside
  goroutine is the one that closes. `New` gives 16 places per worker, which only makes the wedge rarer.
* *Guards.* Three requests on two permits give a refused one, and three at one key a late
  one, the next one, and the one whose lock is deleted. Two faults are a client that goes and
  a command, or a late handler and a crash.

`CHECK_DEADLOCK FALSE` is set where the system really stops: all relays stopped and
started as often as the bound allows, a scheduler that was shut down, workers that
returned, a saga that returned, a bus that was closed (or is wedged, which HangsOnlyWedged is
about), requests that were answered. The breaker, the lock, the cluster and event sourcing are checked for deadlock.

## 4. Fairness

Weak fairness on the steps of goroutines that exist: the Go scheduler runs them, tickers
and timers fire, calls to a database, a broker or Redis return, fn and handlers return, Redis
expires entries. Nothing is fair that somebody has to want: saving a message, starting,
stopping or crashing a relay, taking or extending a lock, giving up a wait, a tick, adding
a job, Enqueue, Publish, Subscribe, Close, a client that goes. The exception is the breaker, whose
recovery needs requests that keep coming (`WF(Begin)`): without traffic a lazy transition never happens.

For each Outbox loop the actions are fair one by one: they belong to different goroutines,
or to different points of one goroutine's loop. In a cancelled idle loop select may take
the ticker or the context; weak fairness is enough for it to end, since with finitely
many rows it finds nothing pending after some time and stays idle. Strong fairness is used nowhere.
`ResetStale` is fair because rows grow older; `Cleanup` need not be.
`EverythingSettled` and `EveryJobEnds` suppose, in the formula, that a relay or a worker stays;
`Recovers` that the service is up for good.

The saga is one goroutine: `WF(Execute)`. The bus has `WF(Proceed(g))` per goroutine, which is what goes
on without a new call of anybody. The guards have `WF(Serve(r))` per request, `WF` of the lock's expiry,
and of the semaphore's only while nobody is admitted: under admitted requests others may renew it.
Event sourcing states no liveness: sessions are callers.

## 5. What is proved

The proofs are for every value of the constants: any number of relays, generations,
messages, callers, instances, processes, jobs, steps, workers, requests, any thresholds, durations and
retries. They use the named assumptions of the modules only (finite sets, numbers that are numbers,
a process for every run), which TLC evaluates in each run, and where
said, one more assumption.

| Module | Theorem | Says | Needs besides |
|---|---|---|---|
| OutboxProofs | TypeCorrect | []TypeOK | |
| | LedgerCorrect | []Ledger | |
| | NothingIsLost | []NothingLost | |
| | NoPhantoms | []NoPhantom | |
| | HoldsOnceCorrect | []HoldsOnce | |
| | OneHolderCorrect | []OneHolder | "slow" not in Faults |
| | PaidCorrect | []AttemptsArePaid | |
| | DuplicatesBounded | []DuplicatesAreResets | |
| | OutboxKeepsPromise | KeepsPromise, a refinement | "slow" not in Faults |
| | StopIsQuietCorrect | []StopIsQuiet | |
| MiddlewareProofs (breaker) | BreakerTypeCorrect | []BreakerTypeOK | |
| | OneProbeAtATime | []OneProbe | |
| | ClosesOnProbes | ClosedByProbes, a step property | |
| | NoWedge | []NeverWedged | |
| RedisLockProofs | TypeCorrect | []TypeOK | |
| | LockIsMutex | ImplementsMutex, a refinement | |
| | CounterFollowsCorrect | []CounterFollows | |
| | OnlyLateLoseCorrect | []OnlyLateLose | |
| SchedulerProofs (cluster) | TypeCorrect | []TypeOK | |
| | SchedulerUsesLock | UsesLock, a refinement | Fits |
| | OneInstanceCorrect | []OneInstance | Fits |
| | SingletonCorrect | []SingletonKept | |
| SchedulerProofs (cron) | CronTypeCorrect | []CronTypeOK | |
| | OneEntryEachCorrect | []OneEntryEach | |
| | ShutdownWaitsCorrect | []ShutdownWaits | |
| | StoppedIsSilentCorrect | []StoppedIsSilent | one goroutine calls Stop |
| JobQueueProofs | TypeCorrect | []TypeOK | |
| | AccountedCorrect | []Accounted | |
| | RetriesSpentCorrect | []RetriesSpent | |
| | SettledForGoodCorrect | SettledForGood, a step property | |
| EventSourcingProofs | TypeCorrect | []TypeOK | |
| | StoresAgreeCorrect | []StoresAgree, the tables' half of ReplayAgrees | |
| | ReplayAgreesCorrect | []ReplayAgrees | RestoresId |
| | ReplayIsShortCorrect | []ReplayIsShort | |
| | RepositoryKeepsPromise | KeepsPromise, a refinement | |
| SagaProofs | TypeCorrect | []TypeOK | |
| | RecordIsTruthfulCorrect | []RecordIsTruthful | |
| | SagaKeepsPromise | KeepsPromise, a refinement | |
| | BackwardsOnlyCorrect | BackwardsOnly, a step property | |
| EventBusProofs | TypeCorrect | []TypeOK | |
| | CloseIsCleanCorrect | []CloseIsClean | |
| | StopsOnlyWedgedCorrect | []StopsOnlyWedged, the safety in HangsOnlyWedged | |
| | PlainHandlersNeverWedge | []~Wedged | a worker, and handlers that neither publish nor close |
| MiddlewareProofs (guards) | TypeCorrect | []TypeOK | |
| | NeverOverAdmitsCorrect | []NeverOverAdmits | |
| | RepeatsExplainedCorrect | []RepeatsExplained | |

The arguments:

*Outbox.* NothingLost is not inductive: MarkSent marks what is on the list `sent`, so one must
know that everything on the list was delivered, and that whatever a loop holds has a row at
all. `Ledger` says both and is inductive with TypeOK; NothingLost and NoPhantom follow
from it. OneHolder is inductive by itself given HoldsOnce: Fetch only takes
Pending rows, which nobody holds, and makes them Processing, and without slow relays ResetStale
finds only rows that nobody holds. With it every mark meets a Processing row, that is, an owed debt, and
each step maps to a step of AtLeastOnce or a stutter: Send to Deliver, MarkFailed to Abandon (`OneFailing`:
of one message), MarkSent to Settle of what Ledger knows to be delivered. DuplicatesAreResets needs a
count of the future:
`AttemptsArePaid` adds, to the copies delivered, the loops that still have the message to send and
the fetch that a Pending row has coming, and bounds the sum by resets plus one. Each
Fetch moves one unit from the row to a loop, each Send from a loop to the copies, and only
ResetStale adds one to both sides. StopIsQuiet needs that a Stop is about a generation that was
started (`StopsStarted`), so that what Start adds later comes on top of it.

*Breaker.* While no call was late, half-open begins with nobody running, because the
timer cannot expire under a running call. Hence `ProbesAlone`: whoever runs in half-open is
a probe, there is one at most, it holds a slot, and the successes counted are those of
probes. This gives OneProbe and ClosedByProbes and survives panics and resets, which can only
leave slots taken. The other direction, `SlotsCovered`, says that slots are never more than
the probes under way; late calls only lower the count, so it survives them, and it
gives NeverWedged as long as nobody panics and nobody resets.

*Lock.* While nobody was late (`NobodyLate`) the entry stays while its taker works under it. `TakerHolds`:
whoever has the lock is the taker of the entry, so there is one; each step then maps to Enter, Leave
or a stutter of Mutex, and so does the first lapse under a holder, after which the promise is void.
CounterFollows is HolderIsHeard and NoLeak. For the first the counter has to be compared with
the callers that count on it: `Covered` says that the counter is at least their number. NoLeak is the
converse, with the failed Unlocks as slack, and needs no assumption on time. OnlyLateLose counts the callers
that believe to hold the lock without having the entry: an expiry under a holder adds one, and a
late Unlock that removes a newer entry puts its caller in the place of the late one, since the
script compares owner ids. A caller that Extend has turned away may still call Unlock and count
again, so the inductive `LateArePaid` counts it in between, and `ToldOff` says that it does not
have the entry.

*Cluster.* `Fits` says that handlers obey their context and that RetryCount + 1 attempts with
the intervals between them take less than the ttl. Then `Outlived` holds of no run
(NeverOutlived), and every step of the scheduler is one of the lock's or a
stutter. With the lock held exactly from the TryLock to the release (`LockedWhere`), two runs
at work would be two takers. SingletonKept rests on `Marked`: the mark is set exactly while one
run of that process is under way.

*Cron.* OneEntryEach is about the time cron runs, but Add and Remove touch cron by what the scheduler
says of itself (`running`), so `FirstRun` adds that the two agree until the first Stop or Shutdown has
switched cron off, and `Fresh` that nothing was left to it by an earlier life. ShutdownWaits walks through
Shutdown (`ShuttingDown`): off, then quiet, then drained, and what was drained stays so, since `old` only
falls. StoppedIsSilent does the same for Stop; what it needs besides is that nobody switches cron on
under a Stop: `StartKeptOut`, which a second Stop would break by saying "not running" too early.

*Job queue.* None of the three properties is inductive, and each conjunct of `IInv` says what one of
them is silent about. `Shape` adds to TypeOK what the stores do not share (`ByStore`) and that whoever is
busy is busy with a job. SoleOwner counts owners, but an owner comes from somewhere: `Tokens` counts, besides the
loops and goroutines that have a job, its place on offer and its place in a client's hands between the two
commands of Enqueue, and bounds the sum by the Enqueues that took effect. Every step moves a
token or drops one, only Enqueue makes one, together with the send. `Unsent` is the ground it stands on: a job nobody
enqueued has left no trace. RetriesSpent speaks of attempts, the code of a counter that is copied
with the job: `Counted` follows it through every place where the job may be (`StoredFits`,
`FetchedFits`, `RunFits`) as room for another try (`Room`) and a distance from the attempts of at most
`undone` (`Square`), which a claim with a stale copy widens by what it takes off. SettledForGood holds because
a settled job has left the queue (`SettledLeft`): nobody but the goroutine that is deleting it still has it.
NothingStuck needs the states before "sent" as well: `NothingDropped` says, as long as nothing has failed
and nobody was cancelled, that every job was sent once if at all and is somewhere; since Tokens then allows
one place only, losing one race for a row cannot be losing the job. TLC checked IInv on the instance of
`jobs_all` (3.1 million states) before it was proved.

*Event sourcing.* `Good` says that the log of every aggregate is filled up to some version and no further (`Logged`),
that a snapshot holds what the log begins with (`SnapsAgree`), and what a session holds where it
stands (`Stands`, `Holds`): behind its committed version only events of its own, and up to it the log, as
long as it has the id it asked for. The primary fact is that a row is never changed, so that a prefix of the log,
however old, stays one; this is why neither an older snapshot that comes late nor the two moments of Load
do harm. `RestoresId` is needed for the sessions only: without it a session saves under the empty id, and
what it then counts as committed is in no log (section 7). The tables survive even that, which is
StoresAgreeCorrect. The same facts make each step one of OptimisticLog or a stutter: LoadEvents is Open at the moment of
the second statement, whatever snapshot the first one found (`LoadIsALook`); an insert is Save, since the unique index lets
it pass only if what the session has from the log is the whole of it (`InsertRecords`); after a lost answer the
session keeps its old view, on which no Save is possible any more. A session without an id has no view, so this
needs no RestoresId. ReplayIsShort is about the last multiple of SnapshotEvery (`LastMultiple`): `DueLeft` says that
unless one was missed, every multiple in the log is in the snapshot or in the hands of a session about to write it.
What Load computes is a recursive function on the log (`ReplayTo`); that it is what the log builds
(`ReplayIs`) is shown without an induction theorem, from the least position where it would not be
(`Least`, by the well-foundedness of < on Nat). TLC checked Good and DueLeft with
RestoresId TRUE and FALSE before they were proved. The proofs use that NoRow is no session (`SessionsAssumption`),
as the mark of an absent row has to be.

*Saga.* The invariant has two parts. `Types` has, with TypeOK, where retries are left
(`WaitsWithRetriesLeft`) and the loop's index (`InRange`). `Course` says, for each phase
(`AtStart`, `GoingForward`, `GoingBack`), which steps are completed, failed, compensated and pending on
either side of the index, and what of it the record has (`RecordBehind`). From it each step maps to Apply,
TurnBack, Revoke, Resist, Commit, GiveUp or a stutter of AllOrNothing; a lost answer of an Action is an
Apply by the culprit, which an aborted saga may leave standing.

*Bus.* `Orderly` says who may be where: senders hold closeMu (`ReadersSend`), there is one closer at
most and the channel is closed under no reader (`Closers`), workers have a task exactly while they
work on it (`WorkersBusy`), and they leave only when the channel is closed and drained (`ExitedLast`).
`Accounts` counts: accepted = handled + in the channel + in a worker's hands. When Close has
returned, the last two are zero. StopsOnlyWedged is what HangsOnlyWedged says without fairness: while a call is
under way or a task waits, somebody is ready, unless the bus is wedged. Its proof walks along the waiting
(`StuckIsWedged`): some worker neither sends nor waits for closeMu, so it is idle or gone and the channel is empty; then
no sender waits, hence no reader keeps Close from the lock, hence no writer keeps readers out, and Close waits for
workers that are all gone. Besides Orderly it needs that whoever waits for the workers has closed the channel
(`Waits`). `Ready` lists the guards of Proceed; TLC compared it with ENABLED Proceed in all 534132
states of the instance of `bus_all`.

*Guards.* NeverOverAdmits is about requests, and the code about a number: `Permits` says that those
admitted, and those about to take their increment back, were counted or were forgotten by an expiry
(`Paid`), and that an increment lets in only what fits (`InSize`). RepeatsExplained needs `Reasons`: a key
that was executed has a result, or a lock whose maker's handler was started, or a cause (`Guarded`);
whoever goes to SETNX past a saved result is blind (`PastIsBlind`); and a request deletes its own
lock, or one that its own lateness let in (`DeletesItsOwn`).

## 6. Only model-checked, and not modelled

Only model-checked: the liveness properties (EverythingSettled, StopEnds, Recovers,
SomebodyGetsIn, NothingStaysTaken, BothReturn, EveryJobEnds, StartReturns, Returns, HangsOnlyWedged,
GuardsReopen), because fairness and ENABLED are out of the prover's reach. Every invariant and every step property
that a run checks is also proved, and of HangsOnlyWedged the part that is safety. AckedIsFound, which fails, is a run only.

Left out of the modelled components, and why:

* *Outbox*: payloads, headers and trace contexts; the schema (`AutoMigrate`); a Save of several messages
  at once, and with it the bridge from domain events (`domain_bridge.go`), which makes such Saves; the
  order of topics. The database isolates the transaction of
  FetchPending by SELECT FOR UPDATE SKIP LOCKED, which is taken as one step.
* *Breaker*: the wrappers for HTTP, gRPC and endpoints, which call Execute; errors that a
  configured predicate ignores.
* *Lock*: the memory cache's lock; WithLock and TryWithLock, which are TryLock or Lock followed
  by Unlock; other keys, which share nothing but the mutex; an Extend of a key that is not held;
  WithOwnerID, with which two instances could share an id.
* *Scheduler*: statistics, hooks other than the veto of BeforeJob, the parsing of schedules
  (a job has a good one or a bad one).
* *Job queue*: priority, delay and the choice among several queues, which decide which job is next
  and not what happens to it (any job may be next in the model); ListDead, which reads; the
  Kafka and RabbitMQ stores.
* *Saga*: the data the steps hand on; the 24 hours after which the key-value store forgets a record; several
  sagas, which share nothing.
* *Event sourcing*: LoadAll, which reads; AutoMigrate; events that the applier refuses, which change nothing;
  a repository without a snapshot store, whose loads are those of a snapshot that cannot be read.
* *Bus*: a synchronous Publish inside a handler, which is the handler's own work; the error handler.
* *Guards*: `Store.Delete` of idempotency, which no guard calls; results that cannot be decoded, which end as
  errors of the store; `Available`, which reads; the gRPC and endpoint wrappers, which do what the HTTP one
  does.

Components that are not modelled at all are in the table of section 1, with the reason in
PROJECT.json.

## 7. Where the code and its documentation differ

Shown by a run:

* `events_lost`: Load never gives the aggregate the id it was asked for
  (`domain/eventsourcing/repository.go:118`): the factory takes no argument, `BaseAggregate.id` has no setter
  and is not in the snapshot's JSON. Events raised after a Load and saved go under the empty
  aggregate id; Save returns nil, and no later Load finds them. `domain/eventsourcing/README.md:11`
  says that the state is rebuilt from all events of the aggregate. An application whose own
  ApplyEvent or UnmarshalJSON puts the id back is the other instance (`RestoresId`).

Met while modelling, and stated as conditions of the properties or left to a reader:

* Outbox: ResetStale touches only Processing rows (`domain/outbox/gorm/store.go:127`), so a
  row is Failed for good after its first error and maxRetries has no effect; the diagram at
  `domain/outbox/outbox.go:8` and the comments at `store.go:41`, `options.go:68` and `:94` say that
  failed messages are reset. (AtLeastOnce lets a debt be abandoned for that reason.)
  MarkFailed updates by id whatever the status (`gorm/store.go:113`), so a slow relay may
  turn a Sent row into a Failed one. Stop cancels the context that Publish is using
  (`relay.go:124`), although the comment at `relay.go:108` wants a poll under way to end well.
  `WithMaxRetries(0)` refuses every message (`relay.go:143`). Intervals that are not positive panic
  in the ticker (`relay.go:94`).
* Breaker: afterExecute is not deferred (`middleware/circuitbreaker/circuitbreaker.go:113`); a
  probe that panics keeps its slot, and the breaker never closes again.
  A call admitted while closed that ends in half-open frees a slot it never took
  (`:186`), after which two probes run, against the comment at `:144`; so OneProbe
  supposes that no call was late. Reset under a probe (`:130`) leaves the slot taken.
* Lock: owner id and counter belong to the instance; a goroutine whose entry expired may unlock the
  newer entry of another goroutine of the same instance (`storage/lock/redis.go:155`), against
  `lock.go:62`. An Extend that fails deletes the counter that a new holder of the same instance has
  just set (`redis.go:198`).
* Scheduler: the ttl of the job lock covers one Timeout (`scheduler/cron.go:283`), the
  lock is held for all attempts, so a job with retries may run in two processes at once, against
  `scheduler/README.md:9`; this is why the theorems suppose `Fits`.
  Remove while the scheduler is stopped leaves the cron entry (`cron.go:95`). Remove and Add
  of a new object under one name lets two runs of a singleton overlap (`job.go:183`). Two concurrent
  Stops may leave `running` false while cron fires again (`cron.go:169`). Shutdown that returned nil has
  waited for the tasks it found, not for those triggered during it (`cron.go:191`). A negative
  RetryCount runs nothing (`cron.go:324`). A Start after Stop, or after a Start that
  failed half way, registers jobs twice (`cron.go:139`), so OneEntryEach is about the first.
* Job queue: MaxRetries is the number of attempts, not of retries (`worker.go:122` against
  `README.md:39`). The database store hands out the row as it was selected (`database/store.go:84`), so
  a stale copy of Retried may be written back and a job gets more attempts; RetriesSpent counts
  these in `undone`. A worker that dies, or whose MarkRunning fails (`worker.go:96`), leaves a row
  running for ever. In Redis a crash or error between the script and the GET loses the job
  (`redis/store.go:81`), an Enqueue that is tried again puts a job into the queue that a worker already
  has (`client.go:31`), and an error of DEL in MarkDone is dropped (`redis/store.go:136`). A
  cancelled context makes the final marks of jobs in flight fail (`worker.go:105`). Close does not
  wake a poll. A worker of the queue without a handler for a type fails its jobs for good. The
  conditions `Calm` and `sends[j] = 1` of the properties stand for these.
* Saga: the saga's own timeout ends the context that its compensations and its saves are given
  (`domain/saga/saga.go:131`): after a timeout each Compensate that looks at its context fails, and the steps stay
  in force (openly: the answer says so). The record is not saved between steps (`:186`), and the errors of
  the saves at `:204` and `:219` are dropped: after a crash or a lost save it says less than was done. Nothing
  resumes a saga from its record.
* Event sourcing: an older snapshot that comes late overwrites a later one; a batch that steps over a multiple
  of snapshotEvery takes no snapshot (`repository.go:80`). Neither makes a load wrong, both make it long
  (`missed` in ReplayIsShort).
* Event bus: handlers that publish from every worker fill the channel and wait for room that only they make
  (`messaging/eventbus/eventbus.go:213`); a handler that calls Close waits for the worker it runs in (`:224`). A
  second Close returns at once, before the first has finished.
* Idempotency: the last look for a result and the SETNX are two commands (`middleware/idempotency/store.go:90`), so
  a request that pauses between them executes a key again whose result was saved meanwhile, against
  `README.md:48` of the package, which promises one charge. Set deletes the lock whoever made it (`store.go:72`). A store that
  fails counts as "no result" (`store.go:45`). The result is saved with the request's context (`http.go:139`): when
  the client has gone it may be lost, and the client's retry executes again. An error of the handler is saved
  as the result like any other.
* Semaphore: Release uses the request's context, so the permit of a client that went stays taken until the
  ttl of the whole key. INCR and EXPIRE are two commands (`middleware/semaphore/distributed.go:90`): a key whose ttl was never
  set keeps its permits for ever. The key may expire under requests that hold permits (`:113`); then more than
  the size are admitted, and their releases drive the new count below zero.

Seen in components that are not modelled yet: the parallel node of `bizx/workflow` runs one handler
although its comment names those of NextNodes; the log shipper's Flush does not wait for the
channel (`observability/logshipper/shipper.go:196`); a lock of `bizx/locking` keeps its count after
the ttl; two schedulers of `bizx/retry` may run one task. They are starting points for later modules.

## 8. Plan

Done, in this order: Outbox with AtLeastOnce; CircuitBreaker; RedisLock with Mutex, and SchedulerCluster on
it; CronScheduler; JobQueue; Saga with AllOrNothing; EventSourcing with OptimisticLog; EventBus; DistributedSemaphore and
Idempotency under RequestGuards.

Next, each with the questions it is to answer:

1. *Queues* (`collections/delayqueue`, `blockingqueue`): an element that is due is taken while consumers wait, although
   two enqueues leave one token in the signal channel (`delay_queue.go:126`).
2. *LoadShed* (`middleware/loadshed/loadshed.go:123`): the state no request leaves, under arriving requests.
3. *Distributed rate limiter* (`middleware/ratelimit/distributed.go:275`), on the counter commands of
   DistributedSemaphore: admissions per window when INCR and EXPIRE come apart.
4. *App* (`app/app.go:157`), the *hubs* and *Workflow* (`bizx/workflow/workflow.go:449`).
5. Outbox with several messages per Save, and the bridge from domain events.

Proofs to come: for the scheduler and the job queue what StopsOnlyWedged is for the bus, that nobody waits where nobody
can go on; for the semaphore the converse of NeverOverAdmits, that the counter exceeds the permits in use by
no more than the releases and corrections that failed; the job queue as one of a bag of jobs in which each is waiting,
held or settled (Tokens gives the mapping while nothing fails).

The runs are meant to stay short enough to be repeated at every change. A new module therefore gets one or
two runs with a few deep properties, and takes the place of a run or property that a theorem makes
redundant; a difference that a run has shown stays recorded in section 7.
