# A verification project for core-cenf-py

TLA+ modules for the parts of `core_infrastructure` that keep state across
calls, awaits, processes or restarts; TLC configurations that check them on
small instances; theorems about them that the TLA+ proof system checks for
every value of the constants. PROJECT.json ties every definition to the lines
it models, every hazard to the properties that cover it, and every property to
a faulty variant of the code that breaks it.

    tlc -config Queues.cfg MCQueues            # one run; PROJECT.json lists them
    tlapm TaskQueueProofs.tla                  # one proof module

Contents: 1 the system, 2 the modules, 3 the runs, 4 bounds, 5 fairness,
6 proofs, 7 where code and documents disagree, 8 assumptions, 9 what is not
modelled, 10 plan.

Paths below are relative to `src/src/core_infrastructure/` unless they begin
with `src/`.

## 1. The system

core-cenf-py is a hexagonal infrastructure library. Every concern is a port (a
`Protocol` in `<concern>/ports.py`) with one test double and one or more
production adapters. An application builds the adapters it needs, hands the
managers to `BootstrapOrchestrator.run()`, and calls them from many coroutines
of one event loop, or from several processes that share Redis, NATS, a cache
or a file. Adapters call each other through ports only: the alert and update
adapters go through the external API, the rate limiter takes a cache, the JWT
adapter a secret manager, and everything reports to logger and observability.

Coroutines of one loop share the adapters (only the Redis cache has thread locks):
concurrency is the interleaving of coroutines
at their awaits, and of processes at every call to something they share. That
fixes the grain of the models. **What the code does between two awaits (or two
calls to something shared) is one action.**

### Components modelled

| component | state | operations | what is hard | what makes it correct |
|---|---|---|---|---|
| Task queue, memory adapter (`taskqueue/adapters/memory_taskqueue_adapter.py`) | lists per queue and dead-letter queue, index of jobs | enqueue, schedule, dequeue, ack, nack | reports that are repeated, late, or about jobs never taken | a job is with one caller at a time; the dead letters are exactly the exhausted jobs; every ready job is served |
| Task queue, SAQ adapter (`saq_adapter.py`, `saq_adapter_helpers.py`) | queues, map of jobs, registry of dead letters | enqueue, schedule, dequeue, ack, nack, get_job, get_dlq_jobs | a listing awaits per job over a set that nack grows, then replaces it | a dead letter is listed as long as Redis keeps the job |
| External API (`external_api/adapters/resilient_http_adapter.py`) | circuit, failure count, opening time per host; the session | start, stop, request | the circuit is consulted once and reported to once, with awaits in between | count and state agree, the cool-down is kept, no circuit is wedged |
| External API, mock (`mock_http_adapter.py`) | canned responses, a circuit per host | set_response_sequence, force_recovery, request | retries, sequences that run out, forced recoveries | its circuit opens only after as many failures as the real one |
| Event bus, memory adapter (`bus_event/adapters/memory_bus_adapter.py`) | bounded queue, subscriptions, consumer and handler tasks | publish, subscribe, unsubscribe | blocked publishers, competing consumers | each handler is started once per event and in order, what is queued is delivered |
| Event bus, Redis adapter (`redis_bus_adapter.py`) | subscriptions with a connection and a listener task each | publish, subscribe, unsubscribe | connections break anywhere in the listener's loop | order, at most once, nothing missed while connected, reconnection |
| Event bus, NATS adapter (`nats_bus_adapter.py`) | subscriptions, listener tasks; durable consumers in JetStream | publish, subscribe, unsubscribe, stop | redelivery, shared durables, consumers deleted under others | an event is acknowledged only when its handler is done |
| Event bus, server (`bus_event/server.py`) | requests and sockets under way | publish and subscribe handlers with their gates | clients that come and go at every await | no subscription is left behind; what a gate refused goes nowhere |
| Rate limiter (`ratelimit/adapters/token_bucket_adapter.py`) | bucket or window per key, here and in a shared cache | configure_bucket, is_allowed, get_remaining, get_reset_time | two copies of the state, no atomicity between processes | no interval grants more than the algorithm allows |
| Bootstrap orchestrator (`bootstrap.py`) | the TaskGroup of start() calls, the shutdown loop, the signal event | run, startup, shutdown | failures and cancellation at every await, signals at any time | managers are stopped in reverse order, all of them, after every start() ended; every signal ends the run |
| Lifecycle manager (`common/lifecycle.py`) | registered services | health_all, is_system_healthy | answers collected over awaits and keyed by name | every answer counts that no service of the same name overwrote |
| State machine (`state_machine/adapters/*.py`) | status and event log, shared by all runs | run, reset, registration | overlapping runs, exceptions out of hooks, error strategies | the log is a path of the rules, is_running means a run is under way, every run ends |
| Cache, memory (`cache/adapters/memory_cache_adapter.py`) | ordered entries with expiry | get, set, delete, clear, nested get_or_set | expiry, early recomputation and eviction in one dict | what was written last, as much as fits, is still there |
| Cache, Redis (`redis_cache_adapter.py`) | table of locks, one per key; Redis or a local dict | get_or_set, set, delete, clear | the table is checked and then written, by threads | a lock is given back on every path |
| Secrets (`secrets/adapters/*.py`) | a file shared by processes, or a dict; a cache with a TTL | get_secret, rotate_secret, invalidate_cache, set_secret | the file is read, truncated and written in separate steps | an answer is at most one TTL behind the store |
| Permission (`permission/adapters/*.py`) | delegation records, and policies of the enforcer or roles | check_permission, check_delegation, list_effective_permissions | records expire, policies do not | what expired grants nothing; no policy outlives its record unnoticed |
| Licence (`licence/adapters/*.py`) | claims per tenant, revoked tenants | load, get, feature queries, revoke | expiry and grace boundaries, a load after a revocation | nothing is served out of term or after a revocation |
| Alerts (`alert/adapters/dispatch_alert_adapter.py`) | rules, time of the last alert per rule, a lock held across sends | register_rule, evaluate_and_alert, send_alert | slow, failing and cancelled sends under a lock | throttle kept, no channel that the rule names left out, every evaluation ends |
| Database, memory (`database/adapters/memory_database_adapter.py`) | rows with versions, scopes | find, insert, update, delete, commit, rollback | stale versions, rows deleted and inserted again | a version names one content |
| Database, SQLAlchemy (`sqlalchemy_adapter.py`) | a session per scope, in a context variable | transaction, get_repository, commit, rollback, writes | nested scopes, tasks that inherit one, repositories kept beyond their scope, rollbacks that fail | a scope commits all that was written in it, and nothing else |
| File storage (`filestorage/adapters/*.py`, five adapters) | the object; the client made on first use | upload, download, delete, exists, presign, list | threads, requests whose answer is lost, errors by code | what was uploaded is what is downloaded |
| Update (`update/adapters/*.py`) | current version and hash, the one saved state | check, download, apply, rollback | any order of calls, failing applies | a rollback goes back to before the latest update |
| Configuration (`config/adapters/*.py`) | a tree of settings | load, reload, getters, set_value | file and environment change between reloads that fail | a whole tree, in its order of precedence |
| Feature flags (`feature_flags/adapters/*.py`) | flags and rules | refresh, queries, set_flag | a file that is damaged and repaired | the last content that could be read |
| I18n (`i18n/adapters/*.py`) | locale, catalogues | load_translations, set_locale, t | overlays and failed loads | loads add up |
| Observability, context, auth (`observability/adapters/*.py`, `common/context.py`, `auth/adapters/jwt_auth_adapter.py`) | ambient context per task; a shared span stack | spans, snapshot, validate_token | tasks copy the context, and share the stack | open spans are of one trace |
| Errors, in-memory logger (`errors/adapters/*.py`, `logger/adapters/in_memory_logger_adapter.py`) | reports, captured exceptions, bound loggers | classify, report, handle, handle_errors, bind | exceptions that cross nested decorated functions | counted once per decorator crossed, with the right class |
| Dependency loader (`dependency/adapters/*.py`) | catalogue, cache of classes; `sys.modules` | resolve_class, register, invalidate_cache | modules rewritten, missing, or without the class | one name, one class, until the cache is invalidated |

Section 9 lists the components that are not modelled.

### How they interact

- *Bootstrap → all managers*: `run()` calls `start()` of all in one TaskGroup
  and `stop()` one by one in reverse. `Bootstrap` has the managers as external
  tasks that succeed, fail, or are cancelled in any order.
- *Lifecycle → services*: each `health()` is an await; `Health` lets every
  service change its condition at any moment.
- *Rate limiter → cache*: the cache client is synchronous. `RateLimiter` has
  the shared entry, its loss, and failed reads and writes.
- *Alert, update → external API*: through `request()`; `CircuitBreaker` has any
  number of overlapping callers that may be cancelled.
- *Bus server → auth, rate limiter, licence, permission, bus*: `BusServer`
  passes one gate after the other, each an answer that may differ from the last
  or not come at all.
- *Buses → application handlers*: handlers take as long as they like, raise or
  are cancelled.
- *Auth, observability → context → logger, errors*: what one sets in the
  ambient context of a task the others read (`Telemetry`).
- *Errors → logger, metrics*: a report is a record and a count (`ErrorReports`).
- *Cache → its caller*: the factory given to `get_or_set` runs inside the call
  and may call the cache again (`MemoryCache`).

## 2. The modules

| module | models | checked and proved by |
|---|---|---|
| `MCQueues` | composes the next two for model checking | its own configuration |
| `TaskQueue` | memory task queue | by way of `MCQueues`; `TaskQueueProofs` |
| `MemoryBus` | one event type of the memory bus | by way of `MCQueues`; `MemoryBusProofs` |
| `JobDelivery` | abstract: hand-out of jobs, one caller at a time | implemented by `TaskQueue` |
| `MCCoroutines` | composes the next two for model checking | its own configuration |
| `StateMachine` | overlapping `run()` calls | by way of `MCCoroutines`; `StateMachineProofs` |
| `CircuitBreaker` | circuit, retry loop and session of the HTTP adapter | by way of `MCCoroutines`; proofs at its end |
| `Services` | composes the next eight | its own configuration; `ServicesProofs` |
| `Bootstrap` | `run()` | by way of `Services` |
| `Health`, `SaqQueue`, `RedisBus`, `NatsBus`, `BusServer`, `AlertDispatch`, `RedisCache` | one component each: processes, callbacks, timers | by way of `Services`; `SaqQueue`, `Bootstrap` and `Health` also alone |
| `Stores` | composes the next nineteen | `MCStores`; `SettingsProofs`, `StoresProofs` |
| `RowVersions`, `Transactions`, `ObjectStore`, `Updates`, `SecretFile`, `MemorySecrets` | components that keep what they are given | by way of `Stores` |
| `RateLimiter`, `MockHttp` | one key, both algorithms, processes and cache; the double of HTTP | by way of `Stores`; `RateLimiter` also alone, with two processes |
| `MemoryCache`, `Delegations`, `MemoryDelegations`, `Licences` | what is kept until it expires: entries, rights, terms | by way of `Stores` |
| `Config`, `FeatureFlags`, `Translations`, `MemoryStateMachine`, `Telemetry`, `ErrorReports`, `Dependencies` | components that keep settings, texts and reports, and the double of the state machine | by way of `Stores` |
| `MemoryCacheUse` | `MemoryCache` with the order of use | its own configuration |
| `Containers` | nested dicts as functions from paths to leaves; lists as stacks and collections; what a comprehension keeps of a list | used by nine of the components of `Stores` |
| `SeqLemmas` | what operators on sequences do to their sets of elements | used by the proofs |

### State and actions

**TaskQueue.** The shared `Job` objects are functions from job ids (`status`,
`attempts`, `maxRetries`, `home`, `due`); `queue` is `_queues`, work lists and
dead-letter lists alike. No method awaits, so `Enqueue` (also `schedule`),
`Dequeue`, `Ack` and the branches of nack (`NackRetry`, `NackDead`,
`NackFail`, with `Bury` for `_move_to_dlq`) are whole calls. A caller may
report on any job it knows, held or not. `Dlq` maps a queue to
`queue + dlq_suffix`; the assumption says that names do not collide.

**JobDelivery.** What the queue promises about hand-out, in two variables: a job
is fresh, waits, is out with the one caller that took it, or dead; a job that is
out may be put back to wait by whoever reports on it (`Requeue`) or buried.
`TaskQueue!ImplementsDelivery` is the refinement: `stage` is computed from the
lists, `owner` is `held`. The code never takes the step `Requeue`, which is the
finding of `task_queue_pending`; an adapter that did would implement
`JobDelivery` just as well. What the refinement excludes is a job that is taken
twice in a row, or that vanishes while it waits.

**CircuitBreaker.** A request is `idle`, `sending` or in `backoff`. `Enter`
consults the circuit (`MayAttempt`, `_should_attempt`), `Succeed` and `Fail`
record the result (`RecordSuccess`, `RecordFailure`), `Retry` and `Resend` are
the loop, `Cancel` leaves without recording. `since` is the distance of
`_last_failure_time` from now, capped at the recovery timeout beyond which it
makes no difference. `Start`, `Stop`, `Stopped` open and close the session.

**MockHttp.** `request()` awaits nothing: one action, with all its attempts
(`Attempts`), the next canned answer for each (`Response`) and one update of the
circuit at the end.

**MemoryBus.** `blocked` holds the publishers that wait for a slot; `Put` is
one of them looking again after it was woken, and it may find the slot taken.
`consumers` counts `_consume` tasks (one per `subscribe()`, which nothing ends),
`ready` and `running` are handler tasks.

**RedisBus.** `Open` / `Subscribed` are the two awaits of subscribe, `Take` and
`Handled` the listener's loop, `Fail` and `Resubscribe` its error path,
`Unsubscribe`, `ListenerEnds` and `Close` the end of a subscription. `Link`
(Redis confirms) and `Break` (the connection is lost with what it had not
handed over) are external.

**NatsBus.** Subscriptions with one subscriber id share a durable consumer.
`Pull` binds a listener to it, `Take`, `Handled`, `Ack` are its loop, `Fail`
and `Wake` the one-second pause after an error, `AckWaitOver` the redelivery,
`DeleteConsumer` the end of the consumer under whoever still uses it.

**BusServer.** `step` is the place of each request between the gates. `Opine`
lets a manager change its answer, or become unreachable, at any moment.
`ReadEnds` is the socket's loop ended by `Disconnect` or `Cancel`,
`Unsubscribe` its `finally`. `Cancel` may also hit the handler inside
`bus.subscribe` or `bus.unsubscribe`; what then becomes of the subscription is
up to the bus, and `cut` remembers the socket: no `finally` looks after it.

**RateLimiter.** `Load` is the read of the shared entry, by which the
process's own is replaced; `AllowBucket`, `DenyBucket`, `AllowWindow`,
`DenyWindow`, `Peek` and `PeekReset` decide and write back. A call is these two
steps; other processes run in between. `Lose` is expiry or eviction in the
cache. `Wall` is the wall-clock time a new bucket gets as `last_refill`
although everything else uses the monotonic clock.

**Bootstrap.** `main` is the place of `run()`; `start[m]` a task of the
group, which `BeginStart` runs for the first time and `EndStart` ends;
`aborting` is the group's own cancellation of the others after one failed.
`StartupEnds` is the end of the `async with`. `Signal` sets the event;
`SecondSignal` arrives when the handlers are off; `Cancel` cancels `run()`
itself wherever it is.

**StateMachine, MemoryStateMachine.** `run()` of the production adapter awaits
only its handlers, so `Outcome` goes from the end of one handler to the next
handler call or the end of the run: guards, log, hooks, error strategy.
`Escape` is an exception out of a hook or a guard, or cancellation. `Reset`
comes at any time. The double awaits nothing: `Run` is the whole call:
its recursive function `turned` takes one `Turn` after the other by what each meets.

**Health.** `Call`, one `Answer` per service in order, `Return`; `Change`
alters a service's condition at any time. Each service has a `name`, any of
them the same as another's; the answers are kept per name. `VerdictCoversKept`
says what the verdict is worth: it counts every answer that was not overwritten.
`VerdictCoversAll` says what the docstring promises.

**SaqQueue.** `Report` is a call of ack, nack or get_job, `Find` the look-up of
the job (`FindFails` when the dict of queues grew under it), `Tell` the call to
SAQ with the registration that follows. `List` begins get_dlq_jobs, each
`Fetch` is the answer for one job and the loop step after it. `own` says whether
a listing still iterates the registered set object; adding to that object
during the iteration is Python's `RuntimeError`. `Due` and `Expire` are SAQ's
and Redis's.

**AlertDispatch.** `line` is the lock's queue. `Evaluate` enters it, `Fire`
looks at the next rule and enters its time, `Send` tries one channel, `Finish`
releases, `Cancel` cancels the holder or one that waits. `wanted` is what a rule
registered as its `channels`; the code never reads it.

**RedisCache.** Threads run `get_or_set` of one key: `CheckLock`, `MakeLock` and
`FetchLock` are the three steps of `_get_lock`, so that two threads may hold two
locks of the same key; `Look`, `Compute`, `Store` follow, and `Leave` gives the
lock back, also when a command fails.

**MemoryCache, MemoryCacheUse.** `store` is the dict in its order. `LookUp`
drops an entry that has expired and leaves any other where it is. `Write` removes
the key, appends it and enforces the limit. `Enter` begins a get_or_set whose
factory runs (`frames` nests), `Return` and `Raise` end it. `due` and `newer` are
history: when a key's value expires, and what other keys were written or found
after it was written. `MemoryCacheUse` adds `idle`, the keys written or found
since the key itself last was, by which an LRU cache would evict.

**RowVersions.** A row has a version, the number of the write its content stems
from, and a life from insert to delete. `Find` copies it to a client, `Update`
writes with or without the version the client has. `Begin`, `Commit`,
`Rollback`, `Leave` are the scope, which undoes nothing.

**Transactions.** A task has a stack of transactions and a session, the value of
the context variable; `Spawn` copies it. `GetRepository` makes a repository of
that session, which `Write` may use ever after, in any task. `Commit`,
`CommitFails` and `Rollback` are calls of a scope, by anybody that has it.
`Leave` is the end of the `async with`; in `LeaveFails` the rollback that
precedes it raises or is cancelled, so that the variable is not reset and the
session not closed. `meant` is history: the innermost transaction of the task
that asked for the repository. `CommitsItsOwn` says that a commit makes durable
what was meant for it. `strayed` marks the transactions that a `LeaveFails` mixed
up; of those a commit makes durable what is in the session.

**ObjectStore.** One object, two callers, five backends. The local adapter's
`LocalOpen` truncates and `LocalWrite` fills, in a thread; a cloud request is
applied or not, and its answer is lost or not, whichever; errors are sorted as
each adapter sorts them (`S3Permanent`, `GcsPermanent`, `AzurePermanent`): a missing object or
bucket, a refusal, a service out of reach. `GetClient` is
the client made on first use.

**Updates.** `Check`, `Download`, `Apply`, `Rollback` in any order, with
`Save` before the installation and `FailNextApply` for the injected failure.
`HttpCheck` and `HttpDownload` get any answer and any bytes; only `Verified`
ones pass.

**Config, FeatureFlags, Translations, Containers.** `Change` and `WriteFile` alter
the file and the environment at any time; `Reload`, `Refresh`, `Load` and their
failures are the code's. A tree is a function from paths to leaves none of which
is a prefix of another, `Overlay` and `SetLeaf` merge. A leaf of the
configuration is its origin and its type, that of a catalogue the load it came
with.

**Licences.** The clock counts half seconds, because jose compares whole ones
(`Second`). `LoadLicense` accepts what is in term or in grace, `GetLicense`
answers from what was kept, `RevokeLicense` marks the tenant.

**SecretFile, MemorySecrets.** A rotation of the file is `RotateRead`,
`RotateTruncate`, `RotateWrite`, with `RotateFails` and `Restart` anywhere;
`RotateChmodFails` is a write after which `chmod` raises, so that the cache keeps
the old value. Two
overlapping writes leave the file in either order or torn. Values are the
numbers of writes. The double is a store and a cache in front of it.

**Delegations, MemoryDelegations.** With casbin, a delegation is kept twice,
`records` and `policies`. `Check` is check_permission with the removal of
expired policies it does on the way, `Delegate` and `List` the other two
operations; `decision` is the last answer with its reason code. The double keeps
records only and prunes them at every question.

**Telemetry.** `context` is per task, copied by `Spawn`; `stack` is shared.
`StartSpan` and `EndSpan` are OpenTelemetry's, `Push`, `OnSpanClose` and
`Clear` the double's. `Log` writes what the context says.

**ErrorReports.** `calls` is a stack of functions, decorated by `handle_errors`
or not, plain or coroutines. An exception in flight leaves one after the other:
`Leave`, `LeaveReported` (reported and raised again) or `Capture` (kept, and
`None` returned). `loggers` share one buffer, and a record's fields are set by
the call, else by what its logger has bound.

**Dependencies.** `modules` is `sys.modules`: a module that was executed once
stays, with or without the class, whatever `Deploy` does to its file.
`Resolve` checks the allowlist, imports and caches; `InvalidateCache` clears
the adapter's cache only. The double's `LookUp` goes through its mapping and
its catalogue in order.

**Services**, **Stores**, **MCQueues** and **MCCoroutines** compose modules that
share no state side by side: a
behaviour exercises one of them (`part`), so the state spaces add up rather
than multiply. Where a component's liveness depends on its fairness, the property
of the composition is "if this part is exercised, with its fairness, then". The
constants of `Services` and `Stores` are open, so that theorems speak of every
instance; `Services.cfg` gives them values, and so does `Stores.cfg` with the
trees, rules and scripts `MCStores` defines. Their properties are those of the
components, under the name of what they have in common.

The few operators on lists that the components of `Stores` need are in
`Containers`, and not taken from SequencesExt: that module would come once with
every instance, and each of the nineteen copies with every obligation, which
then take four times as long to prove.

Definitions whose comment begins "Mutant of" or "Mutants of" are deliberately
faulty variants of a definition (a dropped guard, a missing reset, an off-by-one). No
specification uses them; PROJECT.json says which property finds each of them
out when it takes the original's place.

## 3. The runs

| run | states | what it shows |
|---|---|---|
| `queues` | 121 000 | two components, each alone. Task queue: a job is held by one caller, the dead letters are exactly the exhausted jobs, the queue implements `JobDelivery`, and ready jobs behind scheduled or finished ones are served. Memory bus, with a queue of one slot, three events, two subscriptions: order, at most once, delivery; a publisher returns while somebody stays subscribed |
| `coroutines` | 353 000 | two components, each alone. State machine, with two overlapping runs, a cycle, all three error strategies: the log of an undisturbed run is a path, `is_running` is honest, runs end. Circuit breaker, with three overlapping requests to two hosts: late results never break the agreement of count and state, never shorten the cool-down, never close an open circuit; a circuit recovers once requests succeed |
| `services` | 122 000 | eight components with processes, callbacks and timers, each alone: bootstrap, health, SAQ, Redis and NATS bus, bus server, alerts, Redis cache |
| `stores` | 238 000 | nineteen components that keep something and answer from it, each alone |
| `task_queue_pending` | violation | `PendingIsReachable`: see section 7 |
| `rate_limiter_combined` | violation | `CombinedLimit` |
| `bootstrap_interrupted` | violation | `StopErrorsAreIsolated` |
| `state_machine_rollback` | violation | `RollbackReverts` |
| `saq_dead_letters` | violation | `DeadAreListed` with two listings at a time |
| `updates_rollback` | violation | `RollbackWorks` |
| `health_verdict` | violation | `VerdictCoversAll` |
| `cache_eviction` | violation | `KeepsRecentlyUsed` |

Every component has one type invariant; the other properties are the hazards of
PROJECT.json turned around. Those of `services` and `stores` that speak of
several components are conjunctions:

| property | of |
|---|---|
| `EventsAreKept` | `RedisBus`: calls in order, at most once, none missed while connected; `NatsBus`: acknowledged events are handled |
| `GatesHold` | `BusServer`: every subscription has a handler that will end it, unless that was cancelled in the call that makes or ends it; what was refused goes nowhere |
| `AlertsAreSent` | `AlertDispatch`: throttle, no channel that a rule names left out |
| `CallsEnd` | `BusServer`: subscriptions end after their sockets; `AlertDispatch`: evaluations end; `RedisCache`: calls return |
| `KeepsLastGood` | `Config`: precedence, defaults; `Translations`: loads add up; `Dependencies`: one class per name until the cache is invalidated |
| `BoundedStaleness` | `SecretFile`, `MemorySecrets` |
| `GrantsExpire` | `Delegations`, `MemoryDelegations`, `Licences` |
| `LimitsHold` | `RateLimiter`: bucket and window; `MockHttp`: the circuit's threshold |
| `DoubleLogIsPath` | `MemoryStateMachine` |
| `ReportsAreTrue` | `Telemetry`: one trace; `ErrorReports`: counted on the way unless it is a group, classified |
| `JobsAreServed`, `QueuedIsDelivered`, `SubscribedPublishReturns`, `RunsEnd`, `Recovers` | liveness of `TaskQueue`, `MemoryBus`, `StateMachine`, `CircuitBreaker`, under the fairness of each |

Remarks:

- `Recovers` is conditional: *if from some point on* requests stop failing and
  being cancelled, each circuit closes for good. Without the condition it is
  false of every circuit breaker.
- `DeadAreListed` passes in `services`, with one listing at a time, and is
  violated in `saq_dead_letters`, with two. The first says that a nack in the
  middle of a listing is harmless (the listing fails, nothing is lost), the
  second that two listings are not.
- `LimitsHold` is about one process, whose shared entry may be lost;
  `rate_limiter_combined` shows what becomes of it with two.
- Four properties are cut where a document promises something else than the code
  does, and say nothing there; section 7 has the disagreements. `AlertsAreSent`
  asks for the channels that the rule names, and does not mind others.
  `CountedOnTheWay` says nothing of the count of an ExceptionGroup. `OneClass`
  ends with `invalidate_cache`. `KeepsNewest` lets an entry go once as many
  others as fit have been written *or read*, as any eviction may.
- `VerdictCoversKept` holds whatever names the services choose;
  `health_verdict` shows what is lost when two choose the same.

## 4. Bounds

Each bound is a constant or part of a configuration; guards that exist only to
bound are named in the constant's comment.

| model | bound | why it is enough |
|---|---|---|
| TaskQueue | 2 jobs, 2 queues, 2 callers, `max_retries` 0 and 2, time 0..1, 2 attempts | every pair of one queue and another, one job ahead of another, a first, last and repeated attempt; `max_retries` 0 is the value at which the first nack already exceeds it |
| CircuitBreaker | 2 hosts, 3 requests, threshold 2, recovery 2 ticks, 1 retry | two stragglers and a probe at the same time; hosts share only the session |
| MemoryBus | 3 events, 2 subscriptions, 1 slot | one event delivered, one queued, one blocked |
| StateMachine, its double | 3 states, 2 runs, 3 or 2 iterations | two states in a cycle with an exit, a rule that is missing, a final state without handler |
| Bootstrap | 4 managers | the theorems hold for every number |
| Health | 2 services, 2 names | each is asked before and after the other changes; names that differ and that are the same |
| SaqQueue | 2 jobs, 1 reporter, 1 or 2 listers | a job found and one still to fetch |
| RedisBus | 1 subscription, 3 events, 2 breaks | subscriptions share no connection; a break before and after a reconnection |
| NatsBus | 2 subscriptions of one durable, 2 events | one deletes the consumer under the other; one event acknowledged, one not |
| BusServer | 2 posts, 1 socket, 1 request through the limiter | the other post is refused by the limiter, or either by another gate |
| AlertDispatch | 2 rules, 2 callers, 2 channels, of which a rule names one or both, throttle 2, time 0..3 | an evaluation waiting behind one that sends; throttle passed and not |
| RedisCache | 2 threads, 1 key, 2 calls | both in every pair of steps, so that there are two locks |
| MemoryCache | 3 keys, 2 places, TTL 0 and 1, time 0..1, 1 nested call | full, with one entry expired, one rewritten, one computed |
| RowVersions | 1 row, 2 clients, 3 writes | written, deleted and inserted again between a read and its write |
| Transactions | 2 tasks, 2 scopes, 1 write | nested in one task, and side by side in two that share a context; one left in disorder and another after it; the write is in the one or the other, and several writes of one scope are for the theorem, which bounds nothing |
| ObjectStore | 2 callers, 2 uploads, 2 calls each | overlap of every pair; tearing needs two uploads |
| Updates | 2 channels, 3 versions, 2 applies | the second apply is the first with a known hash |
| Config | 4 files, 4 environments, leaves at depth 1 and 2 | missing, invalid and in each other's way, in both orders |
| FeatureFlags, Translations | 1 flag; 2 locales, 3 loads | good, bad and good again; a fallback, an overlay and one in its way |
| Licences | 1 tenant, 2 tokens, time 0..8 half seconds, grace 2 | before, in, in grace of and after a term, at whole and half seconds |
| SecretFile | 2 processes, 2 keys, TTL 1, time 0..2, 2 writes; one process's cache of one key | both write at once, each key; an entry expires; cache entries do not depend on each other |
| MemorySecrets | 2 names, TTL 1, time 0..3, 3 writes | a set behind a cached value, and after it |
| Delegations | 1 delegate, 2 actions, 1 type, 2 records, time 0..2 | a record expired and another current; a policy that two records claim; rights from base policies and roles in every combination |
| MemoryDelegations | 2 principals, 2 roles, 2 records, time 0..2 | an expired record in front of its renewal |
| RateLimiter | capacity 2, rate 1, costs 1 and 2, time 0..3 | partial refills, a cost that fits only after a refill, a window that passes; the window is Capacity / Rate = 2 ticks |
| MockHttp | threshold 3, 1 retry, 2 scripts | a retry that succeeds, and one that does not |
| Telemetry | 2 tasks, 2 spans | spans that end in either order, before and after a clear |
| ErrorReports | 2 nested calls, 1 exception of 2 kinds, 1 report besides, 2 loggers | a decorated function in another, plain or coroutine; a count that was not zero before |
| Dependencies | 2 modules, 3 versions, one of them without the class, 2 entries | rewritten, removed, incomplete; an entry in front of another |

Deadlock is checked in `queues`, `coroutines` and some of the violation runs. (In the
first two the bus, once its events and subscriptions are used up, and the state
machine, once its runs are over, may stop: a stuttering step says so.) The others stop legitimately (a finished run, all events published, the
clock's bound) and say `CHECK_DEADLOCK FALSE`.

## 5. Fairness

- *Event loop* (`WF` on Consume, StartHandler, BeginStart, StartupEnds, Wake,
  BeginStop, the listener's steps, Fire, and the socket handler's
  Subscribe, ReadEnds and Unsubscribe): asyncio runs every ready task. ReadEnds
  is enabled once the connection is closed.
- *Threads* (`WF` on each step of `RedisCache`): the interpreter runs every
  thread, and a lock that is free again is taken by one that waits. The
  assumption is weak: two threads, two calls each.
- *External calls end* (`WF` on EndStart, EndStop, EndHandler, Outcome, the
  result of an attempt, Send, Compute): handlers run under `wait_for` with a
  timeout, requests under aiohttp's total timeout; for start(), stop(), Redis
  commands, cache factories and state handlers it is an assumption, without
  which their callers wait by design.
- *Publishers* (`SF` on Put): `asyncio.Queue` wakes waiters in FIFO order, but
  a publisher that does not wait may take the slot first; each waiter is woken
  again with every slot.
- *Workers poll* (`WF` on Dequeue per queue and on a caller reporting what it
  holds): the intended use of a task queue.
- *Reconnection* (`WF` on Resubscribe, `SF` on its success): the listener tries
  again for as long as the subscription exists, and Redis is back at some point.
- *Clock* (`WF` on Tick).

Nothing is assumed about producers, signals, clients, cancellation, breaks or
crashes: all of them may stop, or never happen. `Health`, `SaqQueue`, `NatsBus`
and the modules of `stores` have safety properties only and no fairness.

## 6. Proofs

Thirty-four theorems, in eight modules (`SettingsProofs` has the lemmas on seven
of the components that `StoresProofs` ends with). They state every invariant and
every action property that a passing run checks. Each is about every value of the
constants that satisfies the module's assumption (`ConstantsOK`, `ServicesOK`,
`StoresOK` and `ContentsOK`): any number of jobs, hosts, requests, subscriptions,
runs, managers, clients, tasks, callers, versions, keys, rights and licences, any
files, environments, catalogues, states and rules, and any bound.
The assumptions say that bounds are natural numbers, that rate and threshold are
not zero, that a TTL is not negative (the cache raises otherwise), that names do
not collide, that a file holds a tree, and the like; TLC evaluates them on every run of the module.

| module | theorem | property |
|---|---|---|
| `TaskQueueProofs` | `TypeCorrect` | `TypeOK`, a part of `TypesOK` |
| | `Exclusive` | `HeldByOne` |
| | `DeadLetters` | `DeadLettersAreExact` |
| | `Implements` | `ImplementsDelivery`, a refinement |
| `CircuitBreaker` | `TypeCorrect` | `TypeOK` |
| | `CountMatches` | `CountMatchesState` |
| | `Cooldown` | `CooldownFromOpening` |
| | `OnlyCooldownReopens` | `OpenCoolsDown` |
| `MemoryBusProofs` | `TypeCorrect` | `TypeOK` |
| | `Ordered` | `InOrderOnce` |
| `StateMachineProofs` | `TypeCorrect` | `TypeOK` |
| | `PathLogged` | `LogIsPath` |
| | `RunningMeansActive` | `RunningIsActive` |
| `ServicesProofs` | `TypeCorrect`, `TypesCorrect` | the types of bootstrap, and of all eight services (`TypesOK`) |
| | `Ordered` | `StopsInOrder` |
| | `Complete` | `EveryoneStopped` |
| | `EventsKept` | `EventsAreKept` |
| | `GatesKept` | `GatesHold` |
| | `VerdictCovers` | `VerdictCoversKept` |
| | `DeadLettersListed` | `DeadAreListed`, if there is `OneLister` |
| | `AlertsSent` | `AlertsAreSent` |
| `StoresProofs` | `TypesCorrect` | the types of the nineteen components of `Stores` (`TypesOK`) |
| | `VersionsAreUnique` | `VersionsIdentify` |
| | `CommitsOwn` | `CommitsItsOwn` |
| | `UploadsServed` | `UploadedIsServed` |
| | `RollbackRestores` | `RestoresLatest` |
| | `SecretsFresh` | `BoundedStaleness` |
| | `LimitsKept` | `LimitsHold`, if there is `OneLimiter` |
| | `NewestKept` | `KeepsNewest` |
| | `GrantsLapse` | `GrantsExpire` |
| | `LastGoodKept` | `KeepsLastGood` |
| | `DoublePathLogged` | `DoubleLogIsPath` |
| | `ReportsTrue` | `ReportsAreTrue` |

Two theorems have a hypothesis, and both are needed: with two listings
`DeadAreListed` is false (`saq_dead_letters`), and with two processes the limit
is (`rate_limiter_combined`). The hypotheses are about the deployment the runs
`services` and `stores` check.

`SeqLemmas` has what `RemoveAt`, `RemoveFirst`, `Append`, `Tail` and
concatenation do to a sequence and to its set of elements.

### The inductive invariants

None of the properties but the simplest is inductive; what follows is what had to
be added to them.

**Task queue.** `TypeOK`, `WaitsOnce`, `HeldByOne`, `DeadLettersAreFinal` and
`ExhaustedIsFiled` together: a dead letter is not handed out because no work
queue lists it; it is not listed there again because only unknown ids are
enqueued; an exhausted job is not given another attempt because it is filed.
`Implements` maps initial states and every step: `Enqueue` is Accept, `Dequeue`
is Take, a burial is Bury, other reports are Finish or a stutter.

**Circuit breaker.** `CountMatchesState` and `CooldownFromOpening` with
`TypeOK`: the first because only a CLOSED circuit counts failures and only a
success outside OPEN resets the count, the second because a failure that arrives
while OPEN leaves `_last_failure_time` alone. `RecordKeeps` proves both for the
two ways of recording a result, whichever action records it.

**Memory bus.** An event is drawn from the queue once (`DrawnOnce`), the queue
is what was accepted and not drawn (`QueueIsRest`), what is ready was accepted
after all that was started (`StartedInOrder`, `StartedFirst`) and is itself in
order (`ReadyInOrder`). So the handlers started are a prefix of what was
accepted, each once.

**State machine.** `OneRun`: the only run under way knows the status, unless
runs have been mixed since the last reset. From it the event it is about to
append begins where the log ends.

**Bootstrap.** `Progress` says what the shutdown loop's index means (past it all
are stopped, before it none), `Joined` that no start() is in flight once the
group is left, `Clean` that a group that was not aborted has no failed task.

**Services.** `HInv`: the report has, under each name, the answer of the service
asked last of those that gave it, and nothing under the others. `QInv` with `Listed`: only the listing puts registered jobs back, and it
puts back every one Redis still has. `BInv`: the calls, the event under way and
the connection's buffer are increasing, and while there was no break they hold
all that was published since the subscription. `TInv`: the event about to be
acknowledged was handled by the listener of its durable. `WInv`: a request past
a gate was let through by it, and a subscription has a handler in its socket's
loop or on the way out. `AInv`: the alert under way has been tried on the
channels before this one, every other on all or, if its evaluation was
cancelled, on those it came to.

**Stores.** A behaviour exercises one component, and a step of one leaves the
variables of the others (`Components`), so the invariant is the conjunction of
one for each:

- `RVInv`: the row in the table is of the latest life; no copy of that life is
  ahead of it; a copy of the same version has the same content.
- `TXInv`: the token of a frame is the transaction below it, and the context
  variable and each repository name the innermost transaction, as long as neither
  of the two was left in disorder (`Agree`); the session of any other holds what
  was meant for it (`Holds`).
- `OSInv`: while the latest content is known nobody writes, the object is that
  content, and a reader that began since has it or will. `OSCount` counts the
  requests that are pending.
- `UPInv`: what is saved is what was installed before the latest apply.
- `SFInv`: an entry was read one TTL before it expires, and the file says it
  still or said it then, whoever has the file open. `MSInv` says it of the cache
  in memory, with the time at which each value was replaced.
- `RLInv`: whatever entry the process reads next fits what was granted. A bucket
  fits if for every t the tokens it will have, with what was granted since t, are
  within the capacity and the refill since t; a window fits if it has a stamp for
  every grant it can still see. `Old` remembers what held of grants the window no
  longer sees.
- `MHInv`: failures are not ahead of the streak.
- `MCInv`: the entry of a key that is due is followed, in the dict's order, only
  by keys written since, or as many as fit have been written since. When the limit
  drops an entry, those that follow it fill the cache with distinct keys, which
  is the pigeonhole the lemma `EnforcedDict` ends in.
- `CDInv`: every policy is of the file or of a listed record, so that what the
  pruning leaves belongs to a record that has not expired (`PrunedOwned`).
- `MDInv`: no record that has denied is listed: the pruning that follows takes it
  out in the same call.
- `CFInv`: the configuration is a tree, each leaf of it stems from the place
  that decides it (`Ordered`: the last variable for this path or one in its way,
  else the file, else the defaults), and no default is missing that nothing is in
  the way of (`Survive`). `OverlayIs` shows what an overlay keeps of a tree and
  that it leaves a tree, `MergedIs` both properties of a merge.
- `TRInv`: the catalogue of a locale is what its loads, in order, put there.
- `SMInv` with `RunOK`: after n turns a run has logged at most n events, its
  successful moves are as many as `transition_count` says, or one more if a hook
  escaped in between, and are a path of rules that ends in the present state.
- `TEInv`: whatever is on the double's stack is a span it recorded, of the trace
  that is active, and there is an active trace while the stack is not empty.
- `DEInv`: what the cache holds is allowed and is what `sys.modules` has, and every
  version ever given of a module is that one.
- `ERInv`: while an exception is on its way, what was reported since it was raised is
  one report for each decorated plain function it has left, none if the double
  captures, because the first keeps it.

The environment's overlays, the loads of a catalogue and the turns of a run are
recursive functions, about which no theorem on induction can be instantiated.
They are proved by minimal counterexample: if the statement fails for some number,
`Least` gives the least for which it does, which is not zero, and the one before
it contradicts it.

A CASE whose guards overlap is no help to a proof: TLA+ lets it choose among the
branches whose guards hold, while TLC takes the first. `Turn` of
`MemoryStateMachine` is therefore written with IF, in the order of the code's
early returns.

`Kept` stands for the comprehensions of the code; `KeptIs` shows that it takes
the positions in their order and each once (positions have ranks, the ranks are
injective, and so, by counting, onto).

### Model-checked only

- Liveness (`JobsAreServed`, `Recovers`, `QueuedIsDelivered`,
  `SubscribedPublishReturns`, `RunsEnd`, `ShutdownCompletes`, `Reconnects`,
  `CallsEnd`) rests on fairness and ENABLED, which the prover does not handle.

## 7. Where code and documents disagree

Shown by a run (PROJECT.json "findings"):

1. `nack(requeue=True)` after `dequeue` leaves a job PENDING in no list, so it
   is never retried (`task_queue_pending`).
2. Two processes that read the same tokens from the shared cache both spend
   them, so "the combined requests" do not "respect the global limit"
   (`rate_limiter_combined`).
3. A `stop()` that raises `CancelledError`, or a cancelled `run()`, ends the
   shutdown loop (`bootstrap_interrupted`).
4. "rollback (reverts to previous state)" changes the status, while the loop
   goes on with the state that failed (`state_machine_rollback`).
5. The later of two overlapping dead-letter listings drops what was registered
   after the first ended (`saq_dead_letters`).
6. The rollback of a successful update is refused once a hash is known, because
   the hash kept from before is compared with the one after
   (`updates_rollback`); `update/ports.py:187` has it restore the previous
   version.
7. Two services that report the same name share one entry of the answers, so an
   unhealthy one can be hidden and the system called healthy
   (`health_verdict`), against `common/lifecycle.py:157`, "only if ALL registered
   services report healthy".
8. The memory cache evicts in the order of writing: a read moves nothing, so the
   entry in constant use goes first if it was written first (`cache_eviction`).
   `src/docs/docs/managers/cache-manager.md:153`, `:170` and `cache/models.py:86`
   call it LRU.

Seen while modelling; the models do what the code does, no run asserts the
document:

- Managers start concurrently; `SPEC_05_WORKFLOWS.md:23` has them in order. A
  second signal during shutdown kills the process with managers up.
- The circuit is not consulted again between retries, and every request that
  enters while HALF_OPEN is a probe. A 4xx is recorded as a failure, though
  the docstring at `resilient_http_adapter.py:150` counts every status below
  500 as a success.
- Memory bus: `publish` blocks for ever on a full queue without subscriber;
  every `subscribe` leaves one more consumer task behind.
- Memory task queue: a nack repeated after a job was filed files it again in
  the same list; an ack turns DEAD into COMPLETED.
- State machine: overlapping runs write to one status.
- Casbin: the list without expired records is discarded
  (`casbin_permission_helpers.py:81`), so an expired record goes on denying and
  removes the policies of its renewal, and those of the policy file, at every
  check.
- Secrets: the file is truncated in place, so a crash loses all secrets;
  concurrent rotations lose updates.
- Alerts: a rule's `channels` are never read, and every configured channel gets
  every alert: `alert/ports.py:53` calls them the target channels, and
  `src/docs/docs/managers/alert-manager.md:92` and `:160` select with them. The
  channels are tried one after the other, and a slow one delays the rest, though
  `alert-manager.md:15` and the docstring of `send_alert` have it dispatch
  "concurrently". `AlertsAreSent` asks for neither.
- SAQ: the registry of dead letters belongs to one process.
- SQLAlchemy: after a commit or a rollback a scope's repositories go on working on
  its session, while `database/ports.py:43` and
  `src/docs/docs/managers/database-manager.md:57` say that further operations
  raise; what they write is dropped when the transaction ends, because a second
  `commit()` in one scope does nothing (`sqlalchemy_adapter.py:54`). When the
  rollback at the end raises or is cancelled (`:248`), the context variable is not
  reset and the session not closed: from then on `get_repository` hands out the
  old session, in the enclosing transaction or outside any, where it should raise
  (`:262`). (A rollback that raises at `:244` does not do that yet: `finally`
  runs, and tries again.) `CommitsItsOwn` covers all of this: for transactions
  mixed up in this way it says only that a commit makes durable what is in the
  session.
- Memory database: transactions undo nothing
  (`memory_database_adapter.py:287`), while
  `src/openspec/specs/database-manager/spec.md:133` promises rollback.
- NATS: a message is acknowledged after its handler's error was suppressed,
  while `src/docs/docs/managers/bus-event-manager.md:145` says at least once;
  an unsubscribe deletes the durable consumer that another subscription with
  the same subscriber id shares, and ids are sanitised into consumer names, so
  different ids may share one.
- Redis cache: the table of locks is checked and then written, so two threads
  may compute one key at a time.
- `handle_errors` wraps a coroutine function in a plain one
  (the cache adapters decorate theirs, `memory_cache_adapter.py:74`,
  `redis_cache_adapter.py:91`): what the coroutine raises is never reported.
- Errors: an ExceptionGroup is classified and counted as one exception;
  `_unwind_group` (`classification_adapter.py:51`) is not called, though the
  module's description (`:8`) has every inner error counted and logged and
  `src/docs/docs/managers/error-handling-manager.md:97` has each classified.
  `CountedOnTheWay` says nothing of the count of a group. The capturing double
  swallows what `errors/ports.py` says is always raised again.
- Logger double: a bound field may replace a record's `level`.
- Dependency loader: `invalidate_cache` leaves `sys.modules` alone
  (`importlib_dependency_adapter.py:104`), so the next resolution gives the same
  class and not, as `src/docs/docs/managers/dependency-manager.md:68` has it, a
  fresh one. `OneClass` ends where the cache is invalidated.
- File storage: an upload to Azure does not replace an object that exists.
- Feature flags double: an operator it does not know matches.
- Observability: a trace id may still be reported after its span ended.

## 8. Assumptions

Beyond the fairness above, and stated in the modules where they apply:

- `stop()` of the orchestrator and of the HTTP adapter is not called twice at
  the same time; an adapter is started before it is used.
- Costs are positive; all processes configure a key with the same capacity and
  rate; there is one monotonic clock; times are whole ticks.
- `time.time()` does not run backwards in `Delegations` and `AlertDispatch`.
- UUIDs never repeat. Queue names do not end in the dead-letter suffix.
- A service reports the same name every time (`Health`).
- A subscriber id of `NatsBus` is the set of the subscriptions that use it.
- Files are trees whose paths are sequences of names, and the defaults alone are
  valid (`ContentsOK`).
- One of each is enough: `SaqQueue` has one queue and one process, `RedisBus`
  one channel, `NatsBus` one event type, `RedisCache` one key, the permission
  models one tenant and resource, `Dependencies` one namespace and one class per
  module. The code keeps these apart by key and relates them nowhere.
- A factory of the Redis cache does not ask for the key it computes (the lock is
  not reentrant).
- Tokens expire at whole seconds, and half a second is the finest difference
  that matters to `Licences`.
- Nobody binds a logger's `message` field (`ErrorReports`).
- External systems (SAQ, Redis, casbin, the TaskGroup, the file system) do what
  the code's use of them relies on; their definitions are marked external in
  PROJECT.json.

## 9. What is not modelled

| component | why not |
|---|---|
| Rate limiter: test double | answers always yes or always no |
| Logger: structlog adapter | configuration and formatting; the context it adds is in `Telemetry` |
| Dynamic prompting | a pure function of template and context |
| File reader | one read per call, no state |
| Ports, lazy imports | class definitions and re-exports |
| Command line, MCP server | print and serve information, keep nothing |
| Migrations | scaffolding of Alembic |
| Examples, documentation, tests | read for what the code promises |

Partly modelled:

| component | left out |
|---|---|
| Bootstrap | `startup()` and `shutdown()` called on their own; `health()` |
| Observability | counters, histograms, the no-op adapter |
| Auth | whether a token is valid, which is one call of the library |

## 10. Plan

Every invariant and action property that a passing run checks is proved. What is
left is liveness, which stays with TLC (section 6), and breadth.

Models that could grow: several queues and processes in `SaqQueue`, two
configurations of one key in `RateLimiter`, and the
rate limiter behind the bus server instead of an arbitrary answer.
