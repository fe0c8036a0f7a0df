# A formal model of dongdong-IM

TLA+ models of the parts of dongdong-IM that carry logic of their own, TLC runs
that check them on small instances, and TLAPS proofs of their safety for every
value of their parameters.

| module | models | checked by | proved in |
|---|---|---|---|
| `TaskPool` | what a pool promises its callers (abstract) | through `GoroutinePool`, `UserService` | `GoroutinePoolProofs` (refinement) |
| `GoroutinePool` | `pool/goroutine_pool.go` | `pool_safety`, `pool_live`, `pool_panic` | `GoroutinePoolProofs` |
| `Snowflake` | `utils/snowflake/snowflake.go` | `snowflake` | `SnowflakeProofs` |
| `UserService` | `service/user/user_service.go`, `utils/sync/shard_lock.go`, `SetUserCache` of `utils/redis/redis.go`, the user table | `user`, `user_live` | `UserServiceProofs` |
| `RedisLock` | `utils/redis/lock.go` | `lock` | `RedisLockProofs` |
| `CacheProtection` | `utils/redis/cache.go` | `cache` | `RedisKeysProofs` |
| `RateLimit` | `AllowIP` and `cleanupLoop` of `utils/ratelimit/ratelimit.go` | `ratelimit` | `RateLimitProofs` |
| `Presence` | `utils/redis/online.go` | `presence` | `RedisKeysProofs` |
| `CrossNodePush` | `utils/redis/pubsub.go` | `push` | `CrossNodePushProofs` |
| `HotReload` | `utils/config/viper.go`, `NewRedisLock`, `utils/jwt/jwt.go` | `reload` | `HotReloadProofs` |

Every `MC*` module only names model values and gives function-valued constants;
the `.cfg` files of the same name hold the bounds. `PROJECT.json` lists runs,
hazards, findings, and for each definition the source lines it stands for.

To run: `tlc -config MCGoroutinePool_safety.cfg MCGoroutinePool`,
`tlapm GoroutinePoolProofs.tla`.

## 1. Inventory

The repository is a messaging backend under construction. `main.go` calls two
initialisers by names that do not exist any more; the API layer, the
WebSocket hub, friends and messages are described in `docs/` but are not
written. What exists is the user service and the library it will grow on.

| component | state | operations | interacts with | what is hard | what makes it correct |
|---|---|---|---|---|---|
| goroutine pool | buffered channel, atomics `workerNum` and `stopped`, a WaitGroup, three statistics | `Submit`, `SubmitWithRetry`, `Close`; loops `coreWorker`, `tempWorker` | the user service submits cache writes | lock-free growth, idle timers against arriving tasks, `Close` against everything | tasks neither lost nor doubled, counter equals workers, never above `maxWorkers`, core workers stay, graceful close is graceful |
| Snowflake generator | `lastTime`, `sequence` under a mutex, machine ID | `NextID`, `waitNextMilli` | wall clock; other processes only through the ID space | clock set back, twice; sequence overflow; waits with the mutex held; restart forgets `lastTime` | unique, increasing per generator, calls return |
| user service | none of its own | `Register`, `Login` | shard lock, MySQL, goroutine pool, user cache | check-then-insert on several processes; a commit in doubt; the request context ends before the cache task runs | one user per email, lock released on all paths, cache never ahead of the table, a registered user can log in |
| sharded lock | 32 mutexes per process | `Lock`, `Unlock` | `Register` | emails equal for MySQL hash apart | keeps one email's registrations of one process apart |
| user cache | two Redis keys per user | `SetUserCache`, `GetUserIdByUserEmailCache` | a pool task of `Register` | half-written pipeline, late writes | both mappings name a stored user |
| distributed lock | one Redis key with a TTL; `nonce`, `ctx`, `cancel` in the value | `TryLock`, `Unlock`, the watchdog `renewLock` | Redis | expiry against renewal, lost answers, retried commands, crash, contexts | one holder; a foreign key is never touched; an abandoned key goes |
| protected cache read | a singleflight group per process, Redis keys, cached absence | `GetWithProtection` | Redis, a loader, the database behind it | an answer written after the row has changed, shared errors, a flight that does not end | bounded staleness, one load per miss and process, errors reach only those who shared the load |
| rate limiter | a global bucket, a `sync.Map` of buckets with `lastSeen` | `AllowGlobal`, `AllowIP`, `cleanupLoop` | the API layer (unwritten) | the cleanup against a request that has the entry in its hands | nobody exceeds rate and burst, idle buckets go |
| online status | a Redis key with a TTL per user | `SetOnline`, `RefreshOnline`, `SetOffline`, `IsOnline`, `BatchGetOnline` | the hub (unwritten) | connections of one user that overlap, a refresh that finds no key, crashes | a connected user is online, a user who has gone is not |
| cross-node push | a Redis channel, a socket and a buffer per subscriber | `PublishCrossNode`, `SubscribeCrossNode` | the hub (unwritten) | messages in flight at each end of a subscription, a callback that is slow | each node handles what it gets in order and once, and stops when told |
| configuration | one structure, rewritten by hot reload | `Init`, `GetConfig` | everything | readers without a lock, files that are half written or wrong | a change reaches the structure, no reader finds a hole or a mixture |
| JWT | secret and expiry, copied at start | `Init`, `GenerateToken`, `ParseToken` | configuration | the structure changes behind the copy | tokens stay valid for their time |
| password hashing, MySQL start-up, logging, metrics, trace IDs, generated gRPC code | none, or start-up only | | | | not modelled, section 6 |

The calls between the modelled components are these: `Register` holds a shard
of the lock over the existence check, the hash, the insert and the submission to
the pool; the pool runs the closure that calls `SetUserCache`; a distributed lock
and the JWT functions copy their settings from the configuration. The other
libraries have no caller in the repository yet: the distributed lock, the
generator, the cache read and the limiter are modelled against arbitrary
callers, online status and push against the hub that their comments and
`docs/architecture.md` describe.

## 2. The models and the code

### `TaskPool` and `GoroutinePool`

`TaskPool` is the promise: a call's task is accepted or refused; an accepted one
is started once and ends; `Drain` (a `Close` that returns nil) happens only when
no accepted task is waiting or running. It has no channel, worker or counter.

`GoroutinePool` makes every access to a shared object a step.

| code | actions |
|---|---|
| `Submit`: checks and closure | `Begin` |
| first send; CAS loop; `wg.Add(1)`, `go`; second send; last send | `Send1`; `Load`, `Cas`; `Grow`; `Send2`; `Send3` |
| loop of `SubmitWithRetry` | `Send3` (a full queue leads to "sleep" or to the result), `Begin` again |
| receive of a worker; `runTask`; the end of its loop; idle timer; the two deferred calls | `Receive`; `Finish`; `WorkerExit`; `IdleTimeout`; `Leave` (in both), `WorkerDone` |
| `Close`: CAS on `stopped`; `close(taskQueue)` and the waiting goroutine; the two ends of the select | `CloseBegin`; `CloseChannel`; `CloseReturn`, `CloseTimeout` |
| `wg.Wait` | `WaitStart`, `WaitWake` |

A send on the closed channel is a panic of the submitting goroutine: the call
ends in "panic" and the rest of the program goes on, as it does under a
recovering caller. A WaitGroup used again between the last `Done` and the return
of `Wait` panics in a goroutine nobody recovers: `Crashed`, and everything stops.
A task ends by returning, by panicking, or skipped because its context is done.
Abstracted: the direct handoff of a task to a parked receiver is an append
followed by that worker's `Receive`; the length of sleeps and timers (a timer may
fire at any time); `GetPoolStats`, which only reads; the misuse check inside
`WaitGroup.Add`, a window of a few instructions.

### `Snowflake`

One generator per process, several callers, a clock per process that ticks and is
set back. `NextID` holds the mutex to its end, so what happens between two waits
is one step: `Begin` runs to the result or to the first wait, `Wake` is the
second clock reading after the sleep, `Spin` the end of `waitNextMilli`.
`Restart` forgets `lastTime` and `sequence`, drops the calls in progress and
takes at least a millisecond. The ID is computed as the bit fields lay it out;
that machine IDs differ between processes is an assumption, as it is in
`config.yaml`. The 41-bit width of the timestamp is left out.

### `UserService`

`Register` is `Begin`, `Lock`, `Check`, `Hash`, `Create`, `Submit`, `Unlock`,
`Return`, one step per call that leaves the process or takes the mutex. Its
surroundings:

- The pool is `TaskPool`, by INSTANCE: `Submit` is its `Accept` or `Refuse`.
  That this is enough is what `pool_live` checks and `PoolImplements` proves.
- MySQL compares emails by collation (`same`), the shard lock by bytes (`shard`);
  the unique index refuses a row that is equal for MySQL. An insert whose client
  is gone is in doubt (`doubtful`) until `Resolve` ends it either way; meanwhile
  other inserts of the email wait on its index entry, and may time out.
- The context ends when the handler has returned (`Return`) or the client gives
  up (`Cancel`). Queries fail at once on an ended context.
- The cache task looks at the context when it starts (`StartTask`), then writes
  two keys, one after the other (`SetID`, `SetEmail`), may break off in between
  (`PipelineFails`), and keys expire (`Expire`).
- `Login` is one query and a comparison; a failing query is answered like a wrong
  password, which is what the code does. The rejection of blank logins touches
  nothing and is left out.

### `RedisLock`

A command is sent, served by Redis, and answered in three steps. `TryLock`,
`Serve`, `TryReturns` / `TryFails` are `TryLock`; `Unlock`, `Serve`,
`UnlockReturns` / `UnlockFails` are `Unlock`; `WatchStarts`, `Renews`,
`ServeRenewal`, `RenewalReturns` / `RenewalFails`, `WatchStops` are `renewLock`.
The fields `nonce` and `ctx` belong to the RedisLock value and are overwritten by
each `TryLock`: a watchdog reads them when it enters its select and again when its
ticker has fired, and `uses` records what it read.

Time is counted in ticks, a key keeps the ticks it has left, so no clock is
bounded. In a fault-free history a command takes at most `MaxDelay` ticks and a
goroutine that is ready runs within its tick; each failure to do so is a fault,
and so is an error, a command that go-redis sends again, a context that ends early,
and a crash. `MaxFaults` bounds their number, and `Budgets` the calls and faults of
one history together.
`redis.go:22` leaves MaxRetries and ReadTimeout of go-redis at their defaults, so a
command is sent again when the connection breaks or the answer does not come in
time, whether Redis has served it (its answer is lost) or not (`Resend`,
`ResendScript`; here as often as the faults allow). A command whose sender has given
it up or sent it again may still arrive, once and at any later time (`Stray`); every
copy is an element of `stray` of its own.
From go-redis: a command in flight is not interrupted by the end of its context;
one begun, or to be sent again, on an ended context fails at once.
`intruded` and `resent` are history variables: no action depends on them.
Left out: `Unlock` on a value whose last `TryLock` failed or that was never
locked, and a failure of the random source (it returns before anything is
changed).

### `CacheProtection`

`GetWithProtection` on one key: `Get` is the first lookup, `Do` the call of
`sfGroup.Do` (the first caller of a process leads, the others wait), `Recheck`,
`Load` and `Store` are the function given to it, `Finish` its return together with
the removal of the flight, `Wake` the return of a follower. The row is a version
number, absent in some versions; `Write` changes it at any time and, as in the
code, nobody deletes the key. A lookup that fails counts as a miss, a SET that
fails may have been executed, a loader may fail; `MaxFaults` bounds them. A flight
takes at most `MaxFill` ticks: the code leaves it to the loader and to the
timeouts of go-redis to end, and staleness depends on it. Left out: a loaded
value that equals the marker `<NIL>`, a `baseTTL` below ten nanoseconds (both in
section 4), and a loader that panics.

### `RateLimit`

`LoadOrStore`, `Touch` (the assignment to `lastSeen`) and `Allow` are `AllowIP`;
`SweepStart`, `Visit`, `Delete` and `SweepEnd` are `cleanupLoop`, whose clock is
read once per sweep and whose test and `Delete` are two steps. An entry is a number,
since a request may go on with one that is no longer in the table. `lastSeen` is
written and compared without a lock; `Sub` compares the monotonic readings, one
word each, so a race yields the old time or the new one. A bucket of
`rate.NewLimiter` fills at each tick. A request takes less than a tick, so
no request holds its entry for the ten minutes that would make it idle again. `meter` adds one
per admitted request and takes off `Rate` per tick, so it exceeds the burst exactly
when a rate and burst are exceeded.

### `Presence`

The key of one user and his connections, a tick being 18 s. `SetOnline`,
`RefreshOnline` and `SetOffline` are the commands as Redis executes them: `EXPIRE`
makes no key, `DEL` deletes anybody's. `Open`, `Pong`, `Close` are the hub, from the
comments on the functions and on `onlineTTL` (a Ping every 54 s, a refresh at each
Pong, several connections of a user when he comes back). Commands take at most
`MaxDelay` ticks; a command that fails, a lost Pong, a crash of a node and a Redis
that loses the key are faults.

### `CrossNodePush`

A message is named by its place in the order in which Redis accepted it. `Publish`
and `Reply` are `PublishCrossNode`, `Resend` go-redis repeating a PUBLISH whose reply
was lost. `Subscribe`, `Receive`, `Take`, `Handled` and `Done` are
`SubscribeCrossNode`, statement by statement. From go-redis: `Relay` moves a message
from the socket to the Go channel and gives it up when the channel stays full;
a broken connection is made anew and subscribed again (`Disconnect`, `Reconnect`).
A payload is a message: its JSON encoding neither fails nor is refused.

### `HotReload`

The file's content is a version number, and the value of a field the version it
comes from. Three fields stand for all: the two that `NewRedisLock` copies, and the
JWT secret. `ReadInConfig`, `Unmarshal`, `WatchConfig`, `OnConfigChange` and
`JWTInit` are the start; `Reread` and `Notify` are viper's goroutine, which reads the
file again and then calls the callback if there is one; `DecodeField` and `Decoded`
are its `Unmarshal` into the shared structure, which keeps the fields that are missing
or do not decode. The file is truncated and written in two steps, and may be read
in between. `NewRedisLock` and `CopyField` copy the section with no lock: the data
race is modelled word by word, each word being the old value or the new one.
`GenerateToken`, `ParseToken` use the secret copied at the start.

## 3. What the runs check

| run | instance | states | result |
|---|---|---|---|
| `pool_safety` | 3 calls, 1 retry each, 1 core worker, `maxWorkers` 2, queue of 1, 2 calls of `Close` | 1.2 million, symmetric in calls and closers | `WorkerAccounting`, `CoreResident`, `TaskConservation`, `SubmittedAccounted`, `GracefulClose` hold |
| `pool_live` | the same with one nil task and one `Close` | 29 thousand | `AcceptedRuns`, `SubmitReturns`, `ScalesBack` hold under fairness; `ImplementsTaskPool` holds |
| `pool_panic` | no retry | stops at the first | `NoPanic` is **violated** |
| `snowflake` | 2 processes, 3 callers, sleeps of up to 2 ms, 2 sequence numbers per millisecond, 2 clock rollbacks, 1 restart, 3 IDs | 0.19 million | `TypeOK`, `Unique`, `Increasing`, `SmallRollbackAbsorbed`, `CallsReturn` hold |
| `user` | 3 registrations on 2 processes (two of one email, one that differs in case), a login, 1 fault, 1 cancelled call | 0.7 million | `TypeOK`, `OneUserPerEmail`, `LockPreventsConflicts`, `CacheSound`, `LoginFindsUser` hold |
| `user_live` | 2 registrations and one with a blank field | 13 thousand | `RegisterReturns` holds under fairness |
| `lock` | 2 processes, key of 4 ticks, renewed every tick, commands of up to 1 tick; 3 acquisitions without a fault, 2 (of one process or of two) with 2 faults | 0.5 million | `TypeOK`, `MutualExclusion`, `ReleaseCertifies`, `FirstUseExpires` hold |
| `cache` | 3 calls on 2 nodes, the row created and deleted, lifetimes of 1 to 2 ticks and 1 tick, flights of up to 1 tick, 1 fault | 0.4 million | `TypeOK`, `BoundedStaleness`, `OneLoadPerMiss`, `ErrorsExplained` hold; `CallsReturn` holds under fairness |
| `ratelimit` | 2 addresses, 3 requests at a time, burst of 1, 1 token per tick, idle after 2 ticks, a sweep every 2 ticks that takes up to 1 | 0.43 million, symmetric in addresses and requests | `BurstBound`, `NoLeak` hold |
| `presence` | 3 connections, TTL of 5 ticks, a Ping every 3, commands of up to 1 tick, 2 faults | 4 thousand, symmetric in connections | `StaysOnline`, `GhostGone` hold |
| `push` | 3 messages, 1 subscriber with a channel of 1, 1 fault | 58 thousand | `InOrder` holds; `Delivered`, `Stops` hold under fairness |
| `reload` | 2 changes of the file, each with an unusable field, tokens of 1 tick | 10 thousand | `LockSettingsFit`, `NeverEmpty`, `TokenHonoured` hold; `Applied` holds under fairness |

The type invariants of `GoroutinePool`, `RateLimit`, `Presence`, `CrossNodePush` and
`HotReload` are not run, since they are proved; those of the others are both.

**Why these bounds are enough.** The pool's hard cases need a full queue, a lost
CAS, an idle timer against a task, a retry, and a `Close` between any two steps:
two calls that compete for one free worker slot and a third that fills the queue
produce all of them, and `maxWorkers` 2 leaves room for exactly one temporary
worker, so the limit is reached. The parameters beyond that are covered by the
proofs. The generator overflows its sequence at the third ID of one millisecond,
`MaxClock` gives room for a rollback below and one above `MaxWait`, and two
rollbacks are what it takes to disturb a sleeper. Two registrations of one email
in one process meet in the lock, and the third in the index; one fault is one
commit in doubt. Two processes and two acquisitions by one of them are what a
late script or an old watchdog needs to meet a foreign nonce. One fault is enough
for each of the single failures the code handles; in `lock` two of them meet, which
is what it takes for a copy of a SETNX to outlive the key it was sent for. Three
acquisitions with faults are left to the proofs. In `cache` two calls of a node share a flight and the
third, on another node, writes the same key behind their back; the row is absent,
present and absent again, which gives entries of both lifetimes to go stale. In
`ratelimit` a third request finds the bucket that replaced the one in use, and two
addresses keep `Range` from ending at the first. Three connections are two that
overlap and one more to follow; the ticks of 18 s keep the proportions of 90 s and
54 s. With a channel of one, three messages fill the channel and the socket while
`onMessage` has the first. Two changes of the file can leave each field of a lock
at a different version. Clock, ID and fault counters are bounded in the
guards, each by a constant of its name; nothing waits for what a bound forbids
(`Tick` of `Snowflake` gives way to a waiting caller).

**Properties worth a word.**

- `SubmittedAccounted`: `totalSubmitted` counts attempts, so it exceeds
  `totalCompleted` by queued and running tasks *and* by every attempt that found
  the pool full.
- `Unique` and `Increasing` are stated for histories in which no clock was set
  back or no process was restarted. With both, the code repeats IDs, and no
  document promises otherwise.
- `LockPreventsConflicts` says what the shard lock is for, beyond the index: in
  one process no registration meets a row of its own email in the index, unless
  that row's commit was in doubt.
- `MutualExclusion` is about histories without faults: an error ends the
  watchdog for good, so a fault can cost the lock. What remains then is
  `ReleaseCertifies`: an `Unlock` that returns nil certifies that nobody else had
  the lock since its caller got it, unless go-redis has sent the SETNX again with a
  copy on its way. The run reaches that exception (observation 11 in section 4).
- `FirstUseExpires` holds for the first acquisition on a RedisLock value; for
  later ones see observation 5 in section 4.
- `BoundedStaleness`: the loader may read the row before a change and the SET come
  after it; `retired` counts from the change, and the bound is one lifetime (the
  short one for a cached absence) and one flight.
- `OneLoadPerMiss` is what the second lookup is for: without it, a caller that
  missed before the flight and calls `Do` after it loads again.
- `BurstBound` gives the price of the unlocked cleanup: twice the burst, and only
  to an address whose request crossed the deletion of its idle bucket.
- `StaysOnline` excepts faults and an old connection's late `DEL`; section 4 says
  what they cost. `GhostGone` has no exception; a command in flight at a crash is
  taken as lost, so its bound counts from the last command Redis has executed.
- `Delivered` excepts what a broken connection or a full channel loses. Messages
  taken after the context has ended are still in order (`InOrder`), and do not keep
  a node in its loop (`Stops`).
- `Applied` excepts changes that fall between the first reading and the
  registration of the callback, `LockSettingsFit` the copies made while a reload
  was under way.

**Fairness.** `GoroutinePool`: each goroutine that can run runs, sleeps and idle
timers end, tasks end (the pool has no way to stop one that does not, and the
service's tasks work under timeouts). Nobody has to call `Submit` or `Close`.
`Snowflake`: time passes, and a caller whose wait is over goes on.
`UserService`: a call that has begun goes on, since each query has its timeout, and
a free mutex is taken by one of its waiters. `CacheProtection`: a call that has begun
goes on and the loader ends. `CrossNodePush`: `onMessage` returns, go-redis reads its
socket and reconnects; a select in which `ctx.Done` is ready again and again takes
it, for Go chooses among the ready cases at random: this is the one strong fairness.
`HotReload`: viper's goroutine runs. `RedisLock`: some step of Redis, of a goroutine or
of time is taken while one can be; between two ticks there are finitely many of the
others, so time passes. Weak fairness is enough elsewhere: Go's
scheduler and mutexes do not starve a goroutine, and no other property needs a
step that is only now and then enabled. The other modules state safety only. Nobody
has to call anything, and the surroundings need not act.

## 4. Findings

`pool_panic`: `Submit` tests `stopped` and sends later; a `Close` in between closes
the channel and the send panics in the caller, where the comment of `Close`
promises a refusal.

Met while modelling. The properties above are stated with the exceptions that
these make necessary:

1. `goroutine_pool.go:227`: between the CAS of `workerNum` and `wg.Add(1)` a
   worker-to-be is invisible to `wg.Wait`; `Close` may return nil and the worker start
   after it. It finds an empty closed queue: `GracefulClose` still holds.
2. `snowflake.go:113`: IDs of two processes follow two clocks, so they are not
   ordered globally, as `docs/technical.md:772` has it.
3. `user_service.go:132`: the cache task runs under the request's context, which gRPC
   ends when `Register` returns; a worker that is a little late skips it.
4. `cache.go:42,85`: a loaded value `<NIL>` is read back as absence; a `baseTTL`
   below ten nanoseconds makes `Int63n(0)` panic.
5. `lock.go:117`: a watchdog re-reads `ctx` and `nonce` of the RedisLock value. If its
   script is under way while the lock is released and taken again, it goes on for
   the second acquisition; when the answer of that second SETNX is lost, the caller
   has no lock, and the watchdog renews the key for ever.
6. `online.go:52`: `EXPIRE` makes no key. After one failed `SET`, one refresh that
   comes too late, or the `DEL` of an older connection (`online.go:58`), a user stays
   offline for as long as he is connected.
7. `pubsub.go:99`: when `Receive` fails, the function returns without closing the
   subscription.
8. `viper.go:93`: a change between the first reading and `OnConfigChange` is not
   applied before the next one.
9. `jwt.go:35`: secret and expiry are copied at start, as are the settings of
   the limiter and the pool's: a reload does not reach them.
10. `config.yaml` says `max_backup` where the structure says `max_backups`: the
    value is not read.
11. `lock.go:71`: go-redis sends the SETNX again while the first copy is on its way.
    The second one is granted, a renewal fails or comes too late, the key expires,
    others lock and unlock; then the first copy sets the key to the old nonce, and
    `Unlock` returns nil. A nonce does not tell the copy from the command. With
    `MaxRetries: -1` in `redis.go:22` there is no such copy, and `ReleaseCertifies`
    has no exception.

## 5. What is proved

### The pool

`GoroutinePoolProofs` proves, for any finite non-empty set of core workers and any
calls, closers, `maxWorkers`, queue size and retry count that `NewPool` accepts
(`PoolAssumption`, `WorkersAssumption`):

| theorem | statement |
|---|---|
| `TypeCorrect` | `Spec => []TypeOK` |
| `WorkersAccounted` | `Spec => []WorkerAccounting` |
| `CoreStays` | `Spec => []CoreResident` |
| `TasksConserved` | `Spec => []TaskConservation` |
| `SubmissionsAccounted` | `Spec => []SubmittedAccounted` |
| `ClosesGracefully` | `Spec => []GracefulClose` |
| `PoolImplements` | `Spec => ImplementsTaskPool` |

All of them come from one inductive invariant, `IInv` (`Invariance`). None of the
properties is inductive alone, and the conjuncts say why:

- `WorkerAccounting` counts workers, so a `Grow` must add one that was not there:
  `Unborn` says that the worker of an attempt does not exist before its `Grow`.
  That the counter stays below `maxWorkers` needs `CasBelow`, the value a
  successful CAS started from.
- `GracefulClose` follows a chain: nil means that the waiting goroutine is done
  (`Closing`), which means that the WaitGroup was once at zero with every core
  worker gone (`WaitCount`, `CoreStarted`), which means that the queue was drained
  (`CoreResident`), and a closed drained queue stays so (`Drained`): a temporary
  worker started later finds nothing. `TaskConservation` turns an empty queue and
  idle workers into "every accepted task has ended".
- `TaskConservation` needs `Jobs`: a worker is busy exactly while it holds a task.
- `SubmittedAccounted` is nearly inductive: it needs `Unborn` at `Grow`, and
  `Statistics` adds that its sets are finite. Attempts that were refused and repeated
  are counted as the pairs `Retried`, of a call and the number of the attempt, so no
  sum has to be folded.

The proof of each conjunct has one step per action, with lemmas on cardinality
(`AddOne`, `DropOne`), on the queue (`AppendQueue`, `TailQueue`) and on what each
group of actions leaves alone (the `*Frame` lemmas). `PoolImplements` maps each
step under `status`, `open <- ~closed`, `drained <- some Close returned nil`:
a send that succeeds is `Accept`, a panic or an error is `Refuse`, `Receive` is
`Start`, `Finish` is `Finish`, `CloseChannel` is `Shutdown`, `CloseReturn` is
`Drain`, which needs `GracefulClose`; everything else stutters.

### The other components

| module | theorem | statement |
|---|---|---|
| `SnowflakeProofs` | `TypeCorrect`, `IDsIncrease`, `IDsAreUnique`, `RollbackAbsorbed` | `TypeOK`, `Increasing`, `Unique`, `SmallRollbackAbsorbed` |
| `UserServiceProofs` | `TypeCorrect`, `EmailsAreUnique`, `LockPreventsRaces`, `CacheIsSound`, `RegisteredCanLogin` | `TypeOK`, `OneUserPerEmail`, `LockPreventsConflicts`, `CacheSound`, `LoginFindsUser` |
| `RedisLockProofs` | `TypeCorrect`, `LockIsExclusive`, `ReleaseIsCertified` | `TypeOK`, `MutualExclusion`, `ReleaseCertifies` |
| `RedisKeysProofs`, the cache | `TypeCorrect`, `StalenessIsBounded`, `LoadsAreShared`, `ErrorsAreExplained` | `TypeOK`, `BoundedStaleness`, `OneLoadPerMiss`, `ErrorsExplained` |
| `RedisKeysProofs`, the online status | `PresenceTypeCorrect`, `ConnectedIsOnline`, `GoneGoesOffline` | `PresenceTypeOK`, `StaysOnline`, `GhostGone` |
| `RateLimitProofs` | `TypeCorrect`, `IdleEntriesGo`, `BurstIsBounded` | `TypeOK`, `NoLeak`, `BurstBound` |
| `CrossNodePushProofs` | `TypeCorrect`, `HandedOutInOrder` | `TypeOK`, `InOrder` |
| `HotReloadProofs` | `TypeCorrect`, `LocksFit`, `ReadersFindValues`, `TokensHonoured` | `TypeOK`, `LockSettingsFit`, `NeverEmpty`, `TokenHonoured` |

Each is `Spec => []` of the formula (`SmallRollbackAbsorbed` and `LoginFindsUser` are
action properties, and contain the box), for any sets and numbers that the named
assumption of the module allows, and follows from an inductive invariant `IInv`
(`Invariance` in each module), proved with one step per action. `RedisKeysProofs`
extends two modules with no state in common; the specification of `Presence` is
`PresenceSpec` and its invariant `PresenceIInv`.

- *Snowflake.* `Unique` and `Increasing` speak of what was issued, a step of what the
  generator will issue next: `Past` puts every issued ID at or before
  `(lastTime, sequence)`, or, when a restart has made the generator forget them, before
  the clock. `Mutex` keeps others away while a caller sleeps or spins, `Clocks` and
  `Sleepers` keep the second clock reading from falling behind `lastTime`. `Ordered`
  compares fields; that the order and the equality of fields are those of the ID is a
  lemma about the layout, for any width of the sequence.
- *UserService.* `OneUserPerEmail` is inductive with `Doubts`: a commit in doubt keeps its
  index entry. `LockPreventsConflicts` needs what the caller has seen to stay true
  until its insert: `Owned` keeps the other calls of the process out, and `Checked` says
  that from the check to the insert a row of that email can only be one whose commit
  was in doubt. `Answers` says that success, and everything a cache task does, comes
  after the insert; `Logged` fixes what a login may be held to.
- *RedisLock.* `ReleaseCertifies` is proved for any number of faults of any kind.
  `Certified`: whoever is intruded on no longer has its nonce in the key, so the script of
  its `Unlock` answers no; `Strays` and `Numbers` say that a SETNX left behind can put the
  nonce back only when it is a copy of one that was sent again (`resent`).
  `MutualExclusion` is a matter of time: `Renewed` bounds `ttl` from below in each
  state of the watchdog, and the assumption `2 * MaxDelay + Renew < Expire` is what a
  command of the holder, a turn of the ticker and a command of the watchdog take.
- *CacheProtection.* `BoundedStaleness` needs `Carried`: the version a leader is going to
  store has been retired for no longer than its flight has lasted. `OneLoadPerMiss` needs
  `Periods`, which counts a load under way, or one whose answer is still to be stored,
  against an expiry of its own; `Counted` keeps the counter in its type. `ErrorsExplained`
  needs `Blamed` (who could still join the flight that failed has begun in time) and
  `Waiting` (who waits, waits for a leader of its own process).
- *Presence.* `KeptAlive`: without faults and late deletions the key has, for each
  connection that is up, lost at most the ticks since its last Ping, and for one that
  refreshes it, those since the Ping before; `Beat + MaxDelay < OnlineTTL` then keeps
  it from expiring before the refresh arrives. `Quiet` starts the count on which
  `GhostGone` depends when the last connection goes.
- *RateLimit.* `NoLeak` is not inductive: whether an entry goes depends on where the
  cleaner is. `Clock` ties the timer, the pending tick and the sweep together, so
  that no sweep is skipped, and `Ages` bounds the age of each entry by the clock of
  the last sweep that looked at it, or of the one that has still to. `TypeCorrect`
  needs a pigeonhole: addresses and requests together use fewer entries than there
  are (`FreshEntry`). `BurstBound` follows from a second invariant, `Bounds`, over the
  first: what an address has had and what its bucket still holds add up to at most the
  burst (`Budget`), or to twice that with a bucket it has lost. That a second bucket
  is not lost while the first is in use is `Strays`: it is too young for the cleaner.
  `Quiet` and `Crossing` say why an address whose bucket is deleted unused owes nothing:
  the meter has run down in the time that made the entry idle.
- *CrossNodePush.* `Queues` and `Current` say that what a node has handled, has in
  hand, in its channel and on its socket is, in this order, one increasing
  sequence of places; `InOrder` is its beginning. A new message has the next place of
  all, and losses, breaks and cancellation only take places out.
- *HotReload.* `Files` makes versions only grow on their way through viper. `Decoding`
  and `LiveFields` say that a field which is not about to be decoded has the newest
  version applied in which it is usable, and that every field has some version.
  `Copying` and `Copied` carry that through the copy of a lock that no reload
  disturbs, and `Tokens` says that tokens are issued after the secret was copied.

### Only model-checked

- All liveness: `AcceptedRuns`, `SubmitReturns`, `ScalesBack`, `CallsReturn` (two),
  `RegisterReturns`, `FirstUseExpires`, `Delivered`, `Stops`, `Applied`. TLAPS proves
  no properties under fairness here.
- `NoPanic`, which does not hold.

Every invariant and every action property of a passing run is proved.

## 6. What is not modelled, and why

- Password hashing: two calls of bcrypt, no state. Of JWT, the issuer, the claims and
  the signature, which the library checks.
- `AllowGlobal`: one bucket of the library that nobody replaces. `BatchGetOnline`,
  `GetUserIdByUserEmailCache` and `GetPoolStats` only read.
- MySQL start-up, logging, metrics, trace IDs: I/O or no behaviour to state.
- Generated gRPC code; `main.go`; the empty API files; friends and messages, which
  are not written. The hub is modelled only as the caller its comments describe.

## 7. Plan

Order: what the running service depends on first, then the shared library.

1. *Done.* `TaskPool`, `GoroutinePool`, its proofs; `Snowflake`; `UserService`
   over `TaskPool`; `RedisLock`.
2. *Done.* `CacheProtection`; `RateLimit`, `Presence`, `CrossNodePush`, `HotReload`
   and their proofs.
3. *Done.* `SnowflakeProofs`, `RedisLockProofs`, `UserServiceProofs`, the cache in
   `RedisKeysProofs`, `BurstIsBounded` in `RateLimitProofs`, `SubmissionsAccounted` in
   `GoroutinePoolProofs`.
4. The promises of the distributed lock and of the generator as abstract
   specifications, refined as `TaskPool` is: a lock that is granted and given back,
   a source of increasing numbers.
