# Verification of StateManager

TLA+ specifications of StateManager, a C++17 library that keeps JSON state in
Redis, notifies other processes through Redis channels and runs their callbacks
on a thread pool. Paths below are relative to the repository. TLC checks the
models on small instances; TLAPS proves the theorems for every value of the
constants.

## 1. The system

| Component | State | Operations | Interacts with |
|---|---|---|---|
| `ThreadPool` (`src/thread`) | `running_`, `taskQueue_`, `killThread`, the two policies; in the management thread `workerPool`, `workerCount`, `queueSize` | `addTask`, `setScaleUp`, `setScaleDown`, construction, destruction; worker and management threads | runs callbacks for `RedisChannel` |
| `RedisStorage` (`src/client`) | none of its own; keys and `lock:` keys in the server | `tryLock`, `unlock`, `isLocked`, `write`, `update`, `read`, `erase` | Redis, through the reference `RedisClient::getClient` returns |
| `RedisChannel` (`src/client`) | singleton; `running_`, `callbacks_`, `subscriber_`, `subscriptionThread_` | `subscribe`, `unsubscribe(channel)`, `unsubscribe()`, `publish`, destruction; consumer thread | `RedisClient::lockClient`, Redis, the pool |
| `RedisClient` (`src/client`) | singleton; `redis_`, `config_` | `setConfig`, `getClient`, `lockClient`, `connect` | Redis |
| `StateManager` (`src/core`) | its configuration | construction, `setConfig`, `write`, `read`, `erase`, `subscribe`, `unsubscribe`, `publish` | all of the above |
| Logging (`src/logging`) | the global logger and its level, `logger_mutex_`, `log_mutex_` | `getLogger`, `setLogger`, `setLevel`, `log` | called by everyone |
| `AsyncLogger` (`examples/logging`) | `message_queue_`, `stop_thread_`, its thread | `log`, destruction; `processLogs` | passes messages to a `DefaultLogger`; installed by `setLogger` |
| Multithreaded demonstration | counters, one `StateManager` for all its threads | three demonstrations, a monitor thread, clean-up | `StateManager` |
| Publish and subscribe demonstration | local variables that its callbacks write | four demonstrations in `main` | `StateManager`, and through it channel and pool |
| `StateObj`, configuration, interfaces, basic demonstration, tests | none shared | - | not modelled (section 7) |

What is hard in it, and so what the properties are about:

- **ThreadPool**: a condition variable next to atomics that change without its
  mutex, retirement of workers through a shared counter, and a destructor that
  must outlive all of it. Correct means: a task runs once, in order; nothing
  runs after the destructor; no notification is missed; every task is served;
  the destructor returns.
- **RedisStorage**: a lock built from `SETNX` and `DEL`, with no owner and no
  time to live, between clients that lose answers and crash. Correct means: one
  client at a time; what is confirmed has happened; and one should know what a
  crash or a late command leaves behind.
- **RedisChannel**: three mutexes, an atomic flag that decides who starts and
  joins the consumer thread, and a map that is not always locked. Correct means:
  calls return; messages are handed over once and in order; the flag, the map,
  the subscriptions and the thread agree, and a subscription comes into force.
- **RedisClient**: one connection that every `StateManager` replaces while
  others use it, behind two mutexes that are held through sleeps and retries.
  Correct means: references stay good, the connection leads where it was
  configured to, calls return.
- **StateManager**: an operation is three commands, each of which asks for the
  connection anew; callbacks capture the object by a raw pointer. Correct means:
  a lock is released where it was taken, by who took it; callbacks do not outlive
  what they refer to.
- **Logging**: a global pointer that is replaced while others log through it, a
  level that is read without the mutex it is written under, and an asynchronous
  logger that is destroyed, and joined, inside `setLogger`. Correct means: no
  message is lost or out of order, no logger is used after its end, no call hangs.
- **The demonstrations** are the only clients in the repository, and their
  printed results are what a user compares: counters that must add up, a shared
  counter, waits that stand for the end of callbacks.

The hazards are listed one by one, at their lines, in `PROJECT.json`.

## 2. The modules

| Module | What it is |
|---|---|
| `TaskService` | abstract: tasks begin in the order submitted, end once, none runs after closing |
| `ThreadPool` | the pool, statement by statement where another thread can see the difference |
| `ThreadPoolProperties`, `ThreadPoolProofs` | its properties and theorems |
| `LockedStore` | abstract: each key has at most one owner; its value changes by the owner or by an operation given up on |
| `RedisStorage` | clients, the server, lost answers, late commands, crashes |
| `RedisStorageProperties`, `RedisStorageProofs` | its properties and theorems |
| `RedisChannel` | callers, consumer, server and the three mutexes |
| `RedisChannelProperties`, `RedisChannelProofs` | its properties and theorems |
| `RedisClient` | the connection, its references and its two mutexes |
| `StateManager` | extends `RedisClient`: the operations of threads that share it |
| `StateManagerProperties`, `StateManagerProofs` | properties and theorems of the two |
| `Logging` | the factory, `DefaultLogger`, `AsyncLogger` and its thread |
| `LoggingProperties`, `LoggingProofs` | their properties, and theorems about pointers and levels |
| `LoggingOrderProofs` | theorems about the messages: where each is, and their order |
| `MultithreadedDemo` | the demonstration's threads over the keys of the server |
| `MultithreadedDemoProperties`, `MultithreadedDemoProofs` | its properties and theorems |
| `PubSubDemo` | the demonstration over `RedisChannel` and an instance of `TaskService` |
| `PubSubDemoProperties`, `PubSubDemoProofs` | its properties and theorems; the latter extends `RedisChannelProofs` |
| `MC*` | instances for TLC |

Definitions whose comment says *Mutation* are plausible bugs. Nothing uses them;
`PROJECT.json` says which definition each one would replace and which property
would then fail.

### ThreadPool

The variables are the members and the locals of `managerFunction`. `wpc[w]` says
where worker `w` is (`"none"`: no entry in `workerPool`), `mgr` where the
management thread is, `ppc` and `owner` where the callers and the owning thread
are; `submitted` (what `addTask` was given), `done` and `retired` (whether a
worker has taken a retirement signal) are history. A scaling policy is the set of pairs (queue
length, worker count) for which its function returns true, so custom policies
are just other sets.

A critical section is one step when no other thread can see its middle, guarded
by `taskMutex` being free. Two have visible middles, because `running_` and
`killThread` are atomics that change without the mutex and notifications are
sent without it: a worker between a false wait predicate and its sleep, and a
worker between deciding to leave and storing `finished`. There the mutex is held
across steps. Both `compare_exchange_weak` may fail spuriously, and a sleeper may
wake spuriously. `scaleUp` and `scaleDown` are asked one after the other
(`ManagerDeclines` is between them), so that a caller may replace the second in
between. Callers do not use the pool while its destructor runs.

Left out: an exception that is no `std::exception` (it terminates the program);
`workerPool`'s order (its entries are visited in any order); the race on the
policies themselves (`ThreadPool.cpp:103` calls them without the mutex that
`setScaleUp` assigns them under).

### RedisStorage

`pc[c]` names the command client `c` sends next; `op[c]` the operation it is in;
`answer[c]` what it will return. `write`, `update` and `erase` differ only in
their command, and all have the shape lock, command, unlock. A command is
executed and answered (`Replied`), executed and not answered (`ReplyLost`), or
not answered and executed later or never (`Delayed`, `Lands`): redis-plus-plus
throws for the last two and the code goes on as after a failure. A crash forgets
the client's operation, with its command possibly on the way. `read` and
`isLocked` are queries without effect. The code lets anybody call `unlock`; the
model's callers do so only while they hold the lock. Late commands are numbered
by the time-out or crash they stem from, so that equal commands stay apart.

### RedisChannel

`pc[t]` names the place of each caller and of the consumer. `callbacks` is the
set of keys of `callbacks_`, `todo` the rest of a loop over it, `stale` the
callers whose iterator was invalidated by another's `erase`. `lockClient` takes
`instance_mutex_` and keeps it while it waits for `redis_mutex_`; `turn` is the
thread that waits so.

A subscription takes time, as the demonstration and the tests that sleep for it
know (`pub_sub_demo.cpp:227`, `test_redis_channel.cpp:515`). A call of
`subscriber_->subscribe` or `unsubscribe` changes `requested`, the channels the
commands given so far ask for; the next `consume` sends them (`sent`); and the
server obeys some time after that, channel by channel (`subscribed`). `socket`
holds the messages the server has sent. `consume` does not return before it has
sent what there was. A new subscriber starts all of it afresh, and so does the
`reset` of one on which `on_message` could not be registered.

Undefined behaviour (a null `subscriber_`, a dangling iterator, a data race on
`callbacks_` or `subscriptionThread_`) is stated as state predicates; when one
holds, the step `Breaks` may stop every thread, and a call through a null
pointer has no other continuation. The read of a map node is not followed into
its corrupted results. Callbacks run on the pool's threads and may call back, as
any other caller.

### RedisClient and StateManager

`made` lists the servers of the connections made so far; `redis` and the
references threads hold are numbers in it, so a reference is good exactly while
its number is `redis`, and 0 is the null pointer. `at[t]` is the place of thread
`t` in `setConfig`, `getClient`, `connect` or `lockClient`. `attempt` is
`connect`'s loop counter. Every ping and every attempt may fail, up to
`MaxFailures` in all; the sleeps between attempts are left out.

A failed connect leaves `redis_` as it was, because `RedisClient.cpp:105` assigns
it only after the constructor of the connection returned. The test of an invalid
host (`test_redis_client.cpp:166-189`) expects that nothing answers after such a
`setConfig`. That is what happens if the constructor does not throw, since the
new connection is there and its first command does (in the model: an attempt
that succeeds, and pings and commands that fail). If it throws, the old
connection still answers. Which of the two redis-plus-plus does is outside this
repository, so the model has both.

`StateManager` has `step[t]`, the command `t` sends next: `setnx`, `apply`,
`unlock` for `write` and `erase`, `get` for `read`, `publish`. `lock[s]` are the
keys locked on server `s`; `home[t]` (history) is the server `t` took its lock
on, and `moved` (history) the threads that went on at another one. Values, late
commands and crashes are `RedisStorage`'s and not repeated.

### Logging

`fate[l]` is whether logger `l` exists, `ref[t]` the shared pointer a thread has.
`setLogger` replaces `global` with `logger_mutex_` held, and if that was the last
pointer to the `AsyncLogger`, its destructor runs there: stop, notify, join. The
worker tests its predicate, sleeps, takes the whole queue as `batch` and writes
it message by message. `silenced`, `dropped` and `overtaken` are history: the
messages below the level, those a full queue gave up, and those whose level was
changed while they were under way. A thread installs a logger it has just made,
or (`Keeps`) one whose pointer it has. The `AsyncLogger` of the model is made
once.

### MultithreadedDemo and PubSubDemo

The first is the code of `multithreaded_demo.cpp` between two commands to the
server, with the lock of `RedisStorage` around each single write; a failed
command may be executed all the same, at once or later, when its thread is in
another operation or another demonstration (`late`, `Lands`). Two operations of
the first demonstration on different keys differ in nothing another thread sees.

The second is `RedisChannel` with one caller, a program of statements (`left`)
for it, and the pool replaced by what it promises, `TaskService`: the consumer
submits, workers begin and end tasks. `owner[c]` is the callback in channel `c`'s
entry of `callbacks_`, named by demonstration and statement. Each demonstration
waits twice, for its subscriptions to be established and for its callbacks. A
wait is a statement that may end at any time; `hurried` records that one ended
before the server had every command (`Established`) and no message or callback
was under way (`Drained`). The four storage operations of its last demonstration only succeed
or fail.

## 3. The runs

| Run | Instance | States | Shows |
|---|---|---|---|
| `pool_scale` | 2 producers, 2 workers, 3 tasks, default-shaped policies and one custom policy each, with fairness | 574,326 | `TypeOK`, `ExactlyOnce`, `WorkerAccounting`, `NoGhostThreads`, `NoLostWakeup`, `DrainedOnceServed`, `TaskServed`, `ShutdownHangsOnlyAsleep`, and `ImplementsService`: the refinement of `TaskService` |
| `pool_hang` | 2 tasks, with fairness | - | `ShutdownTerminates` fails: both `notify_all` fall between a worker's test and its sleep |
| `storage_faults` | 2 clients, 1 key, 2 values, 2 time-outs, 1 crash | 298,786 | `TypeOK`, `MutualExclusion`, `InsideMeansLocked`, `OrphansStay`, and `ImplementsLockedStore`: the refinement of `LockedStore` |
| `storage_late` | 1 time-out | - | `Isolation` fails: a late `SET` lands inside another client's operation |
| `channel_races` | 2 callers, 1 channel, 2 messages, 1 throwing call | 1,497,014 | `HandedInOrder`, `SomeoneListens`, `OneDeadlockOnly` |
| `channel_calls` | 1 caller, 2 channels, 1 message, 1 throwing call, with fairness | 237,103 | `SettlesExactly`, `TwoRacesOnly`, `CallsReturn`, `SubscriptionsArrive` |
| `channel_deadlock` | 1 caller, 1 channel, 1 message | - | `NoMutualWait` fails: `unsubscribe()` and the consumer take two mutexes in opposite orders |
| `client_switch` | 2 threads, 2 servers, 1 key, 2 `setConfig`, 2 attempts, 2 failures, 3 operations, with fairness | 400,497 | `ReferencesHold`, `NullNeedsAllAttempts`, `ConnectedAsConfigured`, `LocksHaveOneOwner`, `CallsReturn` |
| `threads_demo` | 2 writers, 1 reader, 2 rounds (1 in the load test), 1 failing command, with fairness | 613,543 | `ResultsAddUp`, `OwnKeysDoNotConflict`, `CounterCountsWrites`, `SomebodySucceeds`, `DemoEnds` |
| `pubsub_demo` | 5 channels, 1 message in each demonstration, 2 subscribers, 1 throwing call, with fairness | 504,418 | `CallbacksAreLive`, `ResultsAddUp`, `PatienceIsSafe`, `DemoEnds` |
| `demo_broadcast` | as `pubsub_demo` | - | `EachSubscriberHears` fails: one entry of `callbacks_` for all subscribers |
| `logging` | 2 threads, 2 loggers (a `DefaultLogger` and an `AsyncLogger`), 2 levels, 3 messages, a queue of 2, 1 change of level, with fairness | 802,305 | `NothingIsLost`, `AsyncKeepsOrder`, `PointersHold`, `WritesAsAllowed`, `CallsReturn` |

**Bounds.** Two workers are the fewest for which one retires or sleeps while
another serves, and three tasks the fewest that load both and leave one queued;
thresholds of 1 per worker (0 in `pool_hang`) stand for 10 and 3 so that few
tasks cross them. Two clients and one key are all a lock distinguishes (operations on
different keys share nothing in the server as long as no key is another's lock
name); two time-outs and a crash allow a late command, a late unlock and an
orphan together. In the channel two callers reach every pair of places; one
throwing call reaches every error path. In the client two switches let an
operation leave a server and come back, and as many failures as attempts empty a
whole `connect`. In the demonstrations two rounds let a thread meet its own
previous one, and one failure tells a lost answer from a lost command. In the
logger three messages fill a queue of two and leave one to drop. `MaxTimeouts`,
`MaxCrashes`, `MaxMessages`, `MaxFailures`, `MaxSwitches`, `MaxCalls` and
`MaxLevels` bound counters, and the finite sets of tasks
bound the queue. No property of a passing run is known to depend on a bound,
except that `SettlesExactly`, `TwoRacesOnly`, `SubscriptionsArrive` and
`CallsReturn` say themselves that they are about a single calling thread, and
`SomeoneListens` that no call has thrown. What the code does beyond such a
premise is described in section 4.

The channel's runs do not check for deadlock: the channel really can stop, as
`channel_deadlock` shows, after the destructor, and when the program breaks.
Nor do those of the client (it breaks on a dangling reference, or all calls are
spent), of the publish and subscribe program (mutual wait, or its end) and of the
logger (all messages are logged).
`channel_races` uses the symmetry of callers and channels; it checks invariants
only.

**Fairness.** Weak fairness for each thread: it is eventually scheduled while it
can go on. For the pool that covers the workers, the management thread, the
second half of `addTask` and the destructor; for the channel the callers in a
call, the consumer, whose `consume` ends after its time-out, the server, which
obeys what it was sent, and the step with which a call through a null pointer
ends the program (no other step is left to its thread). Nobody has to
submit, destroy or call, and no spurious wake-up or failure has to happen. That a
caller gets `redis_mutex_` from a consumer that takes it again at once is not
assumed: it follows from `instance_mutex_`, and `CallsReturn` fails without it.
With several callers, who gets `instance_mutex_` is up to the scheduler, so the
channel's `CallsReturn` is about one. In `client_switch` it is about all threads:
their calls are finitely many, so that none waits behind another for ever. The
logger's threads and worker, the threads of the demonstrations, the monitor and
the pool's workers run by the same weak fairness; no failure has to happen. In
`pubsub_demo` the server need not obey: its waits may end too early in any case.

## 4. What the code does not keep

Four statements of the documents have a run that refutes them and an entry under
`findings`:

| Statement | Run | What the code does |
|---|---|---|
| proper shutdown synchronization (`docs/ARCHITECTURE.md:134`) | `pool_hang` | the destructor waits for a worker that missed both notifications |
| atomicity of storage operations (`docs/ARCHITECTURE.md:130`) | `storage_late` | a late `SET` lands inside another client's operation |
| thread-safe subscriber management (`docs/ARCHITECTURE.md:133`) | `channel_deadlock` | two mutexes in opposite orders |
| multiple callbacks per channel (`README.md:167`), the expected total (`pub_sub_demo.cpp:456`) | `demo_broadcast` | only the last subscriber hears |

Others are the reason why a passing property has the premise it has. The models
reach each of them; dropping the premise makes the property fail.

| Statement | What the code does | Premise |
|---|---|---|
| guaranteed task execution (`docs/THREAD_POOL.md:347`, `docs/ARCHITECTURE.md:48`) | tasks queued while no worker is alive, because none was added yet or the last was retired, are destroyed with the queue (`ThreadPool.cpp:139`) | `DrainedOnceServed`: a task has been run, no worker retired |
| a minimum of one worker (`docs/THREAD_POOL.md:92`) | a worker that has left and is not joined is still counted, so a second signal goes to the last that serves (`ThreadPool.cpp:111`) | `NoLostWakeup`, `TaskServed`: no worker retired |
| thread-safe subscriber management (`docs/ARCHITECTURE.md:133`) | of two callers the second meets a null `subscriber_` (`RedisChannel.cpp:61`), or registers a callback between the other's `empty()` and `running_ = false` and has no consumer (line 114) | `TwoRacesOnly`, `SettlesExactly`: one caller |
| a failed initialization resets the flag (`RedisChannel.cpp:55`) | an exception in the loop of `initializeSubscriber` leaves it set (line 183) | `SomeoneListens`: no call has thrown |
| subscribe, unsubscribe and resubscribe (`test_redis_channel.cpp:497`), stopping the thread (`RedisChannel.cpp:196`) | nobody stops the consumer that is joined if `running_` was set again before it looked | `CallsReturn`: `EndlessJoin` |
| thread-safe client access (`docs/ARCHITECTURE.md:39`) | `connect` destroys the connection a reference of `getClient` leads to (`RedisClient.cpp:105`) | `ReferencesHold`: nothing was configured, nothing failed |
| each component has its own connection (`docs/ARCHITECTURE.md:137`, `README.md:228`) | all share one, and an operation moved half-way unlocks another's key (`StateManager.cpp:20`) | `LocksHaveOneOwner`: `moved` |

Besides:

- `README.md:216-222` lists a failing connection apart from "Key not found", and
  promises messages that say which. A failed read is "Key not found"
  (`StateManager.cpp:86`, after `RedisStorage::read` returned the empty string);
  no property tells the two apart.
- `callbacks_` is changed without `callbacks_mutex_` while the consumer looks an
  entry up, and a subscriber on which `on_message` could not be registered is
  reset under an old consumer: the two races `TwoRacesOnly` allows to a single
  caller. Two callers also meet dangling iterators.
- `CounterCountsWrites` is what is left of a count: two writers that read the
  same value lose an update, since the lock covers a single write. No document
  says otherwise.
- When an `unsubscribe` throws in the publish and subscribe program, its frame
  goes while the entry stays; `CallbacksAreLive` holds in every other way the
  program can go. Sleeps that are too short lose messages, let callbacks run
  after their frame, and open the way to the race and the mutual wait:
  `ResultsAddUp`, `PatienceIsSafe` and the second half of `CallbacksAreLive` are
  about sufficient ones. That a sleep is sufficient is nowhere promised.

What does hold in place of those statements: no task is lost while the pool is
open, and none is in two places (`ExactlyOnce`); until a worker is retired, tasks
are served (`TaskServed`), and the queue is drained once one of them has been run
(`DrainedOnceServed`); a destructor that hangs waits for a sleeper
(`ShutdownHangsOnlyAsleep`); a confirmed write has
taken effect and a late one is one the client was told had failed
(`ImplementsLockedStore`); a call that hangs is in the mutual wait or in an
endless join, of a consumer that is still told to run (`CallsReturn`); a
subscription of a single caller comes into force (`SubscriptionsArrive`).

## 5. What is proved

All theorems hold for any sets of threads, tasks, clients, channels, servers,
keys and values, under the modules' named assumptions only
(`ThreadPoolAssumption`: finite sets of workers and tasks, policies that ask for
no more workers than there are; `RedisStorageAssumption`: lock names are distinct,
the absent value is no value; `RedisChannelAssumption`, `RedisClientAssumption`,
`StateManagerAssumption`, `LoggingAssumption`: the names that stand for nothing
are no thread, server, key or logger, bounds are natural numbers, and levels have
a least one; `DemoAssumption`: finitely many threads, none both a reader and a
writer, nor `main`; `PubSubDemoAssumption`: one caller, at least one subscriber,
and channels as the source has them: the third demonstration's is used by no
other, and the second publishes on channels it subscribed to). Premises of single
theorems are named below.

**ThreadPoolProofs.**
- `TypeCorrect`, `WorkersAccounted`: the inductive invariant `BaseInv` joins the
  two, since the type of `workerCount` bounds it by the size of `workerPool`; it
  adds that a worker has a task exactly while it works, and that the join loop's
  list is empty outside the loop.
- `NoGhosts`: `LifeInv` orders the ends of the management thread and the
  destructor, `MutexInv` says who holds the mutex across steps.
- `TasksRunOnce`: `ExactlyOnce` is inductive with `BaseInv`: what `addTask` was
  given, kept in `submitted`, is what is queued, executed or done, each once.
- `PoolImplementsService`: each step is a step of `TaskService` or changes none
  of its variables; from the three invariants above.
- `WakeupsReachWorkers`, `ServedPoolsDrain`: `ServedInv`, until a worker takes a
  retirement signal: who leaves has seen an empty queue after the stop, who is
  about to sleep saw an empty queue and still holds the mutex, and a queued task
  has somebody awake or a notification on its way. A signal that is pending only
  keeps more workers awake.
- `OneWayToHang`: after the stop no worker finds its wait predicate false, so
  who is awake can go on (`LifeInv`, `MutexInv`); if nobody can, the final loop
  spins and all of `workerPool` sleeps (`WorkerAccounting`). That hang is the one
  `ThreadPool_hang` shows; there is no other.

**RedisStorageProofs.**
- `TypeCorrect`.
- `LocksExclude`, `LocksAreVisible`, under `NoAliasing` (no key is the lock name
  of another: `"lock:foo"` used as a key is the lock of `"foo"`). Mutual
  exclusion alone is not inductive, because a deletion of the lock may arrive
  late. `LockInv` adds that a late deletion finds the lock still set, nobody
  inside and no other late deletion: the client that gave up on it left the lock
  in place.
- `OrphansAreForEver`: from `LockInv`, step by step.
- `StorageImplementsStore`, under `NoAliasing`: each step of the storage is one
  of `LockedStore` or changes none of its variables (`AbsValue`, `AbsOwner`,
  `AbsConfirmed`, `AbsLimbo`); from `LockInv`, and `KindInv`, which ties a
  client's place to the kind of its operation.

**RedisChannelProofs.**
- `TypeCorrect`: with `PlaceInv`, which says that the consumer, handing a message
  over, has `redis_mutex_` and a message in the connection.
- `ListenersCorrect`: `SomeoneListens` is inductive by itself once types are known.
- `OrderCorrect`: `OrderInv` orders what was handed over before what is in the
  connection, and that before what is still to be published.
- `DeadlockIsOne`: `MutexInv` says where the holder of each mutex is, and that
  who has `instance_mutex_` waits for `redis_mutex_`. So the holder of
  `redis_mutex_` can go on or is in the mutual wait; if nobody has it, who has
  `instance_mutex_` can take it; if nobody has that either, the loop that has
  `callbacks_mutex_` can go on (`SomebodyFrees`). This is the part of
  `CallsReturn` that needs no fairness, and for any number of callers.
- `RacesAreTwo`, `CallsSettle`, for a finite set of callers (needed to make one
  of a set of cardinality 1): `SoleInv` says that without a subscriber there is
  no caller beyond the point where it is made, and a consumer only after a call
  threw; `SettleInv` gives, for each place of the caller, what it still owes the
  channel, as a relation of `running_`, the callbacks and `requested`. Nothing is
  assumed of when the server obeys.

**StateManagerProofs.**
- `TypeCorrect`.
- `ReferencesCorrect`, `NullCorrect`, `ConfiguredCorrect` from `ClientInv`:
  who decides about the connection has `instance_mutex_` (`MutexInv`); the n-th
  attempt has seen n - 1 failures (`NullInv`); until something is configured or
  fails only a thread that found no connection makes one (`FreshInv`); a
  connection that is kept is the one configured (`ConfigInv`).
- `LocksCorrect`: `LockInv` says who holds a lock at each step of an operation.
- `NoDeadlock`: `HolderInv`, with `MutexInv`, puts whoever has a mutex at a place
  that needs it; `instance_mutex_` is taken first, and the holder of
  `redis_mutex_` needs nothing more.

**LoggingProofs.**
- `TypeCorrect`.
- `PointersCorrect`: `PointerInv`; the destructor is run by one thread, when
  nobody points to the logger, and only then is the worker told to stop.
- `WritesCorrect`: `LevelInv`; a message between its test and its write has
  passed the level, or the level was changed meanwhile.
- `NoCallIsStuck`: `WakeInv`; who keeps `logger_mutex_` is in a destructor, and
  `stop_thread_`, being set under `queue_mutex_`, never finds the worker between
  its test and its sleep, so the notification reaches it. This is what
  `ThreadPool`, whose `running_` is set without the mutex, cannot say.

**LoggingOrderProofs.** All from one invariant, `MessageInv`.
- `MessagesCorrect`: `NothingIsLost` is an equation of numbers. The invariant
  says it of sets instead: each message that was begun is in exactly one of the
  queue, the worker's batch, the written, the silenced, the dropped, or in the
  hands of one thread. The sets are finite and disjoint, so their sizes add up.
  That nothing is left behind when the `AsyncLogger` is gone needs, besides, that
  nobody logs to a logger whose destructor runs (`PointerInv`), and that the
  worker leaves only with an empty queue.
- `OrderCorrect`: what is written comes before what is in the batch, that before
  the queue, that before the messages still to come, and each part is increasing.

**MultithreadedDemoProofs.** `TypeInv` and `PlaceInv` (what each thread's place
says of its request, and `main`'s phase of all threads) carry the rest.
- `DemoTypeCorrect`.
- `ResultsCorrect`: an operation is a pair of a thread and its number, so that a
  sum over the threads is the size of a set of pairs. `CountInv` equates the
  shared counters with the operations ended, `PresentInv` bounds the keys that
  are there by the successes, counted or not, the failed commands and those of
  them that may still be executed. `LateInv` says which keys late commands have.
- `OwnKeysCorrect`: `ItemsInv`; a key is locked only by its thread, and free
  before that thread comes to it.
- `CounterCorrect`: `CounterInv`; the value a writer is about to write is at most
  one ahead of the writes reported, of those about to be, and of failed commands.
- `SuccessCorrect`, if there is a writer with something to write: `SuccessInv`;
  until a write is counted a writer has the lock and will report success, or no
  writer has ended an operation yet.

**PubSubDemoProofs.** The four demonstrations are sequences of one shape,
subscriptions, a wait, messages, a wait, unsubscriptions (`Shapes`), for any
numbers of each; from there on no proof looks into a demonstration.
- `UsesChannel`: the program's steps are steps of `RedisChannel` with one caller
  or leave it alone, so `ChannelInv`, the channel's invariants, holds in it.
- `LastCorrect`: `MainInv` ties `main`'s place in the channel to its statement,
  `EntryInv` says whose callback each entry of `callbacks_` is and that a
  statement ahead removes it, `HearInv` that messages of the third demonstration
  exist only once the last subscriber has the entry.
  That only the last hears is why `EachSubscriberHears` fails.
- `CallbacksCorrect`, `TotalsCorrect`, `PatienceCorrect`: if every wait ends late
  enough and nothing throws, the server knows every subscription from the first
  wait to the second (`KnownInv`), messages and tasks are under way
  only between the two waits (`DryInv`), and those under way or done since
  belong to this demonstration, each to be found in the connection, in the pool
  or among the done (`TaskInv`). A race and the mutual wait need a message while
  `main` (un)subscribes, which `DryInv` excludes.

Every invariant and every action property of a passing run is a theorem. Only
model-checked is liveness under fairness (`TaskServed`, `ShutdownHangsOnlyAsleep`,
`SubscriptionsArrive`, the three `CallsReturn`, the two `DemoEnds`), which is out of this prover's
reach. For the destructor and the three `CallsReturn` the part that needs no fairness
is proved: `OneWayToHang`, `NoDeadlock`, `DeadlockIsOne` and `NoCallIsStuck` name
a thread that can take a step in each state where one waits, or the one deadlock
there is.

## 6. Plan

Done, in this order: the pool, the storage, the channel, the connection and the
operations over it, the logger, the two demonstrations; theorems for all of
them. What would come next is `StateManager` over several
processes: `client_switch` with `RedisStorage`'s late commands.

## 7. What is not modelled

- `StateObj`, the JSON conversion, the configuration record, the interfaces: no
  shared state and no order to get wrong. An operation on an object that has no
  JSON form returns before it sends anything.
- `basic_demo.cpp` calls the library in sequence from one thread; the tests and
  the build files were read for how the library is used.
- `setOutputFile` of `DefaultLogger`, and of the logging examples all but
  `AsyncLogger` (`RotatingFileLogger`, `FilteredLogger`, `PerformanceLogger`, the
  custom loggers): output to files under one mutex for the whole of each call, or a
  plain call of the logger behind.
- Delays: `connect`'s back-off, the demonstrations' pauses, the consumer's
  time-out are steps that may take any time.
- An exception in a task that is no `std::exception`, and the call of a scaling
  policy in the middle of its assignment.
- Log messages and levels given as strings, which the filter does not see.
- Redis and redis-plus-plus are modelled from how the code uses them: a command
  is atomic at the server, its answer may be lost and the command late; a
  subscriber's commands wait in a buffer until `consume` sends them and are
  obeyed later, and it receives what is published on its channels while it is
  subscribed, in order.
