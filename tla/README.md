# Verification of the UDP-to-RabbitMQ gateway

TLA+ models of the gateway's components, TLC runs that check them on small
instances, and TLAPS proofs for every size. Source paths are relative to
`src/components/`.

## 1. The system

A device sends a UDP datagram. A *session* of the gateway receives it, parses
it, authenticates the device, refuses duplicates and floods, and hands the
message to the gateway, which publishes it on a RabbitMQ queue; the session
then acknowledges the message and sends the device its pending commands.
Duplicates are recognised through a *deduplicator* backed by Redis (with a pool
of connections and a local cache); messages go to RabbitMQ through a
*publisher* that keeps a local queue while it is disconnected.

The components meet at interfaces only (`IProtocolParser`,
`IDeduplicationService`, `IMessagePublisher`, `IDeviceManager`, `IRateLimiter`,
`ISessionHandler`); no class of the repository implements the deduplication and
publishing interfaces the gateway uses, and the gateway creates no parser, so
Session is modelled against their contracts and the Redis, RabbitMQ and parser
components stand alone.

| Component | State | Operations | Interacts with | Hard behaviour | What makes it correct |
|---|---|---|---|---|---|
| Session (`udp-gateway/src/session.cpp`) | `active_`, receive buffer, sender, counters | start, stop, handlePacket, sendAcknowledgment, sendCommands | all interfaces, one call after the other | other instances, stop, exceptions and crashes between two calls; datagrams repeated | published at most once per window, acknowledged only if published, lost only by a mishap, handler returns |
| Gateway (`gateway.cpp`) | `running_`, socket, work guard, worker threads, sessions, metrics timer | start, stop, handleMessage, handleError, getPendingCommands, updateMetrics | sessions (callbacks), publisher, device manager | start order, restart, threads left unjoined | a started gateway receives; stop ends every thread; start after stop |
| Rate limiter (`rate_limiter.cpp`) | token bucket per device, defaults, counters | checkLimit, setDeviceLimit, setDefaultLimit, resetDevice | sessions of all worker threads (mutex) | fractions, debt of critical messages, changed limits | tokens within bounds; counters add up; long-run rate |
| Connection pool (`redis_deduplication/src/connection_pool.cpp`) | idle queue, standby queue, counters, flags | initialize, shutdown, getConnection, returnConnection, failover, failback, monitor, testConnections | deduplicator threads, Redis client | waits with deadlines, locks given up for a ping, shutdown racing returns | counts right, connections bounded, no lost wakeup, no call hangs |
| Redis client (`redis_client.cpp`) | context, connection status | connect, disconnect, setNX, ping | Redis (hiredis) | status transitions, failures mapped to `false` | connect succeeds when the server answers |
| Deduplicator, local cache (`deduplicator.cpp`, `local_cache.cpp`) | flags, cache (LRU with expiry), counters | isDuplicate, areDuplicates, initialize, shutdown, maintenance | pool, cache, all callers | check-then-act over cache and Redis, shutdown under callers | at most one UNIQUE per identifier and window; an error is not a duplicate |
| Publisher (`rabbitmq_integration/src/publisher.cpp`) | `connected_`, `paused_`, local queue, async queue and thread | publish, publishBatch, publishAsync, pause, resume, processLocalQueue, startAsync, stopAsync, move, destructor | connection callbacks, async thread | drain against new messages, recursive lock, two starts at once, lost wakeup on stop, move under a running thread | nothing accepted is lost, repeated or left behind; one async thread, tasks in order, futures settle, the destructor returns |
| Consumer (`consumer.cpp`) | consumer table, threads, per-consumer flags | startConsuming, stopConsuming, pause, resume | channel, handler callbacks | registration inside the new thread, callbacks under a lock | one consumer per queue; stop joins |
| Local queue class (`local_queue.cpp`) | bounded deque, statistics | push, pop, setMaxSize | not used by the publisher | overflow policy | bounded, oldest dropped |
| Connection, channel, queue manager, metrics | a state flag; the rest is stubs or not built | open, close | | | |
| Protocol parser, validator, commands (`protocol_parser`) | last error of a parser, default version of a builder; else one message | parse, validate, build, toBinary, fromBinary | the gateway names the parser's interface | damaged or truncated packets, two layouts of the same format, lengths written modulo 256, fields in any order | damage shows; parser and validator agree; what is read back is what was written |
| RabbitMQ message (`message.cpp`) | one message | setters, formatting, split, combine | publisher | | |

`debug-tools`, `regional-router` are empty; device manager and monitoring are
interfaces only; `nlohmann/json.hpp` is third-party.

## 2. Modules

### Session, AtMostOnce, OneSession

`Session.tla` has one action per call that `handlePacket` makes to a dependency,
because everything else (another gateway instance, `stop()`, a crash, the expiry
of a deduplication entry, a device that sends again) can happen between two
calls. `pc[s]` is the place in the handler; the correspondence is:

| Action | Code |
|---|---|
| Start | `Gateway::startAccept`, `Session::start` |
| Receive, Abort, Resume | `doReceive` and both ends of `handlePacket` |
| ParseMessage, Authenticate, CheckDuplicate, CheckLimit, RecordMessage, UpdateStatus | the steps of `parseAndValidate`, in its order; `UpdateStatus` stands for everything between `recordMessage` and `handleMessage` that may throw |
| PublishInbound, Bookkeep | `Gateway::handleMessage` up to its first publish, and the rest of it |
| SendAcknowledgment, SendRefusal | `sendAcknowledgment` with and without success |
| FetchCommands, SendCommands, MarkDelivered | `sendCommands`, one step per command marked |
| HandleError | `Gateway::handleError` |
| Throw, ReportException | an exception of any call outside `handleMessage`, caught by `handlePacket`; the catch block's own `recordError`, which may throw again |
| ReceiveError | a receive that fails, and the `recordError` outside of any `try` that reports it |
| Escape | an exception that leaves `handlePacket`: it passes `doReceive` and ends the worker's `run()` (`gateway.cpp:344`) |
| Stop, Crash | `Session::stop` on another thread; death and restart of the process |
| Send, Lose, Expire | external: devices and UDP, Redis expiry |

A message is identified as the deduplication service identifies it. A datagram
that was sent may be received any number of times until it is lost, which covers
loss, delay, reordering, duplication and retries. The parser, the device manager
and the rate limiter may answer anything. Several sessions stand for several
gateway instances behind one Redis and one broker, the deployment the gateway's
README recommends for scaling; one instance has one session. `delivered`,
`mishaps` and `expiries` are history variables: they change nothing and let the
properties speak of the current deduplication window. So are `answers`, what the
device was told of a message since its window opened, and `unreported`, the sessions
whose last `recordError` threw. A session that an exception left without a receive is
`deaf`: nothing in the code makes it listen again.

`AtMostOnce.tla` says what this is for, in five actions: claim, publish, drop,
acknowledge, close. `OneSession.tla` instantiates it over Session with one
session (`recorded` is the set of open windows, a message between
`recordMessage` and its publish is a claim).

Session models the session that `startAccept` is written to create. At this
commit `Gateway::start` calls `startAccept` before it sets `running_`, so that
`startAccept` returns at once (`gateway.cpp:176`; the finding `gateway_accept`);
this does not change what a session does.

### GatewayState, Gateway

`GatewayState` has the variables and what must hold of them, `Gateway` what happens.
One action per statement of `start()`, `stop()` and the destructor that changes
what the worker threads or the owner can see; one owner thread calls them, as
`main.cpp` does. Each step of `start()` that allocates, opens, binds or creates a
thread may throw, the work guard and the metrics timer included, and leaves what the
steps before it did. A worker thread is inside `io_context::run()` until the context is
stopped or has no work: guard, armed timer or receiving session (`LeaveRun`).
`StartMetrics` and `StartAccept` are `updateMetrics()` and `startAccept()` behind
their tests of `running_`. `aborted`, a start that an exception ended among or after its threads, is a history
variable. An exception that a session lets escape would end a worker as well
(`Escape` in Session); here there is no session. `stop()` from
several threads at once is not modelled: nothing in the repository does it.

### ConnectionPool

A critical section under `poolMutex_` is one action; the flags tested before the
lock in `getConnection`, `returnConnection`, `failoverToStandby` and
`failbackToMaster`, and the ping of a connection just taken, are actions of
their own. `pc[t]` follows a borrowing thread: `entering` (before the lock),
`waiting`, `woken` (notified, spuriously or not, lock not yet taken again),
`checking` (connection taken, lock released), `holding`, `returning` (past the
test of `shuttingDown_`). `TimeOut` is possible for a woken thread: `wait_until`
reports a timeout whenever the deadline has passed, and the code then leaves
without another look at the queue.

A connection is the Redis it leads to; idle connections are counted per host, so
the order in which they are handed out is open. Pings and new connections may fail
at any time. The pool is initialized once, as the deduplicator does, and exists
until its shutdown is complete. `RedisClient::connect` is taken by its contract:
as written it never succeeds (`RedisClient` below); everything said of the pool is
about the pool once that is repaired. Left out: `totalConnections_`,
`failedConnections_`, `reconnectAttempts_`, the time stamps and `resetStats`,
which no decision of the pool reads.

### RedisClient

The status and the context of one client, with `connect()` as its three
exchanges with the server (`Open`, `Authenticate`, `FinishConnect`) and `Command`
for `setNX` and the other commands. It exists to show the finding `redis_connect`;
what `setNX` answers is in Deduplicator.

### Deduplicator, AbstractCache

One action per critical section or call of a caller: flags (`IsDuplicate`,
`AreDuplicates`), `CheckWithCache`, `GetConnection`, `SetNX`,
`UpdateLocalCache`. `todo[c]` is what is left of a batch, `checked[c]` the results
not yet cached. The maintenance thread sleeps and works (`Wake`,
`PerformMaintenance`); `shutdown()` is four steps (`Shutdown`,
`JoinMaintenance`, `DestroyPool`, `DestroyCache`).

- The pool is abstract: a caller gets a connection to any server, or none, as
  `ConnectionPool` allows (after a failover it hands out connections to either).
- The cache is `AbstractCache`, which says what the local cache promises;
  `LocalCache` is shown to keep it.
- Keys and entries expire at any time, so nothing depends on how
  `deduplicationWindow` and `localCacheTtl` compare.
- `SetNX` answers `DUPLICATE` for a key that exists and for a command that failed,
  carried out or not, as `redis_client.cpp:146` does.
- Other gateways set keys (`OtherSets`).
- `initialize()` can fail in two places: before the cache is there
  (`InitializeFails`: no connection, or an exception), and at the thread
  (`InitializeThrows`). Both leave what was made, and the next `initialize()` replaces it.
- `doomed` are the callers inside, or bound to return to, an object that
  `shutdown()` destroys or another `initialize()` replaces. Their next step is
  `Undefined`: the model says no more about the call. Nothing in the code
  prevents this.
- `claims`, `origins` and `refused` are history variables.

### LocalCache, CacheContract

`LocalCache` keeps the list in the order of use, the index and the cleanup
schedule as the code does; every operation holds the mutex and is one action, the
clock stands still while it runs. `insert` may be given any expiry time, past ones
included. `Swept` is what `checkAndRunCleanup` leaves for the operation that
begins with it. `Keep` is a scan that erases, the loop of
`removeExpiredEntries`, as a recursive function. `CacheContract` makes a
specification of `AbstractCache`'s actions: the set of held identifiers and the
subset in date, without order or clock; `ImplementsContract` maps the list to it. The system clock is taken never to go
back.

### RateLimiter

Every operation on the buckets is one action under `mutex_`; `setDefaultLimit`,
which takes no lock, is two. A CRITICAL message costs a tenth of a token, a HIGH one two
tenths, a LOW one twenty; a refill brings any fraction of a token, the code's
tokens being doubles. The model counts tokens in units of which `Tenth` make a tenth
of a token, and `Tenth` is a constant: the theorems hold for every one of them, and
the code's doubles then differ by rounding only. Time is in ticks and rates in units
per tick. A CRITICAL message is let through above -4 tokens and so leaves more than
-4.1 (`Floor`), not -4: with whole tenths the two would be the same. `balance[d]` is a history variable:
burst plus rate times time minus what the device's messages took. `raised` holds
the devices whose rate was raised on a bucket in use: `setDeviceLimit` does not
refill first, so that the idle time before is paid at the new rate. `tryAcquire`
calls `checkLimit`; `recordMessage` does nothing; the test buckets are never
filled.

### Publisher

`publish` and `publishBatch` run in the callers' threads: `pc[c]` is `publishing`
(before `connected_` is read), `unconnected` (before `localQueueEnabled_` is
read), `queueing` (before the mutex of the local queue), or a place in a batch. A
drain (`processLocalQueue`) is run by the operator in `resumePublishing` and by
the connection in `onConnectionStateChanged`; pausing, switching the local queue
and clearing it may happen at any time, from any thread. It takes the mutex
(`Lock`), takes a message into its hand (`Take`), publishes it (`Republish`), and
when the connection is lost meanwhile puts it back (`PutBack`) or, if the local
queue is enabled, locks the mutex it holds (`LockAgain`): `std::mutex` is not
recursive, and the thread is taken to be `stuck` from then on. The connection
calls back one state at a time. `InitializeConnection` is the other writer that sets
`connected_`: it drains nothing, and leaves the flag set when it gets no channel.

Two things to know about the code: `onConnectionStateChanged` and
`initializeConnection` are private and nothing calls them yet, and both are
modelled: the publisher has the connection its handlers are written for; and publishing to
the broker is a stub that succeeds, so `sent` counts what reaches it. A message is
an identity, accepted at most once; a caller may offer a refused one again, and a
batch does not name one twice. `missed`, `cleared`, `accepted` and `sent` are history
variables.
Left out: confirms and returns (stubs), teardown of the connection, move
assignment and statistics. Asynchronous publishing is a module of its own.

`Outbox` is what a publisher promises, wherever it keeps its messages: accepted at
once or kept, each goes out once or is dropped, and a step says which; the order is
left open, because a drain that fails puts its message behind the others.
`ImplementsOutbox` maps the queue and the drains' hands to it.

### AsyncPublisher

`publishAsync` and the thread it starts. `pc[c]` follows a caller: after `Push`
(the task is queued under `asyncMutex_`), `notify`, `test` and `start` (the two
tests of `asyncRunning_`, in `publishAsync` and in `startAsyncPublishing`),
`mark`, `spawn`, `assign` and `replace` (the assignment to `asyncPublishThread_`,
which reads the old pointer and destroys its thread object: a joinable one ends
the process in `std::terminate`, `dead`). `at[w]` follows an async thread, named
after the caller that created it (each creates one at most): `testing` and
`locking` (before the mutex), `dozing` (condition evaluated, mutex held, not yet
asleep), `asleep`, `looping`, `executing` (mutex released), `relocking`. `dozing`
and `looping` are where it holds the mutex, so that a task
queued under the mutex cannot be missed, and the flag and notification of
`stopAsyncPublishing`, which does not take it, can.

The owner may move the publisher once (`Move`: the constructor takes
`asyncRunning_`, not the queue and not the thread) when no call is inside, and
destroys each publisher in three steps (`StopAsync`, `NotifyAll`, `Join`); futures
of tasks that are left then break. `raced`, `deaf` and `missed` are history
variables that name the three races the code has: a second caller set
`asyncRunning_`, the publisher was moved while its thread ran, a stop notified a
thread in `dozing`. `failed` names a thread that could not be created after
`asyncRunning_` was set (`Spawn`). A thread is `blocked` when the task in its hand
publishes to the local queue behind a drain that locked itself out, which is
`LockedOut` in Publisher and may come at any time (`Block`). What follows a race is modelled as far as it is defined; a
thread that is left in freed memory takes no further step. What a task does, a
`publish`, is in Publisher.

### Packet, CommandMessage, Wire

`Packet` is `Parser` and `Validator`, `CommandMessage` is `CommandBuilder`,
`Message::toBinary`, `Message::fromBinary` and `Command::getType`, all as operators.
A packet is a sequence of bytes, a number stays in the unit of the wire (the code
divides it into doubles), one of four bytes is the signed number of its bits. The
IMEI is its digits, in a message the distances of its characters from `'0'`. The
options of the parser are stored and never read; those of the validator have their
defaults. The checksum is stated bit by bit (`Parity`), which is what the code's
exclusive or computes; what `toBinary` writes as checksum (`Xor`) is the same number as a
sum of its bits. Fields of a message are an unordered map in the code: `toBinary`
writes them in any order (`Orders`). The text of complaints and exceptions is left
out; which part they are about is kept. Values of types that no code reads
back are written with the bytes they are given.

`Wire` puts them on a line: a device's packet, a command or another message is
sent, one of a packet's bytes may change, anything may be cut, and a parser or
`fromBinary` reads what arrives. One parser reads it all, because `lastError_`
outlives a packet. Devices are external: the repository has no code that builds
the packets the parser reads.

## 3. Runs

| Run | Bounds | Shows |
|---|---|---|
| `session_pair` | 2 instances (symmetric), 1 message, 1 command, 1 expiry | `OncePerWindow`, `AckedIsPublished`, `LossNeedsMishap`, `MarkedWasSent` |
| `session_one` | 1 instance, 1 message, 2 commands, 2 expiries, fair handler | `AnswersAgree`, `HandlerReturns`, refinement `ImplementsAtMostOnce` |
| `pool` | 2 threads, 1 + 1 connections, standby configured | `ActiveIsBorrowed`, `PoolBound`, `IdleWakes`, `CallReturns` |
| `cache` | 4 identifiers (symmetric), size 3, intervals 0 and 2, 3 ticks | `IndexMatchesList` (with the types), `EvictsLeastRecent`, refinement `ImplementsContract` |
| `dedup` | 2 callers, 1 identifier, 1 server, a batch that names it twice | `OneUniquePerWindow`, `DuplicateHasOrigin`, `MaintenanceIsSafe`, `CallReturns`, `ShutdownEnds` |
| `limiter` | 1 device, units of a twentieth of a token, limits 3/40, 20/20 and 0/0, 2 ticks | `TokensBounded`, `RateHolds`, `OrdinaryWithinRate` |
| `publisher` | 2 callers, 2 messages, 1 batch of both, a local queue for 1, transactions | `AcceptedIsKept`, `NothingStranded`, `QueueBounded`, refinement `ImplementsOutbox`, `CallReturns` |
| `async` | 2 callers, of 2 calls and of 1, one move | `OneThread`, `ReadyInOrder`, `NoTaskForgotten`, `FuturesSettle`, `DestructorReturns` |
| `codec` | every type of packet around its least length, six versions, commands of every type with parameters of 8, 16, 32 and 64 bits, texts of up to 258 bytes and texts that spell the type field, messages of 3 fields with values of every type; 6 values for a damaged byte, 5 lengths for a cut | `DamageShows`, `CleanIsComplete`, `EchoShows`, `RoundTrip`, `CommandKeepsType` |
| `gateway` | 6 worker threads, metrics on | `WorkersServe`, `NoThreadIsLeft`, `StopReturns` |
| `gateway_accept` | 2 worker threads | finding: `RunningAccepts` is violated |
| `redis_connect` | a client without a password | finding: `ConnectSucceeds` is violated |

Except for the local cache, the type invariants are not in the runs: they are
theorems (section 5).

Why the bounds are enough: the interference on one message comes from a second
session, a repeated datagram and an expired window, and `session_pair` has all
three; messages do not interact except through one session's handler, which holds
one at a time. Two expiries give a message three windows. In `pool`, one
connection and two threads make every thread wait for the other, and the monitor
still makes more connections than the pool size. In `cache` four identifiers
overfill the cache, and three ticks make an entry expire before, at and after a
cleanup that is due every two. In `dedup` messages are independent (each has its
own key and cache entry) but for the cache's capacity, which `cache` has; two
callers, any number of other gateways and any number of expiries and
re-initializations meet on the one message. In `limiter` devices are independent;
two ticks allow a change of limits between two refills; the limits have a rate
whose refills are fractions of what a CRITICAL message costs, so that the debt passes
four tokens, a rate that fills the bucket in one tick, and a
limit that blocks. In `publisher` one message fills the queue, so that the second
is refused, overtakes it, or takes the place that a drain has just freed. In
`gateway` the worker threads are alike; a start can fail after any number of them, and
after all.
In `async` two callers can start the thread at once or one after the other, and
one of them can call again while the other is between its tests; a task waits
behind another, before and after the move; both publishers can be destroyed. In
`codec` every layout has packets around its least length, the versions lie on both
sides of what is supported, some values are out of range, every branch of the
reader of values a field before and one after it, and every name and text lengths
of one, two and, for the length byte,
258. A byte may be damaged at every place; the values it turns into include both
magic bytes and 0 and 255, and the proof removes the choice.
The counter bounds are `MaxExpiries` (guard of `Expire` in
Session) and `MaxTime` (guard of `Tick` in LocalCache and RateLimiter). The proofs
remove the bounds.

Deadlock checking is off in the runs of the pool, of the deduplicator, of the
limiter, of the two publishers and of the gateway: a pool that was shut down,
callers lost in a destroyed object, threads that wait for a mutex they hold, a
destroyed publisher and a destroyed gateway have really stopped, and the limiter
has nothing to do for a blocked device once the clock's bound is reached.

Fairness. `Session` has weak fairness of the handler (an asio worker thread runs
it to the end, and no call of a dependency blocks for ever), none of the network,
the devices, `stop()` or crashes. `ConnectionPool` has weak fairness of the calls
in progress (the mutex is handed on, hiredis has socket timeouts) and of each
deadline; nobody has to give a connection back, and nothing is fair about
failures, the monitor or the operator. `Wire` has no fairness and no liveness
property. `Deduplicator` has weak fairness of each call in progress (every wait in
it has a deadline, as `pool` shows for `getConnection`), of a shutdown in progress
and of the maintenance thread, which sleeps for a fixed time; none of callers,
expiries or failures. `Publisher` has weak fairness of the calls and drains in
progress and strong fairness of taking the mutex: the threads that compete for it
release it, and an implementation of `std::mutex` on a preemptive scheduler lets
each through in the end, though nothing bounds when. Weak fairness would let
`clearLocalQueue` and other drains starve a caller for ever. Nothing is fair about
the operator and the connection. `AsyncPublisher` has weak fairness of each call
in progress, of each async thread that is not asleep, and of each destructor in
progress: the mutex is held for a few statements only, and a thread that waits for
it gets it. A task that is not blocked ends, because a publish returns (`CallReturns` of
Publisher) unless a drain has locked itself out; a task that is blocked has no step. A caller may stop calling and an owner keep its publisher for ever;
nothing is fair about the move or a spurious wakeup. `Gateway` has weak fairness
of the owner's call in progress and of the worker threads.

### What the properties mean

- `HandlerReturns`, `CallReturns` (three of them), `ShutdownEnds`, `StopReturns` and
  `DestructorReturns` say two things: the call in progress is never stuck, which is
  that a step of it is possible wherever it does not wait for somebody
  (`HandlersGoOn`, `NeverStuck`, `CallsGoOn`, `ShutdownGoesOn`, `StopGoesOn`,
  `DestructorGoesOn`), and it returns. The first is what the proofs of the second
  take as their hypothesis.

- `HandlerReturns`: the one way to a session that neither listens nor has stopped is a
  `recordError` that throws where nothing catches it (`session.cpp:145` and `155`).
- `OncePerWindow`: one session never publishes a message twice within a window.
  Two sessions can, one each: `isDuplicate` and `recordMessage` are not atomic
  together. That is why the refinement is claimed for one session only.
- `LossNeedsMishap`: a remembered (so: refused from now on) message is published,
  is about to be, or met a failed publish, an exception or a crash. So `stop()`
  and the rate limit lose nothing. The failed publish is the case to know: the
  message was recorded before it (`session.cpp:274`), and the device's retry is
  refused as a duplicate of a message that nobody processed.
- `AnswersAgree`: one session does not take back its answer within a window, in the
  first window or in a later one: `answers` begins anew when `recordMessage` opens
  one. What a device hears between two windows counts for the older one.
- `MarkedWasSent`: commands are not marked before they are put in a datagram
  (that the datagram arrives is not known to the code).
- `PoolBound`: the connections exceed the configured size, because the monitor
  does not count what is borrowed, but by a bounded number. It holds although a
  connection to the master that comes back after a failover is queued with those
  to the standby (`connection_pool.cpp:335`).
- `IdleWakes`: a waiter sleeps beside an idle connection only if a notification
  went to a thread at its deadline.
- `EvictsLeastRecent`: an entry in date leaves for an insertion only if every entry
  that stays was used more recently.
- `OneUniquePerWindow`: per server. With two servers, or after a failover, a message
  can be UNIQUE once on each.
- `DuplicateHasOrigin`: ERROR answers are never remembered. That a failed SET is
  reported as a duplicate, and cached as one, is what the code does, and the
  property says so.
- `MaintenanceIsSafe`, `ShutdownEnds`: hold for shutdown after any number of
  initializations. `CallReturns` holds for callers as well, but a caller that was
  inside during a shutdown may end as `undefined`.
- `TokensBounded`: the bound of the debt is 4.1 tokens and not reached. A device that
  has overdrawn its bucket to -4 gets one more CRITICAL message through as soon as any
  fraction of a token has come in, which leaves it below -4.
- `RateHolds`: over the whole life of a bucket, not per step: no order of refills,
  refusals and lowered limits creates tokens. The guard in its scope, `raised`, is
  the exception that the code makes.
- `AcceptedIsKept`: true of each message on its own, also of those in a batch that
  failed: a rollback takes nothing back.
- `ImplementsOutbox`: the same of the steps: a message that was accepted, sent or
  cleared stays so, and moves on one at a time unless it is cleared.
- `NothingStranded`: what may be left in the queue of a connected publisher whose
  last reconnect is dealt with. It speaks of reconnects that
  `onConnectionStateChanged` reports; what `initializeConnection` finds in the queue
  stays there, and is excepted by name (`missed`). Such a message waits for the next reconnect or for
  `resumePublishing`; nothing else drains the queue. `missed` is emptied at each
  change of the connection, so that an old excuse does not count.
- `CallReturns` (publisher): but for the drain that locks itself out. Until then the
  mutex of the local queue is free time and again.
- `WorkersServe`, `NoThreadIsLeft`: the order of guard, threads and stop is right;
  the case in which threads stay behind is a start that an exception ended when it had
  begun to create them: of a thread, or of the metrics timer after all of them.
- `OneThread`, `ReadyInOrder`: what they exclude, `raced`, is the one way to a second
  thread. In the model a race may end in `std::terminate`, in a thread
  that outlives the publisher, or in nothing.
- `NoTaskForgotten`: the wake-up protocol of the queue. It holds also when two callers
  race; excluded are a publisher that was moved while its thread ran (`deaf`) and one
  whose thread could not be created (`failed`): in both the flag says that there is a
  thread. A task behind a blocked one waits for it (`Blocked`). It
  is the safety that `FuturesSettle` rests on.
- `FuturesSettle`: a future that breaks with its publisher has settled; one that
  stays pending for ever in a live publisher has not. The exceptions are those of
  `NoTaskForgotten`, two starts at once, and a blocked task.
- `DestructorReturns`: with the exceptions of a notification that came while the
  thread was between its test and its sleep (`publisher.cpp:677`), and of a thread
  that is blocked in a task (`publisher.cpp:524`).
- `DamageShows`: the complaint about the checksum is one more complaint, the message
  is returned all the same; the property is that every damage to one byte leaves at
  least one complaint, or an exception. A cut may go unnoticed, since the byte that
  ends up last is taken for the checksum.
- `CleanIsComplete`: of what the parser accepts, the validator refuses only values
  out of range, types it has no rules for and two versions that the two read
  differently; never a field that is missing.
- `EchoShows`: `toBinary` writes type, major, minor where the parser reads major,
  minor, type, and the IMEI in 15 bytes instead of 8: the commands the gateway
  builds, sent back by a device, are never accepted as a packet.
- `RoundTrip`: claims each field only up to the first whose type `fromBinary` does not
  know; an unknown type is skipped without its bytes, and the rest is noise.
- `CommandKeepsType`: the field `command_type` is a 32-bit number, which
  `fromBinary` does not read; four of the seven command types survive because they
  have message types of their own. The field itself, and parameters of 16, 32 or 64
  bits such as `addParameter("delay", 5)`, put the reader out of step, so that what
  follows is noise; a text can hold the bytes of a field `command_type` with a boolean,
  and a `SUBSCRIBE` that is read so answers 1, a reboot. The property excepts what can
  do this, commands that have the name with a readable value in their bytes
  (`NameReadable`), and takes them back where the type is written last, behind fields
  that keep the reader in step (`TypeFieldLast`).
- `OrdinaryWithinRate`: the debt of CRITICAL messages is repaid before any other
  message gets through.

## 4. Findings

1. `redis_connect`: `redis_client.cpp:117` pings while the status is `CONNECTING`,
   and `ping()` answers false unless it is `CONNECTED`; so `connect()` always fails,
   and with it the initialization of every pool. The test that would notice is
   disabled by default because it needs a server.
2. `gateway_accept`: `gateway.cpp:176` calls `startAccept` three lines before
   `running_` is set, and `startAccept` does nothing unless it is: the gateway
   starts successfully, without a session.

Also seen, without a statement of the repository that it clearly contradicts, and
each allowed for by name in a property:

- a message is recorded before it is published (`LossNeedsMishap`);
- an exception of `recordError`, in the catch block of `handlePacket` or after a socket
  error, leaves the session without a receive and ends its worker thread (`unreported`);
- a start that an exception ends after its first thread leaves threads running that
  `stop()` does not touch; the destructor ends in `std::terminate` (`aborted`);
- the debt of CRITICAL messages passes the four tokens of the comment at
  `rate_limiter.cpp:261` by up to a tenth (`Floor`);
- a failed `Deduplicator::initialize()` leaves its pool, its cache and
  `maintenanceRunning_` behind, unused;
- `initializeConnection` connects without draining the local queue, and leaves
  `connected_` set when it gets no channel (`missed`);
- a borrowed master connection comes back to the queue of the standby after a
  failover, so that the next caller may talk to the master;
- after `shutdown()` a deduplicator can be initialized again and answers only
  ERROR; `shutdown()` destroys pool and cache under its callers;
- a raised limit is paid retroactively (`raised`);
- a gateway can be started only once;
- `processLocalQueue` waits for its own mutex when the connection drops while the
  operator's drain is under way (`stuck`); the thread of `publishAsync` may then hang
  in a task, and the destructor in its join (`blocked`);
- `startAsyncPublishing` sets `asyncRunning_` before it creates the thread: if that
  throws, none is ever created (`failed`);
- two first calls of `publishAsync` at once both start the thread, and the second
  assignment to the thread pointer ends the process (`raced`);
- `stopAsyncPublishing` notifies without the mutex, and the destructor may then wait
  for ever (`missed`);
- a moved publisher keeps the flag that its thread runs, but not the thread: what is
  queued afterwards is never published (`deaf`);
- a text, a name or a list of fields of 256 or more is written with its length modulo
  256, and what follows is read out of step (`InStep`), as it is behind a value of a type
  that `fromBinary` does not read: a text may then be taken for a field
  (`NameReadable`);
- commands of the types `GET_STATUS`, `SET_INTERVAL` and `FACTORY_RESET` are read
  back as `REBOOT` (`CommandKeepsType`);
- an empty packet leaves the parser's last error as it was; the parser's options are
  stored and never read.

## 5. Proofs

All safety properties of the passing runs, and of the liveness
properties what the section's last part says, are theorems, for every number of sessions, messages, commands, expiries, threads, connections,
callers, calls, batches, devices, limits, times, queue sizes, worker threads,
identifiers and fields, and every length of a packet or a value; and so are the
three refinements, of `AtMostOnce`, `CacheContract` and `Outbox`. Type correctness
(`TypeOK`) is a theorem of each of these modules too (of the cache it is part of
`IndexMatchesList`). Assumptions are
`SessionAssumption`, one session (`Sessions = {TheSession}`, a hypothesis of
`OneSessionImplements` and `OneAnswerPerWindow` only), `PoolAssumption` (finitely
many threads, natural pool size), `CacheAssumption` (positive capacity),
`DeduplicatorAssumption` (batches are sequences of identifiers),
`LimiterAssumption` (limits are natural numbers, and a tenth of a token a positive number of units), `PublisherAssumption` (batches
are sequences that name no message twice, natural queue size), `AsyncAssumption`
(each caller makes a natural number of calls), `WireAssumption` (packets are
non-empty sequences of bytes; what is written are messages in the sense of
`IsMessage`, whose fields have distinct names and whose values have the bytes of
their types) and `GatewayAssumption` (a natural number of threads). No assumption is made of identifiers, messages or names but that they
are there.

- `SessionProofs`. `Typed` (types, and that the handler works on a message, not
  garbage, after parsing) is inductive and supports the others.
  `OncePerWindow` is not inductive: a session about to record could already have
  used its window. `WindowInv` adds the budget of each point of the handler (a
  message not remembered, admitted or carried has published at most once per
  *closed* window). `AckInv` adds that a session at the acknowledgment has
  published its message. `LossNeedsMishap` is inductive with `Typed`. `MarkInv`
  adds that the commands being marked were sent. With one session two more:
  `AnswerInv`, between `recordMessage` and its answer a message has had none in its
  window, makes `AnswersAgree` inductive; and
  `AdmittedIsNew`, with one session a message that passed the
  duplicate check is still unrecorded when it is recorded, is what makes
  `recordMessage` a `Claim`; every other step is a publish, drop,
  acknowledgment, close, or stutters.
- `ConnectionPoolProofs`. `Typed` adds how the phases of the pool, its flag and
  its operator go together. Each of the three invariants is inductive with it;
  the counting goes through three lemmas about the threads at a point of the code
  (`AtFinite`, `AtGrows`, `AtShrinks`).
- `DeduplicatorProofs`. `Typed` adds that a call which checks has an identifier to
  check (`HasWork`). `ClaimHasKey`, a key that made a message UNIQUE is still
  there, makes `OneUniquePerWindow` inductive; `OriginInv`, all keys, cache entries
  and uncached results have an origin, does it for `DuplicateHasOrigin`;
  `UpkeepInv` follows pool and cache through initialize and shutdown.
- `RateLimiterProofs`. `Covered` says that the tokens in a bucket, with those the
  next refill would bring, are covered by the device's balance: the invariant
  behind `RateHolds` and `OrdinaryWithinRate`. Its proof rests on three lemmas
  about products of naturals and on what `refill` returns (`RefillBounds`).
- `PublisherProofs`. `Typed` adds who holds the mutex (`OwnerDrains`) and that
  exactly the drains between `Take` and the end have one message in their hand.
  `AcceptedIsKept` is not inductive: it needs that a message to be published is
  not yet accepted and is held by one caller, once (`PendingInv`).
  `NothingStranded` needs that the publisher stays connected while the
  connection's own drain runs, and rests on `AcceptedIsKept`. `QueueBounded` is
  inductive with `Typed`. Lemmas on the first and last element of a sequence
  without repetitions carry all of it.
- `AsyncPublisherProofs`. `OneThread` is not inductive: unless the start raced,
  one caller at most is past `mark` (`OneStarts`), every thread is in its
  publisher's pointer or about to be (`Handled`), and the destructor finds no call
  inside (`Called`). `ReadyInOrder` needs that the tasks done, the one in the
  thread's hand and those in the queue are together the tasks in the order of the
  calls. `NoTaskForgotten` needs, of races as well, that a thread dozes only over an
  empty queue, with the mutex (`DozesOverNothing`), that a first task finds a caller on
  its way to start a thread (`FirstTask`), and that a publisher whose flag is set has a
  thread or a caller about to make one (`HasThread`).
- `LocalCacheProofs`. The inductive invariant says that the list holds each
  identifier once, that the index is the list's identifiers, and that the order of use
  (`used`, history) has every entry of the list, in the same order. What makes it
  inductive is a lemma on `Keep`, the scan that erases: what is left is the
  sequence restricted to the kept elements, in its order (`Follows`), proved by
  induction over the length. The refinement then goes operation by operation: a
  sweep of expired entries is the contract's `CleanUp`, an eviction part of `Put`, and a
  tick of the clock is an `Age` of the entries whose time has come.
- `WireProofs`. `LineInv` says what damage can have happened to the bytes under way,
  `MessageInv` that a command or message under way is a message, written, or a first
  part of one.
  - `DamageShows` rests on a fact about numbers: two different bytes differ in a
    bit (`SomeBitDiffers`), and the parity of that bit over the packet changes with
    it, by counting (`ParityGrows`), so that a packet that was verified no longer is
    (`DamagedIsUnverified`).
  - `CleanIsComplete` goes through each layout: what the parser reads without a
    complaint it reads from a payload of its least length, and then every field the
    validator demands is there (`RequiredIsThere`).
  - `EchoShows`: on the wire a command's third byte is its message type, at least 5,
    where the parser reads a major version and supports no such one; `BuildIsMessage` and
    `Layout` put it there.
  - `RoundTrip` needs where a field starts. `Joined(q, i)` is what the first `i` parts
    of a concatenation come to, `FlattenParts` finds each part in it, and `Layout` gives the
    place of every part of `toBinary`. `ReadInStep` is the induction of the reader over
    the fields: as long as every field before is one it reads or an absent one, its offset
    is where the writer was, it has read only names that were written, and each value
    as it was. `ReadStays` says that later turns, which may read noise, take
    nothing away, because `addField` does not overwrite. `ImeiReadBack` counts the
    characters that the decimal numbers of 15 bytes have.
  - `CommandKeepsType` has two halves. Where the type comes last and in step,
    `TypeReadLast` says that the reader has read the fields before it and then found a
    value it does not read. Elsewhere the reader may be anywhere (`UnreadTurn`): whatever
    it reads, it adds the name only where the bytes have the name with a value it knows
    (`NameUnread`, by induction over its turns).
- `SessionProofs`, last section, has the gateway's life as an instance (`Life`).
  `Guarded`: from the first thread of a start to the stop the guard is set and the
  context runs, so that nobody leaves `run()`. `BoundOnce`: nothing was done before the
  socket was bound, which happens once, so that a second start fails before it reaches
  the threads of the first. `InOrder`: threads are created one after the other.
- The abstract publisher. `PublisherImplements` (in `PublisherProofs`): every step of
  the publisher is a step of `Outbox` or leaves it alone, where what is kept is the
  queue and the message in a drain's hand. It rests on `KeptInv`: a step that
  accepts must find its message unaccepted, and a clear must not touch what a drain
  holds.
- The two findings as theorems. A violated invariant shows one behaviour;
  `ConnectAlwaysFails` (in `ConnectionPoolProofs`) and `GatewayNeverAccepts` (in
  `SessionProofs`) say that there is no other: no `connect()` ever returns true, and no
  gateway ever has a session.

Induction is over sets of natural numbers (`SetInduction`, from the well-foundedness
of the naturals), and what is computed step by step is a recursive function:
`ReadFields`, `Keep`.

Liveness. The prover has weak and strong fairness and no ENABLED. That a step of a call
is possible wherever the call does not wait is therefore a hypothesis of these
theorems, the first part of each liveness property, which the runs check. From it, and
from the fairness of the specifications, follows:

- `EveryCallReturns` (`ConnectionPoolProofs`): every call returns, `CallReturns` as it
  stands. A call that waits has its deadline and one that is woken goes on; none of it
  depends on who gives a connection back.
- `EveryShutdownEnds` (`DeduplicatorProofs`): `ShutdownEnds` as it stands. `JoinInv` says
  that whoever is joined has been told to stop.
- `EveryHandlerAnswers` (`SessionProofs`): `Height` numbers the calls of the handler from
  the last to the first, and each call, whatever it answers or throws, leads to a lower
  one (`HandlerPath`, `HandlerDescends`); the lowest is the report of an exception, after
  which the session listens, has stopped, or is in `unreported`.
- `EveryStopJoins`, and the first half of `EveryJoinNears` (`SessionProofs`): `stop()`
  reaches its join, and the join returns when the threads have left.
- `EveryDestructorReturns` (`AsyncPublisherProofs`): for a destructor and the thread it
  joins. The flag is off (`StopsRunning`), the thread is not asleep unless it was notified
  too early (`WokenUp`), it is the only one unless the start raced, so that the mutex
  it waits for is free (`ThreadIsReady`), and each of its steps leads it to its end or,
  from a task, to `Blocked`.

A loop over data needs an induction over its length, inside which there is a temporal
formula; the prover has none. Of such a loop one turn is proved, for every length: it
ends or something well-founded is smaller. The last step, that finitely many turns
follow one another, is left to the reader, and in the runs to TLC:

- `EveryCallNears` (`DeduplicatorProofs`): a check ends or has fewer steps left (`Left`),
  for batches of any length;
- `EveryMarkingNears` and the second half of `EveryJoinNears` (`SessionProofs`): fewer
  commands to mark, fewer threads in `run()`;
- `EveryDrainNears` (`PublisherProofs`): a drain that has the mutex gives it up, locks
  itself out, or is back at a shorter queue;
- `EveryPublishNears` (`PublisherProofs`): a call gets through its current message. Its
  second hypothesis, that the mutex is free time and again, is what `EveryDrainNears`
  comes to, and a part of `CallReturns`.

Only model-checked:

- that a step is possible, in the liveness properties (ENABLED);
- the sums of the turns above: `HandlerReturns`, the `CallReturns` of `Deduplicator` and
  `Publisher`, and `StopReturns` as a whole. `DestructorReturns` without the exception
  of a race, where a second thread may hold the mutex;
- `FuturesSettle`: a task waits behind others, again an induction. Its safety,
  `NoTaskForgotten` and `ReadyInOrder`, is proved.

## 6. Not modelled

- The *consumer*: its thread moves its `ConsumerInfo` into the table and then
  dereferences the null pointer that is left (`consumer.cpp:396`, `407`, `419`), so that
  nothing is defined of it past its first turn, and `processMessage`, the only caller of
  a message handler, is called by nothing. Known and not covered: the
  consumer is registered by its own thread (`consumer.cpp:396`), so that two starts for
  one queue may both succeed. `Connection::createChannel`, which consumer and publisher
  call for their channel, is defined in the disabled part of `connection.cpp` only:
  neither links at this commit. The publisher is modelled all the same, because its
  queue, its drains and its thread do their work without a channel.
- The *connection* compiles to a state flag; *channel*, *queue manager* and *metrics*
  are stubs or not built. Publisher takes the connection's states as they come.
- The *local queue class* is used by nothing, and each of its operations is one
  critical section. The publisher's own queue is in Publisher.
- The *RabbitMQ message* is sequential code without shared state; the publisher
  passes it on unread, and splitting and combining have no caller.
- The *JSON form* of protocol messages is a third-party library's work.
- The *asynchronous sends* of a session: the buffer of an acknowledgment is a local of
  `sendAcknowledgment` and may be gone when it is sent (`session.cpp:301`). The
  model has the decision to send, not the datagram's bytes.
- A configuration with *no worker threads*: `numWorkerThreads` is 0 by default and
  only one of the two constructors replaces it (`gateway.cpp:163`); such a gateway
  runs and serves nothing. The theorems hold for it, vacuously where they speak of
  threads.
- A *second concurrent caller of failover* (`connection_pool.cpp:211`): nothing in the
  repository calls failover, and with two callers at once the queues could be swapped
  twice.
- Logging, metrics and counters that no decision reads.

## 7. Plan

What a continuation would take up, in this order:

1. The composition of AsyncPublisher and Publisher over `Outbox`: what a settled future
   says of its message.
2. A composition of Deduplicator with two servers and the pool's failover, and a
   second caller of failover and failback in `ConnectionPool`.
3. The asynchronous sends of a session, with the lifetime of their buffers.
4. `Consumer`, once its thread has a body: one consumer per queue, stop joins.
