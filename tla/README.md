# Specifications of the IoT U-Track middleware

TLA+ models of the middleware in `src/src`, TLC configurations that check them on
small instances, and proofs of their main properties for all instances, checked by
TLAPS. The code is the reference: every definition translates the lines that
`PROJECT.json` names under `map`.

The server is one Node.js process. Handlers, timers and promise continuations run
to completion one at a time, so an action of a model is what runs between two
points where the code returns to the event loop, and what interleaves is the order
of those pieces: messages, timers, saves that return, requests, start and stop.

    tlc -config Command.cfg MCCommandService
    tlc -config WriterSafety.cfg MCDatabaseWriter
    tlc -config Cache.cfg MCUOSCache
    tlc -config SmartHB.cfg MCSmartHB
    tlc -config Rfid.cfg MCRfidPipeline
    tlc -config Webhook.cfg MCWebhookDispatcher
    tlc -config WebSocket.cfg MCWebSocketServer
    tlc -config Health.cfg MCModuleHealth
    tlc -config Application.cfg MCApplication
    tlapm CommandServiceProofs.tla
    tlapm UOSCacheProofs.tla
    tlapm SmartHBProofs.tla
    tlapm ApplicationProofs.tla
    tlapm DatabaseWriterProofs.tla
    tlapm RfidPipelineProofs.tla
    tlapm WebhookDispatcherProofs.tla
    tlapm HeartbeatProofs.tla

## 1. The system

Gateways (V5008 speaks binary frames, V6800 JSON) publish to an MQTT broker. The
middleware subscribes, parses a message to SIF, normalises it to SUO and emits it
on an in-process event bus, from which everything else hangs:

    MQTTSubscriber -> RAW_MQTT_MESSAGE -> Application.handleRawMessage  (await parse)
      -> SIF_MESSAGE -> Application.handleSIFMessage                    (await normalize)
      -> SUO_MQTT_MESSAGE -> SmartHB (priority 100, may stop the event)
                          -> UOSCacheManager, DatabaseWriter, ProtocolAdapter,
                             CommandService, MQTTRelay, WebSocket, Webhook
    REST API -> COMMAND_REQUEST -> CommandService -> COMMAND_PUBLISH

`emit` is synchronous: a handler that emits runs every handler of the new event
before it goes on. Nothing in `src/src` subscribes to COMMAND_PUBLISH, so what the
services publish for devices ends on the bus; no property here says that a device
receives or answers a command.

For every component: its state, its operations, what makes it hard, and what makes
it correct.

| component | state | operations | hard because | correct when |
|---|---|---|---|---|
| **Command service** `modules/command` | isRunning, config, pendingCommands (insertion order counts), commandTimeouts, armed timers | start, stop, request, result, timeout, updateConfig | results race timers; stop meets armed timers; restarts leave handlers behind | each command is published a bounded number of times, closed once and never revived, and always has a timer while it is open |
| **Database writer** `database/database-writer.ts` | queue, batch timer, flushes in progress, retryAttempts, connection | start, stop, message, batch timeout, forceFlush, save/retry | flushes overlap at their awaits and share queue and counters; batches fail half way; stop awaits one flush | no message is held twice, what is given up is logged or shares the key of what was, the queue is bounded, transient failures are absorbed |
| **UOS cache** `modules/cache/uos-cache.ts` | map, doubly linked list, size counter, entry times | set, get, merge, getAllModules, delete, clear, sweep | a list and a counter kept by hand on five paths | counter and list agree with the map; eviction is by recency; nothing else loses a live entry; expired entries go |
| **SmartHB and device info repair** `modules/smart-hb` | one partial record and flag per device, two sets of cooldowns | start, stop, heartbeat, four kinds of device record, updateConfig | records come in parts in any order; the repair emits the event it handles; two trackers share no state | outputs see whole records only, and every record that becomes whole |
| **Event bus** `core/event-bus` | emitter, prioritized handlers | on, off, onWithPriority, offWithPriority, emit, removeAllListeners | nested emits; handlers that throw; removal that leaves prioritized handlers | stopped events reach nobody; a stopped component hears nothing |
| **Application** `app.ts` | isRunning, the services | start, stop, signals, message handlers | start fails half way or waits for ever; two signals overlap one stop | one signal stops what was started, no consumer before its last message, and the process ends |
| **Ingestion** `core/mqtt`, factories | connected, reconnect count | connect, message, close, reconnect, disconnect | two asynchronous functions per message; a client that ends itself | messages of a device keep their order |
| **Parsers, normalizers** `core/parser`, `core/normalizer` | none | parse, normalize | frame arithmetic, missing fields | every module a message lists is in the unified message, and no other |
| **Cache manager** `modules/cache/uos-cache-manager.ts` | isRunning | one handler per message type | runs before the adapter that compares with the cache | stores what arrived, keeps what did not |
| **Protocol adapter** `modules/protocol-adapter` | dedup window, cache | snapshot, event, query, updateConfig | compares with a snapshot another handler has just overwritten; re-entered by its own events | who folds its events knows the tags where the adapter alone stores them; nothing is announced twice in a window |
| **Watchdog** `modules/watchdog` | tasks, intervals | start, stop, addTask, removeTask, setTaskEnabled, health check, stale data | health check renews the records it judges; tasks replaced while they run | tasks run as the list says; a silent module goes offline and is forgotten |
| **Webhook dispatcher** `output` | batches, queue, active requests | start, stop, message, flush, send, retry | concurrent sends, retries, stop in the middle | bounded concurrency; a copy is in one place until it ends; stop leaves nothing under way |
| **WebSocket server** `output` | clients, subscriptions, heartbeat | start, stop, connect, subscribe, unsubscribe, broadcast | the empty subscription means all; a listen that fails | the reported count is right, nobody is dropped who owes no answer unless the beat is late, who is gone is dropped |
| **MQTT relay** `output` | client, connected | start, stop, connect, relay | subscribes before it connects | relays while connected; stop undoes start |
| **REST API** `api` | none of its own | HTTP handlers | reads the other components | each request is one read or one COMMAND_REQUEST |
| **Repository, migrations** `database` | tables | one INSERT per message | I/O | a save succeeds or throws |
| **Config, types, logging** | read once | - | - | - |
| **Dashboard, monitor page, scripts** | browser store, socket | merge, reconnect | merges by shape of the payload | shows the last state |

The behaviours that no unit test of the repository reaches are listed with their
lines as `hazards` in `PROJECT.json`, each with the properties that would catch it
or a note saying why there is none.

## 2. Modules

| module | what it is |
|---|---|
| `CommandLifecycle` | abstract: what a client may rely on of a command |
| `CommandService` | the command service; implements `CommandLifecycle` |
| `CommandServiceProofs` | its theorems |
| `Custody` | abstract: a stage that holds what it accepts until it is delivered or given up |
| `DatabaseWriter` | the database writer with its connection; implements `Custody` |
| `DatabaseWriterProofs` | its theorems |
| `RecencyCache` | abstract: a bounded cache that evicts by recency of use |
| `UOSCache` | the cache of device state; implements `RecencyCache` |
| `UOSCacheProofs` | its theorems |
| `SmartHB` | SmartHB and the repair, with the bus's priority delivery and what the cache keeps of it |
| `SmartHBProofs` | its theorems |
| `RfidPipeline` | the tags of a module: parser, normalizer, cache manager, protocol adapter and its deduplication window |
| `RfidPipelineProofs` | its theorems |
| `WebhookDispatcher` | batches, queue, requests and retries of the webhook output; implements `Custody` |
| `WebhookDispatcherProofs` | its theorems |
| `WebSocketServer` | connections, subscriptions and heartbeat of the WebSocket output |
| `DeviceMessages` | parsers and normalizers: which unified messages, about which modules, a device's message becomes |
| `Watchdog` | the scheduler of the watchdog |
| `ModuleHealth` | composes `Watchdog` and `DeviceMessages` over the module records of the cache |
| `HeartbeatProofs` | the theorems about who counts as alive: those of `WebSocketServer`, `Watchdog` and `ModuleHealth` |
| `Application` | start, stop, signals, the broker's client and the way of a message to the bus |
| `ApplicationProofs` | its theorems |
| `MC...` | the values TLC gives the constants |

Each module also holds a few definitions marked `Mutation:`. They are wrong on
purpose, nothing refers to them, and each stands for a bug that one property must
find (`mutants` in `PROJECT.json`).

The modules share no variables, but they meet where the components do. What one
takes of its surroundings, another one checks: `SmartHB` and `RfidPipeline` put the cache
manager's handler before their own, as the application subscribes them
(`app.ts:455`, `app.ts:490`); `ModuleHealth` feeds the records with everything
`DeviceMessages` says the devices can send; `DatabaseWriter` is stopped and disconnected
as `Application` does it, and `NothingUnderWay` says what the writer may still have to do then.

### CommandService

`pendingCommands` is the map, `before` its insertion order, `commandTimeouts` the
handle map and `armed` the timers the runtime will really fire; keeping the two
apart is the point of the model, because `handleCommandTimeout` ends with a delete
(`command-service.ts:426`) that drops the handle the retry has just stored. A timer
is `<<c, n>>`, the one set after the n-th publish of `c`. `handlers` counts the pairs of listeners
on the bus: `off()` gets a freshly bound function and removes nothing, so a restart
adds a pair and every pair takes each request. `accepted`, `published` and
`settledBy` are histories. One action per method: `Start`, `Stop`,
`HandleCommandRequest`, `HandleCommandResult`, `HandleCommandTimeout` (three
cases: the command is gone, a retry, giving up), `UpdateConfig`, and
`RemoveAllListeners`, which is the application's last step of stopping. Payloads
are abstracted to whether the builders accept the type; an unknown type throws
inside the handler's `try` and leaves the command `failed`.

### DatabaseWriter

A flush is a coroutine. `FlushBatch` takes the whole queue and clears the timer;
from then on the flush sits in `flush[f]` as a batch, a position, a local attempt
counter and a phase, and each `await` is a point where messages arrive, other
flushes start, the connection goes or the writer stops. `SaveSucceeds`,
`SaveFails`, `FlushFails` and `SkipExhausted` are the ways the awaited save goes
on, `Wake` the end of a retry's delay. `retryAttempts` is the map shared by all
flushes, kept per type, device and message id, which the parts of one message share
(`KeyOf`), so that a message may find its attempts used up by another: `SkipExhausted` passes it
over without a try or a line. `reported` remembers the keys whose last failure was logged. `stopper` is the flush that `stop()` awaits. `rows`, `tried`, `lost` and
`received` are histories. A save of a message in `Poison` always fails; any other
may fail at any attempt.

`Custody` is what the writer and the webhook dispatcher have in common, the two stages that
keep a message past the handler that took it. A step takes items in, of which some set out at
once and some that wait are given up, or it releases items that were underway: each of these
waits again or has been delivered or given up. What is in neither place any more never comes
back. For the writer the queue waits and the batches are underway; rows and reasons of loss
are what ended. A message already saved goes back with the batch that failed, as in the code,
so delivery alone does not end custody. For the dispatcher an item is a copy; buffers and
queue wait, requests are underway.

### UOSCache

The cache is one record (keys, head, tail, prev, next, size, age, and the history
`newer` of what was used since). The operators on it follow the methods assignment
by assignment: `RemoveNode`, `AddToHead`, `MoveToHead`, `EvictLRU`, `Delete`, `Set`,
`Get`. The loops of `getAllModules` and `cleanupExpired` take one iteration per
step, in any order, and only the clock moves meanwhile. `age` counts ticks up to the first at
which an entry is expired.

### SmartHB

A device's own fields are one value (`Addresses`), a module's `moduleId` and
`uTotal` one (`Boards`), its firmware named after the board it runs on. `partial`
and `isComplete` are the repair's state, `asked` and `askedLegacy` the queries in
the cooldown of either tracker, `cachedInfo` and `cachedHb` what the handlers look
up in the cache (the second tracker reads what the first has stored by then, in the same step), `delivered` the device records the last step gave the handlers without
priority. A message is one action, the nested emission included: `Outputs` puts the
record the repair emits before the message that passes. What devices send is any
placement of modules, at any time, so swaps, ghosts, and late or
overtaken messages are all there. The cache is taken to be larger than the modules
of one device, so a record just stored is still there when the same handler looks.

### RfidPipeline

`stored` is the `rfidSnapshot` of one module's record, or `Lost`. A message is one
action: the snapshot the parser makes of the frame or list (`FrameSnapshot`,
`ListSnapshot`), the normalizer's, the manager's store if `caching`, the adapter's comparison
with what it finds then, and the unified events that survive the
deduplication window (`entries`, `said`, `emitCallCount`). `view` is what a consumer
knows who applies the unified events alone. `excused` are the sensors of which it
cannot know better: a change was dropped as a duplicate, or the record was lost. `least` is the shortest
window in force since a change was last announced: a reconfiguration may set any window, and
what a shorter one has cleaned up, a longer one cannot know.

### WebhookDispatcher

A copy is a message for one endpoint. It waits in `buffers`, in `queue` or in a request
of `active`, which is sending or asleep before a retry; a request that sleeps
keeps its place among `MaxConcurrent`, as in the code. Each endpoint has its own number of
retries, read when its request sets out. `BeginStop` and `EndStop` are
the two ends of `stop()`'s wait; `Succeed`, `Fail` and `Wake` how a request goes
on. Endpoints are replaced and removed meanwhile.

### WebSocketServer

`socket` is the state of a connection, `present` whether its peer still answers,
`clients` the server's map. A close event may come long after the heartbeat
has dropped the client, which is why `HandleClientDisconnect` is an action of its own.
`PassTime` moves `age`, the time since each `lastPingAt`, and `sinceBeat`; a beat runs when
`Interval` has passed or up to `Lateness` later, as a busy event loop lets it, and an answer
comes whenever it comes, so that `age` is compared with twice the interval as the code compares
milliseconds. `unanswered` remembers who was sent a ping and has not been heard since. A start
may fail to listen; that leaves the handler on the bus.

### DeviceMessages, Watchdog, ModuleHealth

`DeviceMessages` follows a message of either kind of device through parser and
normalizer down to the set of unified messages and the modules they list, refusals
included: frames cut short, slots without identifier, addresses out of range, entries
without a serial. `Watchdog` keeps `tasks` and `taskIntervals` apart: a name scheduled
again overwrites its entry and the old interval, now in `leaked`, goes on firing.
`ModuleHealth` keeps of a record the age of its last heartbeat, the online flag and
its age, and has every message, the loss of a record, and every operation of the
watchdog change them. What a message puts on the bus goes past SmartHB first: device records
that are complete by themselves pass, the others are held back, and all are merged into one
that lists every module the device ever told of (`gathered`). As it becomes complete
(`complete`) it goes to the manager too, which stores each of those modules anew. The fields that
complete it are in `SmartHB`; here it may be complete whenever they do not rule it
out, and once complete it stays so until another module is new in it
(`SmartHBProofs!RecordsOnlyGrow`) or a new configuration empties it.

### Application

`startAt` and `stopAt` are what `start()` and `stop()` await; `StartOrder` and
`StopOrder` are the sequences in which they get there, and parts that are disabled or
inactive are passed over (`After`). `turns` is Node's queue of continuations: a message is
parsed in one turn and normalised in the next, and a `stop()` whose client has
ended goes on two turns later, so that what is behind it in the queue is exactly what
could be lost. Packets may arrive in the middle of that queue; timers, answers and signals
come when it is empty. `early` remembers that the first signal came before `start()` was done.

## 3. What is checked

| run | checks | shows |
|---|---|---|
| `command` | `HeldTimerIsLive`, `OneTimerPerAcceptance`, `TimerNeverLost`, `ImplementsLifecycle`, `ClosesEveryCommand` | two commands, two devices, retries, changing limits, stop and restart with up to two handler pairs: timers do not multiply, an open command keeps a timer and, left running, is closed, once and for good |
| `writer_safety` | `QueueBound`, `NothingVanishes`, `HeldOnce`, `OnlyFailureStrands`, `ImplementsCustody` | three messages, two of one key, up to three overlapping flushes, a queue that overflows both ways, stop and restart: what is given up has a log line, or shares the key of what had one |
| `writer_live` | `TransientFailuresAreAbsorbed` | when no message fails to its last attempt, what was accepted is written unless a full queue pushed it out |
| `cache` | `SizeIsCount`, `ListIsRecency`, `ImplementsRecency`, `LiveEntriesStay`, `ExpiredIsReclaimed` | one key more than fits, two devices, every operation and the sweep |
| `smarthb` | `FlagIsTruth`, `OutputsGetCompleteRecords`, `CompletionIsDelivered`, `InfoIsAskedByOne` | one device of either kind, two slots, every configuration |
| `rfid` | `ViewFollowsStore`, `AnnouncedOncePerWindow` | every frame and list of one sensor, swaps of two tags, restarts, windows reconfigured at will, a cache that forgets, cleanups in the middle of a message |
| `webhook` | `TypeOK`, `EachCopyInOnePlace`, `BufferedHasTimer`, `StoppedIsQuiet`, `ImplementsCustody`, `EveryCopyEnds` | batched and direct endpoints that filter, two requests at a time, failures, one retry or none, stop and restart, endpoints that come and go |
| `websocket` | `TypeOK`, `CountIsReported`, `AnsweringClientStays`, `GoneClientIsDropped` | two connections and room for one, silent losses, late close events, beats up to more than an interval late, a start that fails, stop and restart |
| `health` | `TypeOKHealth`, `TasksFireAsListed`, `SilentGoesOffline`, `SilentIsForgotten` | all messages of both kinds of device, merged records that tell of modules long gone, modules that fall silent, tasks added, removed, turned off and reconfigured |
| `application` | `MessagesInOrder`, `NothingUnderWay`, `OneSignalStopsAll`, `SignalEndsProcess` | two sets of enabled parts, each of which may fail or not answer, outages, a reconnect limit of one, two messages, two signals |

`TypeOK` of `CommandService`, `DatabaseWriter`, `UOSCache`, `SmartHB`, `RfidPipeline` and
`Application`, and two invariants of the command service, `PublishBound` and
`SettledIsFinal`, are proved (section 4) and not repeated in the runs.

Two runs check a sentence of the repository that the code does not keep; TLC's
trace shows how.

| run | the sentence | what happens |
|---|---|---|
| `rfid_changes` | `rfid-unifier.ts:80` "Emit SUO_RFID_EVENT for any changes" | the cache manager has stored the snapshot before the adapter looks for the previous one, so nothing has changed and no event is emitted |
| `app_history` | `specs/API.md:187` "Query historical data for a device from the database." | the controller looks for the database in a constructor that runs before anything connects, and never gets a repository |

Further counterexamples, each a configuration of its own that TLC finds violated:

| `tlc -config` | the sentence | what happens |
|---|---|---|
| `CommandStopTimers.cfg MCCommandService` | `command-service.ts:99` "Clear all timeouts" | a retry's timer lost its handle, survives `stop()` and retries afterwards |
| `CommandStopHandlers.cfg MCCommandService` | `command-service.ts:88` "Unsubscribe from events" | the handler stays, the stopped service takes the next request |
| `CommandResultType.cfg MCCommandService` | `command-service.ts:333` "by device and command type" | a result settles the oldest sent command of the device, of whatever type |
| `WriterStranded.cfg MCDatabaseWriter` | `README.md:328` "Max queue wait time (ms)" | a failed batch goes back into the queue and no timer is set |
| `WriterDiscard.cfg MCDatabaseWriter` | `specs/prd.md:290` "Retry failed writes 3 times, then log and discard" | a message is passed over untried and without a log line of its own, on the attempts of another part of it |
| `WriterStop.cfg MCDatabaseWriter` | `database-writer.ts:82` "Flush remaining messages" | `stop()` returns while flushes it did not start still save |
| `SmartHBSaved.cfg MCSmartHB` | `specs/architecture.md:271` "Complete → Save SUO_DEV_MOD to DB" | a V5008 that changes after its record was complete is never saved again |
| `WebSocketUnsubscribe.cfg MCWebSocketServer` | `README.md:755` "Unsubscribe from devices/types" | who unsubscribes from the last device has the empty set, which means every device |
| `ApplicationShutdown.cfg MCApplication` | `README.md:130` "Graceful Shutdown: Clean resource cleanup" | a second signal finds `isRunning` cleared and exits with 0 while the writer still flushes |

Met while reading and stated here only: `specs/V5008_Spec.md` 3.6.12 maps a raw 0 of a
temperature, humidity or noise to `null`, the parser returns 0; its 3.6.4 skips an entry
whose index is out of range, the parser keeps it; `specs/SUO_UOS_DB_Spec.md:633` gives
cached entries five minutes, the code a day, and its `:635` has a cleanup on offline
events that does not exist; a MODULE_INFO without a size overwrites a known one with 0; a
relay whose start failed keeps its handler and its client.

### Bounds

Every bound is a constant or a guard marked `bound`.

- Command: two commands are the least that compete for a result; one retry gives a
  timer that lost its handle; two handler pairs are what one restart leaves;
  identifiers are fresh (`MaxAccepted` lets each be taken once, by up to two
  handlers), as the API makes them. Three types: two buildable, one not.
- Writer: a batch of two, a queue of two (safety) or three, three messages, two
  attempts. Three flushes let one save, one sleep before a retry and one start.
  Each message arrives once; one subscription at a time.
- Cache: three entries and four keys exercise every position in the list (head,
  middle, tail, only node) and eviction; a TTL of one tick gives live and expired
  entries together.
- SmartHB: all state is per device, so one device of either kind; the second slot
  lets a module join a complete record. The saved configuration uses two addresses.
- Rfid: sensors are independent but for the counter of attempts and the cleanup, which a
  message of one sensor with a swap already meets in its middle (`CleanupInterval` 2). Two
  tags make a swap. No window at all and one of two ticks, so that a reconfiguration can lengthen
  one past anything the cleanup allows for; `MaxAge` lies past twice the longest.
- Webhook: two messages fill a batch, overflow the limit of requests when both endpoints
  take them, and let one sleep while the other is sent. Each message arrives once. Endpoints have
  one retry or none, and one may be replaced by another of the same name with fewer.
- WebSocket: one connection more than there is room for. One device and one type are
  enough for the empty and the full subscription. An interval of two units separates an answer
  just after a beat from one just before the next; beats up to three units late are on
  either side of twice the interval.
- Health: one record is followed; the second address stands for what a heartbeat may not list
  and for the module that joins the merged record. A heartbeat is fresh or overdue, a record
  expires a tick after it was stored. Two tasks of the list, two names.
- Application: two messages can overtake each other; with two signals the second meets
  every stage of the first stop; one reconnect attempt and the one too many.

Symmetry is used in `smarthb` over its slots and in `rfid` over its tags: no definition
tells one from another and neither run has a liveness property.
Runs switch deadlock checking off where the system may stop: identifiers are used
up, messages are, or the process has exited.

### Fairness

- `CommandService!Fairness`: a timer that is armed fires, one per command. Nothing obliges
  a client to ask or a device to answer.
- `DatabaseWriter`: the batch timer fires and an awaited save returns, one way or
  the other (the driver answers or times out). `TransientSpec` adds the assumption of
  its property, that saves that keep being tried succeed in the end.
- `UOSCache`: a loop of a method is finished, since it does not yield, and the sweep timer
  is served. That is strong fairness, as the sweep is disabled while a loop of another
  method, split into steps here, is under way.
- `WebhookDispatcher`: the polling interval and the flush timers fire, and a fetch returns
  or is aborted by its timeout, then its sleep ends.
- `WebSocketServer`: time passes and the heartbeat interval fires; a socket that is closing is closed
  in the end, by its peer or by the ws library's own timeout; and the server's close
  calls back.
- `ModuleHealth`: time passes and an interval that is set fires.
- `Application`: turns are taken; the broker's client that is told to end does; and what
  `stop()` awaits (the last flush, the pool's end, the servers' close) answers.
  Without that last assumption `SignalEndsProcess` is false, as `stop()` has no timeout.
  Nothing obliges the broker to connect or a part to start.
- `SmartHB` and `RfidPipeline` have none: what comes next is up to devices.

## 4. What is proved

For every value of the constants that the named assumptions of the modules allow: every
number of commands, keys, devices, slots, messages, flushes, sensors, endpoints and
connections, and every limit and queue size. Every safety invariant, action property and
refinement that a run checks is proved. Each inductive invariant (`IInv`, `HealthInv`) is the
conjunction of the named parts described here.

**`CommandServiceProofs`.** `TypeCorrect`, `PublishesAreBounded`,
`HeldTimersAreLive`, `SettledStaysSettled`, `TimersAreKept`, `TimersDoNotMultiply`,
`RefinesLifecycle`. None of the properties is inductive alone. The invariant adds to them
that a settled command is out of `pendingCommands`, that a command never taken has no
timer, status or publish, and an accounting of retries: what was published is covered by
what was accepted and the retries counted in the status. The retry counter is
what bounds publishing: several timer chains of one command share it, and each
retry spends one of it, so the chains together never exceed it. The refinement maps a
command to `unknown`, `open`, `rejected` or `closed`; a request is `Submit`, a
retry `Retry`, a result or giving up `Close`, and the rest stutters. `TimersDoNotMultiply`
counts: a request adds at most one timer per handler to a command that had none, and a
retry puts one new timer in the place of the one that fired, which is what keeps the
chains of a command, tracked or not, as many as the handler runs that began them.

**`UOSCacheProofs`.** `TypeCorrect`, `CounterIsExact`, `ListKeepsRecency`,
`RefinesRecency`, `KeepsLiveEntries`. The invariant says the cache is sound: the counter is
the cardinality of the keys, finite and at most `MaxSize`, and the list is in
order (`InOrder`): the links of the entries mirror each other, and the entries in
front of a node are exactly those used since. That last part makes "walk the list"
unnecessary: it ties a local property of links to the global order, so that removing and
adding a node are proved without induction. Each operator is shown to
keep a sound cache sound, and what it does to keys and order (`Lost`, `Moved`,
`Stored`) maps to the actions of `RecencyCache`. Loops add that what they have
still to visit is in the cache.

**`SmartHBProofs`.** `TypeCorrect`, `FlagIsRight`, `OutputsAreWhole`,
`WholeRecordIsDelivered`, `OneTrackerAsks`, `RecordsOnlyGrow`. The invariant is the type and
the flag: a record that becomes whole had its flag down, so it is emitted. What a message
delivers is a sequence of at most two records, of which the lemmas show that every element is
complete and the first is the emitted one. `OneTrackerAsks` is about the order of the two
trackers: whatever the repair does not ask for is in the merged record, which it has stored
by the time the second one looks; told to look before, the second asks too (the mutant).
`RecordsOnlyGrow` follows merging field by field and module by module.

**`ApplicationProofs`.** `TypeCorrect`, `OrderIsKept`, `ConsumersStopLast`,
`OneSignalSuffices`, for every set of enabled parts, every type of message and all
bounds. `Phases` says where `start()`, `stop()`, the link and its flag can be together;
it is what excludes a message after the client's end. `Ordered` says that the queue of
turns and the bus together are in order: what is published is before
everything normalised next, and that before everything parsed next, which is an
invariant because every message takes the same number of turns and the queue is first
in, first out. `Resuming` says that `stop()` waits for its turn once, first with anything
before it and only normalizers behind it, then with nothing behind it: so the queue
is empty when it goes on. `Stopped` says that everything before the part `stop()`
waits for has been stopped or was not active; `AfterIsNext` (the next part is the first
active one) is what the step needs, by the least-element principle of the naturals.

**`DatabaseWriterProofs`.** `TypeCorrect`, `QueueIsBounded`, `EveryMessageHeldOnce`,
`NoMessageVanishes`, `OnlyFailuresStrand`, `RefinesCustody`, for any number of overlapping flushes.
`QueueBound` holds of itself: both ways into the queue test its length. `HeldOnce` needs
`HeldIsReceived` (a message that arrives is new, so it is not already held) and its
strengthening `Apart`, which asks for batches without repetition too, or what a
failed flush puts back could repeat within the queue. `NothingVanishes` says that what is not written and not held was logged as it was dropped, but
for one case, which the code passes over in silence: a message whose key has no attempts left.
There a line has named the last failure of that key, a message of the same device, type and
identifier (`SkipsAreReported`: no counter reaches its limit, and no flush stands before a
message whose attempts are used up, without that line). The rest follows from
`Accounted`, that what is neither written nor let go of is in the queue or
a batch; that is inductive only with `PassedIsSettled`: a flush that ends forgets its
batch, and what lies before its position must have been saved or given up. A failed
batch that does not fit is the case that needs it: what it had left is dropped and logged,
and what it had passed is not held any more. The lemmas say what a queue holds after a
batch is taken off its front or put back there. `RefinesCustody` maps an arrival and a flush
that starts to `Take`, a message passed and a flush that fails to `Release`, and attempts and
delays between them to stutters. It rests on the same invariant: what ends with a flush
leaves the way out because no other batch holds it (`Apart`), and has been settled
(`PassedIsSettled`); what a full queue pushes out is not the new message nor anything it
keeps.

**`RfidPipelineProofs`.** `TypeCorrect`, `ConsumerKnowsTheTags`, `NoChangeRepeated`, for any
number of sensors in one message. `ConsumerKnowsTheTags` is inductive: a sensor's
events are at most a departure and then an arrival, of which the last one says what the
new snapshot holds, unless it was dropped as a repetition, which excuses the sensor. It speaks of
an adapter that is alone with the cache. With the cache manager on the bus too, the default,
`CachedSnapshotsAreSilent` says what happens instead to a V5008: nothing is ever announced.
`NoChangeRepeated` holds for whatever windows are set, at whatever moments. It needs
`EntriesCover`: a change without an entry was announced more than twice the least window
since ago, and `LeastIsLeast`, that this is at most the present one. The cleanup keeps entries
for twice the window of the moment (`rfid-unifier.ts:471`), so a window that is lengthened past
that finds entries gone and a change is announced again within it; this is the exception
the property states, and all that can happen. The order in which the
counter of attempts meets the sensors, and where in a message the cleanup falls, are
free in the proof.

**`WebhookDispatcherProofs`.** `TypeCorrect`, `BatchesAreTimed`, `StopWaitsForAll`,
`NoCopyLostOrDoubled`, `RefinesCustody`. `AllInOnePlace` says of every copy that it occurs in its buffer
once, in the queue once and in one request, in no two of these, and in one of them exactly
while it is pending; `OneOfThePlaces` turns that into the cardinality the property counts. A
step that moves a copy needs all parts: a batch that is queued takes from the buffer
what the queue did not have, a request what is its item alone. `UniqueIds`
(`addEndpoint` replaces the endpoint of the same identifier) keeps a message from being
queued twice for one endpoint. `StopWaits` says that a `stop()` under way no longer polls, so
that when it has seen no active request none begins after. `RefinesCustody` uses the
invariant before and after the step: what waits is what is pending and not in a request, so a
step is mapped by what it does to outcomes and requests alone, and flushes, stops and
changed endpoints stutter whatever they do to buffers and queue.

**`HeartbeatProofs`.** For every finite set of connections: `TypeCorrect`,
`StatusCountsClients`, `StoppedHasNoClients`, `AnsweringClientsStay`. The number of clients
is right only because the map is empty while the server is not running
(`MapOnlyWhileRunning`) and because a late close event finds its client gone.
`AnsweringClientsStay` needs `HeardSinceBeat`: an open client that is not owed an answer was heard
since the last beat, so its age is at most the time since then. It is dropped only if that
exceeds two intervals. One unanswered ping may be all it takes: heard just after a beat, a
client can be older than two intervals at the second beat after it when that is late.

For every finite set of task names, every list of tasks, every set of modules and every
threshold: `HealthTypeCorrect`, `TasksRunAsListed`, `OnlyOverdueGoOffline`,
`SilentAreNotRenewed`. That what fires is what the list has enabled is not inductive: it
asks only about names that were not added twice, and a second task of the same name is
what an overwritten interval is lost to. `WatchdogInv` says why a name that was added once
is safe. It occurs once in the list (`NamesOccurOnce`, from the start, since the
defaults are a set), only a repeated name has lost an interval (`OnlyRepeatedLeak`), an
interval is kept under the name of what it runs (`IntervalsAreNamed`), and it is there just
when the watchdog runs and a task of the list is enabled (`IntervalIsListed`). So a name
that is scheduled has no interval yet and nothing is lost; an enabled task of the list
keeps the interval it has when it is enabled again; and removing it removes the only
one. A list that is scheduled as a whole, at a start or by a
configuration, gives every name the interval of its last enabled task, which for a name
that occurs once is the only one (`ScheduleAllFacts`). `OnlyOverdueGoOffline`
and `SilentAreNotRenewed` are about all the actions that can touch a record: every check,
whichever operation of the watchdog ran it, every message and the passing of time. They rest
on `RecordsAreSound` (no record, no heartbeat, not online) and on `WritesAreAbout`, that a
message renews only records of modules it names, or that the merged record lists
(`EmittedIsGathered`). That exception is real: when a module joins a device and its fields
have come, the merged record goes out and renews the records of all modules the device ever
told of, also those long gone. Checked beside it, `SilentIsForgotten` says why it
is bounded: a module is new in the merged record once, a complete record is not put on the
bus again without one, and a new configuration forgets the dead.

The assumptions are those the modules name: sets the program holds in memory are finite
(`Sensors`, `EndpointIds`, `Clients`, `Names`), sizes and limits are natural numbers, positive where
zero would let nothing through. TLC
evaluates them in every run.

Left to TLC: every liveness property (`ClosesEveryCommand`,
`TransientFailuresAreAbsorbed`, `ExpiredIsReclaimed`, `EveryCopyEnds`,
`GoneClientIsDropped`, `SilentGoesOffline`, `SilentIsForgotten`, `SignalEndsProcess`),
since TLAPS does not reason about fairness and `ENABLED`. The sentences of the repository
that the code does not keep are refuted by a trace.

## 5. Not modelled

`PROJECT.json` gives each component its status. Of the modelled ones, left out are
payload layouts, statistics, logging and the values the cache stores; the writer's
queries to MySQL are a save that succeeds or throws. The command service's
`commandId` comes from the API and is fresh. Clock jumps are not modelled.

- Parsers and normalizers: the values of readings, colours, versions and results. They
  are stateless, and tested frame by frame in `tests`.
- Event bus: an error thrown by a handler. The bus logs that of a prioritized handler; that
  of another one would end the emission, but the components' handlers catch their own.
- MQTT relay: the copies it relays, sent and forgotten.
- REST API: requests that read the cache or the repository and answer.
- Repository and migrations, configuration, types, logging, scripts and the monitor page:
  no state of their own between two calls.
- Dashboard: a client in the browser, on its own end of the WebSocket.

## 6. What could come next

The relay's copies across an outage of its broker, and the dashboard's merge of what it
receives.
