# Kontiki in TLA+

A verification development for [Kontiki](../src/README.md), a Python runtime for
services on RabbitMQ: TLA+ modules translated from `src/kontiki`, TLC
configurations that check them on small instances, and theorems that the TLA+
proof system checks for every value of the constants. `PROJECT.json` lists the
runs, the source lines behind every definition, the mutants that show each
property can fail, the hazards and the findings.

## 1. The system

A service is one process with one asyncio event loop. `run_service` builds a
`ServiceContainer`, which starts an HTTP server, a `Consumer` for RPC requests
and events, `Task`s on timers, a registry client with its heartbeat, and the
user's delegates (a `Messenger` among them). Services talk over RabbitMQ only.
One service is special: the registry, itself a Kontiki service, which keeps in
memory who is alive, records activity, and administers the queues of failed
messages.

Everything concurrent is of three kinds, and the models keep them apart:

* **coroutines of one event loop.** A coroutine runs undisturbed between two
  awaits, so an action of a module is what one handler does from one await to
  the next. State read before an await and used after it is the main source of
  trouble (the `_reconnecting` flag, the tracked status, `shutting_down`).
* **processes**, which crash, and lose their connection to the broker while
  their handlers run on.
* **the broker** (external), which redelivers, orders nothing across queues,
  and takes back what a closed channel had not acknowledged.

### Inventory

| Component | State | Operations | What must be right | Module |
|---|---|---|---|---|
| Messenger (`messaging/publisher/messenger.py`) | connection, channel, exchanges, callback queue; `_started`, `_needs_reconnect`, `_reconnecting`; `futures`, `_response_models` | `setup`, `publish`, `call`, `reconnect`, `_on_response`, `stop` | one reconnect at a time, no leaked connection, a reply finds its call, tables empty again, every call ends | `Messenger` |
| Event consumer (`messaging/consumer/event.py`, `core.py`, `runtime/handler_scope.py`) | queues, deliveries, `WorkInFlight`, handler tasks | declare, consume, handle, acknowledge/reject, stop accepting, drain, force close | no work event lost, exact number of attempts, drain waits for exactly what runs | `EventPromise`, `EventDelivery` |
| RPC server (`messaging/consumer/rpc.py`) | `RpcTask.futures` | consume, detect duplicates, run the method, reply, acknowledge | no request twice at once in a process, acknowledged means answered, or a reason known | `RpcServer` |
| Registry (`registry/server/core.py`, `delegates/registry.py`, `delegates/heartbeat_manager.py`) and its client (`registry/client`) | `services`, `heartbeats`, `degraded_services`, `_tracked_status`; the client's phases | register, unregister, heartbeat, monitor round, register-again, restart | running services are listed, dead ones are not, the published events agree with it | `Registry` |
| Failed-message operations (`registry/server/core.py`, `service.py`) | the failed queue, messages held by calls | list, replay, drop | nothing vanishes, a replay ends, a failed call gives everything back | `FailedMessages` |
| Activity tracker (`delegates/activity_tracking.py`) | the two lists, the durable queues, the cleanup task | record hop/context/exception, purge, setup | retention bounded in both directions, as long as every entry can be read | `ActivityTracker` |
| Container and runner (`container.py`, `runner/runner.py`) with tasks (`task/task.py`) and HTTP (`web/web.py`) | `shutting_down`, `_amqp_setup_task`, delegates, timer loops, work in flight | setup, background AMQP setup, start, the phases of `stop` | stop ends, grace is given, nothing left open, delegates outlive work | `Container` |
| Flow and hop context (`runtime/handler_scope.py`, `messaging/flow.py`) | a `ContextVar` per coroutine, mutable `HandlerContext` objects several coroutines share | enter and leave a handler, publish and call, report exceptions, add context, respond | what is sent for a handler names its message, kind and flow, and nothing else does | `FlowContext` |
| Configuration (`configuration/`, `messaging/common.py`) and catalog (`registry/catalog.py`) | the merged mapping, the validated `KontikiConfig`, queues, routes, schedules, the catalog | merge, read, validate, derive modes, declare, announce | files merge to their union, what is accepted works but for named exceptions, both readings agree, the catalog is true | `Configuration` |
| Sessions and proxies, registry event payloads, serialization, HTTP documentation, command line, test support | — | — | — | not modelled, see section 8 |

How they interact: the container owns everything else and decides when
consumers stop and delegates go; the consumer counts its handlers in
`WorkInFlight`, for which the container's drain waits; the registry client
registers before consumers start, again whenever its connection comes back, and
again when the registry asks; handlers use the `Messenger`; the registry
publishes its events with the same `Messenger` and is administered by the same
RPC server.

## 2. Plan

Done, in order of importance: `Messenger`; `Registry`; `EventPromise` and
`EventDelivery` (refinement); `FailedMessages`; `RpcServer`; `Container`, for
services with and without HTTP, AMQP endpoints and registration and with delegates
that raise; `ActivityTracker`; `FlowContext`; `Configuration`. Each of them but
`Configuration` has a module of proofs (section 7).

Left to model:

1. Container × Messenger: consumers start before the Messenger delegates are set up
   (`container.py:346`), so the first handlers may find the messenger not started.
   Both sides are modelled, not their composition.
2. The two-step life of an event session: a peer that restarts between
   `open_session` and `publish` leaves a routing key nobody is bound to.

Left to prove: nothing among the safety and action properties of the eight modules
with proofs; each of them is a theorem. `Configuration` has RECURSIVE operators over trees and stays with TLC,
as does all liveness.

## 3. Modules

Each component has a module, an `MC` module that gives its constants values TLC
can enumerate, and one `.cfg` per run; safety and liveness of a component share a
run where the state space allows it. Definitions keep the names of the code
where they can; operators introduced by a comment "Mutant" are wrong
variants of the definition after them, used only to show that a property notices.

**Messenger.** The processes are the invocations of `call()` and `publish()` and
the owner, who runs `setup()` and `stop()`. `pc` says at which await a coroutine
is suspended; a connection is the number of the `connect_robust()` that made it,
and channel, exchanges and callback queue carry the number of the connection
they were made on. `future[c]` is the asyncio future of a call, `futures` and
`response_models` the two tables. A channel may be lost and restored at any
time; a setup or a reconnect may fail at each of its awaits; an operation may be
cancelled at each of its own. `MayReconnect` is the condition on which `_ensure_amqp`
connects; `Down` is a messenger that nobody is left to bring up.

**Registry.** `phase` is a service instance's life; four queues hold its
`register`, `unregister`, `heartbeat` and `register_again` messages. The registry's
handlers for register and unregister are two actions each, before and after the
await of the event they publish. `heartbeats[i]` is the age of the last
heartbeat, capped just above the timeout. `view` is what a subscriber of the
lifecycle events believes.

**EventPromise / EventDelivery.** The abstract module says what becomes of an
event: pending, handled, retained or, for one-off events, dropped, with a count of
failures. The detailed one has the broker (queue, delay, dead letters, holder of a
delivery), the handlers of each instance and the phases of its shutdown. `P ==
INSTANCE EventPromise WITH state <- ...` is the refinement mapping: an event that is
queued, delayed, delivered or running is pending; a dead or failed one is retained.

**RpcServer.** `futures` is `RpcTask.futures`; a handler is inside the method
(`calling`) or sending its reply (`replying`), and may belong to a delivery whose
channel is gone, in which case it answers but cannot acknowledge. `Unserializable`
are the requests whose result may fail to serialize: `ReplySent` then acknowledges
without an answer, as the `except` of the reply does.

**FailedMessages.** Each RPC is a process, suspended at every await; messages are
numbered by age, `held` is what a call has taken and not acknowledged. A crash of
the registry gives back everything and runs unanswered requests again.

**Container.** `pc` is where `run_service` is, one value per await of setup, start
and stop; `setup` is where `_setup_amqp` is, inside `setup()` when AMQP is
required and in a background task when it is optional. Tasks, HTTP handlers and
AMQP handlers are the work in flight; `cut` records what cancelled some of it.
`parts` says which of HTTP, AMQP endpoints and registration the service has, and
with it which steps of setup and stop there are. `DelegateRaises` is a user
delegate whose `stop()` raises in `_force_close`.

**ActivityTracker.** `events` and `exceptions` are the lists, in order of arrival.
Each entry has its sender's timestamp and, for the properties, the time of its
arrival; what the memory of a crashed registry held is `"gone"`. `Purged` drops the
prefix that `_purge_expired` drops; at an `Unreadable` entry (a hop whose timestamp is
a number, an exception that is no object) it raises instead, and `Cleanup` ends its
round there, as the `except` of `_cleanup` does. Time is counted in minutes, `since` is
how long the cleanup task has slept.

**FlowContext.** `objs` are the `HandlerContext` objects, `ctx[c]` the object the
`ContextVar` of coroutine `c` refers to, `token[c]` what a reset brings back. A
coroutine is the main one, a loop that runs handlers in turn (a timer loop, an HTTP
connection), a delivery, or a task that user code creates, which copies the
reference and may outlive its handler. `Send` stamps a message as
`apply_outbound_flow_id` and `apply_outbound_hop_headers` do and changes the shared
object in place; `Raise` and `Failed` are the two halves of an uncaught exception,
around the await of its report. `owner` and `scopes` are ghosts: for which handler a
coroutine really works, and by which message that handler was caused.

**Configuration.** A deployment is a sequence of YAML documents (trees of mappings
and named scalars), a service class and the `disable_service_registration` flag.
One action each for a file merged, the constructor, the validation, the AMQP
decision, HTTP, the delegates' setup, the connection, each queue, the RPC queues, the
registration, the consumer with the Messengers, the bound port, the tasks and the
delegates' start, in the order of `setup()`, `start()` and `_setup_amqp()`; each may end
start-up with a reason `why`. `"outside"` stands for the broker and a port that is
taken, `"class"` for code of the service (its `config_model`, its delegates): whether
they fail is open (`Proceed`, `BrokerFails`). `CertFiles` are the certificates that
load. A path is split at dots as the code does (`Split`). `Setting(path)` is what the
validated object says, `get_kontiki_parameter` what the code reads from the raw
mapping with the default of the call, and `Reads` lists those calls.

`TypeOK` documents the state of each module. It is proved for all of them but
Configuration, where it holds on the instances of the run, and is not listed among
the properties, which are about behaviour.

## 4. What the runs show

Passing runs:

| Run | Question | Answer |
|---|---|---|
| `messenger_service` | Two calls of a service whose AMQP is required, lost channels, failed connects, cancellation and shutdown in every order: is the messenger consistent, and does every operation end? | Reconnects exclude each other, no connection leaks, a request asks for its reply on its own connection, the tables are clean, a waiting call is known, the messenger stays recoverable, futures settle once, and every call ends, by its timeout at the latest. |
| `messenger_standalone` | A call and a publish of a standalone messenger, which has no `shutting_down` flag, so that `stop()` races with reconnects; all kinds of replies, three connections. | Once it is down and no setup, reconnect or first publish is in progress, it stays down and connects no more, whatever operations are called on it. |
| `registry_announce` | Do the published events agree with what the registry answers, while an instance starts, reconnects, degrades, stops, crashes, its queues are read in any order, and the registry crashes and restarts? | As long as publishing works: every member is announced always, and nobody else until the registry crashes; a live status of an instance that has not unregistered whenever no registration is half-way, also after a crash. |
| `registry_live` | Is a running instance registered in the end, also after a restart of the registry, and a dead one not live? | Yes, with failing publishes and unordered queues. |
| `events` | Two instances, a work event they compete for and a one-off event of one of them, two attempts, a lost connection or crash, shutdowns at any time. | `EventPromise` is implemented; the counter of work in flight is exact; a stop that drained in time leaves nothing behind; a one-off event runs at most once; a stop ends though handlers hang; events settle. |
| `rpc` | A shared request, one of a single instance whose result may not serialize, and a malformed one, through redelivery, forced closes, lost connections and crashes. | One handler per process and request; a request is acknowledged only when it was answered, by the handler that could not serialize its result, or, after a lost connection or crash, beside a handler of a running instance that is at work on it; every request leaves its queue while an instance runs. |
| `failed` | List, replay and drop at once on one queue, one message not JSON, publish errors, a crash. | No message vanishes or is held twice, a replay takes only what waited, every call ends although replayed messages come back. |
| `container` | Services with and without HTTP, AMQP endpoints and registration, every AMQP mode, a signal at any time, lost connections, HTTP, AMQP and task work in flight that may hang, a delegate that raises. | For every combination of parts: delegates outlive the work, nothing is left open after a stop that completes, and only what comes later after one that a delegate ends, nothing joins a drain, and no heartbeat begins in it once the reconnect callback is over, a stop that no lost connection ends cuts work only after the grace period, and a signalled service ends. |
| `flow` | An HTTP connection, a delivery, the main coroutine and a task that outlives its handler publish, call, annotate, fail and respond in every order, with chosen, inherited, empty and missing flow ids: what do their messages and records say? | The message and the handler they were sent for, and that handler's flow; outside a handler nothing; a 500 response has the flow of its exception record. |
| `configuration` | Every sequence of up to three of twenty files, five service classes, with and without the flag, and every later step of start-up that may fail: does what was merged, validated, declared and announced agree? | The merge is a union or fails because two files disagree; an accepted block stops start-up later only by a port or prefetch count beyond 16 bits or certificates that do not load, and every peer without a dot resolves; raw reads and validated object agree; the catalog names the queues, attempts, paths and schedules there are, and once it is out only the port, the broker or the delegates can end start-up. |
| `tracker` | Late, undated, malformed and unreadable records in every order, redelivery and restarts. | No entry is overdue unless an unreadable one came before it was due, and none is dropped early or by a redelivery. |

One run ends in a counterexample, because the code does something else than a
document says (`findings` in `PROJECT.json` quotes both):

| Run | What TLC shows |
|---|---|
| `container_outage` | With the broker gone, unregistering raises out of `stop()`; work in flight is cancelled without a drain. |

## 5. Bounds, and what the models also show

| Bound | Where | Why it is enough |
|---|---|---|
| `MaxGen` 2 and 3 connections | Messenger | A race needs a connection, the one that replaces it and, for a failed replacement, a third. |
| two operations | Messenger | Exclusion and interference are between two; the proofs lift the bound. |
| `Timeout` 1, `MonitorEvery` 1 | Registry | Only older or younger than the timeout matters; ages are capped just above it. |
| `MaxRegisters`, `MaxHeartbeats` 1-2 | Registry | Two unhandled registrations are what a stale one needs; more repeat, and the proofs lift the bound. |
| `MaxCrashes` 1 | Registry, FailedMessages | One restart loses all memory; what follows a second is what follows the first. |
| `MaxLosses` 1-2 | EventDelivery, RpcServer, ActivityTracker | Each loss gives one redelivery, and one brings a delivery back beside its first handler; the proofs lift the bound. |
| `MaxAttempts` 2, `Prefetch` 2, `FailedLength` 1 | EventDelivery | Two attempts separate the first failure, the last and one past the limit; the proofs lift the bounds. |
| `MaxMessages` 3, `Count` 2 | FailedMessages | A message that returns, one that waits, and one beyond the count; the proofs lift the bounds. |
| `MaxWork` 2, `MaxOutages` 2 | Container | One piece of work of each kind outlasts a phase; two show that a count is not a flag; the proofs lift the bounds. |
| `MaxTime` 2, `Skew` 0, retention 1, `Interval` 1 | ActivityTracker | The first entry is due at time 2, after two rounds of the cleanup task; a late delivery already puts timestamps out of order without skew. Six records, one of every kind in each list, leave no room for more time; the proofs are for every clock and skew. |
| three requests, none without `reply_to` | RpcServer | One of each fate; a request without `reply_to` (constant `NoReplyTo`) is left to the proofs, which allow any. |
| two messages, two objects, one record, one coroutine of each kind | FlowContext | A context is wrong when one message, object or coroutine is taken for another, so two of each tell them apart; the proofs lift the bound. |
| 3 files of 20 | Configuration | A conflict is between two files; the third is merged into what two have built. The documents hold every key that decides something, with each kind of value; a key more only repeats one. |

`CHECK_DEADLOCK FALSE` appears for Messenger, Registry and Configuration only: a
stopped messenger with all its operations done, a registry whose instances are all
gone and a service that has started or failed to really stop. The other modules say explicitly when they are done (`Done`,
`Idle`, `AllDown`, `Exited`, `Horizon`), so that any other halt is reported.

The constant `PublishFails` of Registry narrows `registry_announce` to the case in
which its properties are meant to hold, and the theorems have the same hypothesis: it
lets the registry's own publishes raise, which only `registry_live` allows, because an
event that is not published cannot be known. Both runs read the queues in any order.

The models also allow, because the code does, the following behaviour, which a
reader of the documents may not expect. No run is kept for these:

* A reconnect under way when `stop()` runs, or a first publish in flight then, brings
  a stopped standalone messenger back up (`messenger.py:372`; `CHANGELOG.md:14` says a
  stopped messenger does not connect). Nothing else does: `DownIsFinal`.
* An instance that unregisters and registers again is live by the heartbeat it had
  left (`delegates/registry.py:65`; `docs/features.md:252` says `down` until its
  first heartbeat).
* An unregistration handled before the registration it follows is dropped, and the
  stopped instance stays registered (`delegates/registry.py:57`). It is not live for
  ever: `DeadIsNotLive`. One handled while a registration it has overtaken is being
  announced drops the tracked status afterwards, and the next live status is not
  announced; `LiveStatusIsAnnounced` therefore leaves unregistered instances out.
* A forced close cancels handlers, whose rejections count as attempts of their
  events (`consumer/core.py:108`; the comment at `container.py:321` speaks of a
  return by the broker). The promise counts them too, so such an event is handed out
  again or retained, never lost: `KeepsPromise`.
* A drop passes over messages that a concurrent list holds, and a count leaves them
  out (`registry/server/core.py:314`, `:259`; `docs/advanced-features.md:774` says
  oldest first).
* An immediate task may begin its first iteration after `stop_accepting`
  (`task.py:65`), when the signal comes during setup.
* A reconnect callback that overlaps the stop starts the heartbeat again during the
  drain (`registry_client.py:124`). Once the callback is over no heartbeat begins
  (`NothingJoinsTheDrain`), and at most one runs that the client no longer holds
  (theorem `HeartbeatsBounded`).
* After a lost connection a duplicate of a request is acknowledged without a reply,
  and the request is lost if its first handler then dies (`consumer/rpc.py:118`). No
  duplicate is acknowledged for a handler that is gone already: `AckIsCovered`.
* A result that cannot be serialized (a set, a circular structure) is logged and its
  request acknowledged: the caller waits for its timeout (`consumer/rpc.py:173`).
  `AckIsCovered` allows this and says that the handler in question does it.
* A call whose request cannot be sent keeps its entries in `futures` and
  `_response_models` for good, and one with an unreadable reply keeps its response model
  (`messenger.py:251-296`). `TablesClean` is about calls that return, raise an RPC error
  or time out.
* An entry `_purge_expired` cannot read (a hop of another publisher with a numeric
  timestamp, an exception body that is no object) makes it raise in every round
  (`activity_tracking.py:130`, `:139`, `:159`): among the events it ends the purging of
  both lists, among the exceptions that of the exceptions. `RetentionIsBounded` bounds
  what was due before.
* A call that meets another's reconnect goes on without a callback queue and fails
  with `AttributeError`, or publishes on a closed channel (`messenger.py:359`;
  `CHANGELOG.md:91` says `AmqpDisconnectedError`).
* A registration that resumes after its await overwrites the status a heartbeat has
  tracked meanwhile, and the next transition is not announced
  (`registry/server/core.py:100`; `docs/features.md:252` says transitions are
  published). A publish that fails after the tracked status was changed is not
  repeated either (`core.py:128`).
* A request without `reply_to`, or one whose handler is cancelled, keeps its entry
  in `RpcTask.futures` for good (`consumer/rpc.py:123`).
* An exception is recorded once more for each connection lost between its append and
  its acknowledgement (`activity_tracking.py:106`).
* Consumers start before the Messenger delegates are set up: the first handlers may
  be refused by a messenger that has not started (`container.py:346`).
* A user delegate whose `stop()` raises leaves the delegates after it, the registry
  client and the HTTP server to the end of the process (`container.py:330`).
* A publish outside any handler gives its coroutine, and every task it starts later,
  a flow of its own (`handler_scope.py:106`; `docs/features.md:217` says `[no flow]`
  outside a handler). `flow_id=""` is sent as it is, and the next handler generates
  a new flow.
* `True == 1` in Python: two files that write `true` and `1` do not conflict, and
  which of them counts depends on their order (`merge.py:31`).
* A later file never overrides a leaf: a different value is an error
  (`merge.py:34`; `docs/advanced-features.md:995` and `:1041` speak of overrides,
  `docs/features.md:202` denies them).
* A configuration without any key fails in the constructor, because
  `get_parameter` of an empty mapping takes a default of `None` for none
  (`parameter.py:47`); without a default it returns the sentinel.
* A handler's own `max_attempts=0` fails only when its queue is declared, after its
  failed queue exists (`consumer/core.py:238`); two competing handlers of one event
  with different attempts are refused by the broker; a broadcast and an in-session
  handler of one event share one queue of the instance.
* A path aiohttp refuses is logged and not served, and announced in the catalog all
  the same (`web.py:172`, `catalog.py:73`). A second route on one path fares alike;
  the services of the run have none.
* `KontikiConfig` accepts any integer as a port or a prefetch count, any path as a
  certificate and any key as a peer: a port or count beyond 16 bits and a file that does
  not load stop start-up later (`model.py:70`, `common.py:83`, `consumer/core.py:83`),
  and a peer whose key has a dot is never found (`parameter.py:17`).
* Consumers are started after the catalog is published (`container.py:345`), and with
  `amqp.required` the port is bound and tasks and delegates are started after it too
  (`container.py:210`, `:215`). A failure there ends a service that the registry lists,
  or leaves it without consumers; one in `start()` does not even unregister, since `run_service` calls `stop()` for failures of `setup()` only
  (`runner.py:42`). Its heartbeats end, so it is not live for ever: `DeadIsNotLive`.
* With `amqp.required: false` a failure of the background setup leaves a service
  that is up without a bus (`container.py:221`).
* With tracking disabled after a restart, the durable queues of the earlier run go on
  filling (`activity_tracking.py:42`; `docs/configuration.md:252` says the broker
  drops what is published).

## 6. Fairness

Weak fairness on a step of a coroutine is the event loop's promise to resume what
is ready; timers fire (`asyncio.sleep`, `wait_for`), and the broker confirms and
delivers. `Deliver` is strongly fair per message, because a queue offers a message
again each time it returns and an instance that is stopping gives it straight
back; everything in the registry, the passing of time included, is only weakly fair.
Nobody is obliged to start, stop, crash,
answer an RPC, restore a channel or reconnect. In `EventDelivery` handlers may hang;
`Settles` takes their ending as a hypothesis (`HandlersEnd`), `StopEnds` does not. In
`Container` handlers and iterations may hang too, and the broker is reachable again
some day, because a service with required AMQP waits for it in its setup. `RpcServer` takes
methods to end, because nothing in the code bounds them.

## 7. Proofs

`MessengerProofs` (for any sets of calls and publishes, any number of
connections, either mode):

* `TypeCorrect`: `Spec => []TypeOK`, one lemma per group of variables.
* `ReconnectIsExclusive`: `Spec => []ReconnectExclusive`. The property is not
  inductive: nothing in it keeps the owner's `setup()` apart from an operation's
  `reconnect()`. `SetupFirst` adds that while the owner is in `setup()` the
  messenger is neither started nor marked for reconnection, so every operation
  has been turned away by `_ensure_amqp()`; afterwards the flag does it.
* `TablesAreClean`: `Spec => [](TablesClean /\ WaitingCallIsKnown)`, from `CallInv`,
  which ties where a call is to its future and to the two tables. `WaitingIsKnown`
  is its second half alone.
* `NoLeak`: `Spec => []NoConnectionLeak`, from `LeakInv`: a coroutine that is about to
  connect has closed what was open before. It needs `ReconnectIsExclusive`: two that
  connect at once would each overwrite the other's connection.
* `QueueIsOwn`: `Spec => []ReplyQueueIsOwn`, from `QueueInv`: between closing and
  `declare_queue()` there is no callback queue, and when there is one it was made on
  the connection of the RPC exchange, so a call that reads both between two awaits
  reads a pair.
* `FuturesAreFinal`, `MessengerStaysRecoverable` and `DownStaysDown`: the three action
  properties, from the same invariants. `Down` is closed under every step because an
  operation reconnects only from `_ensure_amqp`, whose condition `MayReconnect` then
  fails, or after a first publish that failed, and none is in flight.

They rest on `ProcsAssumption`, `ModeAssumption`, `RepliesAssumption` and
`GenAssumption`: calls, publishes and the owner are different coroutines, a
standalone messenger fails fast, replies are of the known kinds.

`ActivityTrackerProofs` (for any records, retention, interval, skew and bounds):

* `TypeCorrect`.
* `RetentionBounded`: `Spec => []RetentionIsBounded`. A purge stops at the first
  fresh entry, so expired ones may hide behind it; the bound holds because the
  entry that hides them arrived before them and is itself purged in time.
  `RetentionInv` says so: lists are in order of arrival (`Ordered`), no timestamp is
  ahead of its arrival by more than the skew, and every entry was young when the
  cleanup task woke last (`Young`) or is `Blocked`, that is, an entry that ends the
  purges arrived before it was due. A round that raises meets such an entry while it is
  still in time (`RaisingBlocks`), and a purge never removes it (`PurgeKeepsBlocked`).
* `UnexpiredKept`: `Spec => []KeepsUnexpired`. `KeepingInv` says it from the append on,
  not only from the acknowledgement: a purge may run between the two. It needs no
  hypothesis about lost connections.

They rest on `TrackerAssumption`: one of the two retention keys is positive,
only hops lack a timestamp, and what is unreadable has one and was decoded.

`FlowContextProofs` (for any coroutines, kinds, flow ids and bounds):

* `LineageHolds`, `OutsideHolds`, `ErrorsHold`: `Spec => []` of `LineageIsCausal`,
  `OutsideIsOutside` and `ErrorsAgree`; `FlowHolds`: `Spec => FlowIsKept`. All from
  one inductive invariant `IInv`. The properties speak of ghosts and of what was
  sent; what carries them from step to step is that a coroutine that works for a
  scope refers to that scope's object, which has the scope's kind, flow and hop
  and is no other scope's (`Inside`), that one without a scope refers to no handler's
  object, and no token does (`Outside`), that a handler has a scope exactly from its
  entry to its end (`Owners`), and that a coroutine in its error path holds the flow
  of the record it has sent (`Errors`).

They rest on `DistinctAssumption`, `KindAssumption` and `BoundAssumption`: the kinds
of coroutines are disjoint, and neither `None` nor the empty string is a generated
flow id. Hop ids are taken to be unique.

`EventDeliveryProofs` (for any finite sets of instances and events, any routing,
prefetch, limit and number of losses), all from one inductive invariant `Inv`:

* `InFlightExact`, `CleanStop`, `OneOffOnce`: `Spec => []` of `InFlightIsExact`,
  `CleanStopHoldsNothing` and `OneOffRunsOnce`. What they leave open is who may hold a
  delivery: `HeldWhereOpen` says an unacknowledged event is with an instance that has
  not closed and consumes its queue, and that no delivery still waits for
  `consume_message` once `basic.cancel` is answered, so that an empty counter at the
  end of the drain means that nothing is held. `FirstRun` says that a one-off event on
  its way to a handler has not had one. The counter is compared with the cardinality of
  a set of deliveries, which is why both sets are finite.
* `PromiseKept`: `Spec => KeepsPromise`, the refinement of `EventPromise`. Initial
  states map to initial states (`InitIsPromised`) and each step to one of the abstract
  module or a stutter (`NextIsPromised`). It needs `AttemptLeft`: an event that may
  still be delivered has failed fewer than `MaxAttempts` times, so that no failure is one
  more than the promise allows.
* `RetainedExactlyAtLimit` and `FatesAreFinal` draw from the refinement what a user of
  events wants to know: a work event is retained if and only if it has failed
  `MaxAttempts` times, a fate that is decided stays, and a pending work event ends
  handled or retained.
* `RunsBounded`: a work event's handler is started at most `MaxAttempts + losses` times.
  `RunsInv` accounts for every run: it has failed and was counted, was taken away by a
  loss, or is the one at work or acknowledged. TLC reaches the bound.

They rest on `QueuesAssumption` and `LimitsAssumption`, the second because
`consumer/core.py:238` refuses a limit below one.

`RpcServerProofs` (for any finite sets of instances and requests, any routing):

* `OneHandler`: `Spec => []OneHandlerPerInstance`. `ActiveIsKnown` ties the handlers to
  `RpcTask.futures`: what is worked on is in the table, so a redelivery finds it there.
* `AckedAnswered`: `Spec => []AckedIsAnswered`: until the first lost connection or
  crash, acknowledged means answered, for every request that can be answered
  (`Answerable`: well-formed, with a `reply_to`, its result serializable). A duplicate is acknowledged without an
  answer, so the table alone is not enough: `KnownIsActive` and `ActiveIsLive` say that
  an entry belongs to a handler at work, and that without a loss its delivery is still
  unacknowledged and cannot arrive a second time (`HolderIsExact`).
* `AckCovered`: `Spec => AckIsCovered`, the same through any losses: what is acknowledged
  unanswered is acknowledged by the handler that could not serialize its result, or is
  a duplicate beside a handler at work. `KnownIsActive` carries it and
  holds whatever was lost, because the entry goes with its handler.
* `AnswersAreCaused`: a caller gets at most `1 + losses +` the number of instances that
  were forced to close answers to one request. `AnswersInv` balances the answers given
  and those of orphaned handlers, which answer and cannot acknowledge, against the
  acknowledgement, the losses and the forced closes; each step changes both sides
  alike (`QuietBalance`, `AnswerBalance`, `LossBalance`).

They rest on `RequestsAssumption`.

`FailedMessagesProofs` (for any calls, counts, messages and crashes):

* `NothingLost`: `Spec => []NothingVanishes`. `HeldOnce` and `Progress` carry it: a call
  holds no message twice and none outside the life of its channel, and a replay
  acknowledges only what was published and confirmed.
* `ReplayIsFenced`: `Spec => []ReplayTakesOnlyWaiting`, because a replay has taken all
  it takes before its first publish (`Progress`). That the oldest message can be taken
  at all is lemma `Oldest`, from the well-founded order of the naturals.
* `CountIsKept`: `Spec => []WithinCount`: what a call holds and what it has replayed or
  dropped are together at most its limit or count, counted anew when a crash has the
  request handled again.

They rest on `CallsAssumption` and `QueueAssumption`.

`ContainerProofs` (for any tasks, modes, parts, work and outages). `stop()` is a
sequence, so the inductive invariant `Inv` says for each of its positions what the
steps before have achieved: `Stopping`, `SettingUp` (the background setup ends as
`stop()` begins), `Consuming`, `WindingDown` (the timer loops), `HttpStage`, `Drains`
and `Closing` (the last steps in their order).

* `DelegatesOutlive`, `NothingOpen`, `CutGrace`: `Spec => []` of
  `DelegatesOutliveWork`, `NothingLeftOpen` and `CutAfterGrace`. The last one has no
  hypothesis about outages: an exit by a lost connection is told apart by its
  result.
* `DrainOnlyShrinks`: `Spec => NothingJoinsTheDrain`, an action property.
  `HttpStage` and `WindingDown` are what it needs before the step, and lemma `BeatStep`
  for the heartbeats.
* `HeartbeatsBounded`: however often reconnect callbacks and `stop()` overlap, at most
  one heartbeat loop runs that the client does not hold (`OneStrayHeartbeat`, from
  `BeatInv`).

They rest on `ContainerAssumption`.

`RegistryProofs` (for any finite set of instances, any services, timeout and interval):

* `TypeCorrect`. The number of monitored services is counted, so instances are finite.
* `MembershipAnnounced`: `Spec => [](~PublishFails => MembershipIsAnnounced)`, in
  whatever order the queues are served, and through crashes of the registry: it
  forgets its members without an event, so after a crash subscribers may count some
  that it does not know, never the reverse.
* `LiveStatusAnnounced`: `Spec => [](~PublishFails => LiveStatusIsAnnounced)`, also
  through crashes and in whatever order the queues are served. A heartbeat that arrives
  while a registration is being announced is tracked without an event; `TrackInv` says
  that this registration is then still pending and sets the tracked status back. The end
  of a deregistration would forget a status; `UnregisterInv` says that only an instance
  that has sent its unregister message, and which the property leaves out, is ever being
  deregistered, also when a crash has handlers repeated.

They rest on `InstancesAssumption`, `TimingAssumption` and `BoundsAssumption`. Neither
needs confirmations to be prompt.

Only model-checked: all liveness, because the prover has no fairness (`OperationsEnd`,
`RunningIsRegistered`, `DeadIsNotLive`, `StopEnds`, `Settles`, `RequestsEnd`, `CallsEnd`);
the four properties of Configuration, because what its RECURSIVE operators compute takes
an induction over trees; and the counterexample of section 4.

## 8. Not modelled

* **Data.** Serialization, type-hint reconstruction, validation of bodies, HTTP
  statuses and error mapping, event payloads, OpenAPI documents: what a
  property tells apart is kept (a body decodes or not, a result serializes or not, a
  request has a `reply_to` or not), the rest is left out.
* **Sessions and RPC proxies** keep no state of their own beyond a resolved peer name
  (`Configuration`); they build arguments for `call` and `publish`.
* **A service's `config_model` and the `logging` block**: the first is user code, of
  which `Configuration` keeps that it may refuse; the second is formatting.
* **Cron arithmetic**: an iteration begins some time after the last one.
* **aiohttp's own shutdown timeout**: a request in flight when the HTTP server is
  cleaned up may end or be cancelled.
* **Command line and test support**: not part of a running service.
* **A retention of zero in both keys** of the activity tracker: its cleanup task
  dies at its first line and nothing says what was meant.
