------------------------------ MODULE Messenger ------------------------------
(***************************************************************************)
(* kontiki.messaging.publisher.messenger.Messenger: the AMQP client that   *)
(* every service and every standalone program publishes events and calls   *)
(* RPCs with.                                                              *)
(*                                                                         *)
(* The processes are asyncio coroutines of one event loop, so an action is *)
(* what one coroutine does between two awaits.  Calls are invocations of   *)
(* call(), each with its own correlation id (a uuid4, so the invocation    *)
(* stands for its id); Publishes are invocations of publish(); Main is the *)
(* owner of the messenger, which runs setup() once and stop() once.        *)
(*                                                                         *)
(* A connection is the number of the connect_robust() that made it, and    *)
(* the channel, exchanges and callback queue made on it carry that number. *)
(* None (0) is Python's None.                                              *)
(***************************************************************************)
EXTENDS Naturals, FiniteSets

CONSTANTS
    Calls,      \* invocations of Messenger.call
    Publishes,  \* invocations of Messenger.publish
    Main,       \* the coroutine that sets the messenger up and stops it
    FailFast,   \* _fail_fast(): standalone, or kontiki.amqp.required
    Attached,   \* TRUE: bound to a ServiceContainer; FALSE: standalone
    Replies,    \* the kinds of reply body the servers send
    MaxGen      \* bound: how many connections the broker ever accepts

ASSUME ProcsAssumption ==
    /\ Calls \cap Publishes = {}
    /\ Main \notin Calls \cup Publishes

ASSUME ModeAssumption ==
    /\ FailFast \in BOOLEAN
    /\ Attached \in BOOLEAN
    /\ ~Attached => FailFast

ASSUME RepliesAssumption ==
    Replies \subseteq {"success", "client_error", "server_error", "garbage"}

ASSUME GenAssumption == MaxGen \in Nat

None == 0
Gens == 1 .. MaxGen
Links == 0 .. MaxGen
Ops == Calls \cup Publishes
Procs == Ops \cup {Main}

\* What a reply's body is once the serializer has read it: an RpcReturn with
\* success, with a client or server error, or bytes that loads() rejects.
Bodies == {"success", "client_error", "server_error", "garbage"}

\* Where a setup() in progress is suspended, one value per await of _setup.
SetupStages ==
    {"connecting", "opening", "event_exchange", "rpc_exchange", "queueing",
     "consuming"}
ReconnectStages == {"closing"} \cup SetupStages
PublishStages == {"publishing", "retrying"}
Stages ==
    {"idle", "done", "waiting", "expired", "up", "stopping", "stopped"}
    \cup PublishStages \cup ReconnectStages

Results == {"result", "client_error", "server_error", "model_error"}
SendErrors ==
    {"AmqpDisconnectedError", "ChannelInvalidStateError", "AttributeError",
     "ConnectionError", "bad_instance_id", "bad_arguments"}
Outcomes == Results \cup SendErrors
            \cup {"none", "published", "timeout", "bad_reply", "cancelled"}

VARIABLES
    connection, channel, event_exchange, rpc_exchange, callback_queue,
    started, needs_reconnect, reconnecting,
    shutting_down,   \* container.shutting_down
    futures,         \* keys of Messenger.futures
    response_models, \* keys of Messenger._response_models
    future,          \* state of the asyncio future each call created
    pc,              \* where each coroutine is suspended
    returnTo,        \* what a reconnecting operation does afterwards
    mine,            \* the connection the coroutine's own setup() opened
    attempt,         \* the publish each operation is waiting on
    outcome,         \* what each operation returned or raised
    gen,             \* connections accepted so far
    open,            \* connections that are open at the broker
    valid,           \* connections whose channel and callback queue work
    requests,        \* RPC requests the broker holds
    replies          \* replies in the callback queues

links == <<connection, channel, event_exchange, rpc_exchange, callback_queue>>
flags == <<started, needs_reconnect, reconnecting>>
tables == <<futures, response_models, future>>
control == <<pc, returnTo, mine, attempt, outcome>>
broker == <<gen, open, valid, requests, replies>>
vars == <<links, flags, shutting_down, tables, control, broker>>

Attempts == [via : Links, replyTo : Links, sent : BOOLEAN]
NoAttempt == [via |-> None, replyTo |-> None, sent |-> FALSE]

TypeLinks ==
    /\ connection \in Links /\ channel \in Links
    /\ event_exchange \in Links /\ rpc_exchange \in Links
    /\ callback_queue \in Links
    /\ started \in BOOLEAN /\ needs_reconnect \in BOOLEAN
    /\ reconnecting \in BOOLEAN /\ shutting_down \in BOOLEAN

TypeTables ==
    /\ futures \in SUBSET Calls /\ response_models \in SUBSET Calls
    /\ future \in [Calls -> {"none", "pending", "cancelled"} \cup Bodies]

TypeControl ==
    /\ pc \in [Procs -> Stages]
    /\ returnTo \in [Procs -> {"ensure", "retry", "main"}]
    /\ mine \in [Procs -> Links]
    /\ attempt \in [Ops -> Attempts]
    /\ outcome \in [Ops -> Outcomes]

TypeBroker ==
    /\ gen \in Links
    /\ open \in SUBSET Gens /\ valid \in SUBSET Gens
    /\ requests \in SUBSET [cid : Calls, via : Links, replyTo : Links]
    /\ replies \in SUBSET [cid : Calls, queue : Links, body : Bodies]

TypeOK == TypeLinks /\ TypeTables /\ TypeControl /\ TypeBroker

Init ==
    /\ connection = None /\ channel = None /\ callback_queue = None
    /\ event_exchange = None /\ rpc_exchange = None
    /\ started = FALSE /\ needs_reconnect = FALSE /\ reconnecting = FALSE
    /\ shutting_down = FALSE
    /\ futures = {} /\ response_models = {}
    /\ future = [c \in Calls |-> "none"]
    /\ pc = [p \in Procs |-> IF p = Main THEN "connecting" ELSE "idle"]
    /\ returnTo = [p \in Procs |-> IF p = Main THEN "main" ELSE "ensure"]
    /\ mine = [p \in Procs |-> None]
    /\ attempt = [o \in Ops |-> NoAttempt]
    /\ outcome = [o \in Ops |-> "none"]
    /\ gen = 0 /\ open = {} /\ valid = {}
    /\ requests = {} /\ replies = {}

-----------------------------------------------------------------------------
(* Fragments shared by the actions.                                        *)

\* The operation returns or raises, and its local variables are gone.
Finish(o, what) ==
    /\ pc' = [pc EXCEPT ![o] = "done"]
    /\ outcome' = [outcome EXCEPT ![o] = what]
    /\ returnTo' = [returnTo EXCEPT ![o] = "ensure"]
    /\ mine' = [mine EXCEPT ![o] = None]
    /\ attempt' = [attempt EXCEPT ![o] = NoAttempt]

\* publish_request() or event_exchange.publish() up to its first await.  A call
\* reads callback_queue.name first, which fails while the attribute is None.
StartAttempt(o, stage) ==
    IF o \in Calls /\ callback_queue = None
    THEN Finish(o, "AttributeError")
    ELSE /\ pc' = [pc EXCEPT ![o] = stage]
         /\ attempt' = [attempt EXCEPT ![o] =
                [via |-> IF o \in Calls THEN rpc_exchange ELSE event_exchange,
                 replyTo |-> IF o \in Calls THEN callback_queue ELSE None,
                 sent |-> FALSE]]
         /\ returnTo' = [returnTo EXCEPT ![o] = "ensure"]
         /\ mine' = [mine EXCEPT ![o] = None]
         /\ UNCHANGED outcome

\* The body of call() or publish() once _ensure_amqp() has returned.  A call
\* enters its future in both tables before validate_extra_headers or dumps can
\* raise, and after require_instance_id can.
Body(o) ==
    \/ /\ o \in Calls
       /\ Finish(o, "bad_instance_id")
       /\ UNCHANGED tables
    \/ /\ IF o \in Calls
          THEN /\ futures' = futures \cup {o}
               /\ response_models' = response_models \cup {o}
               /\ future' = [future EXCEPT ![o] = "pending"]
          ELSE UNCHANGED tables
       /\ \/ StartAttempt(o, "publishing")
          \/ Finish(o, "bad_arguments")

\* Mutant: the old connection is forgotten but never closed.
CloseNothing == UNCHANGED broker

\* connection.close(): the broker drops the exclusive callback queue with it.
CloseConnection ==
    /\ open' = open \ {connection}
    /\ valid' = valid \ {connection}
    /\ replies' = {r \in replies : r.queue # connection}
    /\ UNCHANGED <<gen, requests>>

\* Mutant: reconnect() keeps the callback queue of the closed connection.
ForgetAllButQueue ==
    /\ connection' = None /\ channel' = None
    /\ started' = FALSE /\ needs_reconnect' = TRUE
    /\ UNCHANGED <<event_exchange, rpc_exchange, callback_queue>>

\* Mutant: reconnect() does not mark the messenger for another attempt.
ForgetUnmarked ==
    /\ connection' = None /\ channel' = None /\ callback_queue' = None
    /\ started' = FALSE
    /\ UNCHANGED <<event_exchange, rpc_exchange, needs_reconnect>>

\* The assignments between connection.close() and setup() in reconnect().
ForgetConnection ==
    /\ connection' = None /\ channel' = None /\ callback_queue' = None
    /\ started' = FALSE /\ needs_reconnect' = TRUE
    /\ UNCHANGED <<event_exchange, rpc_exchange>>

\* reconnect() from its entry to its first await, entered with no other
\* reconnect() under way and no shutdown.
BeginReconnect(o, ret) ==
    /\ reconnecting' = TRUE
    /\ returnTo' = [returnTo EXCEPT ![o] = ret]
    /\ attempt' = [attempt EXCEPT ![o] = NoAttempt]
    /\ UNCHANGED <<mine, outcome>>
    /\ IF connection # None
       THEN /\ pc' = [pc EXCEPT ![o] = "closing"]
            /\ CloseConnection
            /\ UNCHANGED <<links, started, needs_reconnect>>
       ELSE /\ pc' = [pc EXCEPT ![o] = "connecting"]
            /\ ForgetConnection
            /\ UNCHANGED broker

-----------------------------------------------------------------------------
(* call() and publish(), up to the confirmation of the request.            *)

\* Mutant: a messenger that stop() left unmarked is connected again.
MayReconnectUnmarked == ~started /\ ~reconnecting /\ ~shutting_down

\* The condition of _ensure_amqp().
MayReconnect == ~started /\ needs_reconnect /\ ~reconnecting /\ ~shutting_down

\* _ensure_amqp() and what follows it without an await.
Enter(o) ==
    /\ pc[o] = "idle"
    /\ UNCHANGED <<shutting_down>>
    /\ IF MayReconnect
       THEN BeginReconnect(o, "ensure") /\ UNCHANGED tables
       ELSE /\ IF ~started
               THEN Finish(o, "AmqpDisconnectedError") /\ UNCHANGED tables
               ELSE Body(o)
            /\ UNCHANGED <<links, flags, broker>>

\* The broker takes the message of a publish in flight (external).
BrokerAccept(o) ==
    /\ pc[o] \in PublishStages
    /\ attempt[o].via \in valid
    /\ ~attempt[o].sent
    /\ attempt' = [attempt EXCEPT ![o].sent = TRUE]
    /\ requests' = IF o \in Calls
                   THEN requests \cup {[cid |-> o, via |-> attempt[o].via,
                                        replyTo |-> attempt[o].replyTo]}
                   ELSE requests
    /\ UNCHANGED <<links, flags, shutting_down, tables, pc, returnTo, mine,
                   outcome, gen, open, valid, replies>>

\* The publisher confirm arrives: publish() returns, call() awaits its future.
Confirmed(o) ==
    /\ pc[o] \in PublishStages
    /\ attempt[o].via \in valid
    /\ attempt[o].sent
    /\ IF o \in Calls
       THEN /\ pc' = [pc EXCEPT ![o] = "waiting"]
            /\ attempt' = [attempt EXCEPT ![o] = NoAttempt]
            /\ UNCHANGED <<returnTo, mine, outcome>>
       ELSE Finish(o, "published")
    /\ UNCHANGED <<links, flags, shutting_down, tables, broker>>

\* The first publish raises ChannelInvalidStateError.  A second reconnect(), or
\* one during shutdown, returns at once and the retry goes ahead.
FirstPublishFails(o) ==
    /\ pc[o] = "publishing"
    /\ attempt[o].via \notin valid
    /\ UNCHANGED <<shutting_down, tables>>
    /\ IF FailFast /\ ~shutting_down /\ ~reconnecting
       THEN BeginReconnect(o, "retry")
       ELSE /\ IF ~FailFast
               THEN Finish(o, "AmqpDisconnectedError")
               ELSE StartAttempt(o, "retrying")
            /\ UNCHANGED <<links, flags, broker>>

\* The retry raises it too: nothing catches the second one.
RetryFails(o) ==
    /\ pc[o] = "retrying"
    /\ attempt[o].via \notin valid
    /\ Finish(o, "ChannelInvalidStateError")
    /\ UNCHANGED <<links, flags, shutting_down, tables, broker>>

-----------------------------------------------------------------------------
(* reconnect() and setup().                                                *)

\* reconnect() resumes after connection.close().
Closed(o) ==
    /\ pc[o] = "closing"
    /\ pc' = [pc EXCEPT ![o] = "connecting"]
    /\ ForgetConnection
    /\ UNCHANGED <<reconnecting, shutting_down, tables, returnTo, mine, attempt,
                   outcome, broker>>

\* connect_robust() returns a new connection.
SetupConnect(p) ==
    /\ pc[p] = "connecting"
    /\ gen < MaxGen
    /\ gen' = gen + 1
    /\ open' = open \cup {gen + 1}
    /\ valid' = valid \cup {gen + 1}
    /\ connection' = gen + 1
    /\ mine' = [mine EXCEPT ![p] = gen + 1]
    /\ pc' = [pc EXCEPT ![p] = "opening"]
    /\ UNCHANGED <<channel, event_exchange, rpc_exchange, callback_queue, flags,
                   shutting_down, tables, returnTo, attempt, outcome, requests,
                   replies>>

\* Mutant: the flag stays up.
KeepReconnecting == UNCHANGED reconnecting

\* The finally clause of reconnect().
ReleaseReconnecting == reconnecting' = FALSE

\* An exception leaves setup(), and reconnect() with its finally clause.
SetupRaises(p) ==
    IF p = Main
    THEN /\ pc' = [pc EXCEPT ![p] = "up"]
         /\ UNCHANGED <<reconnecting, returnTo, mine, attempt, outcome>>
    ELSE Finish(p, "ConnectionError") /\ ReleaseReconnecting

\* The next await of setup(), which calls a method of self.channel: stop() may
\* have set the attribute to None.
NextOnChannel(p, stage) ==
    IF channel = None
    THEN SetupRaises(p)
    ELSE /\ pc' = [pc EXCEPT ![p] = stage]
         /\ UNCHANGED <<reconnecting, returnTo, mine, attempt, outcome>>

\* connection.channel() returns; the event exchange is declared on the result.
SetupChannel(p) ==
    /\ pc[p] = "opening"
    /\ channel' = mine[p]
    /\ pc' = [pc EXCEPT ![p] = "event_exchange"]
    /\ UNCHANGED <<connection, event_exchange, rpc_exchange, callback_queue,
                   reconnecting, returnTo, mine, attempt, outcome>>

SetupEventExchange(p) ==
    /\ pc[p] = "event_exchange"
    /\ event_exchange' = mine[p]
    /\ NextOnChannel(p, "rpc_exchange")
    /\ UNCHANGED <<connection, channel, rpc_exchange, callback_queue>>

SetupRpcExchange(p) ==
    /\ pc[p] = "rpc_exchange"
    /\ rpc_exchange' = mine[p]
    /\ NextOnChannel(p, "queueing")
    /\ UNCHANGED <<connection, channel, event_exchange, callback_queue>>

\* declare_queue() returns; the consumer of replies is then registered.
SetupQueue(p) ==
    /\ pc[p] = "queueing"
    /\ callback_queue' = mine[p]
    /\ pc' = [pc EXCEPT ![p] = "consuming"]
    /\ UNCHANGED <<connection, channel, event_exchange, rpc_exchange,
                   reconnecting, returnTo, mine, attempt, outcome>>

SetupDeclare(p) ==
    /\ mine[p] \in valid
    /\ \/ SetupChannel(p)
       \/ SetupEventExchange(p)
       \/ SetupRpcExchange(p)
       \/ SetupQueue(p)
    /\ UNCHANGED <<started, needs_reconnect, shutting_down, tables, broker>>

\* consume() returns: setup() sets its flags and returns, reconnect() releases
\* its own flag, and the operation that reconnected goes on without an await.
SetupDone(p) ==
    /\ pc[p] = "consuming"
    /\ mine[p] \in valid
    /\ started' = TRUE
    /\ needs_reconnect' = FALSE
    /\ \/ /\ returnTo[p] = "main"
          /\ pc' = [pc EXCEPT ![p] = "up"]
          /\ UNCHANGED <<reconnecting, tables, returnTo, mine, attempt, outcome>>
       \/ /\ returnTo[p] = "ensure"
          /\ ReleaseReconnecting
          /\ Body(p)
       \/ /\ returnTo[p] = "retry"
          /\ ReleaseReconnecting
          /\ StartAttempt(p, "retrying")
          /\ UNCHANGED tables
    /\ UNCHANGED <<links, shutting_down, broker>>

\* An await of setup() raises: the broker refuses the connection (connect_robust
\* gives up only when fail_fast) or the connection is lost meanwhile.
SetupFails(p) ==
    /\ \/ pc[p] = "connecting" /\ FailFast
       \/ pc[p] \in SetupStages \ {"connecting"} /\ mine[p] \notin valid
    /\ SetupRaises(p)
    /\ UNCHANGED <<links, started, needs_reconnect, shutting_down, tables,
                   broker>>

-----------------------------------------------------------------------------
(* Replies and timeouts.                                                   *)

\* A server answers a request (external).  It may answer it again when the
\* request is redelivered; a reply to a queue that is gone is dropped.
ServerReply(r, b) ==
    /\ r \in requests
    /\ \/ requests' = requests \ {r}
       \/ UNCHANGED requests
    /\ replies' = IF r.replyTo \in valid
                  THEN replies \cup {[cid |-> r.cid, queue |-> r.replyTo,
                                      body |-> b]}
                  ELSE replies
    /\ UNCHANGED <<links, flags, shutting_down, tables, control, gen, open, valid>>

\* Mutant: a reply settles a future that is already done.
SettleAgain(r) ==
    future' = IF r.cid \in futures THEN [future EXCEPT ![r.cid] = r.body]
              ELSE future

\* The reply settles the future it belongs to, if that is still to be done.
Settle(r) ==
    future' = IF r.cid \in futures /\ future[r.cid] = "pending"
              THEN [future EXCEPT ![r.cid] = r.body] ELSE future

\* _on_response(): every reply is acknowledged; only the first one whose id is
\* still in the table settles a future, unless the timer has cancelled it.
OnResponse(r) ==
    /\ r \in replies
    /\ replies' = replies \ {r}
    /\ futures' = futures \ {r.cid}
    /\ Settle(r)
    /\ UNCHANGED <<response_models, links, flags, shutting_down, control, gen,
                   open, valid, requests>>

\* call() resumes with a settled future.  A reply that loads() rejected raises
\* before the response model is popped.
Answered(c) ==
    /\ pc[c] = "waiting"
    /\ future[c] \in Bodies
    /\ \/ /\ future[c] = "success"
          /\ \E result \in {"result", "model_error"} : Finish(c, result)
       \/ /\ future[c] \in {"client_error", "server_error"}
          /\ Finish(c, future[c])
       \/ /\ future[c] = "garbage"
          /\ Finish(c, "bad_reply")
    /\ response_models' = IF future[c] = "garbage" THEN response_models
                          ELSE response_models \ {c}
    /\ UNCHANGED <<futures, future, links, flags, shutting_down, broker>>

\* Mutant: only a call that is still in the table is timed.
TimedWhileKnown(c) == pc[c] = "waiting" /\ c \in futures

\* wait_for() times every call that awaits its future.
Timed(c) == pc[c] = "waiting"

\* asyncio cancels the future that a cancelled await waits on.
CancelFuture(c) ==
    future' = IF future[c] = "pending"
              THEN [future EXCEPT ![c] = "cancelled"] ELSE future

\* The timer of wait_for() fires and cancels the future.  From Python 3.12 it
\* also wins over a result that the coroutine has not been resumed with yet.
TimerFires(c) ==
    /\ Timed(c)
    /\ pc' = [pc EXCEPT ![c] = "expired"]
    /\ CancelFuture(c)
    /\ UNCHANGED <<futures, response_models, links, flags, shutting_down,
                   returnTo, mine, attempt, outcome, broker>>

\* Mutant: the response model outlives the call.
ForgetFuture(c) ==
    futures' = futures \ {c} /\ UNCHANGED response_models

\* Mutant: one timeout empties both tables.
ForgetEveryCall(c) ==
    futures' = {} /\ response_models' = {}

\* The cleanup in the except clause of call().
ForgetCall(c) ==
    /\ futures' = futures \ {c}
    /\ response_models' = response_models \ {c}

\* call() resumes with asyncio.TimeoutError.
TimedOut(c) ==
    /\ pc[c] = "expired"
    /\ ForgetCall(c)
    /\ Finish(c, "timeout")
    /\ UNCHANGED <<future, links, flags, shutting_down, broker>>

\* The task that runs the operation is cancelled at one of its awaits (a handler
\* cancelled by force_close, a caller's own wait_for): no table is cleaned.
Cancel(o) ==
    /\ pc[o] \in PublishStages \cup ReconnectStages \cup {"waiting"}
    /\ Finish(o, "cancelled")
    /\ IF pc[o] \in ReconnectStages THEN ReleaseReconnecting
                                    ELSE UNCHANGED reconnecting
    /\ IF pc[o] = "waiting" THEN CancelFuture(o) ELSE UNCHANGED future
    /\ UNCHANGED <<futures, response_models, links, started, needs_reconnect,
                   shutting_down, broker>>

-----------------------------------------------------------------------------
(* Shutdown, and the broker's connection faults.                           *)

\* ServiceContainer.stop() raises shutting_down, and cancels the setup that an
\* optional broker runs in the background.
BeginShutdown ==
    /\ Attached /\ ~shutting_down
    /\ pc[Main] = "up" \/ (~FailFast /\ pc[Main] \in SetupStages)
    /\ shutting_down' = TRUE
    /\ pc' = [pc EXCEPT ![Main] = "up"]
    /\ UNCHANGED <<links, flags, tables, returnTo, mine, attempt, outcome, broker>>

\* The assignments at the end of Messenger.stop().
ResetOnStop ==
    /\ connection' = None /\ channel' = None /\ callback_queue' = None
    /\ futures' = {} /\ response_models' = {}
    /\ started' = FALSE /\ needs_reconnect' = FALSE
    /\ pc' = [pc EXCEPT ![Main] = "stopped"]
    /\ UNCHANGED <<event_exchange, rpc_exchange, reconnecting, future>>

\* Messenger.stop() up to connection.close(), or to its end when there is no
\* connection to close.
StopBegin ==
    /\ pc[Main] = "up"
    /\ Attached => shutting_down
    /\ IF connection # None
       THEN /\ pc' = [pc EXCEPT ![Main] = "stopping"]
            /\ CloseConnection
            /\ UNCHANGED <<links, flags, tables>>
       ELSE ResetOnStop /\ UNCHANGED broker
    /\ UNCHANGED <<shutting_down, returnTo, mine, attempt, outcome>>

StopEnd ==
    /\ pc[Main] = "stopping"
    /\ ResetOnStop
    /\ UNCHANGED <<shutting_down, returnTo, mine, attempt, outcome, broker>>

\* The channel of an open connection becomes invalid, or the robust connection
\* restores it with an empty callback queue (external).
ChannelLost(g) ==
    /\ g \in valid
    /\ valid' = valid \ {g}
    /\ replies' = {r \in replies : r.queue # g}
    /\ UNCHANGED <<links, flags, shutting_down, tables, control, gen, open,
                   requests>>

ChannelRestored(g) ==
    /\ g \in open \ valid
    /\ valid' = valid \cup {g}
    /\ UNCHANGED <<links, flags, shutting_down, tables, control, gen, open,
                   requests, replies>>

-----------------------------------------------------------------------------
SetupStep(p) ==
    SetupConnect(p) \/ SetupDeclare(p) \/ SetupDone(p) \/ SetupFails(p)

SendStep(o) ==
    \/ BrokerAccept(o) \/ Confirmed(o) \/ FirstPublishFails(o) \/ RetryFails(o)
    \/ Closed(o) \/ SetupStep(o)

WaitStep(c) == Answered(c) \/ TimerFires(c) \/ TimedOut(c)

Next ==
    \/ \E o \in Ops : Enter(o) \/ SendStep(o) \/ Cancel(o)
    \/ \E c \in Calls : WaitStep(c)
    \/ \E r \in requests, b \in Replies : ServerReply(r, b)
    \/ \E r \in replies : OnResponse(r)
    \/ SetupStep(Main) \/ BeginShutdown \/ StopBegin \/ StopEnd
    \/ \E g \in Gens : ChannelLost(g) \/ ChannelRestored(g)

Spec == Init /\ [][Next]_vars

\* The event loop resumes a coroutine whose await is over, timers fire, and the
\* broker confirms a publish on a channel that stays valid.  Nothing obliges a
\* server to answer, a channel to be restored or the owner to stop.
Fairness ==
    /\ \A o \in Ops : WF_vars(SendStep(o))
    /\ \A c \in Calls : WF_vars(WaitStep(c))

FairSpec == Spec /\ Fairness

-----------------------------------------------------------------------------
(* Properties.                                                             *)

\* At most one coroutine is inside setup() or reconnect(), and the
\* _reconnecting flag is up exactly while an operation is: no pair of callers
\* that meet the same invalid channel connects twice, and no failure or
\* cancellation of a reconnect leaves the flag up, which would end reconnection.
ReconnectExclusive ==
    /\ \A p, q \in Procs :
          pc[p] \in ReconnectStages /\ pc[q] \in ReconnectStages => p = q
    /\ reconnecting <=> \E o \in Ops : pc[o] \in ReconnectStages

\* Until stop(), every open connection is the one self.connection holds, however
\* reconnects fail, are cancelled or interleave: none is left open behind.
NoConnectionLeak ==
    pc[Main] \notin {"stopping", "stopped"} => open \subseteq {connection}

\* The broker never holds a request whose reply_to is a queue of another
\* connection than the one the request went out on: publish_request() pairs
\* self.callback_queue with self.rpc_exchange, which reconnect() replaces one
\* await apart from each other.
ReplyQueueIsOwn == \A r \in requests : r.replyTo = r.via

\* A call that returned, raised an RPC error or timed out has left nothing in
\* futures or _response_models, whatever reply, timer, reconnect or stop() came
\* in between; an unreadable reply leaves nothing in futures.
TablesClean ==
    \A c \in Calls :
        /\ outcome[c] \in Results \cup {"timeout"} =>
              c \notin futures \cup response_models
        /\ outcome[c] = "bad_reply" => c \notin futures

\* Until stop(), a call that waits on an unsettled future is in the table that
\* _on_response() looks replies up in, so its reply is not taken for an unknown
\* one, whichever other calls reconnect or time out meanwhile.
WaitingCallIsKnown ==
    \A c \in Calls :
        pc[c] = "waiting" /\ future[c] = "pending" /\ pc[Main] # "stopped"
            => c \in futures

\* A messenger that has been set up can always be brought back: it is started, or
\* marked for the next operation to reconnect, until stop().  A reconnect that
\* fails or is cancelled half-way does not lose the mark.
StaysRecoverable ==
    [][started \/ needs_reconnect =>
          started' \/ needs_reconnect' \/ pc'[Main] = "stopped"]_vars

\* Nobody is left who could bring the messenger up: it is neither started nor
\* marked, no coroutine is inside setup() or reconnect(), and no first publish
\* is in flight whose failure would still reconnect.
Down ==
    /\ ~started /\ ~needs_reconnect
    /\ \A p \in Procs : pc[p] \notin ReconnectStages
    /\ \A o \in Ops : pc[o] = "publishing" => shutting_down \/ ~FailFast

\* A messenger that is down stays down and connects no more, whatever operations
\* are in flight or begin: only a reconnect() under way as stop() ends, or a
\* publish that was in flight then, brings a stopped messenger back.
DownIsFinal == [][Down => Down' /\ gen' = gen]_vars

\* A settled future stays as it is: a second reply, a reply that races the timer
\* or one that comes after it never settles it again.
SettledFutureIsFinal ==
    [][\A c \in Calls :
          future[c] \notin {"none", "pending"} => future'[c] = future[c]]_vars

\* Every publish() and call() that begins ends, even when stop() drops the table
\* its reply would be looked up in.
OperationsEnd ==
    \A o \in Ops : pc[o] \notin {"idle", "done"} ~> pc[o] = "done"

=============================================================================
