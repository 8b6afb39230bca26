------------------------------ MODULE Container ------------------------------
(* The life of one service process: run_service (runner/runner.py) over      *)
(* ServiceContainer (container.py), with the Tasks it starts (task/task.py), *)
(* its HTTP server (web/web.py), its Consumer, its registry client, its      *)
(* heartbeat and its Messenger.  What a component does inside is the matter  *)
(* of the other modules; here are the order in which the container brings    *)
(* them up and takes them down, the work in flight meanwhile, and a broker   *)
(* connection that may be lost at any await.                                 *)
EXTENDS Integers, FiniteSets

CONSTANTS
  Tasks,        \* the @task methods of the service
  Immediate,    \* those whose first iteration does not wait
  Modes,        \* subset of {"required", "optional", "disabled"}: kontiki.amqp
  MaxWork,      \* bound: HTTP requests, and AMQP handlers, in flight
  MaxOutages    \* bound: losses of the broker connection

ASSUME ContainerAssumption ==
  /\ IsFiniteSet(Tasks) /\ Immediate \subseteq Tasks
  /\ Modes \subseteq {"required", "optional", "disabled"}
  /\ MaxWork \in Nat /\ MaxOutages \in Nat

VARIABLES
  mode,       \* _amqp_required: True, False or None
  parts,      \* what the service has: HTTP endpoints served, AMQP endpoints, registration
  pc,         \* where run_service is
  exit,       \* how run_service ended
  signalled,  \* shutdown_event
  stopping,   \* shutting_down
  setup,      \* where _setup_amqp is, in setup() or in _amqp_setup_task
  link,       \* the broker can be reached
  outages,    \* losses of the connection so far
  http,       \* the HTTP server
  consumer,   \* amqp_consumer and its connection
  consuming,  \* "untagged": consuming without a consumer tag to cancel
  client,     \* service_registry_client and its connection
  callback,   \* _on_amqp_reconnect is between its check and its end
  messenger,  \* the Messenger delegate
  heartbeats, \* heartbeat tasks alive
  held,       \* HeartbeatPublisher.task is one of them
  running,    \* Task.running, cleared for all tasks at once
  task,       \* the timer loop of each task
  httpWork,   \* HTTP handlers in flight
  amqpWork,   \* event and RPC handlers in flight
  cut         \* what cancelled work in flight, so far

amqpVars == <<consumer, consuming, client, messenger>>
beatVars == <<callback, heartbeats, held>>
workVars == <<task, httpWork, amqpWork, cut>>
mainVars == <<pc, exit, stopping, setup, running>>
form == <<mode, parts>>
envVars == <<form, signalled, link, outages>>
vars == <<mainVars, envVars, http, amqpVars, beatVars, workVars>>

SetupSteps == {"client", "client_declare", "consumer", "consumer_declare",
               "register", "consume", "messenger"}

StopSteps == {"cancel_setup", "stop_http", "stop_amqp", "stop_tasks", "stop_heartbeat",
              "unregister", "begin_drain", "drain", "close_amqp", "force_tasks",
              "stop_delegates", "stop_client", "drain_http"}

TypeOK ==
  /\ mode \in Modes /\ parts \subseteq {"http", "consumer", "client"}
  /\ pc \in {"setup_http", "setup_amqp", "start_http", "start", "serving", "exited"} \cup StopSteps
  /\ exit \in {"no", "clean", "setup_failed", "start_failed", "stop_failed", "delegate_failed"}
  /\ setup \in {"no", "done", "failed", "cancelled"} \cup SetupSteps
  /\ {signalled, stopping, link, callback, held, running} \subseteq BOOLEAN
  /\ outages \in 0..MaxOutages
  /\ http \in {"no", "ready", "listening", "closing", "cleaning", "closed"}
  /\ consumer \in {"no", "unconnected", "connected", "closed"}
  /\ consuming \in {"no", "untagged", "tagged"}
  /\ client \in {"no", "connected", "declared", "closed"}
  /\ messenger \in {"no", "up", "stopped"}
  /\ heartbeats \in Nat
  /\ task \in [Tasks -> {"no", "created", "iterating", "sleeping", "ended"}]
  /\ httpWork \in 0..MaxWork /\ amqpWork \in 0..MaxWork
  /\ cut \subseteq {"grace", "force", "raise", "http_timeout"}

Init ==
  /\ mode \in Modes
  /\ parts \in SUBSET (IF mode = "disabled" THEN {"http"} ELSE {"http", "consumer", "client"})
  /\ pc = "setup_http" /\ exit = "no" /\ setup = "no"
  /\ signalled = FALSE /\ stopping = FALSE /\ link = TRUE /\ outages = 0
  /\ http = "no" /\ consumer = "no" /\ consuming = "no" /\ client = "no" /\ messenger = "no"
  /\ callback = FALSE /\ heartbeats = 0 /\ held = FALSE /\ running = FALSE
  /\ task = [t \in Tasks |-> "no"] /\ httpWork = 0 /\ amqpWork = 0 /\ cut = {}

-----------------------------------------------------------------------------
(* The environment: signals, the broker connection, the work *)

\* The event loop sees a signal after it has begun the timer loops it holds.
Signal ==
  /\ ~signalled /\ pc # "exited" /\ \A t \in Tasks : task[t] # "created"
  /\ signalled' = TRUE
  /\ UNCHANGED <<mainVars, form, link, outages, http, amqpVars, beatVars, workVars>>

LinkLost ==
  /\ link /\ outages < MaxOutages /\ pc # "exited"
  /\ link' = FALSE /\ outages' = outages + 1
  /\ UNCHANGED <<mainVars, form, signalled, http, amqpVars, beatVars, workVars>>

\* The connections reconnect; the registry client's calls _on_amqp_reconnect,
\* which goes on unless the container shuts down.
LinkRestored ==
  /\ ~link /\ pc # "exited"
  /\ link' = TRUE
  /\ callback' = (callback \/ (client = "declared" /\ ~stopping))
  /\ UNCHANGED <<mainVars, form, signalled, outages, http, amqpVars, heartbeats, held, workVars>>

\* register() has raised, or ensure_heartbeat_running follows it: a heartbeat
\* is started unless the one the publisher knows of runs.
CallbackEnds ==
  /\ callback
  /\ callback' = FALSE
  /\ \E registered \in BOOLEAN :
       /\ registered => link /\ client = "declared"
       /\ heartbeats' = IF registered /\ ~held THEN heartbeats + 1 ELSE heartbeats
       /\ held' = (held \/ registered)
  /\ UNCHANGED <<mainVars, envVars, http, amqpVars, workVars>>

\* A request; also on a kept-alive connection once the site is stopped.
HttpBegins ==
  /\ pc # "exited" /\ http \in {"listening", "closing"} /\ httpWork < MaxWork
  /\ httpWork' = httpWork + 1
  /\ UNCHANGED <<mainVars, envVars, http, amqpVars, beatVars, task, amqpWork, cut>>

HttpEnds ==
  /\ httpWork > 0
  /\ httpWork' = httpWork - 1
  /\ UNCHANGED <<mainVars, envVars, http, amqpVars, beatVars, task, amqpWork, cut>>

\* Mutant of Accepts: a delivery is taken during shutdown.
AcceptsAlways == TRUE

\* consume_message and handle_rpc give deliveries back during shutdown.
Accepts == ~stopping

AmqpBegins ==
  /\ pc # "exited" /\ consuming # "no" /\ link /\ Accepts /\ amqpWork < MaxWork
  /\ amqpWork' = amqpWork + 1
  /\ UNCHANGED <<mainVars, envVars, http, amqpVars, beatVars, task, httpWork, cut>>

AmqpEnds ==
  /\ amqpWork > 0
  /\ amqpWork' = amqpWork - 1
  /\ UNCHANGED <<mainVars, envVars, http, amqpVars, beatVars, task, httpWork, cut>>

-----------------------------------------------------------------------------
(* Task._run *)

Becomes(t, state) ==
  /\ task' = [task EXCEPT ![t] = state]
  /\ UNCHANGED <<mainVars, envVars, http, amqpVars, beatVars, httpWork, amqpWork, cut>>

\* Task.running is not looked at before an immediate first iteration.
LoopBegins(t) ==
  /\ task[t] = "created"
  /\ Becomes(t, IF t \in Immediate THEN "iterating"
                ELSE IF running THEN "sleeping" ELSE "ended")

Wakes(t) == task[t] = "sleeping" /\ Becomes(t, IF running THEN "iterating" ELSE "ended")

\* The user's method returns or raises; the error has been reported.
IterationEnds(t) ==
  task[t] = "iterating" /\ Becomes(t, IF running THEN "sleeping" ELSE "ended")

-----------------------------------------------------------------------------
(* setup and start *)

Goto(next) == pc' = next /\ UNCHANGED <<exit, stopping, setup, running>>

\* asyncio.run cancels every task that is left, and the process ends.
Exit(how, cause) ==
  /\ pc' = "exited" /\ exit' = how
  /\ setup' = IF setup \in SetupSteps THEN "cancelled" ELSE setup
  /\ httpWork' = 0 /\ amqpWork' = 0
  /\ task' = [t \in Tasks |-> IF task[t] = "no" THEN "no" ELSE "ended"]
  /\ cut' = IF httpWork + amqpWork > 0 \/ \E t \in Tasks : task[t] = "iterating"
            THEN cut \cup cause ELSE cut
  /\ heartbeats' = 0 /\ held' = FALSE /\ callback' = FALSE
  /\ UNCHANGED <<stopping, running, envVars, http>>

\* stop() as it begins: the flags are set before its first await.
BeginStop(how) ==
  /\ pc' = "cancel_setup" /\ exit' = how /\ stopping' = TRUE
  /\ UNCHANGED running

\* The steps of _setup_amqp that follow, without those of absent parts.
ToConsume == IF "consumer" \in parts THEN "consume" ELSE "messenger"
ToRegister == IF "client" \in parts THEN "register" ELSE ToConsume
ToConsumer == IF "consumer" \in parts THEN "consumer" ELSE ToRegister
FirstSetup == IF "client" \in parts THEN "client" ELSE ToConsumer

\* The HTTP server and the delegates other than the Messenger are set up; one
\* may raise.
SetupHttp ==
  /\ pc = "setup_http"
  /\ \/ /\ http' = IF "http" \in parts THEN "ready" ELSE "no"
        /\ IF mode = "required"
           THEN pc' = "setup_amqp" /\ setup' = FirstSetup /\ consumer' = "unconnected"
           ELSE pc' = "start_http" /\ UNCHANGED <<setup, consumer>>
        /\ UNCHANGED <<exit, stopping, running>>
     \/ BeginStop("setup_failed") /\ http' \in {"no", IF "http" \in parts THEN "ready" ELSE "no"}
        /\ UNCHANGED <<setup, consumer>>
  /\ UNCHANGED <<envVars, consuming, client, messenger, beatVars, workVars>>

SetupAt(step) == setup = step /\ pc \notin {"cancel_setup", "exited"}

NextSetup(next) ==
  /\ setup' = next
  /\ pc' = IF next = "done" /\ pc = "setup_amqp" THEN "start_http" ELSE pc
  /\ UNCHANGED <<exit, stopping, running>>

\* _setup_amqp, one action per stretch between two connections or queues.
SetupAmqp ==
  /\ link
  /\ \/ /\ SetupAt("client") /\ client' = "connected" /\ NextSetup("client_declare")
        /\ UNCHANGED <<consumer, consuming, messenger>>
     \/ /\ SetupAt("client_declare") /\ client' = "declared" /\ NextSetup(ToConsumer)
        /\ UNCHANGED <<consumer, consuming, messenger>>
     \/ /\ SetupAt("consumer") /\ consumer' = "connected" /\ NextSetup("consumer_declare")
        /\ UNCHANGED <<consuming, client, messenger>>
     \/ SetupAt("consumer_declare") /\ NextSetup(ToRegister) /\ UNCHANGED amqpVars
     \/ SetupAt("register") /\ NextSetup(ToConsume) /\ UNCHANGED amqpVars
     \/ /\ SetupAt("consume") /\ consuming' = "tagged" /\ NextSetup("messenger")
        /\ UNCHANGED <<consumer, client, messenger>>
     \/ /\ SetupAt("messenger") /\ messenger' = "up" /\ NextSetup("done")
        /\ UNCHANGED <<consumer, consuming, client>>
  /\ UNCHANGED <<envVars, http, beatVars, workVars>>

\* A step raises because the connection is lost; the Messenger may have got its
\* own by then.  In setup() the service stops, in the background the error stays
\* in _amqp_setup_task.
SetupRaises ==
  /\ ~link /\ \E step \in SetupSteps : SetupAt(step)
  /\ setup' = "failed"
  /\ messenger' \in IF setup = "messenger" THEN {messenger, "up"} ELSE {messenger}
  /\ IF pc = "setup_amqp" THEN BeginStop("setup_failed")
     ELSE UNCHANGED <<pc, exit, stopping, running>>
  /\ UNCHANGED <<envVars, http, consumer, consuming, client, beatVars, workVars>>

\* HttpServer.start; when the address is taken run_service ends without stop().
StartHttp ==
  /\ pc = "start_http"
  /\ \/ http' = (IF "http" \in parts THEN "listening" ELSE "no") /\ Goto("start") /\ UNCHANGED <<envVars, amqpVars, beatVars, workVars>>
     \/ "http" \in parts /\ Exit("start_failed", {"raise"}) /\ UNCHANGED amqpVars

\* Tasks and heartbeat are started, the AMQP setup too when it is optional, and
\* all without an await.
Start ==
  /\ pc = "start"
  /\ pc' = "serving" /\ running' = TRUE
  /\ task' = [t \in Tasks |-> "created"]
  /\ heartbeats' = IF "client" \in parts THEN heartbeats + 1 ELSE 0
  /\ held' = ("client" \in parts)
  /\ IF mode = "optional" THEN setup' = FirstSetup /\ consumer' = "unconnected"
     ELSE UNCHANGED <<setup, consumer>>
  /\ UNCHANGED <<exit, stopping, envVars, http, consuming, client, messenger, callback,
                 httpWork, amqpWork, cut>>

-----------------------------------------------------------------------------
(* stop *)

Stop ==
  /\ pc = "serving" /\ signalled
  /\ BeginStop("clean")
  /\ UNCHANGED <<setup, envVars, http, amqpVars, beatVars, workVars>>

\* Mutant of CancelSetup: the setup in the background goes on.
LeaveSetup ==
  /\ pc = "cancel_setup" /\ Goto("stop_http")
  /\ UNCHANGED <<envVars, http, amqpVars, beatVars, workVars>>

\* The background setup is cancelled at its await: a consumer may have been
\* registered whose tag did not arrive, a Messenger have a connection.
CancelSetup ==
  /\ pc = "cancel_setup"
  /\ pc' = "stop_http"
  /\ setup' = IF setup \in SetupSteps THEN "cancelled" ELSE setup
  /\ consuming' \in IF setup = "consume" THEN {consuming, "untagged"} ELSE {consuming}
  /\ messenger' \in IF setup = "messenger" THEN {messenger, "up"} ELSE {messenger}
  /\ UNCHANGED <<exit, stopping, running, envVars, http, consumer, client, beatVars, workVars>>

StopHttp ==
  /\ pc = "stop_http" /\ Goto("stop_amqp")
  /\ http' = IF http = "listening" THEN "closing" ELSE http
  /\ UNCHANGED <<envVars, amqpVars, beatVars, workVars>>

AmqpReady == consumer = "connected"

\* Consumer.stop_accepting cancels the consumers whose tags are known.
StopAmqp ==
  /\ pc = "stop_amqp" /\ (AmqpReady /\ consuming = "tagged" => link)
  /\ Goto("stop_tasks")
  /\ consuming' = IF AmqpReady /\ consuming = "tagged" THEN "no" ELSE consuming
  /\ UNCHANGED <<envVars, http, consumer, client, messenger, beatVars, workVars>>

StopTasks ==
  /\ pc = "stop_tasks"
  /\ pc' = "stop_heartbeat" /\ running' = FALSE
  /\ UNCHANGED <<exit, stopping, setup, envVars, http, amqpVars, beatVars, workVars>>

\* The heartbeat the publisher knows of is cancelled.
StopHeartbeat ==
  /\ pc = "stop_heartbeat" /\ Goto("unregister")
  /\ heartbeats' = IF held THEN heartbeats - 1 ELSE heartbeats
  /\ held' = FALSE
  /\ UNCHANGED <<envVars, http, amqpVars, callback, workVars>>

\* The register-again consumer is cancelled and unregister() published.
Unregister ==
  /\ pc = "unregister" /\ (client = "declared" => link)
  /\ Goto("begin_drain")
  /\ UNCHANGED <<envVars, http, amqpVars, beatVars, workVars>>

\* A step of _stop_accepting raises for the lost connection: stop() ends there,
\* and _stop_started keeps it from being run again.
StopRaises ==
  /\ ~link
  /\ \/ pc = "stop_amqp" /\ AmqpReady /\ consuming = "tagged"
     \/ pc = "unregister" /\ client = "declared"
  /\ Exit("stop_failed", {"raise"}) /\ UNCHANGED amqpVars

\* asyncio.gather over the drains, each in a task of its own; timer loops
\* created earlier have begun by then.
BeginDrain ==
  /\ pc = "begin_drain" /\ \A t \in Tasks : task[t] # "created"
  /\ Goto("drain")
  /\ http' = IF http \in {"ready", "closing"} THEN "cleaning" ELSE http
  /\ UNCHANGED <<envVars, amqpVars, beatVars, workVars>>

\* Mutant of Drained: the drain does not look at the tasks' iterations.
DrainedButTasks == httpWork = 0 /\ amqpWork = 0

Drained == httpWork = 0 /\ amqpWork = 0 /\ \A t \in Tasks : task[t] # "iterating"

DrainEnds ==
  /\ pc = "drain" /\ Drained
  /\ Goto("close_amqp")
  /\ http' = IF http = "cleaning" THEN "closed" ELSE http
  /\ UNCHANGED <<envVars, amqpVars, beatVars, workVars>>

\* Mutant of GraceExpires: the drain has no timeout.
GraceNeverExpires == FALSE /\ UNCHANGED vars

\* wait_for cancels the drains: Task.drain awaits the timer loop itself, which
\* is cancelled with it; the HTTP handlers run on.
GraceExpires ==
  /\ pc = "drain" /\ ~Drained
  /\ Goto("close_amqp")
  /\ task' = [t \in Tasks |-> IF task[t] = "iterating" THEN "ended" ELSE task[t]]
  /\ cut' = cut \cup {"grace"}
  /\ UNCHANGED <<envVars, http, amqpVars, beatVars, httpWork, amqpWork>>

\* Mutant of CloseAmqp: the handlers are not cancelled.
CloseUnderHandlers ==
  /\ pc = "close_amqp" /\ Goto("force_tasks")
  /\ consumer' = (IF AmqpReady THEN "closed" ELSE consumer) /\ consuming' = "no"
  /\ UNCHANGED <<envVars, http, client, messenger, beatVars, workVars>>

\* Consumer.force_close cancels the handlers and closes the connection.
CloseAmqp ==
  /\ pc = "close_amqp" /\ Goto("force_tasks")
  /\ IF AmqpReady
     THEN /\ consumer' = "closed" /\ consuming' = "no" /\ amqpWork' = 0
          /\ cut' = IF amqpWork > 0 THEN cut \cup {"force"} ELSE cut
     ELSE UNCHANGED <<consumer, consuming, amqpWork, cut>>
  /\ UNCHANGED <<envVars, http, client, messenger, beatVars, task, httpWork>>

ForceTasks ==
  /\ pc = "force_tasks" /\ Goto("stop_delegates")
  /\ task' = [t \in Tasks |-> IF task[t] = "no" THEN "no" ELSE "ended"]
  /\ cut' = IF \E t \in Tasks : task[t] = "iterating" THEN cut \cup {"force"} ELSE cut
  /\ UNCHANGED <<envVars, http, amqpVars, beatVars, httpWork, amqpWork>>

StopDelegates ==
  /\ pc = "stop_delegates" /\ Goto("stop_client")
  /\ messenger' = "stopped"
  /\ UNCHANGED <<envVars, http, consumer, consuming, client, beatVars, workVars>>

\* A user delegate's stop() raises: those after it in the order of names are not
\* stopped, and neither are the registry client and the HTTP server.
DelegateRaises ==
  /\ pc = "stop_delegates" /\ Exit("delegate_failed", {"raise"})
  /\ messenger' \in {messenger, "stopped"}
  /\ UNCHANGED <<consumer, consuming, client>>

StopClient ==
  /\ pc = "stop_client" /\ Goto("drain_http")
  /\ client' = IF client = "no" THEN "no" ELSE "closed"
  /\ UNCHANGED <<envVars, http, consumer, consuming, messenger, beatVars, workVars>>

\* HttpServer.drain again: AppRunner.cleanup waits for the handlers that are left
\* and cancels them at a timeout of its own.
DrainHttp ==
  /\ pc = "drain_http"
  /\ \/ httpWork = 0 /\ UNCHANGED cut
     \/ httpWork > 0 /\ cut' = cut \cup {"http_timeout"}
  /\ http' = IF http = "no" THEN "no" ELSE "closed"
  /\ pc' = "exited" /\ httpWork' = 0 /\ callback' = FALSE /\ heartbeats' = 0 /\ held' = FALSE
  /\ UNCHANGED <<exit, stopping, setup, running, envVars, amqpVars, task, amqpWork>>

Exited == pc = "exited" /\ UNCHANGED vars

Main ==
  \/ SetupHttp \/ StartHttp \/ Start \/ Stop
  \/ CancelSetup \/ StopHttp \/ StopAmqp \/ StopTasks \/ StopHeartbeat \/ Unregister
  \/ StopRaises \/ BeginDrain \/ DrainEnds \/ GraceExpires
  \/ CloseAmqp \/ ForceTasks \/ StopDelegates \/ DelegateRaises \/ StopClient \/ DrainHttp

TaskStep(t) == LoopBegins(t) \/ Wakes(t) \/ IterationEnds(t)

Next ==
  \/ Main \/ SetupAmqp \/ SetupRaises
  \/ \E t \in Tasks : TaskStep(t)
  \/ Signal \/ LinkLost \/ LinkRestored \/ CallbackEnds
  \/ HttpBegins \/ HttpEnds \/ AmqpBegins \/ AmqpEnds
  \/ Exited

Spec == Init /\ [][Next]_vars

\* The event loop resumes what is ready, timers fire, and the broker can be
\* reached again some day; handlers and iterations may hang.
Fairness ==
  /\ WF_vars(Main) /\ WF_vars(SetupAmqp \/ SetupRaises) /\ WF_vars(LinkRestored)
  /\ \A t \in Tasks : WF_vars(LoopBegins(t))

FairSpec == Spec /\ Fairness

-----------------------------------------------------------------------------
(* Properties *)

\* The Messenger is not stopped under a handler or an iteration that uses it,
\* HTTP handlers that outlast the grace period excepted.
DelegatesOutliveWork ==
  messenger = "stopped" /\ pc # "exited" =>
    /\ amqpWork = 0 /\ \A t \in Tasks : task[t] # "iterating"
    /\ httpWork > 0 => "grace" \in cut

\* However far the setup had got when it was cut short, and whichever parts the
\* service has, a stop() that runs to its end leaves no connection, server, setup
\* or timer loop behind; one that a delegate ends has closed the consumer and ended
\* handlers and loops before.
NothingLeftOpen ==
  /\ exit = "delegate_failed" =>
       consumer # "connected" /\ consuming = "no" /\ setup \notin SetupSteps
  /\ pc = "exited" /\ exit \in {"clean", "setup_failed"} =>
       /\ consumer # "connected" /\ consuming = "no" /\ client \in {"no", "closed"}
       /\ messenger # "up" /\ http \in {"no", "closed"} /\ setup \notin SetupSteps
       /\ amqpWork = 0 /\ \A t \in Tasks : task[t] \in {"no", "ended"}

\* A stop that no lost connection ends cancels work in flight only after the grace
\* period, even one that a delegate ends.
CutAfterGrace ==
  exit \in {"clean", "setup_failed", "delegate_failed"} /\ cut # {} => "grace" \in cut

\* Once a drain has begun no work is added to what it waits for, and from the
\* start of a stop on a connection that comes back starts no heartbeat: only a
\* reconnect callback under way as the stop began can.
NothingJoinsTheDrain ==
  [][/\ pc = "drain" =>
          /\ httpWork' <= httpWork /\ amqpWork' <= amqpWork
          /\ \A t \in Tasks : task'[t] = "iterating" => task[t] = "iterating"
     /\ stopping /\ ~callback => ~callback' /\ heartbeats' <= heartbeats]_vars

\* A service that is told to stop ends, whatever its handlers and tasks do.
StopEnds == signalled ~> pc = "exited"

-----------------------------------------------------------------------------
(* What comments and documents say, and the code does not do *)

\* docs/configuration.md:148: grace_seconds is the time to drain work in flight
\* "before force-close on shutdown", so none is cut without it.  Violated:
\* unregister() raises out of stop() when the broker is gone.
GraceIsGiven ==
  setup # "failed" /\ exit \in {"clean", "stop_failed"} /\ cut # {} => "grace" \in cut

=============================================================================
