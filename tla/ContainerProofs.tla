--------------------------- MODULE ContainerProofs ---------------------------
(* Proofs about Container, for every set of tasks, every mode and composition of *)
(* the service and every number of outages: work outlives no delegate, a stop  *)
(* leaves nothing open, cuts work only after the grace period, and nothing joins *)
(* a drain.                                                                    *)
EXTENDS Container, TLAPS

-----------------------------------------------------------------------------
(* The inductive invariant: what each position of run_service implies *)

Up == {"setup_http", "setup_amqp", "start_http", "start", "serving"}

\* The steps of stop(), from the named one on.
AfterForce == {"stop_delegates", "stop_client", "drain_http"}
AfterClose == {"force_tasks"} \cup AfterForce
AfterDrain == {"close_amqp"} \cup AfterClose
FromDrain == {"drain"} \cup AfterDrain
BeforeDrain == {"stop_amqp", "stop_tasks", "stop_heartbeat", "unregister", "begin_drain"}

\* shutting_down is set as stop() begins, and run_service has no result before.
Stopping ==
  /\ pc \in Up => ~stopping
  /\ exit = "no" <=> pc \in Up
  /\ pc \in StopSteps => stopping /\ exit \in {"clean", "setup_failed"}

\* _setup_amqp runs in setup() or behind the serving service, and stop() begins by
\* ending it.
SettingUp ==
  /\ setup \in SetupSteps => pc \in {"setup_amqp", "serving", "cancel_setup"}
  /\ pc = "setup_amqp" => mode = "required"
  /\ pc = "setup_http" \/ (pc \in {"start_http", "start"} /\ mode # "required") =>
       consumer = "no"
  /\ setup \in {"consumer_declare", "consume"} => consumer = "connected"
  /\ setup = "register" /\ "consumer" \in parts => consumer = "connected"

\* Deliveries come by a connected consumer, and are handled while it is.
Consuming ==
  /\ consuming # "no" \/ amqpWork > 0 => consumer = "connected"
  /\ pc \in AfterClose => consumer # "connected"

\* The timer loops wind down: told to stop, all begun before the drain, none in an
\* iteration after it, all ended by force.
WindingDown ==
  /\ pc \in {"stop_heartbeat", "unregister", "begin_drain"} \cup FromDrain => ~running
  /\ pc \in FromDrain => \A t \in Tasks : task[t] # "created"
  /\ pc \in AfterDrain => \A t \in Tasks : task[t] # "iterating"
  /\ pc \in AfterForce => \A t \in Tasks : task[t] \in {"no", "ended"}

\* The HTTP server stops listening before the drain, and takes no request in it.
HttpStage ==
  /\ pc \in Up \cup {"cancel_setup", "stop_http"} => http \in {"no", "ready", "listening"}
  /\ pc \in BeforeDrain => http \in {"no", "ready", "closing"}
  /\ pc \in FromDrain => http \in {"no", "cleaning", "closed"}

\* Work is left after the drain only if the grace period has ended, and nothing was
\* cut before that.
Drains ==
  /\ pc \in AfterDrain => (httpWork = 0 /\ amqpWork = 0) \/ "grace" \in cut
  /\ pc # "exited" /\ cut # {} => "grace" \in cut

\* The last steps of stop() in their order.
Closing ==
  /\ messenger = "stopped" => pc \in {"stop_client", "drain_http", "exited"}
  /\ pc \in {"stop_client", "drain_http"} => messenger = "stopped"
  /\ pc = "drain_http" => client \in {"no", "closed"}

\* The heartbeat the publisher knows of is alive.
HeldBeats == held => heartbeats > 0

Inv ==
  /\ TypeOK
  /\ Stopping /\ SettingUp /\ Consuming /\ WindingDown /\ HttpStage /\ Drains /\ Closing
  /\ HeldBeats
  /\ NothingLeftOpen /\ CutAfterGrace

-----------------------------------------------------------------------------
(* The environment *)

\* A signal, a lost or restored connection and the callback of the latter.
LEMMA EnvironmentInv ==
  ASSUME Inv, Signal \/ LinkLost \/ LinkRestored \/ CallbackEnds
  PROVE  Inv'
<1> USE ContainerAssumption
<1>0. UNCHANGED <<pc, exit, stopping, setup, running, mode, parts, http, consumer, consuming, client,
                  messenger, task, httpWork, amqpWork, cut>>
  BY DEF Signal, LinkLost, LinkRestored, CallbackEnds, mainVars, form, envVars, amqpVars, workVars
<1>1. TypeOK'
  <2>1. outages' \in 0..MaxOutages /\ heartbeats' \in Nat
    BY DEF Inv, TypeOK, Signal, LinkLost, LinkRestored, CallbackEnds, envVars, beatVars
  <2>2. signalled' \in BOOLEAN /\ link' \in BOOLEAN /\ callback' \in BOOLEAN /\ held' \in BOOLEAN
    BY Zenon DEF Inv, TypeOK, Signal, LinkLost, LinkRestored, CallbackEnds, envVars, beatVars
  <2>. QED  BY <1>0, <2>1, <2>2 DEF Inv, TypeOK
<1>2. HeldBeats'
  <2>1. CASE UNCHANGED <<held, heartbeats>>
    BY <2>1 DEF Inv, HeldBeats
  <2>2. CASE CallbackEnds
    <3>1. PICK registered \in BOOLEAN :
            /\ heartbeats' = IF registered /\ ~held THEN heartbeats + 1 ELSE heartbeats
            /\ held' = (held \/ registered)
      BY <2>2 DEF CallbackEnds
    <3>2. CASE registered /\ ~held
      BY <3>1, <3>2 DEF Inv, TypeOK, HeldBeats
    <3>3. CASE ~(registered /\ ~held)
      <4>1. heartbeats' = heartbeats /\ (held' => held)
        BY <3>1, <3>3
      <4>. QED  BY <4>1 DEF Inv, HeldBeats
    <3>. QED  BY <3>2, <3>3
  <2>. QED  BY <2>1, <2>2 DEF Signal, LinkLost, LinkRestored, beatVars
<1>3. /\ Stopping' /\ SettingUp' /\ Consuming' /\ WindingDown' /\ HttpStage' /\ Drains' /\ Closing'
      /\ NothingLeftOpen' /\ CutAfterGrace'
  BY <1>0 DEF Inv, Stopping, SettingUp, Consuming, WindingDown, HttpStage, Drains, Closing,
              NothingLeftOpen, CutAfterGrace
<1>. QED  BY <1>1, <1>2, <1>3 DEF Inv

\* Requests and deliveries come and go.
LEMMA WorkInv ==
  ASSUME Inv, HttpBegins \/ HttpEnds \/ AmqpBegins \/ AmqpEnds
  PROVE  Inv'
<1> USE ContainerAssumption
<1>0. UNCHANGED <<pc, exit, stopping, setup, running, mode, parts, signalled, link, outages, http,
                  consumer, consuming, client, messenger, callback, heartbeats, held, task, cut>>
  BY DEF HttpBegins, HttpEnds, AmqpBegins, AmqpEnds, mainVars, form, envVars, amqpVars, beatVars
<1>1. /\ httpWork' \in 0..MaxWork /\ amqpWork' \in 0..MaxWork
      /\ httpWork' <= httpWork \/ (httpWork' > 0 /\ http \in {"listening", "closing"})
      /\ amqpWork' <= amqpWork \/ (~stopping /\ consuming # "no")
      /\ pc = "exited" => httpWork' <= httpWork /\ amqpWork' <= amqpWork
  BY DEF Inv, TypeOK, HttpBegins, HttpEnds, AmqpBegins, AmqpEnds, Accepts
<1>2. TypeOK'
  BY <1>0, <1>1 DEF Inv, TypeOK
<1>3. HeldBeats' /\ Stopping' /\ SettingUp' /\ WindingDown' /\ HttpStage' /\ Closing' /\ CutAfterGrace'
  BY <1>0 DEF Inv, HeldBeats, Stopping, SettingUp, WindingDown, HttpStage, Closing, CutAfterGrace
<1>4. Consuming'
  BY <1>0, <1>1 DEF Inv, TypeOK, Consuming
<1>5. Drains'
  BY <1>0, <1>1 DEF Inv, TypeOK, Drains, HttpStage, Stopping, StopSteps, FromDrain, AfterDrain,
                    AfterClose, AfterForce
<1>6. NothingLeftOpen'
  BY <1>0, <1>1 DEF Inv, TypeOK, NothingLeftOpen
<1>. QED  BY <1>2, <1>3, <1>4, <1>5, <1>6 DEF Inv

\* The timer loop of a task moves.
LEMMA TaskInv ==
  ASSUME Inv, NEW t \in Tasks, TaskStep(t)
  PROVE  Inv'
<1> USE ContainerAssumption
<1>0. UNCHANGED <<pc, exit, stopping, setup, running, mode, parts, signalled, link, outages, http,
                  consumer, consuming, client, messenger, callback, heartbeats, held, httpWork,
                  amqpWork, cut>>
  BY DEF TaskStep, LoopBegins, Wakes, IterationEnds, Becomes, mainVars, form, envVars, amqpVars,
         beatVars
<1>1. \E s \in {"iterating", "sleeping", "ended"} :
        /\ task' = [task EXCEPT ![t] = s]
        /\ task[t] \notin {"no", "ended"}
        /\ task[t] # "created" /\ ~running => s = "ended"
  BY DEF TaskStep, LoopBegins, Wakes, IterationEnds, Becomes
<1>2. TypeOK'
  BY <1>0, <1>1 DEF Inv, TypeOK
<1>3. /\ HeldBeats' /\ Stopping' /\ SettingUp' /\ Consuming' /\ HttpStage' /\ Drains' /\ Closing'
      /\ CutAfterGrace'
  BY <1>0 DEF Inv, HeldBeats, Stopping, SettingUp, Consuming, HttpStage, Drains, Closing, CutAfterGrace
<1>4. WindingDown'
  BY <1>0, <1>1 DEF Inv, TypeOK, WindingDown, FromDrain, AfterDrain, AfterClose, AfterForce
<1>5. NothingLeftOpen'
  BY <1>0, <1>1 DEF Inv, TypeOK, NothingLeftOpen
<1>. QED  BY <1>2, <1>3, <1>4, <1>5 DEF Inv

-----------------------------------------------------------------------------
(* Setup and start *)

\* stop() begins: no step of it has been taken.
LEMMA BeginStopInv ==
  ASSUME Inv, pc \in Up, pc' = "cancel_setup", exit' \in {"clean", "setup_failed"}, stopping' = TRUE,
         UNCHANGED <<running, mode, parts, signalled, link, outages, consumer, consuming,
                     client, callback, heartbeats, held, task, httpWork, amqpWork, cut>>,
         messenger' \in {messenger, "up"} \ {"stopped"},
         setup' = setup \/ setup' = "failed",
         http' = http \/ http' \in {"no", "ready"}
  PROVE  Inv'
<1> USE ContainerAssumption
<1>1. TypeOK'
  BY DEF Inv, TypeOK, StopSteps
<1>2. Stopping' /\ SettingUp'
  BY DEF Inv, Stopping, SettingUp, Up, StopSteps, SetupSteps
<1>3. Consuming' /\ WindingDown' /\ HeldBeats'
  BY DEF Inv, Consuming, WindingDown, HeldBeats, FromDrain, AfterDrain, AfterClose, AfterForce
<1>4. HttpStage' /\ Drains' /\ Closing'
  BY DEF Inv, HttpStage, Drains, Closing, Up, BeforeDrain, FromDrain, AfterDrain, AfterClose, AfterForce
<1>5. NothingLeftOpen' /\ CutAfterGrace'
  BY DEF Inv, NothingLeftOpen, CutAfterGrace, Drains, Up
<1>. QED  BY <1>1, <1>2, <1>3, <1>4, <1>5 DEF Inv

\* setup() up to the AMQP part, and the start of the HTTP server.
LEMMA SetupHttpInv == Inv /\ SetupHttp => Inv'
<1> SUFFICES ASSUME Inv, SetupHttp PROVE Inv'
  OBVIOUS
<1> USE ContainerAssumption
<1>0. /\ pc = "setup_http"
      /\ UNCHANGED <<mode, parts, signalled, link, outages, consuming, client, messenger, callback,
                     heartbeats, held, task, httpWork, amqpWork, cut, running>>
  BY DEF SetupHttp, BeginStop, envVars, form, beatVars, workVars
<1>1. CASE pc' = "cancel_setup"
  <2>1. /\ exit' = "setup_failed" /\ stopping' = TRUE /\ http' \in {"no", "ready"}
        /\ UNCHANGED <<setup, consumer>>
    BY <1>1 DEF SetupHttp, BeginStop
  <2>2. messenger # "stopped"
    BY <1>0 DEF Inv, Closing
  <2>. QED  BY <1>0, <1>1, <2>1, <2>2, BeginStopInv DEF Up
<1>2. CASE pc' # "cancel_setup"
  <2>1. /\ UNCHANGED <<exit, stopping>> /\ http' \in {"no", "ready"}
        /\ \/ /\ mode = "required" /\ pc' = "setup_amqp" /\ consumer' = "unconnected"
              /\ setup' = FirstSetup
           \/ mode # "required" /\ pc' = "start_http" /\ UNCHANGED <<setup, consumer>>
    BY <1>0, <1>2 DEF SetupHttp, BeginStop
  <2>2. FirstSetup \in {"client", "consumer", "messenger"}
    BY DEF FirstSetup, ToConsumer, ToRegister, ToConsume
  <2>3. consumer = "no" /\ consuming = "no" /\ amqpWork = 0 /\ setup \notin SetupSteps /\ exit = "no"
    BY <1>0 DEF Inv, TypeOK, SettingUp, Consuming, Stopping, Up
  <2>4. TypeOK'
    BY <1>0, <2>1, <2>2 DEF Inv, TypeOK, SetupSteps
  <2>5. Stopping' /\ SettingUp'
    BY <1>0, <2>1, <2>2, <2>3 DEF Inv, Stopping, SettingUp, Up, StopSteps, SetupSteps
  <2>6. Consuming' /\ WindingDown' /\ HeldBeats'
    BY <1>0, <2>1, <2>3 DEF Inv, Consuming, WindingDown, HeldBeats, FromDrain, AfterDrain, AfterClose,
                            AfterForce
  <2>7. HttpStage' /\ Drains' /\ Closing'
    BY <1>0, <2>1 DEF Inv, HttpStage, Drains, Closing, Up, BeforeDrain, FromDrain, AfterDrain,
                      AfterClose, AfterForce
  <2>8. NothingLeftOpen' /\ CutAfterGrace'
    BY <1>0, <2>1, <2>3 DEF Inv, NothingLeftOpen, CutAfterGrace
  <2>. QED  BY <2>4, <2>5, <2>6, <2>7, <2>8 DEF Inv
<1>. QED  BY <1>1, <1>2

\* A step of _setup_amqp, in setup() or in the background.
LEMMA SetupAmqpInv == Inv /\ SetupAmqp => Inv'
<1> SUFFICES ASSUME Inv, SetupAmqp PROVE Inv'
  OBVIOUS
<1> USE ContainerAssumption
<1>0. /\ UNCHANGED <<exit, stopping, running, mode, parts, signalled, link, outages, http, callback,
                     heartbeats, held, task, httpWork, amqpWork, cut>>
      /\ pc \in {"setup_amqp", "serving"} /\ exit = "no"
      /\ pc' = pc \/ (pc' = "start_http" /\ pc = "setup_amqp" /\ setup' = "done")
  BY DEF SetupAmqp, NextSetup, SetupAt, Inv, SettingUp, Stopping, Up, SetupSteps, envVars, form,
         beatVars, workVars
<1>1. /\ setup' \in SetupSteps \cup {"done"}
      /\ consumer' \in {consumer, "connected"} /\ client' \in {client, "connected", "declared"}
      /\ messenger' \in {messenger, "up"} /\ consuming' \in {consuming, "tagged"}
  BY DEF SetupAmqp, NextSetup, ToRegister, ToConsume, ToConsumer, SetupSteps, amqpVars
<1>2. /\ setup' \in {"consumer_declare", "consume"} => consumer' = "connected"
      /\ setup' = "register" /\ "consumer" \in parts => consumer' = "connected"
      /\ consuming' # "no" => consumer' = "connected"
  BY DEF SetupAmqp, SetupAt, NextSetup, ToRegister, ToConsume, ToConsumer, SetupSteps, amqpVars, Inv,
         SettingUp, Consuming
<1>3. TypeOK'
  BY <1>0, <1>1 DEF Inv, TypeOK
<1>4. Stopping' /\ SettingUp'
  BY <1>0, <1>1, <1>2 DEF Inv, Stopping, SettingUp, Up, StopSteps, SetupSteps
<1>5. Consuming' /\ WindingDown' /\ HeldBeats'
  BY <1>0, <1>1, <1>2 DEF Inv, Consuming, WindingDown, HeldBeats, FromDrain, AfterDrain, AfterClose,
                          AfterForce
<1>6. HttpStage' /\ Drains' /\ Closing'
  BY <1>0, <1>1 DEF Inv, HttpStage, Drains, Closing, Up, BeforeDrain, FromDrain, AfterDrain,
                    AfterClose, AfterForce
<1>7. NothingLeftOpen' /\ CutAfterGrace'
  BY <1>0 DEF Inv, NothingLeftOpen, CutAfterGrace
<1>. QED  BY <1>3, <1>4, <1>5, <1>6, <1>7 DEF Inv

\* _setup_amqp raises.
LEMMA SetupRaisesInv == Inv /\ SetupRaises => Inv'
<1> SUFFICES ASSUME Inv, SetupRaises PROVE Inv'
  OBVIOUS
<1> USE ContainerAssumption
<1>0. /\ UNCHANGED <<running, mode, parts, signalled, link, outages, http, consumer, consuming,
                     client, callback, heartbeats, held, task, httpWork, amqpWork, cut>>
      /\ pc \in {"setup_amqp", "serving"} /\ setup' = "failed" /\ messenger # "stopped"
      /\ messenger' \in {messenger, "up"}
  BY DEF SetupRaises, BeginStop, SetupAt, Inv, SettingUp, Closing, envVars, form, beatVars, workVars
<1>1. CASE pc = "setup_amqp"
  <2>1. pc' = "cancel_setup" /\ exit' = "setup_failed" /\ stopping' = TRUE
    BY <1>1 DEF SetupRaises, BeginStop
  <2>. QED  BY <1>0, <2>1, BeginStopInv DEF Up
<1>2. CASE pc # "setup_amqp"
  <2>1. UNCHANGED <<pc, exit, stopping>>
    BY <1>2 DEF SetupRaises
  <2>2. TypeOK' /\ Stopping' /\ SettingUp'
    BY <1>0, <2>1 DEF Inv, TypeOK, Stopping, SettingUp, SetupSteps
  <2>3. Consuming' /\ WindingDown' /\ HeldBeats' /\ HttpStage' /\ Drains'
    BY <1>0, <2>1 DEF Inv, Consuming, WindingDown, HeldBeats, HttpStage, Drains
  <2>4. Closing' /\ NothingLeftOpen' /\ CutAfterGrace'
    BY <1>0, <2>1 DEF Inv, Closing, NothingLeftOpen, CutAfterGrace, SetupSteps
  <2>. QED  BY <2>2, <2>3, <2>4 DEF Inv
<1>. QED  BY <1>1, <1>2

\* run_service ends by an exception: the event loop cancels what is left.
LEMMA ExitInv ==
  ASSUME Inv, NEW how \in {"start_failed", "stop_failed", "delegate_failed"},
         Exit(how, {"raise"}), how = "delegate_failed" => pc = "stop_delegates", pc # "exited",
         UNCHANGED <<consumer, consuming, client>>, messenger' \in {messenger, "stopped"}
  PROVE  Inv'
<1> USE ContainerAssumption
<1>0. /\ UNCHANGED <<stopping, running, mode, parts, signalled, link, outages, http>>
      /\ pc' = "exited" /\ exit' = how /\ setup' \notin SetupSteps
      /\ setup' \in {setup, "cancelled"}
      /\ httpWork' = 0 /\ amqpWork' = 0 /\ heartbeats' = 0 /\ held' = FALSE /\ callback' = FALSE
  BY DEF Exit, envVars, form, SetupSteps
<1>1. task' = [t \in Tasks |-> IF task[t] = "no" THEN "no" ELSE "ended"]
  BY DEF Exit
<1>2. cut' \subseteq cut \cup {"raise"}
  BY DEF Exit
<1>3. TypeOK'
  <2>1. task' \in [Tasks -> {"no", "created", "iterating", "sleeping", "ended"}]
    BY <1>1
  <2>2. 0 \in 0..MaxWork /\ 0 \in Nat
    OBVIOUS
  <2>3. {signalled', stopping', link', callback', held', running'} \subseteq BOOLEAN
    BY <1>0, Zenon DEF Inv, TypeOK
  <2>4. setup' \in {"no", "done", "failed", "cancelled"} \cup SetupSteps
    BY <1>0 DEF Inv, TypeOK
  <2>5. cut' \subseteq {"grace", "force", "raise", "http_timeout"}
    BY <1>2 DEF Inv, TypeOK
  <2>. QED  BY <1>0, <2>1, <2>2, <2>3, <2>4, <2>5 DEF Inv, TypeOK
<1>4. Stopping' /\ SettingUp'
  BY <1>0 DEF Inv, Stopping, SettingUp, Up, StopSteps, SetupSteps
<1>5. Consuming' /\ WindingDown' /\ HeldBeats'
  BY <1>0 DEF Inv, TypeOK, Consuming, WindingDown, HeldBeats, FromDrain, AfterDrain, AfterClose,
              AfterForce
<1>6. HttpStage' /\ Drains' /\ Closing'
  BY <1>0 DEF HttpStage, Drains, Closing, Up, BeforeDrain, FromDrain, AfterDrain, AfterClose,
              AfterForce
<1>7. NothingLeftOpen'
  BY <1>0 DEF Inv, NothingLeftOpen, Consuming, AfterClose, AfterForce
<1>8. CutAfterGrace'
  <2>1. CASE how # "delegate_failed"
    BY <1>0, <2>1 DEF CutAfterGrace
  <2>2. CASE how = "delegate_failed"
    <3>1. /\ cut # {} => "grace" \in cut
          /\ (httpWork = 0 /\ amqpWork = 0) \/ "grace" \in cut
          /\ \A t \in Tasks : task[t] # "iterating"
      BY <2>2 DEF Inv, Drains, WindingDown, AfterDrain, AfterClose, AfterForce
    <3>2. CASE "grace" \in cut
      BY <3>2 DEF Exit, CutAfterGrace
    <3>3. CASE "grace" \notin cut
      BY <3>1, <3>3 DEF Exit, CutAfterGrace
    <3>. QED  BY <3>2, <3>3
  <2>. QED  BY <2>1, <2>2
<1>. QED  BY <1>3, <1>4, <1>5, <1>6, <1>7, <1>8 DEF Inv

\* The HTTP server is started, or its address is taken.
LEMMA StartHttpInv == Inv /\ StartHttp => Inv'
<1> SUFFICES ASSUME Inv, StartHttp PROVE Inv'
  OBVIOUS
<1> USE ContainerAssumption
<1>1. CASE Exit("start_failed", {"raise"}) /\ UNCHANGED amqpVars
  BY <1>1, ExitInv DEF StartHttp, amqpVars
<1>2. CASE ~(Exit("start_failed", {"raise"}) /\ UNCHANGED amqpVars)
  <2>1. /\ UNCHANGED <<exit, stopping, setup, running, mode, parts, signalled, link, outages, consumer,
                       consuming, client, messenger, callback, heartbeats, held, task, httpWork,
                       amqpWork, cut>>
        /\ pc = "start_http" /\ pc' = "start" /\ http' \in {"no", "listening"}
    BY <1>2 DEF StartHttp, Goto, envVars, form, amqpVars, beatVars, workVars
  <2>2. TypeOK'
    BY <2>1 DEF Inv, TypeOK
  <2>3. Stopping' /\ SettingUp'
    BY <2>1 DEF Inv, Stopping, SettingUp, Up, StopSteps, SetupSteps
  <2>4. Consuming' /\ WindingDown' /\ HeldBeats'
    BY <2>1 DEF Inv, Consuming, WindingDown, HeldBeats, FromDrain, AfterDrain, AfterClose, AfterForce
  <2>5. HttpStage' /\ Drains' /\ Closing'
    BY <2>1 DEF Inv, HttpStage, Drains, Closing, Up, BeforeDrain, FromDrain, AfterDrain, AfterClose,
                AfterForce
  <2>6. NothingLeftOpen' /\ CutAfterGrace'
    BY <2>1 DEF Inv, NothingLeftOpen, CutAfterGrace
  <2>. QED  BY <2>2, <2>3, <2>4, <2>5, <2>6 DEF Inv
<1>. QED  BY <1>1, <1>2

\* start() after the HTTP server: tasks, heartbeat, and the optional AMQP setup.
LEMMA StartInv == Inv /\ Start => Inv'
<1> SUFFICES ASSUME Inv, Start PROVE Inv'
  OBVIOUS
<1> USE ContainerAssumption
<1>0. /\ UNCHANGED <<exit, stopping, mode, parts, signalled, link, outages, http, consuming, client,
                     messenger, callback, httpWork, amqpWork, cut>>
      /\ pc = "start" /\ pc' = "serving" /\ running' = TRUE /\ task' = [t \in Tasks |-> "created"]
  BY DEF Start, envVars, form
<1>1. heartbeats' \in Nat /\ held' \in BOOLEAN /\ (held' => heartbeats' > 0)
  <2>1. CASE "client" \in parts
    BY <2>1 DEF Start, Inv, TypeOK
  <2>2. CASE "client" \notin parts
    <3>1. held' <=> "client" \in parts
      BY Zenon DEF Start
    <3>2. held' \in BOOLEAN
      BY DEF Start
    <3>3. heartbeats' = 0
      BY <2>2 DEF Start
    <3>. QED  BY <2>2, <3>1, <3>2, <3>3
  <2>. QED  BY <2>1, <2>2
<1>2. \/ UNCHANGED <<setup, consumer>>
      \/ mode = "optional" /\ setup' = FirstSetup /\ consumer' = "unconnected"
  BY DEF Start
<1>3. FirstSetup \in {"client", "consumer", "messenger"}
  BY DEF FirstSetup, ToConsumer, ToRegister, ToConsume
<1>4. mode = "optional" => consumer = "no" /\ consuming = "no" /\ amqpWork = 0
  BY <1>0 DEF Inv, TypeOK, SettingUp, Consuming
<1>5. TypeOK'
  BY <1>0, <1>1, <1>2, <1>3 DEF Inv, TypeOK, SetupSteps
<1>6. Stopping' /\ SettingUp'
  BY <1>0, <1>2, <1>3 DEF Inv, Stopping, SettingUp, Up, StopSteps, SetupSteps
<1>7. Consuming' /\ WindingDown' /\ HeldBeats'
  BY <1>0, <1>1, <1>2, <1>4 DEF Inv, Consuming, WindingDown, HeldBeats, FromDrain, AfterDrain,
                                AfterClose, AfterForce
<1>8. HttpStage' /\ Drains' /\ Closing'
  BY <1>0 DEF Inv, HttpStage, Drains, Closing, Up, BeforeDrain, FromDrain, AfterDrain, AfterClose,
              AfterForce
<1>9. NothingLeftOpen' /\ CutAfterGrace'
  BY <1>0 DEF Inv, NothingLeftOpen, CutAfterGrace, Stopping, Up
<1>. QED  BY <1>5, <1>6, <1>7, <1>8, <1>9 DEF Inv

-----------------------------------------------------------------------------
(* Stop *)

\* stop() begins in a serving container.
LEMMA StopInv == Inv /\ Stop => Inv'
<1> SUFFICES ASSUME Inv, Stop PROVE Inv'
  OBVIOUS
<1>1. /\ pc \in Up /\ pc' = "cancel_setup" /\ exit' = "clean" /\ stopping' = TRUE
      /\ UNCHANGED <<running, setup, mode, parts, signalled, link, outages, http, consumer, consuming,
                     client, messenger, callback, heartbeats, held, task, httpWork, amqpWork, cut>>
  BY DEF Stop, BeginStop, Up, envVars, form, amqpVars, beatVars, workVars
<1>2. messenger # "stopped"
  BY DEF Stop, Inv, Closing
<1>. QED  BY <1>1, <1>2, BeginStopInv

\* stop() ends the setup in the background.
LEMMA CancelSetupInv == Inv /\ CancelSetup => Inv'
<1> SUFFICES ASSUME Inv, CancelSetup PROVE Inv'
  OBVIOUS
<1> USE ContainerAssumption
<1>0. /\ UNCHANGED <<exit, stopping, running, mode, parts, signalled, link, outages, http, consumer,
                     client, callback, heartbeats, held, task, httpWork, amqpWork, cut>>
      /\ pc = "cancel_setup" /\ pc' = "stop_http"
      /\ setup' \notin SetupSteps /\ setup' \in {setup, "cancelled"}
      /\ consuming' = consuming \/ (setup = "consume" /\ consuming' = "untagged")
      /\ messenger' \in {messenger, "up"}
  BY DEF CancelSetup, SetupSteps, envVars, form, beatVars, workVars
<1>1. TypeOK'
  BY <1>0 DEF Inv, TypeOK, StopSteps
<1>2. Stopping' /\ SettingUp'
  BY <1>0 DEF Inv, Stopping, SettingUp, Up, StopSteps, SetupSteps
<1>3. Consuming' /\ WindingDown' /\ HeldBeats'
  BY <1>0 DEF Inv, Consuming, SettingUp, WindingDown, HeldBeats, FromDrain, AfterDrain, AfterClose,
              AfterForce
<1>4. HttpStage' /\ Drains' /\ Closing'
  BY <1>0 DEF Inv, HttpStage, Drains, Closing, Up, BeforeDrain, FromDrain, AfterDrain, AfterClose,
              AfterForce
<1>5. NothingLeftOpen' /\ CutAfterGrace'
  BY <1>0 DEF Inv, NothingLeftOpen, CutAfterGrace, Stopping, StopSteps
<1>. QED  BY <1>1, <1>2, <1>3, <1>4, <1>5 DEF Inv

\* The steps of _stop_accepting: the HTTP site, the consumers, the tasks, the
\* heartbeat and the registration.
LEMMA StopAcceptingInv ==
  Inv /\ (StopHttp \/ StopAmqp \/ StopTasks \/ StopHeartbeat \/ Unregister) => Inv'
<1> SUFFICES ASSUME Inv, StopHttp \/ StopAmqp \/ StopTasks \/ StopHeartbeat \/ Unregister PROVE Inv'
  OBVIOUS
<1> USE ContainerAssumption
<1>0. UNCHANGED <<exit, stopping, setup, mode, parts, signalled, link, outages, consumer, client,
                  messenger, callback, task, httpWork, amqpWork, cut>>
  BY DEF StopHttp, StopAmqp, StopTasks, StopHeartbeat, Unregister, Goto, envVars, form, amqpVars,
         beatVars, workVars
<1>1. /\ pc \in {"stop_http"} \cup BeforeDrain /\ pc' \in BeforeDrain
      /\ pc' \in {"stop_heartbeat", "unregister", "begin_drain"} => running' = FALSE
      /\ running' = running \/ running' = FALSE
  BY DEF StopHttp, StopAmqp, StopTasks, StopHeartbeat, Unregister, Goto, BeforeDrain, Inv, TypeOK,
         WindingDown
<1>2. http' \in {"no", "ready", "closing"} /\ consuming' \in {consuming, "no"}
  BY DEF StopHttp, StopAmqp, StopTasks, StopHeartbeat, Unregister, Inv, TypeOK, HttpStage, BeforeDrain,
         amqpVars
<1>3. heartbeats' \in Nat /\ held' \in BOOLEAN /\ (held' => heartbeats' > 0)
  <2>1. CASE StopHeartbeat
    <3>1. held' = FALSE
      BY <2>1 DEF StopHeartbeat
    <3>2. heartbeats' \in Nat
      BY <2>1 DEF StopHeartbeat, Inv, TypeOK, HeldBeats
    <3>. QED  BY <3>1, <3>2
  <2>2. CASE UNCHANGED <<heartbeats, held>>
    BY <2>2 DEF Inv, TypeOK, HeldBeats
  <2>. QED  BY <2>1, <2>2 DEF StopHttp, StopAmqp, StopTasks, Unregister, beatVars
<1>4. TypeOK'
  <2>1. {signalled', stopping', link', callback', held', running'} \subseteq BOOLEAN
    BY <1>0, <1>1, <1>3, Zenon DEF Inv, TypeOK
  <2>2. pc' \in StopSteps /\ consuming' \in {"no", "untagged", "tagged"}
    BY <1>1, <1>2 DEF Inv, TypeOK, BeforeDrain, StopSteps
  <2>. QED  BY <1>0, <1>2, <1>3, <2>1, <2>2 DEF Inv, TypeOK
<1>5. Stopping' /\ SettingUp'
  BY <1>0, <1>1 DEF Inv, Stopping, SettingUp, Up, StopSteps, SetupSteps, BeforeDrain
<1>6. Consuming' /\ WindingDown' /\ HeldBeats'
  BY <1>0, <1>1, <1>2, <1>3 DEF Inv, Consuming, WindingDown, HeldBeats, BeforeDrain, FromDrain,
                                AfterDrain, AfterClose, AfterForce
<1>7. HttpStage' /\ Drains' /\ Closing'
  BY <1>0, <1>1, <1>2 DEF Inv, HttpStage, Drains, Closing, Up, BeforeDrain, FromDrain, AfterDrain,
                          AfterClose, AfterForce
<1>8. NothingLeftOpen' /\ CutAfterGrace'
  BY <1>0, <1>1 DEF Inv, NothingLeftOpen, CutAfterGrace, Stopping, StopSteps, BeforeDrain
<1>. QED  BY <1>4, <1>5, <1>6, <1>7, <1>8 DEF Inv

\* A step of _stop_accepting, or a delegate, raises out of stop().
LEMMA RaisesInv == Inv /\ (StopRaises \/ DelegateRaises) => Inv'
<1> SUFFICES ASSUME Inv, StopRaises \/ DelegateRaises PROVE Inv'
  OBVIOUS
<1>1. CASE StopRaises
  <2>1. Exit("stop_failed", {"raise"}) /\ pc # "exited" /\ UNCHANGED <<consumer, consuming, client, messenger>>
    BY <1>1 DEF StopRaises, amqpVars
  <2>. QED  BY <2>1, ExitInv
<1>2. CASE DelegateRaises
  BY <1>2, ExitInv DEF DelegateRaises
<1>. QED  BY <1>1, <1>2

\* The drain begins and ends, in time or not.
LEMMA DrainInv == Inv /\ (BeginDrain \/ DrainEnds \/ GraceExpires) => Inv'
<1> SUFFICES ASSUME Inv, BeginDrain \/ DrainEnds \/ GraceExpires PROVE Inv'
  OBVIOUS
<1> USE ContainerAssumption
<1>0. UNCHANGED <<exit, stopping, setup, running, mode, parts, signalled, link, outages, consumer,
                  consuming, client, messenger, callback, heartbeats, held, httpWork, amqpWork>>
  BY DEF BeginDrain, DrainEnds, GraceExpires, Goto, envVars, form, amqpVars, beatVars, workVars
<1>1. \/ pc = "begin_drain" /\ pc' = "drain" /\ UNCHANGED cut
      \/ pc = "drain" /\ pc' = "close_amqp" /\ httpWork = 0 /\ amqpWork = 0 /\ UNCHANGED cut
      \/ pc = "drain" /\ pc' = "close_amqp" /\ cut' = cut \cup {"grace"}
  BY DEF BeginDrain, DrainEnds, GraceExpires, Goto, Drained, workVars
<1>2. http' \in {"no", "cleaning", "closed"}
  BY DEF BeginDrain, DrainEnds, GraceExpires, Inv, TypeOK, HttpStage, BeforeDrain, FromDrain
<1>3. /\ task' \in [Tasks -> {"no", "iterating", "sleeping", "ended"}]
      /\ pc' = "close_amqp" => \A t \in Tasks : task'[t] # "iterating"
  <2>1. CASE BeginDrain
    BY <2>1 DEF BeginDrain, Goto, workVars, Inv, TypeOK
  <2>2. CASE DrainEnds
    BY <2>2 DEF DrainEnds, Drained, workVars, Inv, TypeOK, WindingDown, FromDrain
  <2>3. CASE GraceExpires
    BY <2>3 DEF GraceExpires, Inv, TypeOK, WindingDown, FromDrain
  <2>. QED  BY <2>1, <2>2, <2>3
<1>4. TypeOK'
  <2>1. task' \in [Tasks -> {"no", "created", "iterating", "sleeping", "ended"}]
    BY <1>3
  <2>2. pc' \in StopSteps /\ cut' \subseteq {"grace", "force", "raise", "http_timeout"}
    BY <1>1 DEF Inv, TypeOK, StopSteps
  <2>. QED  BY <1>0, <1>2, <2>1, <2>2 DEF Inv, TypeOK
<1>5. Stopping' /\ SettingUp'
  BY <1>0, <1>1 DEF Inv, Stopping, SettingUp, Up, StopSteps, SetupSteps
<1>6. Consuming' /\ HeldBeats'
  BY <1>0, <1>1 DEF Inv, Consuming, HeldBeats, AfterClose, AfterForce
<1>7. WindingDown'
  BY <1>0, <1>1, <1>3 DEF Inv, WindingDown, FromDrain, AfterDrain, AfterClose, AfterForce
<1>8. HttpStage' /\ Drains' /\ Closing'
  BY <1>0, <1>1, <1>2 DEF Inv, HttpStage, Drains, Closing, Up, BeforeDrain, FromDrain, AfterDrain,
                          AfterClose, AfterForce
<1>9. NothingLeftOpen' /\ CutAfterGrace'
  BY <1>0, <1>1 DEF Inv, NothingLeftOpen, CutAfterGrace, Stopping, StopSteps
<1>. QED  BY <1>4, <1>5, <1>6, <1>7, <1>8, <1>9 DEF Inv

\* _force_close: the consumer, then the tasks.
LEMMA ForceInv == Inv /\ (CloseAmqp \/ ForceTasks) => Inv'
<1> SUFFICES ASSUME Inv, CloseAmqp \/ ForceTasks PROVE Inv'
  OBVIOUS
<1> USE ContainerAssumption
<1>0. UNCHANGED <<exit, stopping, setup, running, mode, parts, signalled, link, outages, http,
                  client, messenger, callback, heartbeats, held, httpWork>>
  BY DEF CloseAmqp, ForceTasks, Goto, envVars, form, amqpVars, beatVars, workVars
<1>1. /\ (pc = "close_amqp" /\ pc' = "force_tasks") \/ (pc = "force_tasks" /\ pc' = "stop_delegates")
      /\ pc \in AfterDrain /\ pc' \in AfterClose
  BY DEF CloseAmqp, ForceTasks, Goto, AfterDrain, AfterClose, AfterForce
<1>2. /\ consumer' # "connected" /\ consumer' \in {consumer, "closed"}
      /\ consuming' \in {consuming, "no"} /\ consuming' = "no"
      /\ amqpWork' = 0
  BY DEF CloseAmqp, ForceTasks, Goto, AmqpReady, Inv, TypeOK, Consuming, AfterClose, amqpVars
<1>3. cut' = cut \/ (cut' = cut \cup {"force"} /\ "grace" \in cut)
  BY DEF CloseAmqp, ForceTasks, Inv, TypeOK, Drains, WindingDown, AfterDrain, AfterClose
<1>4. /\ task' \in [Tasks -> {"no", "sleeping", "ended"}]
      /\ pc' = "stop_delegates" => \A t \in Tasks : task'[t] \in {"no", "ended"}
  <2>1. CASE CloseAmqp
    BY <2>1 DEF CloseAmqp, Goto, Inv, TypeOK, WindingDown, FromDrain, AfterDrain
  <2>2. CASE ForceTasks
    BY <2>2 DEF ForceTasks, Inv, TypeOK
  <2>. QED  BY <2>1, <2>2
<1>5. TypeOK'
  <2>1. task' \in [Tasks -> {"no", "created", "iterating", "sleeping", "ended"}]
    BY <1>4
  <2>2. pc' \in StopSteps /\ cut' \subseteq {"grace", "force", "raise", "http_timeout"}
    BY <1>1, <1>3 DEF Inv, TypeOK, StopSteps
  <2>. QED  BY <1>0, <1>2, <2>1, <2>2 DEF Inv, TypeOK
<1>6. Stopping' /\ SettingUp'
  BY <1>0, <1>1, <1>2 DEF Inv, Stopping, SettingUp, Up, StopSteps, SetupSteps
<1>7. Consuming' /\ HeldBeats'
  BY <1>0, <1>2 DEF Inv, Consuming, HeldBeats
<1>8. WindingDown'
  BY <1>0, <1>1, <1>4 DEF Inv, WindingDown, FromDrain, AfterDrain, AfterClose, AfterForce
<1>9. HttpStage' /\ Drains' /\ Closing'
  BY <1>0, <1>1, <1>2, <1>3 DEF Inv, HttpStage, Drains, Closing, Up, BeforeDrain, FromDrain,
                                AfterDrain, AfterClose, AfterForce
<1>10. NothingLeftOpen' /\ CutAfterGrace'
  BY <1>0, <1>1, <1>3 DEF Inv, NothingLeftOpen, CutAfterGrace, Stopping, StopSteps
<1>. QED  BY <1>5, <1>6, <1>7, <1>8, <1>9, <1>10 DEF Inv

\* The end of stop(): delegates, registry client, HTTP server.
LEMMA EndInv == Inv /\ (StopDelegates \/ StopClient \/ DrainHttp) => Inv'
<1> SUFFICES ASSUME Inv, StopDelegates \/ StopClient \/ DrainHttp PROVE Inv'
  OBVIOUS
<1> USE ContainerAssumption
<1>0. UNCHANGED <<exit, stopping, setup, running, mode, parts, signalled, link, outages, consumer,
                  consuming, task, amqpWork>>
  BY DEF StopDelegates, StopClient, DrainHttp, Goto, envVars, form, amqpVars, workVars
<1>1. /\ \/ pc = "stop_delegates" /\ pc' = "stop_client"
         \/ pc = "stop_client" /\ pc' = "drain_http"
         \/ pc = "drain_http" /\ pc' = "exited"
      /\ pc \in AfterForce /\ pc' \in AfterForce \cup {"exited"}
  BY DEF StopDelegates, StopClient, DrainHttp, Goto, AfterForce
<1>2. /\ messenger' = "stopped" /\ client' \in {client, "no", "closed"}
      /\ pc' # "stop_client" => client' \in {"no", "closed"}
  BY DEF StopDelegates, StopClient, DrainHttp, Goto, Inv, Closing, amqpVars
<1>3. /\ http' \in {http, "no", "closed"} /\ (pc' = "exited" => http' \in {"no", "closed"})
  BY DEF StopDelegates, StopClient, DrainHttp, Goto
<1>4. /\ httpWork' \in {httpWork, 0} /\ cut' \in {cut, cut \cup {"http_timeout"}}
      /\ cut' # cut => httpWork > 0
  BY DEF StopDelegates, StopClient, DrainHttp, workVars
<1>5. /\ callback' \in {callback, FALSE} /\ held' \in {held, FALSE} /\ heartbeats' \in {heartbeats, 0}
      /\ (held' = held /\ heartbeats' = heartbeats) \/ held' = FALSE
  BY DEF StopDelegates, StopClient, DrainHttp, beatVars
<1>6. cut' # {} => "grace" \in cut'
  BY <1>1, <1>4 DEF Inv, TypeOK, Drains, AfterDrain, AfterClose, AfterForce
<1>7. TypeOK'
  <2>1. {signalled', stopping', link', callback', held', running'} \subseteq BOOLEAN
    BY <1>0, <1>5, Zenon DEF Inv, TypeOK
  <2>2. pc' \in StopSteps \cup {"exited"} /\ cut' \subseteq {"grace", "force", "raise", "http_timeout"}
    BY <1>1, <1>4 DEF Inv, TypeOK, StopSteps
  <2>3. httpWork' \in 0..MaxWork /\ heartbeats' \in Nat
    BY <1>4, <1>5 DEF Inv, TypeOK
  <2>. QED  BY <1>0, <1>2, <1>3, <2>1, <2>2, <2>3 DEF Inv, TypeOK
<1>8. Stopping' /\ SettingUp'
  BY <1>0, <1>1 DEF Inv, Stopping, SettingUp, Up, StopSteps, SetupSteps, AfterForce
<1>9. Consuming' /\ HeldBeats'
  BY <1>0, <1>1, <1>5 DEF Inv, Consuming, HeldBeats, AfterClose
<1>10. WindingDown'
  BY <1>0, <1>1 DEF Inv, WindingDown, FromDrain, AfterDrain, AfterClose, AfterForce
<1>11. HttpStage' /\ Closing'
  BY <1>1, <1>2, <1>3 DEF Inv, HttpStage, Closing, Up, BeforeDrain, FromDrain, AfterDrain, AfterClose,
                          AfterForce
<1>12. Drains'
  BY <1>0, <1>1, <1>4, <1>6 DEF Inv, Drains, AfterDrain, AfterClose
<1>13. NothingLeftOpen'
  BY <1>0, <1>1, <1>2, <1>3 DEF Inv, TypeOK, NothingLeftOpen, Consuming, SettingUp, WindingDown,
                                AfterClose, AfterForce
<1>14. CutAfterGrace'
  BY <1>6 DEF CutAfterGrace
<1>. QED  BY <1>7, <1>8, <1>9, <1>10, <1>11, <1>12, <1>13, <1>14 DEF Inv

-----------------------------------------------------------------------------
(* The theorems *)

\* The invariant holds before setup().
LEMMA InitInv == Init => Inv
<1> SUFFICES ASSUME Init PROVE Inv
  OBVIOUS
<1> USE ContainerAssumption
<1>1. TypeOK
  <2>1. {signalled, stopping, link, callback, held, running} \subseteq BOOLEAN
    BY Zenon DEF Init
  <2>2. 0 \in 0..MaxWork /\ 0 \in 0..MaxOutages /\ 0 \in Nat
    OBVIOUS
  <2>3. parts \subseteq {"http", "consumer", "client"}
    BY DEF Init
  <2>. QED  BY <2>1, <2>2, <2>3 DEF Init, TypeOK
<1>2. Stopping /\ SettingUp /\ Consuming /\ WindingDown /\ HeldBeats
  BY DEF Init, Stopping, SettingUp, Consuming, WindingDown, HeldBeats, Up, StopSteps, SetupSteps,
         FromDrain, AfterDrain, AfterClose, AfterForce
<1>3. HttpStage /\ Drains /\ Closing /\ NothingLeftOpen /\ CutAfterGrace
  BY DEF Init, HttpStage, Drains, Closing, NothingLeftOpen, CutAfterGrace, BeforeDrain,
         FromDrain, AfterDrain, AfterClose, AfterForce
<1>. QED  BY <1>1, <1>2, <1>3 DEF Inv

\* Every step of the process, and of its environment, preserves the invariant.
LEMMA NextInv == Inv /\ [Next]_vars => Inv'
<1> SUFFICES ASSUME Inv, [Next]_vars PROVE Inv'
  OBVIOUS
<1>1. CASE Main
  BY <1>1, SetupHttpInv, StartHttpInv, StartInv, StopInv, CancelSetupInv, StopAcceptingInv, RaisesInv,
     DrainInv, ForceInv, EndInv DEF Main
<1>2. CASE SetupAmqp \/ SetupRaises
  BY <1>2, SetupAmqpInv, SetupRaisesInv
<1>3. CASE \E t \in Tasks : TaskStep(t)
  BY <1>3, TaskInv
<1>4. CASE Signal \/ LinkLost \/ LinkRestored \/ CallbackEnds
  BY <1>4, EnvironmentInv
<1>5. CASE HttpBegins \/ HttpEnds \/ AmqpBegins \/ AmqpEnds
  BY <1>5, WorkInv
<1>6. CASE UNCHANGED vars
  BY <1>6 DEF vars, mainVars, envVars, form, amqpVars, beatVars, workVars, Inv, TypeOK, Stopping,
              SettingUp, Consuming, WindingDown, HttpStage, Drains, Closing, HeldBeats,
              NothingLeftOpen, CutAfterGrace
<1>. QED  BY <1>1, <1>2, <1>3, <1>4, <1>5, <1>6 DEF Next, Exited

\* The invariant holds in every state of a service process, TypeOK with it.
THEOREM InvHolds == Spec => []Inv
BY InitInv, NextInv, PTL DEF Spec

\* The Messenger is stopped under no handler and no iteration, HTTP handlers that
\* outlast the grace period excepted: stop() closes the consumer and ends the
\* tasks before it stops the delegates.
THEOREM DelegatesOutlive == Spec => []DelegatesOutliveWork
<1>1. Inv => DelegatesOutliveWork
  BY DEF Inv, TypeOK, DelegatesOutliveWork, Closing, Consuming, WindingDown, Drains, AfterDrain,
         AfterClose, AfterForce
<1>. QED  BY <1>1, InvHolds, PTL

\* Whatever the setup had reached, a stop() that runs to its end leaves nothing
\* open, and one that a delegate ends has closed the consumer.
THEOREM NothingOpen == Spec => []NothingLeftOpen
<1>1. Inv => NothingLeftOpen
  BY DEF Inv
<1>. QED  BY <1>1, InvHolds, PTL

\* A stop that no lost connection ends cuts work only after the grace period.
THEOREM CutGrace == Spec => []CutAfterGrace
<1>1. Inv => CutAfterGrace
  BY DEF Inv
<1>. QED  BY <1>1, InvHolds, PTL

\* In the drain no request, delivery or iteration of a timer loop begins.
LEMMA DrainStep ==
  ASSUME Inv, [Next]_vars, pc = "drain"
  PROVE  /\ httpWork' <= httpWork /\ amqpWork' <= amqpWork
         /\ \A t \in Tasks : task'[t] = "iterating" => task[t] = "iterating"
<1> USE ContainerAssumption
<1>0. /\ stopping /\ ~running /\ http \notin {"listening", "closing"} /\ setup \notin SetupSteps
      /\ \A t \in Tasks : task[t] # "created"
  BY DEF Inv, Stopping, StopSteps, WindingDown, HttpStage, SettingUp, FromDrain
<1>1. httpWork \in Int /\ amqpWork \in Int /\ task \in [Tasks -> {"no", "created", "iterating", "sleeping", "ended"}]
  BY DEF Inv, TypeOK
<1>2. CASE UNCHANGED <<httpWork, amqpWork, task>>
  BY <1>1, <1>2
<1>3. CASE HttpBegins \/ HttpEnds \/ AmqpBegins \/ AmqpEnds
  BY <1>0, <1>1, <1>3 DEF HttpBegins, HttpEnds, AmqpBegins, AmqpEnds, Accepts
<1>4. CASE \E t \in Tasks : TaskStep(t)
  BY <1>0, <1>1, <1>4 DEF TaskStep, LoopBegins, Wakes, IterationEnds, Becomes
<1>5. CASE GraceExpires
  BY <1>1, <1>5 DEF GraceExpires
<1>6. CASE Main /\ ~GraceExpires
  BY <1>2, <1>6 DEF Main, SetupHttp, StartHttp, Start, Stop, CancelSetup, StopHttp, StopAmqp, StopTasks,
       StopHeartbeat, Unregister, StopRaises, BeginDrain, DrainEnds, CloseAmqp, ForceTasks,
       StopDelegates, DelegateRaises, StopClient, DrainHttp, workVars
<1>7. CASE SetupAmqp \/ SetupRaises \/ Signal \/ LinkLost \/ LinkRestored \/ CallbackEnds \/ Exited
           \/ UNCHANGED vars
  BY <1>2, <1>7 DEF SetupAmqp, SetupRaises, Signal, LinkLost, LinkRestored, CallbackEnds, Exited, vars,
       workVars
<1>. QED  BY <1>3, <1>4, <1>5, <1>6, <1>7 DEF Next

\* A stop that no reconnect callback overlaps adds no heartbeat.
LEMMA BeatStep ==
  ASSUME Inv, [Next]_vars, stopping, ~callback
  PROVE  ~callback' /\ heartbeats' <= heartbeats
<1>0. heartbeats \in Nat /\ pc \notin Up /\ (held => heartbeats > 0)
  BY DEF Inv, TypeOK, Stopping, HeldBeats
<1>1. CASE UNCHANGED <<callback, heartbeats>>
  BY <1>0, <1>1
<1>2. CASE SetupHttp \/ StartHttp \/ Start
  BY <1>0, <1>2 DEF SetupHttp, StartHttp, Start, Up
<1>3. CASE StopHeartbeat
  BY <1>0, <1>3 DEF StopHeartbeat
<1>4. CASE StopRaises \/ DelegateRaises \/ DrainHttp
  <2>1. callback' = FALSE /\ heartbeats' = 0
    BY <1>4 DEF StopRaises, DelegateRaises, DrainHttp, Exit
  <2>2. ~callback'
    BY <2>1, Zenon
  <2>. QED  BY <1>0, <2>1, <2>2
<1>5. CASE \/ Stop \/ CancelSetup \/ StopHttp \/ StopAmqp \/ StopTasks \/ Unregister \/ BeginDrain
           \/ DrainEnds \/ GraceExpires \/ CloseAmqp \/ ForceTasks \/ StopDelegates \/ StopClient
  BY <1>1, <1>5 DEF Stop, CancelSetup, StopHttp, StopAmqp, StopTasks, Unregister, BeginDrain,
       DrainEnds, GraceExpires, CloseAmqp, ForceTasks, StopDelegates, StopClient, beatVars
<1>6. CASE LinkRestored \/ CallbackEnds
  <2>1. LinkRestored
    BY <1>6 DEF CallbackEnds
  <2>2. ~callback'
    BY <2>1, Zenon DEF LinkRestored
  <2>3. heartbeats' = heartbeats
    BY <2>1 DEF LinkRestored
  <2>. QED  BY <1>0, <2>2, <2>3
<1>7. CASE \/ SetupAmqp \/ SetupRaises \/ Signal \/ LinkLost \/ HttpBegins \/ HttpEnds
           \/ AmqpBegins \/ AmqpEnds \/ Exited \/ UNCHANGED vars \/ \E t \in Tasks : TaskStep(t)
  BY <1>1, <1>7 DEF SetupAmqp, SetupRaises, Signal, LinkLost, HttpBegins, HttpEnds, AmqpBegins,
       AmqpEnds, Exited, vars, TaskStep, LoopBegins, Wakes, IterationEnds, Becomes, beatVars
<1>. QED  BY <1>2, <1>3, <1>4, <1>5, <1>6, <1>7 DEF Next, Main

\* Once a drain has begun no work is added to what it waits for: the HTTP site is
\* closed, deliveries are given back and every timer loop has been told to stop.
\* And a connection restored after the stop began starts no heartbeat.
THEOREM DrainOnlyShrinks == Spec => NothingJoinsTheDrain
<1>1. Inv /\ [Next]_vars =>
        [/\ pc = "drain" =>
              /\ httpWork' <= httpWork /\ amqpWork' <= amqpWork
              /\ \A t \in Tasks : task'[t] = "iterating" => task[t] = "iterating"
         /\ stopping /\ ~callback => ~callback' /\ heartbeats' <= heartbeats]_vars
  BY DrainStep, BeatStep
<1>. QED  BY <1>1, InvHolds, PTL DEF Spec, NothingJoinsTheDrain

-----------------------------------------------------------------------------
(* Heartbeats *)

\* The positions before start() has created a heartbeat of its own.
NotStarted == {"setup_http", "setup_amqp", "start_http", "start"}

Known == IF held THEN 1 ELSE 0

\* A service process never runs more than one heartbeat beside the one its publisher
\* knows of and can cancel, however often it reconnects.
OneStrayHeartbeat == heartbeats <= Known + 1

\* The inductive invariant: only start() makes the publisher forget a heartbeat, the
\* one that a callback began during setup.
BeatInv == OneStrayHeartbeat /\ (pc \in NotStarted => heartbeats <= Known)

\* Reconnect callbacks replace only a heartbeat that is gone, and stop() takes one.
LEMMA NextBeatInv == Inv /\ BeatInv /\ [Next]_vars => BeatInv'
<1> SUFFICES ASSUME Inv, BeatInv, [Next]_vars PROVE BeatInv'
  OBVIOUS
<1> USE DEF BeatInv, OneStrayHeartbeat, Known
<1>0. /\ heartbeats \in Nat /\ held \in BOOLEAN /\ (held => heartbeats > 0)
      /\ setup \in SetupSteps => pc \in {"setup_amqp", "serving", "cancel_setup"}
  BY DEF Inv, TypeOK, HeldBeats, SettingUp
<1>1. CASE UNCHANGED <<held, heartbeats>> /\ (pc' \in NotStarted => pc \in NotStarted)
  BY <1>1
<1>2. CASE SetupHttp \/ SetupAmqp \/ SetupRaises
  BY <1>0, <1>1, <1>2 DEF SetupHttp, SetupAmqp, SetupRaises, BeginStop, NextSetup, SetupAt, NotStarted,
       SetupSteps, beatVars
<1>3. CASE Start
  BY <1>0, <1>3 DEF Start, NotStarted
<1>4. CASE StopHeartbeat
  BY <1>0, <1>4 DEF StopHeartbeat, Goto, NotStarted
<1>5. CASE StopRaises \/ DelegateRaises \/ DrainHttp
  BY <1>0, <1>5 DEF StopRaises, DelegateRaises, DrainHttp, Exit, NotStarted
<1>6. CASE StartHttp
  BY <1>0, <1>1, <1>6 DEF StartHttp, Exit, Goto, NotStarted, beatVars
<1>7. CASE \/ Stop \/ CancelSetup \/ StopHttp \/ StopAmqp \/ StopTasks \/ Unregister \/ BeginDrain
           \/ DrainEnds \/ GraceExpires \/ CloseAmqp \/ ForceTasks \/ StopDelegates \/ StopClient
  BY <1>1, <1>7 DEF Stop, BeginStop, CancelSetup, StopHttp, StopAmqp, StopTasks, Unregister, BeginDrain,
       DrainEnds, GraceExpires, CloseAmqp, ForceTasks, StopDelegates, StopClient, Goto, NotStarted,
       beatVars
<1>8. CASE CallbackEnds
  <2>1. pc' = pc
    BY <1>8 DEF CallbackEnds, mainVars
  <2>2. PICK registered \in BOOLEAN :
          /\ heartbeats' = IF registered /\ ~held THEN heartbeats + 1 ELSE heartbeats
          /\ held' = (held \/ registered)
    BY <1>8 DEF CallbackEnds
  <2>3. CASE registered /\ ~held
    <3>1. heartbeats' = heartbeats + 1 /\ held' /\ ~held
      BY <2>2, <2>3
    <3>. QED  BY <1>0, <2>1, <3>1
  <2>4. CASE ~(registered /\ ~held)
    <3>1. heartbeats' = heartbeats /\ (held' <=> held)
      BY <2>2, <2>4
    <3>. QED  BY <1>0, <2>1, <3>1
  <2>. QED  BY <2>3, <2>4
<1>9. CASE \/ Signal \/ LinkLost \/ LinkRestored \/ HttpBegins \/ HttpEnds \/ AmqpBegins \/ AmqpEnds
           \/ Exited \/ UNCHANGED vars \/ \E t \in Tasks : TaskStep(t)
  BY <1>1, <1>9 DEF Signal, LinkLost, LinkRestored, HttpBegins, HttpEnds, AmqpBegins, AmqpEnds, Exited,
       vars, TaskStep, LoopBegins, Wakes, IterationEnds, Becomes, beatVars, mainVars
<1>. QED  BY <1>2, <1>3, <1>4, <1>5, <1>6, <1>7, <1>8, <1>9 DEF Next, Main

\* However often the connection is lost and callbacks overlap start() and stop(), at
\* most one heartbeat runs that the publisher cannot cancel.
THEOREM HeartbeatsBounded == Spec => []OneStrayHeartbeat
<1>1. Init => BeatInv
  BY DEF Init, BeatInv, OneStrayHeartbeat, Known
<1>2. BeatInv => OneStrayHeartbeat
  BY DEF BeatInv
<1>. QED  BY <1>1, <1>2, NextBeatInv, InvHolds, PTL DEF Spec
=============================================================================
