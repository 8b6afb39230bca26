------------------------------- MODULE Registry -------------------------------
(***************************************************************************)
(* The service registry (kontiki.registry.server) and the client side that *)
(* every service instance carries (kontiki.registry.client).               *)
(*                                                                         *)
(* Instances publish register, unregister and heartbeat messages to three  *)
(* durable queues; nothing orders one queue against another.  The registry *)
(* keeps everything it knows in memory and publishes lifecycle events.  A  *)
(* handler of its event loop runs until it awaits the confirmation of its  *)
(* event, so registering and deregistering are two actions each, and other *)
(* handlers run in between.                                                *)
(*                                                                         *)
(* An instance id is a uuid4 of one process: a process that restarts is a  *)
(* new instance.                                                           *)
(***************************************************************************)
EXTENDS Naturals, FiniteSets, Sequences

CONSTANTS
    Instances,
    Services,
    ServiceOf,      \* the service each instance belongs to
    Timeout,        \* heartbeat_interval * 3, in ticks
    MonitorEvery,   \* ticks between two rounds of monitor_instance_statuses
    PublishFails,   \* TRUE: publishing an event may raise
    DegradedChecks, \* what the @degraded_on checks of the services may answer
    MaxRegisters,   \* bound: register messages not acknowledged per instance
    MaxHeartbeats,  \* bound: heartbeats queued per instance
    MaxCrashes      \* bound: crashes of the registry

ASSUME InstancesAssumption ==
    IsFiniteSet(Instances) /\ ServiceOf \in [Instances -> Services]
ASSUME TimingAssumption ==
    /\ Timeout \in Nat /\ MonitorEvery \in Nat \ {0}
    /\ PublishFails \in BOOLEAN
    /\ DegradedChecks \subseteq BOOLEAN
ASSUME BoundsAssumption ==
    MaxRegisters \in Nat /\ MaxHeartbeats \in Nat /\ MaxCrashes \in Nat

NoHeartbeat == Timeout + 2
Late == Timeout + 1     \* every age above the timeout counts the same
Ages == 0 .. NoHeartbeat
Statuses == {"active", "degraded", "down"}
Phases == {"new", "starting", "running", "stopping", "stopped", "crashed"}

VARIABLES
    \* The instances.
    phase,
    \* The broker's durable queues.
    registerQ, unregisterQ, heartbeatQ, registerAgainQ,
    \* The registry process.
    up, grace, crashes,
    services,      \* instances in Registry.services
    heartbeats,    \* age of HeartbeatManager.heartbeats[i], or NoHeartbeat
    degraded,      \* HeartbeatManager.degraded_services
    tracked,       \* ServiceRegistryCore._tracked_status, "none" when absent
    registering,   \* _handle_register calls that await their event
    deregistering, \* _handle_unregister calls that await their event
    monitor,       \* the round of refresh_all_instance_statuses under way
    sinceMonitor,  \* ticks since the last round ended
    \* A subscriber of the lifecycle events: the status it was last told.
    view

queues == <<registerQ, unregisterQ, heartbeatQ, registerAgainQ>>
process == <<up, grace, crashes>>
pending == <<registering, deregistering>>
rounds == <<monitor, sinceMonitor>>
known == <<services, heartbeats, degraded, tracked>>
vars == <<phase, queues, process, known, pending, rounds, view>>

NoRound == [on |-> FALSE, size |-> 0, left |-> {}, todo |-> {}]

TypeOK ==
    /\ phase \in [Instances -> Phases]
    /\ registerQ \in [Instances -> Nat] /\ unregisterQ \in [Instances -> Nat]
    /\ heartbeatQ \in [Instances -> Seq(BOOLEAN)]
    /\ registerAgainQ \in [Instances -> Nat]
    /\ up \in BOOLEAN /\ grace \in BOOLEAN /\ crashes \in Nat
    /\ services \in SUBSET Instances
    /\ heartbeats \in [Instances -> Ages]
    /\ degraded \in SUBSET Instances
    /\ tracked \in [Instances -> Statuses \cup {"none"}]
    /\ registering \in [Instances -> Nat] /\ deregistering \in [Instances -> Nat]
    /\ monitor \in [on : BOOLEAN, size : Nat, left : SUBSET Services,
                    todo : SUBSET Instances]
    /\ sinceMonitor \in Nat
    /\ view \in [Instances -> Statuses \cup {"none"}]

Init ==
    /\ phase = [i \in Instances |-> "new"]
    /\ registerQ = [i \in Instances |-> 0] /\ unregisterQ = [i \in Instances |-> 0]
    /\ heartbeatQ = [i \in Instances |-> <<>>]
    /\ registerAgainQ = [i \in Instances |-> 0]
    /\ up = TRUE /\ grace = TRUE /\ crashes = 0
    /\ services = {} /\ degraded = {}
    /\ heartbeats = [i \in Instances |-> NoHeartbeat]
    /\ tracked = [i \in Instances |-> "none"]
    /\ registering = [i \in Instances |-> 0]
    /\ deregistering = [i \in Instances |-> 0]
    /\ monitor = NoRound /\ sinceMonitor = 0
    /\ view = [i \in Instances |-> "none"]

-----------------------------------------------------------------------------
(* What the registry answers from its memory.                              *)

\* Mutant: an instance once heard of is never late.
NeverLate(age, isDegraded) ==
    IF age = NoHeartbeat THEN "down"
    ELSE IF isDegraded THEN "degraded" ELSE "active"

\* _get_instance_status() for a heartbeat age and a degraded flag.
StatusOf(age, isDegraded) ==
    IF age > Timeout THEN "down"
    ELSE IF isDegraded THEN "degraded" ELSE "active"

Status(i) == StatusOf(heartbeats[i], i \in degraded)

ServiceNames == {ServiceOf[i] : i \in services}

\* list_instances(): the live instances of a service.
LiveInstances(s) ==
    {i \in services : ServiceOf[i] = s /\ Status(i) \in {"active", "degraded"}}

\* get_services(status): the registered instances with a status, or all.
GetServices(wanted) == {i \in services : wanted = "all" \/ Status(i) = wanted}

-----------------------------------------------------------------------------
(* The instances: ServiceRegistryClient and HeartbeatPublisher.            *)

\* setup(): the exchange and the register_again consumer exist from here on.
ClientSetup(i) ==
    /\ phase[i] = "new"
    /\ phase' = [phase EXCEPT ![i] = "starting"]
    /\ UNCHANGED <<queues, process, known, pending, rounds, view>>

Publishes(i) ==
    /\ registerQ[i] + registering[i] < MaxRegisters
    /\ registerQ' = [registerQ EXCEPT ![i] = @ + 1]

\* register_service(), after its delay.
RegisterService(i) ==
    /\ phase[i] = "starting"
    /\ phase' = [phase EXCEPT ![i] = "running"]
    /\ Publishes(i)
    /\ UNCHANGED <<unregisterQ, heartbeatQ, registerAgainQ, process, known,
                   pending, rounds, view>>

\* _on_amqp_reconnect(): the robust connection is back.
OnAmqpReconnect(i) ==
    /\ phase[i] \in {"starting", "running"}
    /\ Publishes(i)
    /\ UNCHANGED <<phase, unregisterQ, heartbeatQ, registerAgainQ, process, known,
                   pending, rounds, view>>

\* _register_again(); a delivery during shutdown goes back to its queue.
RegisterAgain(i) ==
    /\ phase[i] \in {"starting", "running"}
    /\ registerAgainQ[i] > 0
    /\ registerAgainQ' = [registerAgainQ EXCEPT ![i] = @ - 1]
    /\ Publishes(i)
    /\ UNCHANGED <<phase, unregisterQ, heartbeatQ, process, known, pending,
                   rounds, view>>

\* One turn of _send_heartbeat(); the service's own check says if it is degraded.
SendHeartbeat(i, isDegraded) ==
    /\ phase[i] \in {"starting", "running"}
    /\ Len(heartbeatQ[i]) < MaxHeartbeats
    /\ heartbeatQ' = [heartbeatQ EXCEPT ![i] = Append(@, isDegraded)]
    /\ UNCHANGED <<phase, registerQ, unregisterQ, registerAgainQ, process, known,
                   pending, rounds, view>>

\* stop(): heartbeats and re-registration end, then unregister() is published.
StopAccepting(i) ==
    /\ phase[i] \in {"starting", "running"}
    /\ phase' = [phase EXCEPT ![i] = "stopping"]
    /\ UNCHANGED <<queues, process, known, pending, rounds, view>>

Unregister(i) ==
    /\ phase[i] = "stopping"
    /\ phase' = [phase EXCEPT ![i] = "stopped"]
    /\ unregisterQ' = [unregisterQ EXCEPT ![i] = @ + 1]
    /\ UNCHANGED <<registerQ, heartbeatQ, registerAgainQ, process, known, pending,
                   rounds, view>>

\* The process dies, or its shutdown fails before it unregisters.
CrashInstance(i) ==
    /\ phase[i] \in {"starting", "running", "stopping"}
    /\ phase' = [phase EXCEPT ![i] = "crashed"]
    /\ UNCHANGED <<queues, process, known, pending, rounds, view>>

-----------------------------------------------------------------------------
(* The registry: handlers of the three queues.                             *)

\* Whether publishing an event succeeds; it raises while the broker is away or
\* the registry's own messenger is not set up yet.
Publishing == IF PublishFails THEN BOOLEAN ELSE {TRUE}

\* _handle_register() up to the await of its event.
HandleRegister(i, ok) ==
    /\ up /\ registerQ[i] > 0
    /\ registerQ' = [registerQ EXCEPT ![i] = @ - 1]
    /\ services' = services \cup {i}
    /\ registering' = [registering EXCEPT ![i] = IF ok THEN @ + 1 ELSE @]
    /\ view' = [view EXCEPT ![i] = IF ok THEN "down" ELSE @]
    /\ UNCHANGED <<phase, unregisterQ, heartbeatQ, registerAgainQ, process,
                   heartbeats, degraded, tracked, deregistering, rounds>>

\* Mutant: the status a concurrent heartbeat has tracked is kept.
TrackUnlessKnown(i) ==
    tracked' = [tracked EXCEPT ![i] = IF @ = "none" THEN "down" ELSE @]

\* The assignment that ends on_instance_registered().
TrackRegistered(i) == tracked' = [tracked EXCEPT ![i] = "down"]

\* _handle_register() resumes.
RegisterPublished(i) ==
    /\ registering[i] > 0
    /\ registering' = [registering EXCEPT ![i] = @ - 1]
    /\ TrackRegistered(i)
    /\ UNCHANGED <<phase, queues, process, services, heartbeats, degraded,
                   deregistering, rounds, view>>

\* _handle_unregister() up to the await of its event.  The heartbeat and the
\* degraded flag of the instance stay behind.
HandleUnregister(i, ok) ==
    /\ up /\ unregisterQ[i] > 0
    /\ unregisterQ' = [unregisterQ EXCEPT ![i] = @ - 1]
    /\ IF i \in services
       THEN /\ services' = services \ {i}
            /\ deregistering' = [deregistering EXCEPT ![i] = IF ok THEN @ + 1 ELSE @]
            /\ view' = [view EXCEPT ![i] = IF ok THEN "none" ELSE @]
       ELSE UNCHANGED <<services, deregistering, view>>
    /\ UNCHANGED <<phase, registerQ, heartbeatQ, registerAgainQ, process,
                   heartbeats, degraded, tracked, registering, rounds>>

\* _handle_unregister() resumes at the end of on_instance_deregistered().
UnregisterPublished(i) ==
    /\ deregistering[i] > 0
    /\ deregistering' = [deregistering EXCEPT ![i] = @ - 1]
    /\ tracked' = [tracked EXCEPT ![i] = "none"]
    /\ UNCHANGED <<phase, queues, process, services, heartbeats, degraded,
                   registering, rounds, view>>

\* refresh_instance_status() of a registered instance whose status is now new:
\* what is tracked changes first, then the event goes out, except the first time.
RefreshPublishes(i, new) == tracked[i] \notin {"none", new}

Refresh(i, new, ok) ==
    /\ tracked' = [tracked EXCEPT ![i] = new]
    /\ view' = [view EXCEPT ![i] = IF ok /\ RefreshPublishes(i, new) THEN new ELSE @]

\* store_heartbeat() for an instance the registry knows.
StoreHeartbeat(i, isDegraded, ok) ==
    /\ heartbeats' = [heartbeats EXCEPT ![i] = 0]
    /\ degraded' = IF isDegraded THEN degraded \cup {i} ELSE degraded \ {i}
    /\ Refresh(i, StatusOf(0, isDegraded), ok)
    /\ UNCHANGED registerAgainQ

\* Mutant: nobody asks the unknown instance to register again.
IgnoreUnknown(i) == UNCHANGED registerAgainQ

\* store_heartbeat() for an unknown instance: it is asked to register again,
\* except in the registry's first 15 seconds.  A second request in the queue
\* changes nothing, so at most one is kept.
AskToRegister(i) ==
    registerAgainQ' = [registerAgainQ EXCEPT ![i] = IF grace THEN @ ELSE 1]

\* _handle_heartbeat().
HandleHeartbeat(i, ok) ==
    /\ up /\ heartbeatQ[i] # <<>>
    /\ heartbeatQ' = [heartbeatQ EXCEPT ![i] = Tail(@)]
    /\ IF i \in services
       THEN StoreHeartbeat(i, Head(heartbeatQ[i]), ok)
       ELSE AskToRegister(i) /\ UNCHANGED <<heartbeats, degraded, tracked, view>>
    /\ UNCHANGED <<phase, registerQ, unregisterQ, process, services, pending,
                   rounds>>

-----------------------------------------------------------------------------
(* The registry: monitor_instance_statuses and time.                       *)

\* A round begins when the task has slept for its interval.
MonitorStart ==
    /\ up /\ ~monitor.on /\ sinceMonitor = MonitorEvery
    /\ monitor' = [on |-> TRUE, size |-> Cardinality(ServiceNames),
                   left |-> ServiceNames, todo |-> {}]
    /\ UNCHANGED <<phase, queues, process, known, pending, sinceMonitor, view>>

\* The loop takes the next service and a copy of its instances; the iterator
\* raises when the number of services has changed meanwhile.
Unchanged == monitor.size = Cardinality(ServiceNames)

MonitorService(s) ==
    /\ monitor.on /\ monitor.todo = {} /\ s \in monitor.left /\ Unchanged
    /\ monitor' = [monitor EXCEPT
                     !.left = @ \ {s},
                     !.todo = {i \in services : ServiceOf[i] = s}]
    /\ UNCHANGED <<phase, queues, process, known, pending, sinceMonitor, view>>

EndRound == monitor' = NoRound /\ sinceMonitor' = 0

\* Mutant: refresh_instance_status() trusts the copy of the round.
StillThere(i) == TRUE

\* The guard of refresh_instance_status(): the round works on a copy.
StillRegistered(i) == i \in services

\* refresh_instance_status() from the round; an event that cannot be published
\* ends the round, after the status is tracked.
MonitorRefresh(i, ok) ==
    /\ monitor.on /\ i \in monitor.todo
    /\ IF StillRegistered(i)
       THEN Refresh(i, Status(i), ok)
       ELSE UNCHANGED <<tracked, view>>
    /\ IF StillRegistered(i) /\ RefreshPublishes(i, Status(i)) /\ ~ok
       THEN EndRound
       ELSE /\ monitor' = [monitor EXCEPT !.todo = @ \ {i}]
            /\ UNCHANGED sinceMonitor
    /\ UNCHANGED <<phase, queues, process, services, heartbeats, degraded, pending>>

\* The loop is over, or its iterator raises and the task waits for its next turn.
MonitorEnd ==
    /\ monitor.on /\ monitor.todo = {}
    /\ monitor.left = {} \/ ~Unchanged
    /\ EndRound
    /\ UNCHANGED <<phase, queues, process, known, pending, view>>

Quiet(i) == registering[i] = 0 /\ deregistering[i] = 0

\* Time passes: every stored heartbeat gets older.  A round is due every
\* MonitorEvery ticks.
Tick ==
    /\ up /\ ~monitor.on /\ sinceMonitor < MonitorEvery
    /\ sinceMonitor' = sinceMonitor + 1
    /\ heartbeats' = [i \in Instances |->
                        IF heartbeats[i] < Late THEN heartbeats[i] + 1
                        ELSE heartbeats[i]]
    /\ UNCHANGED <<phase, queues, process, services, degraded, tracked, pending,
                   monitor, view>>

GraceEnds ==
    /\ up /\ grace
    /\ grace' = FALSE
    /\ UNCHANGED <<phase, queues, up, crashes, known, pending, rounds, view>>

\* The registry process dies: its memory is lost, and the broker delivers again
\* the messages of the handlers that had not finished.
CrashRegistry ==
    /\ up /\ crashes < MaxCrashes
    /\ up' = FALSE /\ crashes' = crashes + 1
    /\ services' = {} /\ degraded' = {}
    /\ heartbeats' = [i \in Instances |-> NoHeartbeat]
    /\ tracked' = [i \in Instances |-> "none"]
    /\ registerQ' = [i \in Instances |-> registerQ[i] + registering[i]]
    /\ unregisterQ' = [i \in Instances |-> unregisterQ[i] + deregistering[i]]
    /\ registering' = [i \in Instances |-> 0]
    /\ deregistering' = [i \in Instances |-> 0]
    /\ monitor' = NoRound /\ sinceMonitor' = 0
    /\ UNCHANGED <<phase, heartbeatQ, registerAgainQ, grace, view>>

RestartRegistry ==
    /\ ~up
    /\ up' = TRUE /\ grace' = TRUE
    /\ UNCHANGED <<phase, queues, crashes, known, pending, rounds, view>>

-----------------------------------------------------------------------------
InstanceStep(i) ==
    \/ ClientSetup(i) \/ RegisterService(i) \/ OnAmqpReconnect(i)
    \/ RegisterAgain(i) \/ StopAccepting(i) \/ Unregister(i) \/ CrashInstance(i)
    \/ \E isDegraded \in DegradedChecks : SendHeartbeat(i, isDegraded)

HandlerStep(i) ==
    \/ RegisterPublished(i) \/ UnregisterPublished(i)
    \/ \E ok \in Publishing :
          \/ HandleRegister(i, ok) \/ HandleUnregister(i, ok)
          \/ HandleHeartbeat(i, ok)

MonitorStep ==
    \/ MonitorStart \/ MonitorEnd
    \/ \E s \in Services : MonitorService(s)
    \/ \E i \in Instances, ok \in Publishing : MonitorRefresh(i, ok)

Next ==
    \/ \E i \in Instances : InstanceStep(i) \/ HandlerStep(i)
    \/ MonitorStep \/ Tick \/ GraceEnds \/ CrashRegistry \/ RestartRegistry

Spec == Init /\ [][Next]_vars

\* The broker delivers, the event loop resumes handlers, time passes, a registry
\* that died is started again, and a running instance sends heartbeats and
\* answers register_again.  Nobody has to start, stop, crash or reconnect.
Fairness ==
    /\ \A i \in Instances :
         /\ WF_vars(RegisterAgain(i))
         /\ WF_vars(\E isDegraded \in DegradedChecks : SendHeartbeat(i, isDegraded))
         /\ WF_vars(RegisterPublished(i)) /\ WF_vars(UnregisterPublished(i))
         /\ WF_vars(\E ok \in Publishing : HandleRegister(i, ok))
         /\ WF_vars(\E ok \in Publishing : HandleUnregister(i, ok))
         /\ WF_vars(\E ok \in Publishing : HandleHeartbeat(i, ok))
    /\ WF_vars(MonitorStep) /\ WF_vars(Tick)
    /\ WF_vars(GraceEnds) /\ WF_vars(RestartRegistry)

FairSpec == Spec /\ Fairness

-----------------------------------------------------------------------------
(* Properties.                                                             *)

\* An instance that keeps running ends up in get_services() for good, even when its
\* register message came before a crash of the registry, its heartbeats come
\* before its registration or the events about it cannot be published: the
\* heartbeats of an unknown instance make it register again.
RunningIsRegistered ==
    \A i \in Instances :
        <>[](phase[i] = "running") => <>[](i \in GetServices("all"))

\* An instance that has stopped or crashed ends up out of list_instances() and
\* is_live() for good, even when a late register message puts it back.
DeadIsNotLive ==
    \A i \in Instances :
        phase[i] \in {"stopped", "crashed"} ~>
            [](i \notin LiveInstances(ServiceOf[i]))

\* While events can be published, the subscribers of the lifecycle events count an
\* instance as present while the registry does, and until a crash makes the
\* registry forget some they count no other, whichever handlers and monitoring
\* rounds are suspended half-way: no status event follows the one that says the
\* instance is gone.
MembershipIsAnnounced ==
    \A i \in Instances :
        /\ i \in services => view[i] # "none"
        /\ crashes = 0 /\ view[i] # "none" => i \in services

\* While events can be published, no live status is kept from the subscribers:
\* once the handlers of an instance's registration are done, a status that the
\* registry tracks as active or degraded is the one it announced, although a
\* heartbeat that arrives while the registration is being announced is tracked
\* without an event, and although a crash has the messages of unfinished
\* handlers handled again.  An instance that has sent its unregister message is
\* left out: a register message it overtakes may be handled while the
\* deregistration is announced, whose end drops the tracked status.
LiveStatusIsAnnounced ==
    \A i \in services :
        /\ phase[i] # "stopped" /\ Quiet(i)
        /\ tracked[i] \in {"active", "degraded"}
        => view[i] = tracked[i]

=============================================================================
