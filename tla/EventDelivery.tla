---------------------------- MODULE EventDelivery ----------------------------
(* Delivery of events to the instances of one service, from the exchange to  *)
(* the @on_event handlers, and the shutdown of an instance around it:        *)
(*   messaging/consumer/core.py   Consumer, WorkInFlight                     *)
(*   messaging/consumer/event.py  OnEventTask                                *)
(*   runtime/handler_scope.py     enter/reset_handler_scope                  *)
(*   container.py                 ServiceContainer.stop                      *)
(* The broker is external: a quorum work queue with a delivery limit,        *)
(* delayed retry and dead-lettering into the failed queue, and one exclusive *)
(* auto-delete queue per instance for broadcast and in_session events.       *)
EXTENDS Naturals, FiniteSets

CONSTANTS
  Instances,     \* service processes, each started at most once
  Messages,      \* published events
  Shared,        \* the competing queue, as opposed to an instance's own
  Home,          \* the queue an event is routed to: Shared or an instance
  MaxAttempts,   \* kontiki.amqp.max_attempts (core.py:87)
  Prefetch,      \* kontiki.amqp.max_pending_messages (core.py:80)
  FailedLength,  \* FAILED_QUEUE_MAX_LENGTH
  MaxLosses      \* bound on crashes and lost connections

ASSUME QueuesAssumption ==
  /\ IsFiniteSet(Instances) /\ IsFiniteSet(Messages)
  /\ Shared \notin Instances
  /\ Home \in [Messages -> Instances \cup {Shared}]

\* core.py:238 refuses a max_attempts below 1.
ASSUME LimitsAssumption ==
  /\ MaxAttempts \in Nat \ {0} /\ Prefetch \in Nat \ {0}
  /\ FailedLength \in Nat /\ MaxLosses \in Nat

VARIABLES
  \* at the broker
  place,      \* where each event is
  failures,   \* its delivery-count
  holder,     \* the instance an unacknowledged event is delivered to
  declared,   \* the competing queue exists (and outlives every instance)
  \* in each instance
  phase,      \* lifecycle: start, then the phases of ServiceContainer.stop
  inFlight,   \* WorkInFlight._count
  orphans,    \* handlers running for a delivery whose channel is gone
  reporting,  \* handlers past process(), awaiting report_uncaught_exception
  clean,      \* the drain ended before the grace period did
  \* bookkeeping for the properties and the bound
  starts,     \* times an event's handler was started
  losses

bvars == <<place, failures, holder, declared>>
ivars == <<phase, inFlight, orphans, reporting, clean>>
hvars == <<starts, losses>>
vars == <<bvars, ivars, hvars>>

None == "none"

Work == {m \in Messages : Home[m] = Shared}
OneOff == Messages \ Work

\* "arrived": in the client, consume_message not run yet; "running": inside
\* process(); "dead": waiting for room in the failed queue.
Places == {"unsent", "queued", "delayed", "arrived", "running", "handled",
           "dead", "failed", "dropped"}

\* "stopping": shutting_down is set; "cancelling": basic.cancel sent, its answer
\* awaited; "draining": _drain_in_flight; "forcing": handlers cancelled.
Phases == {"off", "running", "stopping", "cancelling", "draining", "forcing",
           "closed", "crashed"}

Held(i) == {m \in Messages : place[m] \in {"arrived", "running"} /\ holder[m] = i}
Running(i) == {m \in Held(i) : place[m] = "running"}

TypeOK ==
  /\ place \in [Messages -> Places]
  /\ failures \in [Messages -> 0..MaxAttempts]
  /\ holder \in [Messages -> Instances \cup {None}]
  /\ declared \in BOOLEAN
  /\ phase \in [Instances -> Phases]
  /\ inFlight \in [Instances -> Nat]
  /\ orphans \in [Instances -> Nat]
  /\ reporting \in [Instances -> Nat]
  /\ clean \in [Instances -> BOOLEAN]
  /\ starts \in [Messages -> Nat]
  /\ losses \in 0..MaxLosses

Init ==
  /\ place = [m \in Messages |-> "unsent"]
  /\ failures = [m \in Messages |-> 0]
  /\ holder = [m \in Messages |-> None]
  /\ declared = FALSE
  /\ phase = [i \in Instances |-> "off"]
  /\ inFlight = [i \in Instances |-> 0]
  /\ orphans = [i \in Instances |-> 0]
  /\ reporting = [i \in Instances |-> 0]
  /\ clean = [i \in Instances |-> FALSE]
  /\ starts = [m \in Messages |-> 0]
  /\ losses = 0

-----------------------------------------------------------------------------
(* Queues and their arguments *)

\* The x-delivery-limit argument of the work queue.
DeliveryLimit == MaxAttempts - 1

\* Where a failed delivery of a work event goes (external: the quorum queue
\* counts it, then waits before the next delivery or dead-letters the event).
AfterFailure(m) == IF failures[m] + 1 > DeliveryLimit THEN "dead" ELSE "delayed"

\* Mutant of Reject: requeue=False for every event.
RejectForGood(m) ==
  /\ place' = [place EXCEPT ![m] = "dropped"]
  /\ failures' = [failures EXCEPT ![m] = IF m \in Work THEN @ + 1 ELSE @]
  /\ holder' = [holder EXCEPT ![m] = None]
  /\ UNCHANGED declared

\* Mutant of Reject: requeue=True for every event.
RejectToRetry(m) ==
  /\ place' = [place EXCEPT ![m] = IF m \in Work THEN AfterFailure(m) ELSE "queued"]
  /\ failures' = [failures EXCEPT ![m] = IF m \in Work THEN @ + 1 ELSE @]
  /\ holder' = [holder EXCEPT ![m] = None]
  /\ UNCHANGED declared

\* message.process(requeue=self.requeue) left with an exception: basic.reject,
\* with requeue for a work event only.
Reject(m) ==
  /\ place' = [place EXCEPT ![m] = IF m \in Work THEN AfterFailure(m) ELSE "dropped"]
  /\ failures' = [failures EXCEPT ![m] = IF m \in Work THEN @ + 1 ELSE @]
  /\ holder' = [holder EXCEPT ![m] = None]
  /\ UNCHANGED declared

\* The broker loses i's connection: its exclusive queue goes with all it holds,
\* and unacknowledged work events return, counted as failures or not.
ReleaseAll(i) ==
  \E counted \in SUBSET (Held(i) \cap Work) :
    /\ place' = [m \in Messages |->
         CASE Home[m] = i /\ place[m] \in {"queued", "arrived", "running"} -> "dropped"
           [] m \in counted -> AfterFailure(m)
           [] m \in (Held(i) \cap Work) \ counted -> "queued"
           [] OTHER -> place[m]]
    /\ failures' = [m \in Messages |-> IF m \in counted THEN failures[m] + 1 ELSE failures[m]]
    /\ holder' = [m \in Messages |-> IF m \in Held(i) THEN None ELSE holder[m]]
    /\ UNCHANGED declared

\* ServiceContainer setup and Consumer.start: queues declared, consuming.
Start(i) ==
  /\ phase[i] = "off"
  /\ phase' = [phase EXCEPT ![i] = "running"]
  /\ declared' = TRUE
  /\ UNCHANGED <<place, failures, holder, inFlight, orphans, reporting, clean, hvars>>

Consuming(i) == phase[i] \in {"running", "stopping"}

\* An event is published; without a bound queue the topic exchange drops it.
Publish(m) ==
  /\ place[m] = "unsent"
  /\ place' = [place EXCEPT ![m] =
       IF (IF m \in Work THEN declared ELSE Consuming(Home[m])) THEN "queued" ELSE "dropped"]
  /\ UNCHANGED <<failures, holder, declared, ivars, hvars>>

\* The broker hands an event to a consumer with prefetch room (external).
Deliver(i, m) ==
  /\ Consuming(i) /\ place[m] = "queued" /\ Home[m] \in {Shared, i}
  /\ Cardinality(Held(i)) < Prefetch
  /\ place' = [place EXCEPT ![m] = "arrived"]
  /\ holder' = [holder EXCEPT ![m] = i]
  /\ UNCHANGED <<failures, declared, ivars, hvars>>

\* The delay before a retry is over (external).
DelayEnds(m) ==
  /\ place[m] = "delayed"
  /\ place' = [place EXCEPT ![m] = "queued"]
  /\ UNCHANGED <<failures, holder, declared, ivars, hvars>>

\* At-least-once dead-lettering: the failed queue refuses an event when full,
\* and the work queue keeps it until there is room (external).
DeadLetter(m) ==
  /\ place[m] = "dead"
  /\ Cardinality({n \in Messages : place[n] = "failed"}) < FailedLength
  /\ place' = [place EXCEPT ![m] = "failed"]
  /\ UNCHANGED <<failures, holder, declared, ivars, hvars>>

-----------------------------------------------------------------------------
(* Handling an event *)

\* WorkInFlight.begin and end.
begin(i) == inFlight' = [inFlight EXCEPT ![i] = @ + 1]
end(i) == inFlight' = [inFlight EXCEPT ![i] = @ - 1]

\* Mutant of GiveBack: shutting_down is not looked at.
GiveBackAlways(i, m) ==
  /\ place[m] = "arrived" /\ holder[m] = i
  /\ place' = [place EXCEPT ![m] = "queued"]
  /\ holder' = [holder EXCEPT ![m] = None]
  /\ UNCHANGED <<failures, declared, ivars, hvars>>

\* consume_message during shutdown gives the event back; the return is not a
\* failure.
GiveBack(i, m) ==
  /\ place[m] = "arrived" /\ holder[m] = i
  /\ phase[i] \in {"stopping", "cancelling"}
  /\ place' = [place EXCEPT ![m] = "queued"]
  /\ holder' = [holder EXCEPT ![m] = None]
  /\ UNCHANGED <<failures, declared, ivars, hvars>>

\* consume_message creates the handler task and _consume_message enters its
\* scope.  The event loop runs the new task before stop(), which only resumes
\* after a network round trip, so the two are one step.
Handle(i, m) ==
  /\ place[m] = "arrived" /\ holder[m] = i
  /\ phase[i] = "running"
  /\ place' = [place EXCEPT ![m] = "running"]
  /\ begin(i)
  /\ starts' = [starts EXCEPT ![m] = @ + 1]
  /\ UNCHANGED <<failures, holder, declared, phase, orphans, reporting, clean, losses>>

\* Handlers finish on their own until force_close cancels them.
Undisturbed(i) == phase[i] \in {"running", "stopping", "cancelling", "draining"}

\* The handler returns: process() acknowledges, the scope is reset.
HandlerReturns(i, m) ==
  /\ m \in Running(i) /\ Undisturbed(i)
  /\ place' = [place EXCEPT ![m] = "handled"]
  /\ holder' = [holder EXCEPT ![m] = None]
  /\ end(i)
  /\ UNCHANGED <<failures, declared, phase, orphans, reporting, clean, hvars>>

\* The handler, or the decoding of the payload, raises: process() rejects and
\* the exception is reported before the scope is reset.
HandlerRaises(i, m) ==
  /\ m \in Running(i) /\ Undisturbed(i)
  /\ Reject(m)
  /\ reporting' = [reporting EXCEPT ![i] = @ + 1]
  /\ UNCHANGED <<phase, inFlight, orphans, clean, hvars>>

\* A handler whose channel is gone ends: acknowledging or rejecting raises
\* inside process(), and that exception is reported.
OrphanEnds(i) ==
  /\ orphans[i] > 0
  /\ orphans' = [orphans EXCEPT ![i] = @ - 1]
  /\ reporting' = [reporting EXCEPT ![i] = @ + 1]
  /\ UNCHANGED <<bvars, phase, inFlight, clean, hvars>>

\* Mutant of ReportEnds: a handler that raised never leaves its scope.
ReportEndsInScope(i) ==
  /\ reporting[i] > 0
  /\ reporting' = [reporting EXCEPT ![i] = @ - 1]
  /\ UNCHANGED <<bvars, phase, inFlight, orphans, clean, hvars>>

\* report_uncaught_exception returns or is cancelled: reset_handler_scope.
ReportEnds(i) ==
  /\ reporting[i] > 0
  /\ reporting' = [reporting EXCEPT ![i] = @ - 1]
  /\ end(i)
  /\ UNCHANGED <<bvars, phase, orphans, clean, hvars>>

-----------------------------------------------------------------------------
(* ServiceContainer.stop: stop accepting, drain, force close *)

\* shutting_down is set before anything else.
BeginStop(i) ==
  /\ phase[i] = "running"
  /\ phase' = [phase EXCEPT ![i] = "stopping"]
  /\ UNCHANGED <<bvars, inFlight, orphans, reporting, clean, hvars>>

\* Consumer.stop_accepting sends basic.cancel, and the broker stops delivering.
CancelConsumer(i) ==
  /\ phase[i] = "stopping"
  /\ phase' = [phase EXCEPT ![i] = "cancelling"]
  /\ UNCHANGED <<bvars, inFlight, orphans, reporting, clean, hvars>>

\* The answer to basic.cancel comes after every delivery before it, and those
\* have been through consume_message by then.  The auto-delete queue of the
\* instance goes with its only consumer.
ConsumerCancelled(i) ==
  /\ phase[i] = "cancelling"
  /\ Held(i) = Running(i)
  /\ phase' = [phase EXCEPT ![i] = "draining"]
  /\ place' = [m \in Messages |->
       IF Home[m] = i /\ place[m] = "queued" THEN "dropped" ELSE place[m]]
  /\ UNCHANGED <<failures, holder, declared, inFlight, orphans, reporting, clean, hvars>>

\* Mutant of Drained: the drain does not wait.
DrainedAtOnce(i) ==
  /\ phase[i] = "draining"
  /\ clean' = [clean EXCEPT ![i] = TRUE]

\* WorkInFlight.wait_empty returns within the grace period.
Drained(i) ==
  /\ phase[i] = "draining"
  /\ inFlight[i] = 0
  /\ clean' = [clean EXCEPT ![i] = TRUE]

\* Mutant of GraceExpires: the drain has no timeout.
GraceNeverExpires(i) == FALSE /\ UNCHANGED clean

\* asyncio.wait_for gives up on the drain after grace_seconds.
GraceExpires(i) ==
  /\ phase[i] = "draining"
  /\ UNCHANGED clean

\* Consumer.force_close cancels every handler task.
BeginForceClose(i) ==
  /\ Drained(i) \/ GraceExpires(i)
  /\ phase' = [phase EXCEPT ![i] = "forcing"]
  /\ UNCHANGED <<bvars, inFlight, orphans, reporting, hvars>>

\* CancelledError goes through process() like any exception: the event is
\* rejected.  It is not reported, and the scope is reset.
HandlerCancelled(i, m) ==
  /\ phase[i] = "forcing" /\ m \in Running(i)
  /\ Reject(m)
  /\ end(i)
  /\ UNCHANGED <<phase, orphans, reporting, clean, hvars>>

\* gather has seen every handler task end; the connection is closed.
Close(i) ==
  /\ phase[i] = "forcing"
  /\ Running(i) = {} /\ orphans[i] = 0 /\ reporting[i] = 0
  /\ ReleaseAll(i)
  /\ phase' = [phase EXCEPT ![i] = "closed"]
  /\ UNCHANGED <<inFlight, orphans, reporting, clean, hvars>>

-----------------------------------------------------------------------------
(* Failures around the process *)

\* The consumer's connection is lost; the robust connection restores it and its
\* consumer, the handlers of the old channel run on.
ConnectionLost(i) ==
  /\ phase[i] \in {"running", "draining"} /\ losses < MaxLosses
  /\ ReleaseAll(i)
  /\ orphans' = [orphans EXCEPT ![i] = @ + Cardinality(Running(i))]
  /\ losses' = losses + 1
  /\ UNCHANGED <<phase, inFlight, reporting, clean, starts>>

Crash(i) ==
  /\ phase[i] \notin {"off", "closed", "crashed"} /\ losses < MaxLosses
  /\ ReleaseAll(i)
  /\ phase' = [phase EXCEPT ![i] = "crashed"]
  /\ inFlight' = [inFlight EXCEPT ![i] = 0]
  /\ orphans' = [orphans EXCEPT ![i] = 0]
  /\ reporting' = [reporting EXCEPT ![i] = 0]
  /\ losses' = losses + 1
  /\ UNCHANGED <<clean, starts>>

HandlerStep(i) ==
  \/ \E m \in Messages : \/ GiveBack(i, m)
                         \/ Handle(i, m)
                         \/ HandlerReturns(i, m)
                         \/ HandlerRaises(i, m)
                         \/ HandlerCancelled(i, m)
  \/ OrphanEnds(i)
  \/ ReportEnds(i)

StopStep(i) ==
  \/ CancelConsumer(i)
  \/ ConsumerCancelled(i)
  \/ BeginForceClose(i)
  \/ Close(i)

BrokerStep(m) == DelayEnds(m) \/ DeadLetter(m)

Done ==
  /\ \A i \in Instances : phase[i] \in {"closed", "crashed"}
  /\ UNCHANGED vars

Next ==
  \/ \E i \in Instances :
       \/ Start(i) \/ HandlerStep(i) \/ BeginStop(i) \/ StopStep(i)
       \/ ConnectionLost(i) \/ Crash(i)
       \/ \E m \in Messages : Deliver(i, m)
  \/ \E m \in Messages : Publish(m) \/ BrokerStep(m)
  \/ Done

Spec == Init /\ [][Next]_vars

\* The event loop runs every callback and step of stop() that is ready (the
\* grace timer is a StopStep), a cancelled handler unwinds, and the broker keeps
\* delivering and ends its delays.  Nothing makes a handler end by itself.
Fairness ==
  /\ \A i \in Instances :
       /\ WF_vars(StopStep(i))
       /\ WF_vars(phase[i] = "forcing" /\ OrphanEnds(i))
       /\ WF_vars(phase[i] = "forcing" /\ ReportEnds(i))
       /\ \A m \in Messages :
            WF_vars(GiveBack(i, m)) /\ WF_vars(Handle(i, m)) /\ WF_vars(HandlerCancelled(i, m))
  /\ \A m \in Messages :
       /\ WF_vars(DelayEnds(m)) /\ WF_vars(DeadLetter(m))
       /\ SF_vars(\E i \in Instances : Deliver(i, m))

\* The service's own handlers return or raise in the end.
HandlersEnd ==
  \A i \in Instances, m \in Messages : WF_vars(HandlerReturns(i, m) \/ HandlerRaises(i, m))

FairSpec == Spec /\ Fairness

-----------------------------------------------------------------------------
(* Properties *)

\* The in-flight counter is the number of handlers between the two ends of
\* their scope, whatever way they leave it (returned, raised, cancelled, their
\* channel lost), so that drain waits for exactly the handlers that run.
InFlightIsExact ==
  \A i \in Instances :
    inFlight[i] = Cardinality(Running(i)) + orphans[i] + reporting[i]

\* A shutdown whose drain ended in time leaves nothing to cancel and nothing
\* unacknowledged: closing the connection burns no attempt of any event.
CleanStopHoldsNothing ==
  \A i \in Instances : clean[i] /\ phase[i] \in {"forcing", "closed"} =>
    Held(i) = {} /\ orphans[i] = 0 /\ reporting[i] = 0

\* Broadcast and in_session handlers run at most once per event, through
\* failures, lost connections and shutdowns that give the event back.
OneOffRunsOnce == \A m \in OneOff : starts[m] <= 1

\* What has become of an event, in the terms of EventPromise.
PromisedState(m) ==
  CASE place[m] \in {"queued", "delayed", "arrived", "running"} -> "pending"
    [] place[m] \in {"dead", "failed"} -> "retained"
    [] OTHER -> place[m]

P == INSTANCE EventPromise WITH
       state <- [m \in Messages |-> PromisedState(m)]

\* The consumers, the queues they declare and the shutdown implement EventPromise:
\* no work event is ever lost, whatever crashes, and what has become of an event
\* never changes again.
KeepsPromise == P!Promise

\* A stop ends even if a handler never does: the grace period bounds the drain,
\* then handlers are cancelled and give back what they hold.
StopEnds ==
  \A i \in Instances : phase[i] = "stopping" ~> phase[i] \in {"closed", "crashed"}

\* If handlers end, a published work event is settled (handled or retained)
\* while an instance keeps running, through retries and stopping instances that
\* give it back.
Settles ==
  HandlersEnd =>
    \A m \in Work : place[m] = "queued" ~>
      \/ place[m] \in {"handled", "dead", "failed"}
      \/ \A i \in Instances : phase[i] # "running"

=============================================================================
