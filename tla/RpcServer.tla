------------------------------ MODULE RpcServer ------------------------------
(* The serving side of RPC: RpcTask (messaging/consumer/rpc.py) in the       *)
(* instances of a service, on the method's shared durable queue and on the   *)
(* exclusive queue of each instance (consumer/core.py).  A request delivered *)
(* again while its first handler runs is told apart by its correlation id in *)
(* RpcTask.futures.  Request, delivery and reply are separate messages, so a *)
(* lost connection, a forced close or a crash can fall between any two.      *)
EXTENDS Naturals, FiniteSets

CONSTANTS
  Instances,    \* service processes
  Requests,     \* correlation ids of the requests
  Shared,       \* the shared queue of the method
  Home,         \* the queue a request is routed to: Shared or an instance
  Malformed,    \* requests whose body cannot be decoded
  NoReplyTo,    \* requests without a reply_to
  Unserializable, \* requests whose method may return what json.dumps refuses
  MaxLosses     \* bound: crashes and lost connections

None == "none"  \* holder of a request that nobody holds

ASSUME RequestsAssumption ==
  /\ IsFiniteSet(Instances) /\ IsFiniteSet(Requests)
  /\ Shared \notin Instances /\ None \notin Instances
  /\ Home \in [Requests -> Instances \cup {Shared}]
  /\ Malformed \subseteq Requests /\ NoReplyTo \subseteq Requests
  /\ Unserializable \subseteq Requests /\ MaxLosses \in Nat

VARIABLES
  place,      \* where each request is
  holder,     \* the instance an unacknowledged request is delivered to
  phase,      \* lifecycle of each instance
  futures,    \* RpcTask.futures of each instance
  calling,    \* handlers inside the service's method, per instance and request
  replying,   \* handlers sending their reply
  answers,    \* replies that reached the caller's queue
  losses      \* crashes and lost connections so far

vars == <<place, holder, phase, futures, calling, replying, answers, losses>>

Active(i, r) == calling[i][r] + replying[i][r]

\* The delivery at i is on the channel it came by: it can be acknowledged.
Live(i, r) == place[r] = "running" /\ holder[r] = i

TypeOK ==
  /\ place \in [Requests -> {"unsent", "queued", "arrived", "running", "acked", "dropped"}]
  /\ holder \in [Requests -> Instances \cup {None}]
  /\ phase \in [Instances -> {"running", "stopping", "cancelling", "draining", "forcing",
                          "closed", "crashed"}]
  /\ futures \in [Instances -> SUBSET Requests]
  /\ calling \in [Instances -> [Requests -> Nat]]
  /\ replying \in [Instances -> [Requests -> Nat]]
  /\ answers \in [Requests -> Nat] /\ losses \in 0..MaxLosses

Init ==
  /\ place = [r \in Requests |-> "unsent"]
  /\ holder = [r \in Requests |-> None]
  /\ phase = [i \in Instances |-> "running"]
  /\ futures = [i \in Instances |-> {}]
  /\ calling = [i \in Instances |-> [r \in Requests |-> 0]]
  /\ replying = [i \in Instances |-> [r \in Requests |-> 0]]
  /\ answers = [r \in Requests |-> 0] /\ losses = 0

Consuming(i) == phase[i] \in {"running", "stopping"}

Move(r, where, who) ==
  /\ place' = [place EXCEPT ![r] = where]
  /\ holder' = [holder EXCEPT ![r] = who]

\* A request reaches the shared queue, which is durable, or the queue of an
\* instance while it has one (external: Messenger.call).
Send(r) ==
  /\ place[r] = "unsent"
  /\ Move(r, IF Home[r] = Shared \/ Consuming(Home[r]) THEN "queued" ELSE "dropped", None)
  /\ UNCHANGED <<phase, futures, calling, replying, answers, losses>>

Deliver(i, r) ==
  /\ Consuming(i) /\ place[r] = "queued" /\ Home[r] \in {Shared, i}
  /\ Move(r, "arrived", i)
  /\ UNCHANGED <<phase, futures, calling, replying, answers, losses>>

-----------------------------------------------------------------------------
(* handle_rpc and _handle_rpc *)

Arrived(i, r) == place[r] = "arrived" /\ holder[r] = i

\* Mutant of GiveBack: shutting_down is not looked at.
GiveBackAlways(i, r) ==
  /\ Arrived(i, r)
  /\ Move(r, "queued", None)
  /\ UNCHANGED <<phase, futures, calling, replying, answers, losses>>

\* During shutdown the request goes back to its queue.
GiveBack(i, r) ==
  /\ Arrived(i, r) /\ phase[i] # "running"
  /\ Move(r, "queued", None)
  /\ UNCHANGED <<phase, futures, calling, replying, answers, losses>>

\* Mutant of IsDuplicate: the correlation id is not looked up.
NeverDuplicate(i, r) == FALSE

\* A handler of the same correlation id is in this RpcTask's table.
IsDuplicate(i, r) == r \in futures[i]

\* Leaves process() at once, acknowledging: a duplicate, or a body that cannot be
\* decoded, whose entry in futures is made and deleted in one step.
Discard(i, r) ==
  /\ Arrived(i, r) /\ phase[i] = "running"
  /\ IsDuplicate(i, r) \/ r \in Malformed
  /\ Move(r, "acked", None)
  /\ UNCHANGED <<phase, futures, calling, replying, answers, losses>>

\* The future is entered in the table and the method called.
Handle(i, r) ==
  /\ Arrived(i, r) /\ phase[i] = "running"
  /\ ~IsDuplicate(i, r) /\ r \notin Malformed
  /\ Move(r, "running", i)
  /\ futures' = [futures EXCEPT ![i] = @ \cup {r}]
  /\ calling' = [calling EXCEPT ![i][r] = @ + 1]
  /\ UNCHANGED <<phase, replying, answers, losses>>

Undisturbed(i) == phase[i] \in {"running", "stopping", "cancelling", "draining"}

\* The end of process() without an exception; without its channel the
\* acknowledgement raises and nothing changes.
Ack(i, r) == IF Live(i, r) THEN Move(r, "acked", None) ELSE UNCHANGED <<place, holder>>

\* The end of process(requeue=True) with CancelledError.
RejectCancelled(i, r) ==
  IF Live(i, r) THEN Move(r, "queued", None) ELSE UNCHANGED <<place, holder>>

\* The method returns or raises; either way there is an RpcReturn to send, and
\* an exception has been reported.
MethodEnds(i, r) ==
  /\ calling[i][r] > 0 /\ Undisturbed(i)
  /\ calling' = [calling EXCEPT ![i][r] = @ - 1]
  /\ IF r \in NoReplyTo
     THEN Ack(i, r) /\ UNCHANGED replying
     ELSE replying' = [replying EXCEPT ![i][r] = @ + 1] /\ UNCHANGED <<place, holder>>
  /\ UNCHANGED <<phase, futures, answers, losses>>

\* Mutant of Forget: the entry outlives its handler.
KeepEntry(i, r) == UNCHANGED futures

\* The finally clause of the reply.
Forget(i, r) == futures' = [futures EXCEPT ![i] = @ \ {r}]

\* The reply is published; or serializing the result raises, or publishing it
\* does (only when the channel the request came by is gone).  One try holds both:
\* the error is logged and the request acknowledged without an answer.
ReplySent(i, r) ==
  /\ replying[i][r] > 0 /\ Undisturbed(i)
  /\ \E ok \in BOOLEAN :
       /\ Live(i, r) /\ r \notin Unserializable => ok
       /\ answers' = [answers EXCEPT ![r] = IF ok THEN @ + 1 ELSE @]
  /\ replying' = [replying EXCEPT ![i][r] = @ - 1]
  /\ Forget(i, r)
  /\ Ack(i, r)
  /\ UNCHANGED <<phase, calling, losses>>

\* force_close cancels a handler in the method: CancelledError is no Exception,
\* so no reply is made and the entry in futures stays.
CancelledCalling(i, r) ==
  /\ phase[i] = "forcing" /\ calling[i][r] > 0
  /\ calling' = [calling EXCEPT ![i][r] = @ - 1]
  /\ RejectCancelled(i, r)
  /\ UNCHANGED <<phase, futures, replying, answers, losses>>

\* ... or while it sends its reply, which may have got through.
CancelledReplying(i, r) ==
  /\ phase[i] = "forcing" /\ replying[i][r] > 0
  /\ \E got_through \in {0, 1} : answers' = [answers EXCEPT ![r] = @ + got_through]
  /\ replying' = [replying EXCEPT ![i][r] = @ - 1]
  /\ Forget(i, r)
  /\ RejectCancelled(i, r)
  /\ UNCHANGED <<phase, calling, losses>>

-----------------------------------------------------------------------------
(* Shutdown and faults *)

\* The broker returns what i holds on the shared queue; the queue of i is gone.
Release(i, gone) ==
  /\ place' = [r \in Requests |->
       IF Home[r] = i /\ place[r] \in gone THEN "dropped"
       ELSE IF holder[r] = i THEN "queued" ELSE place[r]]
  /\ holder' = [r \in Requests |-> IF holder[r] = i THEN None ELSE holder[r]]

BeginStop(i) ==
  /\ phase[i] = "running"
  /\ phase' = [phase EXCEPT ![i] = "stopping"]
  /\ UNCHANGED <<place, holder, futures, calling, replying, answers, losses>>

\* basic.cancel is sent and the broker stops delivering.
CancelConsumers(i) ==
  /\ phase[i] = "stopping"
  /\ phase' = [phase EXCEPT ![i] = "cancelling"]
  /\ UNCHANGED <<place, holder, futures, calling, replying, answers, losses>>

\* Both consumers are cancelled: deliveries before that have been given back, and
\* the auto-delete queue of the instance goes with its consumer.
StopAccepting(i) ==
  /\ phase[i] = "cancelling" /\ \A r \in Requests : ~Arrived(i, r)
  /\ phase' = [phase EXCEPT ![i] = "draining"]
  /\ place' = [r \in Requests |->
       IF Home[r] = i /\ place[r] = "queued" THEN "dropped" ELSE place[r]]
  /\ UNCHANGED <<holder, futures, calling, replying, answers, losses>>

\* The drain is over, complete or at the end of the grace period.
ForceClose(i) ==
  /\ phase[i] = "draining"
  /\ phase' = [phase EXCEPT ![i] = "forcing"]
  /\ UNCHANGED <<place, holder, futures, calling, replying, answers, losses>>

Close(i) ==
  /\ phase[i] = "forcing" /\ \A r \in Requests : Active(i, r) = 0
  /\ Release(i, {"queued"})
  /\ phase' = [phase EXCEPT ![i] = "closed"]
  /\ UNCHANGED <<futures, calling, replying, answers, losses>>

\* The connection is lost and restored; handlers run on.
ConnectionLost(i) ==
  /\ Undisturbed(i) /\ losses < MaxLosses
  /\ Release(i, {"queued", "arrived", "running"})
  /\ losses' = losses + 1
  /\ UNCHANGED <<phase, futures, calling, replying, answers>>

Crash(i) ==
  /\ phase[i] \notin {"closed", "crashed"} /\ losses < MaxLosses
  /\ Release(i, {"queued", "arrived", "running"})
  /\ phase' = [phase EXCEPT ![i] = "crashed"]
  /\ futures' = [futures EXCEPT ![i] = {}]
  /\ calling' = [calling EXCEPT ![i] = [r \in Requests |-> 0]]
  /\ replying' = [replying EXCEPT ![i] = [r \in Requests |-> 0]]
  /\ losses' = losses + 1
  /\ UNCHANGED <<answers>>

AllDown ==
  /\ \A i \in Instances : phase[i] \in {"closed", "crashed"}
  /\ UNCHANGED vars

HandlerStep(i, r) ==
  \/ Deliver(i, r) \/ GiveBack(i, r) \/ Discard(i, r) \/ Handle(i, r)
  \/ MethodEnds(i, r) \/ ReplySent(i, r)
  \/ CancelledCalling(i, r) \/ CancelledReplying(i, r)

StopStep(i) == CancelConsumers(i) \/ StopAccepting(i) \/ ForceClose(i) \/ Close(i)

Next ==
  \/ \E r \in Requests : Send(r)
  \/ \E i \in Instances : \/ \E r \in Requests : HandlerStep(i, r)
                          \/ BeginStop(i) \/ StopStep(i) \/ ConnectionLost(i) \/ Crash(i)
  \/ AllDown

Spec == Init /\ [][Next]_vars

\* The event loop resumes what is ready, methods end, the broker delivers.
Fairness ==
  /\ \A i \in Instances : WF_vars(StopStep(i))
  /\ \A i \in Instances, r \in Requests :
       /\ WF_vars(GiveBack(i, r)) /\ WF_vars(Discard(i, r) \/ Handle(i, r))
       /\ WF_vars(MethodEnds(i, r)) /\ WF_vars(ReplySent(i, r))
       /\ WF_vars(CancelledCalling(i, r)) /\ WF_vars(CancelledReplying(i, r))
  /\ \A r \in Requests : SF_vars(\E i \in Instances : Deliver(i, r))

FairSpec == Spec /\ Fairness

-----------------------------------------------------------------------------
(* Properties *)

\* No instance works on one request twice at the same time, although a lost
\* connection brings the request back while its first handler runs.
OneHandlerPerInstance ==
  \A i \in Instances, r \in Requests : Active(i, r) <= 1

\* A request that wants an answer leaves its queue for good only when it has been
\* answered; or by the handler that has run its method and could not serialize
\* the result (rpc.py:173: the caller then waits for its timeout); or, after a
\* lost connection or a crash, as a duplicate beside a handler of the same
\* instance that is still at work on it.  A duplicate is never acknowledged on
\* behalf of a handler that is gone, whatever was lost, stopped, forced or put
\* back before.
AckIsCovered ==
  [][\A r \in Requests \ (Malformed \cup NoReplyTo) :
       place[r] # "acked" /\ place'[r] = "acked" =>
         \/ answers'[r] >= 1
         \/ r \in Unserializable /\ \E i \in Instances : replying'[i][r] < replying[i][r]
         \/ losses > 0 /\ \E i \in Instances : phase[i] = "running" /\ Active(i, r)' > 0]_vars

\* A queued request is taken off its queue for good while an instance keeps
\* running that consumes it.
RequestsEnd ==
  \A r \in Requests : place[r] = "queued" ~>
    \/ place[r] \in {"acked", "dropped"}
    \/ \A i \in Instances : phase[i] # "running"
=============================================================================
