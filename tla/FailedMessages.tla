--------------------------- MODULE FailedMessages ---------------------------
(* The registry RPCs on one failed queue "{service}.{event}.failed":         *)
(* list_failed_messages, replay_failed_messages and drop_failed_messages     *)
(* (registry/server/core.py, guarded in registry/server/service.py).  Every  *)
(* await of the code is a step boundary: calls run concurrently on the       *)
(* registry's event loop, each on a channel of its own, and hold messages    *)
(* out of the queue while they run.  A call is itself an AMQP request that   *)
(* is acknowledged once answered (messaging/consumer/rpc.py), so a registry  *)
(* that dies during a call runs it again.                                    *)
(*                                                                           *)
(* Messages are numbered in the order in which they were retained; a message *)
(* that is returned takes its old place again (external: the broker).        *)
EXTENDS Naturals, Sequences, FiniteSets

CONSTANTS
  Calls,         \* RPC requests
  Kind,          \* "list", "replay" or "drop" for each
  Count,         \* the limit or count argument of each
  Retained,      \* messages in the queue at the start
  Undecodable,   \* messages whose body is not JSON
  MaxMessages,   \* bound: messages ever retained
  MaxCrashes     \* bound: crashes of the registry

ASSUME CallsAssumption ==
  /\ Kind \in [Calls -> {"list", "replay", "drop"}]
  /\ Count \in [Calls -> Nat]

ASSUME QueueAssumption ==
  /\ MaxMessages \in Nat /\ MaxCrashes \in Nat /\ Retained \in 0..MaxMessages
  /\ Undecodable \subseteq Nat

VARIABLES
  ready,      \* messages in the queue
  last,       \* the youngest message retained so far
  pc, held,   \* each call's progress and the messages it has not acknowledged
  removed,    \* messages the call has acknowledged: replayed or dropped
  count,      \* what list_failed_messages reports as the queue's length
  crashes,
  \* what has become of the messages, for the properties
  confirmed,  \* published again, and the publish confirmed
  dropped,    \* acknowledged by drop_failed_messages
  fence       \* the youngest message when a replay first published

cvars == <<pc, held, removed, count>>
hvars == <<confirmed, dropped, fence>>
vars == <<ready, last, cvars, crashes, hvars>>

Ids == 1..MaxMessages

HeldBy(c) == {held[c][k] : k \in DOMAIN held[c]}
Holding == UNION {HeldBy(c) : c \in Calls}

TypeOK ==
  /\ ready \subseteq Ids /\ last \in 0..MaxMessages
  /\ pc \in [Calls -> {"idle", "open", "taking", "acking", "returning", "publishing",
                       "closing", "replying", "done"}]
  /\ held \in [Calls -> Seq(Ids)]
  /\ removed \in [Calls -> Nat] /\ count \in [Calls -> Nat] /\ crashes \in 0..MaxCrashes
  /\ confirmed \subseteq Ids /\ dropped \subseteq Ids
  /\ fence \in [Calls -> Nat]

Init ==
  /\ ready = 1..Retained /\ last = Retained
  /\ pc = [c \in Calls |-> "idle"]
  /\ held = [c \in Calls |-> <<>>]
  /\ removed = [c \in Calls |-> 0] /\ count = [c \in Calls |-> 0] /\ crashes = 0
  /\ confirmed = {} /\ dropped = {}
  /\ fence = [c \in Calls |-> 0]

Goto(c, l) == pc' = [pc EXCEPT ![c] = l]

-----------------------------------------------------------------------------
(* The calls *)

\* declares_competing_event is looked at once, before the channel is opened; an
\* event no live instance declares is answered with ENTRYPOINT_UNAVAILABLE.
Begin(c) ==
  /\ pc[c] = "idle"
  /\ \E declared \in BOOLEAN : Goto(c, IF declared THEN "open" ELSE "replying")
  /\ UNCHANGED <<ready, last, held, removed, count, crashes, hvars>>

\* The passive declaration answers with the number of ready messages, which list
\* keeps.
Inspect(c) ==
  /\ pc[c] = "open"
  /\ Goto(c, "taking")
  /\ count' = IF Kind[c] = "list" THEN [count EXCEPT ![c] = Cardinality(ready)] ELSE count
  /\ UNCHANGED <<ready, last, held, removed, crashes, hvars>>

\* The loops of queue.get are over after Count[c] messages.
Full(c) == Len(held[c]) + removed[c] >= Count[c]

\* Mutant of After: replay publishes each message before it takes the next.
AfterEach(c, step) ==
  CASE Kind[c] = "drop" -> [get |-> "acking", last |-> "closing", ack |-> "taking"][step]
    [] Kind[c] = "list" -> [get |-> "taking", last |-> "returning"][step]
    [] Kind[c] = "replay" -> [get |-> "publishing", last |-> "closing", ack |-> "taking"][step]

\* Where a call goes on: drop acknowledges each message before it takes the
\* next, replay and list take all of theirs first.
After(c, step) ==
  CASE Kind[c] = "drop" -> [get |-> "acking", last |-> "closing", ack |-> "taking"][step]
    [] Kind[c] = "list" -> [get |-> "taking", last |-> "returning"][step]
    [] Kind[c] = "replay" -> [get |-> "taking", last |-> "publishing", ack |-> "publishing"][step]

\* queue.get returns the oldest message that is ready; list decodes it at once
\* and raises when it cannot.
Get(c) ==
  /\ pc[c] = "taking" /\ ~Full(c) /\ ready # {}
  /\ LET m == CHOOSE x \in ready : \A y \in ready : x <= y IN
       /\ ready' = ready \ {m}
       /\ held' = [held EXCEPT ![c] = Append(@, m)]
       /\ Goto(c, IF Kind[c] = "list" /\ m \in Undecodable THEN "closing" ELSE After(c, "get"))
  /\ UNCHANGED <<last, removed, count, crashes, hvars>>

\* The loop has run Count[c] times, or queue.get found nothing.
GotAll(c) ==
  /\ pc[c] = "taking" /\ (Full(c) \/ ready = {})
  /\ Goto(c, After(c, "last"))
  /\ UNCHANGED <<ready, last, held, removed, count, crashes, hvars>>

\* Mutant of GiveBack: the messages given back are taken again.
GiveBackAndTake(c) ==
  /\ pc[c] = "returning"
  /\ IF held[c] = <<>>
     THEN Goto(c, "taking") /\ UNCHANGED <<ready, held>>
     ELSE /\ ready' = ready \cup {Head(held[c])}
          /\ held' = [held EXCEPT ![c] = Tail(@)]
          /\ UNCHANGED pc
  /\ UNCHANGED <<last, removed, count, crashes, hvars>>

\* list_failed_messages gives its messages back one by one.
GiveBack(c) ==
  /\ pc[c] = "returning"
  /\ IF held[c] = <<>>
     THEN Goto(c, "closing") /\ UNCHANGED <<ready, held>>
     ELSE /\ ready' = ready \cup {Head(held[c])}
          /\ held' = [held EXCEPT ![c] = Tail(@)]
          /\ UNCHANGED pc
  /\ UNCHANGED <<last, removed, count, crashes, hvars>>

\* The message at the head of held[c] is acknowledged.
Remove(c) ==
  /\ held' = [held EXCEPT ![c] = Tail(@)]
  /\ removed' = [removed EXCEPT ![c] = @ + 1]

\* drop_failed_messages acknowledges what it took.
DropOne(c) ==
  /\ pc[c] = "acking" /\ Kind[c] = "drop"
  /\ Remove(c)
  /\ dropped' = dropped \cup {Head(held[c])}
  /\ Goto(c, After(c, "ack"))
  /\ UNCHANGED <<ready, last, count, crashes, confirmed, fence>>

\* Mutant of PublishConfirmed: the message is acknowledged without waiting for
\* the confirmation.
PublishUnconfirmed(c) ==
  /\ pc[c] = "publishing" /\ held[c] # <<>> /\ Head(held[c]) \notin Undecodable
  /\ fence' = [fence EXCEPT ![c] = IF @ = 0 THEN last ELSE @]
  /\ Goto(c, "acking")
  /\ UNCHANGED <<ready, last, held, removed, count, crashes, confirmed, dropped>>

\* replay_failed_messages publishes the next message as a new event ...
PublishConfirmed(c) ==
  /\ pc[c] = "publishing" /\ held[c] # <<>> /\ Head(held[c]) \notin Undecodable
  /\ confirmed' = confirmed \cup {Head(held[c])}
  /\ fence' = [fence EXCEPT ![c] = IF @ = 0 THEN last ELSE @]
  /\ Goto(c, "acking")
  /\ UNCHANGED <<ready, last, held, removed, count, crashes, dropped>>

\* ... and acknowledges it once the publish is confirmed.
ReplayOne(c) ==
  /\ pc[c] = "acking" /\ Kind[c] = "replay"
  /\ Remove(c)
  /\ Goto(c, After(c, "ack"))
  /\ UNCHANGED <<ready, last, count, crashes, confirmed, dropped, fence>>

\* Decoding raises, or messenger.publish does; the event may have got through.
PublishRaises(c) ==
  /\ pc[c] = "publishing" /\ held[c] # <<>>
  /\ Goto(c, "closing")
  /\ UNCHANGED <<ready, last, held, removed, count, crashes, hvars>>

\* Every message taken has been published.
ReplayedAll(c) ==
  /\ pc[c] = "publishing" /\ held[c] = <<>>
  /\ Goto(c, "closing")
  /\ UNCHANGED <<ready, last, held, removed, count, crashes, hvars>>

\* The finally clause closes the channel: the broker takes back what is held.
Close(c) ==
  /\ pc[c] = "closing"
  /\ ready' = ready \cup HeldBy(c)
  /\ held' = [held EXCEPT ![c] = <<>>]
  /\ Goto(c, "replying")
  /\ UNCHANGED <<last, removed, count, crashes, hvars>>

\* The RPC is answered, with an error if the call raised, and acknowledged.
Reply(c) ==
  /\ pc[c] = "replying"
  /\ Goto(c, "done")
  /\ UNCHANGED <<ready, last, held, removed, count, crashes, hvars>>

-----------------------------------------------------------------------------
(* Around the calls (external) *)

\* An event, one that was replayed or another, has failed max_attempts times.
Retain ==
  /\ last < MaxMessages
  /\ last' = last + 1
  /\ ready' = ready \cup {last + 1}
  /\ UNCHANGED <<cvars, crashes, hvars>>

\* The registry dies: its channels close, and the requests it had not answered
\* are delivered to it again when it is back.
Crash ==
  /\ crashes < MaxCrashes
  /\ crashes' = crashes + 1
  /\ ready' = ready \cup Holding
  /\ pc' = [c \in Calls |-> IF pc[c] = "done" THEN "done" ELSE "idle"]
  /\ held' = [c \in Calls |-> <<>>]
  /\ removed' = [c \in Calls |-> IF pc[c] = "done" THEN removed[c] ELSE 0]
  /\ fence' = [c \in Calls |-> 0]
  /\ UNCHANGED <<last, count, confirmed, dropped>>

CallStep(c) ==
  \/ Begin(c) \/ Inspect(c) \/ Get(c) \/ GotAll(c) \/ GiveBack(c) \/ DropOne(c)
  \/ PublishConfirmed(c) \/ ReplayOne(c) \/ PublishRaises(c) \/ ReplayedAll(c)
  \/ Close(c) \/ Reply(c)

\* Every request has been answered.
Idle == (\A c \in Calls : pc[c] = "done") /\ UNCHANGED vars

Next == (\E c \in Calls : CallStep(c)) \/ Retain \/ Crash \/ Idle

Spec == Init /\ [][Next]_vars

\* The event loop resumes every call whose await is over, and the broker answers.
FairSpec == Spec /\ \A c \in Calls : WF_vars(CallStep(c))

-----------------------------------------------------------------------------
(* Properties *)

\* No retained message is lost and none is in two hands: it is in the queue or
\* held by one call until it was dropped, or replayed with the publish confirmed.
NothingVanishes ==
  /\ 1..last = ready \cup Holding \cup confirmed \cup dropped
  /\ ready \cap Holding = {}
  /\ \A c, d \in Calls : c # d => HeldBy(c) \cap HeldBy(d) = {}

\* "A replayed message can fail again and return to this queue during the same
\* call; those must not be counted in this replay" (core.py:280): a replay never
\* holds a message retained after its first publish.
ReplayTakesOnlyWaiting ==
  \A c \in Calls : fence[c] # 0 => \A m \in HeldBy(c) : m <= fence[c]

\* Every call is answered, whatever raises and however messages come back.
CallsEnd == \A c \in Calls : pc[c] # "idle" ~> pc[c] = "done"

=============================================================================
