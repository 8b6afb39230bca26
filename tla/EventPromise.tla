---------------------------- MODULE EventPromise ----------------------------
(* What Kontiki promises about an event once it has been published, seen     *)
(* from outside.  A competing ("work") event is never lost, is failed at     *)
(* most MaxAttempts times and ends handled or retained; a one-off event      *)
(* (broadcast, in_session) is given up at its first failure.  EventDelivery  *)
(* implements this specification (EventDelivery!KeepsPromise).               *)
EXTENDS Naturals

CONSTANTS
  Work,        \* events on competing queues
  OneOff,      \* broadcast and in_session events
  MaxAttempts  \* kontiki.amqp.max_attempts

VARIABLES
  state,       \* what has become of each event
  failures     \* failed deliveries counted against MaxAttempts

pvars == <<state, failures>>

Events == Work \cup OneOff

Pending == {m \in Events : state[m] = "pending"}

PInit ==
  /\ state = [m \in Events |-> "unsent"]
  /\ failures = [m \in Events |-> 0]

\* An event that no queue is bound for is dropped by the exchange at once.
Send(m) ==
  /\ state[m] = "unsent"
  /\ \E s \in {"pending", "dropped"} : state' = [state EXCEPT ![m] = s]
  /\ UNCHANGED failures

Handle(m) ==
  /\ m \in Pending
  /\ state' = [state EXCEPT ![m] = "handled"]
  /\ UNCHANGED failures

\* Deliveries fail, several at once when the process that holds them goes away:
\* a work event counts it and is retained at its MaxAttempts-th failure, a
\* one-off event is gone.
Fail(failed, given_up) ==
  /\ failed \subseteq Work \cap Pending
  /\ given_up \subseteq OneOff \cap Pending
  /\ failures' = [m \in Events |-> IF m \in failed THEN failures[m] + 1 ELSE failures[m]]
  /\ state' = [m \in Events |->
       CASE m \in given_up -> "dropped"
         [] m \in failed /\ failures'[m] = MaxAttempts -> "retained"
         [] OTHER -> state[m]]

PNext ==
  \/ \E m \in Events : Send(m) \/ Handle(m)
  \/ \E failed \in SUBSET Work, given_up \in SUBSET OneOff : Fail(failed, given_up)

Promise == PInit /\ [][PNext]_pvars
=============================================================================
