-------------------------- MODULE MCEventDelivery --------------------------
(* Instances of EventDelivery for TLC. *)
EXTENDS EventDelivery, TLC

CONSTANTS i1, i2, m1, m2

\* Every event on the competing queue.
AllShared == [m \in Messages |-> Shared]

\* m1 on the competing queue, m2 on the queue of i1.
OneEach == (m1 :> Shared) @@ (m2 :> i1)
=============================================================================
