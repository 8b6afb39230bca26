-------------------------- MODULE MCFailedMessages --------------------------
(* Instances of FailedMessages for TLC: calls named after their kind. *)
EXTENDS FailedMessages

AllKinds == {"list", "replay", "drop"}

KindIsName == [c \in Calls |-> c]
OneEach == [c \in Calls |-> 1]
TwoEach == [c \in Calls |-> 2]
=============================================================================
