----------------------------- MODULE MCRegistry -----------------------------
(* Registry on a small instance, for TLC: one instance per service, so that *)
(* every registration changes the dict that a monitoring round iterates.    *)
EXTENDS Registry, TLC

OwnService == [i \in Instances |-> i]

=============================================================================
