---------------------------- MODULE MCContainer ----------------------------
(* Instances of Container for TLC. *)
EXTENDS Container

CONSTANTS t1, t2
=============================================================================
