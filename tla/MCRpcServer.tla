---------------------------- MODULE MCRpcServer ----------------------------
(* Instances of RpcServer for TLC. *)
EXTENDS RpcServer, TLC

CONSTANTS i1, i2, r1, r2, r3

\* r2 for i1 alone, the others on the shared queue.
OneEach == [r \in Requests |-> IF r = r2 THEN i1 ELSE Shared]
=============================================================================
