----------------------------- MODULE MCFlowContext -----------------------------
(* An HTTP connection, an event consumer and a task that user code creates. *)
EXTENDS FlowContext, TLC

CONSTANTS conn, w1
Kinds1 == (conn :> "http") @@ (w1 :> "event")
================================================================================
