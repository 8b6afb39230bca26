------------------------- MODULE MCActivityTracker -------------------------
(* Instances of ActivityTracker for TLC. *)
EXTENDS ActivityTracker, TLC

CONSTANTS h1, h2, h3, c1, x1, x2

Kinds == [r \in Records |->
  CASE r \in {h1, h2, h3} -> "hop" [] r = c1 -> "context" [] OTHER -> "exception"]
=============================================================================
