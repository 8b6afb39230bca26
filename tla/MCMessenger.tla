----------------------------- MODULE MCMessenger -----------------------------
(* Messenger on a small instance, for TLC.                                  *)
EXTENDS Messenger
=============================================================================
