---------------------------- MODULE MCHeartbeat -----------------------------
(* Small instances of Heartbeat for TLC. *)
EXTENDS Heartbeat
=============================================================================
