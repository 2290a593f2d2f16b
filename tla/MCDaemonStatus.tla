--------------------------- MODULE MCDaemonStatus ---------------------------
(* A small instance of Daemon and DaemonStatus for TLC. *)
EXTENDS DaemonStatus

CONSTANTS h1, h2

TwoThreads == {h1, h2}
=============================================================================
