----------------------------- MODULE MCPresence -----------------------------
(* A small instance of Presence for TLC. *)
EXTENDS Presence

\* Clocks within the limit of each other, and beyond it.
NearAndFar == {0, 1, 3}
EarlyOrNever == {4, 20}
=============================================================================
