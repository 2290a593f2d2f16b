----------------------------- MODULE MCRank2Run -----------------------------
(* Small instances of Rank2Run for TLC. *)
EXTENDS Rank2Run

SameNode == <<"n1", "n1">>
=============================================================================
