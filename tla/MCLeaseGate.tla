---------------------------- MODULE MCLeaseGate -----------------------------
(* Small instances of LeaseGate for TLC. *)
EXTENDS LeaseGate, TLC

CONSTANTS h1, h2, t1, t2, t3, t4

MCHandlers == {h1, h2}
MCToken == {t1, t2, t3, t4}
MCOfferedTTL == 0..3   \* one below and one above what is admitted

\* Handlers and tokens are interchangeable (safety runs only).
Symmetry == Permutations(MCHandlers) \cup Permutations(MCToken)
=============================================================================
