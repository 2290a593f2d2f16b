-------------------------- MODULE MCFencedDispatch --------------------------
(* Small instances of FencedDispatch for TLC. *)
EXTENDS FencedDispatch

CONSTANTS c1, c2, t1, t2

TwoCallers == {c1, c2}
TwoTokens == {t1, t2}
OneTTL == {TTL}
=============================================================================
