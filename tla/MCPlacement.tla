---------------------------- MODULE MCPlacement -----------------------------
(* Small instances of Placement for TLC. *)
EXTENDS Placement, TLC

CONSTANTS p1, p2, p3

ThreePools == {p1, p2, p3}
Mixed == (p1 :> 0 @@ p2 :> 1 @@ p3 :> 1)
Bottom == -10
=============================================================================
