--------------------------- MODULE MCImageDeploy ---------------------------
(* A small instance of ImageDeploy for TLC. *)
EXTENDS ImageDeploy, TLC

CONSTANTS s1, s2, k1, k2

\* The second source changes the profile.
MCLock == [s \in Source |-> IF s = s1 THEN k1 ELSE k2]

\* The runs of a script are alike.
Alike == Permutations(Push) \cup Permutations(Deploy)
=============================================================================
