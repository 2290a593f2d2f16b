--------------------------- MODULE MCMergeFabric ---------------------------
(* A small instance of MergeFabric for TLC. *)
EXTENDS MergeFabric

CONSTANT a

\* Two NUMA nodes of one host.
MCHost == <<a, a>>

\* The largest total is in the middle, in the last slice, or at the front.
MCScore == [m \in Bound |-> IF m = 1 THEN [p \in 0..Total - 1 |-> <<1, 2, 0>>[p + 1]]
                            ELSE [p \in 0..Total - 1 |-> <<2, 0, 3>>[p + 1]]]
=============================================================================
