-------------------------- MODULE MCLaurentProduct --------------------------
(* A small instance of LaurentProduct for TLC. *)
EXTENDS LaurentProduct

T(qe, te, coef) == [qe |-> qe, te |-> te, coef |-> coef]

\* No term, cancellation, repeated terms, sums that wrap on the way, keys at the
\* sentinel and beyond the domain, a square that fills every lane.
SomeFactors ==
  { <<>>,
    <<T(0, 0, 1), T(1, 0, 1)>>,
    <<T(1, 0, -1), T(0, 0, 1)>>,
    <<T(2, 2, 1), T(1, 1, 1)>>,
    <<T(1, 1, 3), T(0, 0, -1)>>,
    <<T(0, 0, 1), T(0, 0, 3), T(0, 0, -4), T(1, 2, 0)>>,
    <<T(3, 0, 1), T(3, 0, -1)>>,
    <<T(0, 3, 1)>>,
    <<T(1, 1, 1), T(1, 0, 1), T(0, 1, 1), T(0, 0, -1)>> }
=============================================================================
