--------------------------- MODULE MCTotpEnrollment ---------------------------
(* The enrollment, for TLC: three setup keys, two attempts, two alike late requests. *)
EXTENDS TotpEnrollment, TLC

Symmetry == Permutations(Secret)
=============================================================================
