------------------------- MODULE MCValidationWindow -------------------------
(* The development window, for TLC. *)
EXTENDS ValidationWindow, TLC

Symmetry == Permutations(Opener)
=============================================================================
