------------------------- MODULE MCConfirmationGuard -------------------------
(* The in-memory guard, for TLC. *)
EXTENDS ConfirmationGuard, TLC

Symmetry ==
    Permutations(Call) \cup Permutations(Caller) \cup
    Permutations(Action) \cup Permutations(Payload \ Oversized)
=============================================================================
