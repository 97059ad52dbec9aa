----------------------------- MODULE MCCostQuota -----------------------------
(* The monthly quota of either limiter, for TLC. *)
EXTENDS InMemoryQuota, TLC

Symmetry == Permutations(Invocation)
=============================================================================
