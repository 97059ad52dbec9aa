---------------------------- MODULE MCToolService ----------------------------
(***************************************************************************)
(* The write and billable tools, for TLC.  Four calls are what it takes    *)
(* for two confirmed queries to meet at the last slot; so that they can be *)
(* searched, all but one are of one caller with the same arguments.        *)
(***************************************************************************)
EXTENDS ToolService, FiniteSets, TLC

CONSTANTS alice, good  \* the caller and the arguments of all calls but one

Unusual(c) ==
    /\ binding[c] # Nothing
    /\ <<binding[c].caller, binding[c].payload>> # <<alice, good>>

OneUnusual == Cardinality({c \in Call : Unusual(c)}) <= 1

Symmetry == Permutations(Call)
=============================================================================
