----------------------- MODULE MCDynamoDbConfirmation -----------------------
(* Instances of DynamoDbConfirmation for TLC. *)
EXTENDS DynamoDbConfirmation, TLC

Symmetry ==
    Permutations(Invocation) \cup Permutations(Caller) \cup
    Permutations(Action) \cup Permutations(Payload \ Oversized)
=============================================================================
