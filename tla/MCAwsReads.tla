------------------------------ MODULE MCAwsReads ------------------------------
(***************************************************************************)
(* The reading tools, for TLC: pages of at most two items, up to three     *)
(* periods of up to two groups (of a period without dates nothing else is  *)
(* looked at), and listings one longer than was asked for.                 *)
(***************************************************************************)
EXTENDS AwsReads, SequencesExt

CONSTANTS x, y, bad

MCPage == UNION {[1..n -> {x, y, bad}] : n \in 0..2}

MCPeriod ==
    [dates : {TRUE}, total : {"amount", "invalid"},
     groups : BoundedSeq(Group, 2) \cup {<<"not a list">>}]
    \cup {[dates |-> FALSE, total |-> "empty", groups |-> <<>>]}

MCResponse == {[ResultsByTime |-> periods, NextPageToken |-> token_given] :
                  periods \in BoundedSeq(MCPeriod, 3), token_given \in BOOLEAN}

MCAnswer == {[items |-> list, more |-> more] :
                list \in BoundedSeq(Sanitized, Limit + 1), more \in BOOLEAN}

Symmetry == Permutations({x, y}) \cup Permutations(PageToken)
=============================================================================
