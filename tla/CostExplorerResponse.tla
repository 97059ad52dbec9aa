------------------------ MODULE CostExplorerResponse ------------------------
(***************************************************************************)
(* AwsCostExplorerAdapter.get_cost_and_usage: one request, and the loop    *)
(* that copies the answer's periods and groups into the result under a cap *)
(* on each.                                                                *)
(*                                                                         *)
(* Cost Explorer is not trusted: a period may have unreadable dates, an    *)
(* unusable total or something else in place of its groups, and a group    *)
(* may be invalid.  A period and a group are known by their positions, so  *)
(* the result says which were copied and in which order.                   *)
(***************************************************************************)
EXTENDS Integers, Sequences, FiniteSets

CONSTANTS MAX_COST_PERIODS, MAX_COST_GROUPS,
          Response  \* the answers that have a list of periods

Group == {"valid", "invalid"}
NotAList == <<"not a list">>
Period == [dates : BOOLEAN, total : {"empty", "amount", "invalid"},
           groups : Seq(Group) \cup {NotAList}]

ASSUME ResponseAssumption ==
    /\ MAX_COST_PERIODS \in Nat \ {0} /\ MAX_COST_GROUPS \in Nat \ {0}
    /\ Response \subseteq [ResultsByTime : Seq(Period), NextPageToken : BOOLEAN]

VARIABLES cost_pc, response, next,
          sanitized_periods, group_count, malformed_count, clipped

resultVars == <<sanitized_periods, group_count, malformed_count, clipped>>
costVars == <<cost_pc, response, next, resultVars>>

NoResponse == [ResultsByTime |-> <<>>, NextPageToken |-> FALSE]

CopiedGroups ==
    {copy \in (DOMAIN sanitized_periods) \X (1..MAX_COST_GROUPS) :
        copy[2] <= Len(sanitized_periods[copy[1]].groups)}

CostTypeOK ==
    /\ cost_pc \in {"asking", "reading", "done", "failed"}
    /\ response \in [ResultsByTime : Seq(Period), NextPageToken : BOOLEAN]
    /\ next \in 1..MAX_COST_PERIODS + 1
    /\ sanitized_periods \in Seq([period : Nat, groups : Seq(Nat)])
    /\ Len(sanitized_periods) <= MAX_COST_PERIODS
    /\ group_count \in 0..MAX_COST_GROUPS /\ group_count = Cardinality(CopiedGroups)
    /\ malformed_count \in Nat
    /\ clipped \in BOOLEAN

CostInit ==
    /\ cost_pc = "asking" /\ response = NoResponse /\ next = 1
    /\ sanitized_periods = <<>>
    /\ group_count = 0 /\ malformed_count = 0 /\ clipped = FALSE

-----------------------------------------------------------------------------
RawPeriods == response.ResultsByTime

ToRead == next <= Len(RawPeriods) /\ next <= MAX_COST_PERIODS

\* The request raises, or its answer has no list of periods.
QueryFails ==
    /\ cost_pc = "asking" /\ cost_pc' = "failed"
    /\ UNCHANGED <<response, next, resultVars>>

\* A page token is not followed.
Receive ==
    /\ cost_pc = "asking" /\ cost_pc' = "reading"
    /\ response' \in Response
    /\ clipped' = (response'.NextPageToken \/ Len(response'.ResultsByTime) > MAX_COST_PERIODS)
    /\ UNCHANGED <<next, sanitized_periods, group_count, malformed_count>>

OmitPeriod ==
    /\ cost_pc = "reading" /\ ToRead
    /\ ~RawPeriods[next].dates
    /\ malformed_count' = malformed_count + 1
    /\ next' = next + 1
    /\ UNCHANGED <<cost_pc, response, sanitized_periods, group_count, clipped>>

RawGroups(p) == IF p.groups = NotAList THEN <<>> ELSE p.groups

\* The positions of the groups of kind g.
Positions(p, g) == {j \in DOMAIN RawGroups(p) : RawGroups(p)[j] = g}

\* The numbers of a finite set, in ascending order.
Ascending(S) ==
    [k \in 1..Cardinality(S) |->
        CHOOSE i \in S : Cardinality({j \in S : j < i}) = k - 1]

\* Mutated form: the cap is applied to each period by itself.
RemainingOfPeriod == MAX_COST_GROUPS

Remaining == MAX_COST_GROUPS - group_count

\* The positions that are looked at.
Taken == 1..Remaining

\* Mutated form: a total that cannot be read is shown as absent.
MalformedGroupsIn(p) ==
    (IF p.groups = NotAList THEN 1 ELSE 0) + Cardinality(Positions(p, "invalid") \cap Taken)

MalformedIn(p) ==
    (IF p.total = "invalid" THEN 1 ELSE 0) + (IF p.groups = NotAList THEN 1 ELSE 0)
    + Cardinality(Positions(p, "invalid") \cap Taken)

\* Mutated form: the periods after the last group are dropped silently.
ClipsGroupsOnly(p, full) == Len(RawGroups(p)) > Remaining

\* More groups than there is room for, or a full result with periods left.
Clips(p, full) == full \/ Len(RawGroups(p)) > Remaining

CopyPeriod ==
    /\ cost_pc = "reading" /\ ToRead
    /\ LET p == RawPeriods[next]
           groups == Ascending(Positions(p, "valid") \cap Taken)
           full == /\ group_count' >= MAX_COST_GROUPS
                   /\ Len(RawPeriods) > Len(sanitized_periods')
       IN  /\ p.dates
           /\ sanitized_periods' =
                Append(sanitized_periods, [period |-> next, groups |-> groups])
           /\ group_count' = group_count + Len(groups)
           /\ malformed_count' = malformed_count + MalformedIn(p)
           /\ clipped' = (clipped \/ Clips(p, full))
           /\ next' = next + 1
           /\ cost_pc' = IF full THEN "done" ELSE "reading"
    /\ UNCHANGED response

Finish ==
    /\ cost_pc = "reading" /\ ~ToRead
    /\ cost_pc' = "done"
    /\ UNCHANGED <<response, next, resultVars>>

CostNext == QueryFails \/ Receive \/ OmitPeriod \/ CopyPeriod \/ Finish

CostSpec == CostInit /\ [][CostNext]_costVars

-----------------------------------------------------------------------------
(* What the answer holds, independently of how it is read. *)

ReadablePeriods == Ascending({i \in DOMAIN RawPeriods : RawPeriods[i].dates})

AllPeriods ==
    [k \in DOMAIN ReadablePeriods |->
        [period |-> ReadablePeriods[k],
         groups |-> Ascending(Positions(RawPeriods[ReadablePeriods[k]], "valid"))]]
=============================================================================
