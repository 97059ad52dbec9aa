------------------------------ MODULE AwsReads ------------------------------
(***************************************************************************)
(* The tools that read AWS, from the adapter to the result the caller gets *)
(* (ToolService.run_aws_operation, the end of execute_aws_cost_query, and  *)
(* _bounded_result).  The project inventory and the reading of a Cost      *)
(* Explorer answer are modules of their own; the two-service inventory and *)
(* the Resource Explorer search are here.                                  *)
(*                                                                         *)
(* An item of a listing is known by its position: it is valid, or its      *)
(* sanitisation refuses it.                                                *)
(***************************************************************************)
EXTENDS ProjectInventory, CostExplorerResponse

CONSTANTS Limit,   \* max_resources_per_service, and the limit of a search
          Answer,  \* the listings a service may answer with
          Unavailable, None

\* What sanitisation makes of an item.
Sanitized == {"valid", "invalid"}

ASSUME AnswerAssumption ==
    /\ Limit \in Nat \ {0}
    /\ Answer \subseteq [items : Seq(Sanitized), more : BOOLEAN]
    /\ Unavailable \notin Answer

VARIABLES
    tool,     \* the tool that was called
    answers,  \* what came of each request for a listing
    sent,     \* how many requests the tool made of AWS
    adapted,  \* what the adapter returned
    result    \* what the tool returned

listingVars == <<answers, sent>>
vars == <<projectVars, costVars, tool, listingVars, adapted, result>>

\* What an adapter returns (AwsAdapterResult), and what the tool makes of it:
\* "marked" when the data itself says that there is more.
ResultOK(r) ==
    r # None =>
        /\ r.status \in {"ok", "partial", "error"}
        /\ r.issues \in BOOLEAN /\ r.marked \in BOOLEAN
        /\ r.data # None => Len(r.data) <= MaxResources + 2 * Limit + MAX_COST_PERIODS
        /\ r.sdk_requests \in Nat /\ r.resources \in Nat

TypeOK ==
    /\ ProjectTypeOK /\ CostTypeOK
    /\ tool \in {"inventory", "search", "project", "cost"}
    /\ answers \in Seq(Answer \cup {Unavailable}) /\ Len(answers) <= 2
    /\ sent \in Nat
    /\ ResultOK(adapted) /\ ResultOK(result)

Init ==
    /\ ProjectInit /\ CostInit
    /\ tool \in {"inventory", "search", "project", "cost"}
    /\ answers = <<>> /\ sent = 0
    /\ adapted = None /\ result = None

-----------------------------------------------------------------------------
(* The requests of the two listing tools. *)

ServicesOf(t) == IF t = "inventory" THEN 2 ELSE 1

\* A listing may be asked for.
Asking(t) ==
    tool = t /\ adapted = None /\ result = None /\ Len(answers) < ServicesOf(t)

Ask(t, more_sent, answer) ==
    /\ Asking(t)
    /\ answers' = Append(answers, answer)
    /\ sent' = sent + more_sent
    /\ UNCHANGED <<projectVars, costVars, tool, adapted, result>>

\* The request raises, or its answer has no list; a client that cannot be
\* created is counted as a request all the same.
ListingFails ==
    \E t \in {"inventory", "search"}, n \in 0..1 : Ask(t, n, Unavailable)

ListingAnswered ==
    \E t \in {"inventory", "search"}, answer \in Answer : Ask(t, 1, answer)

\* AdapterError: the arguments of a search are refused.
ArgumentsRefused ==
    /\ Asking("search")
    /\ result' = [status |-> "error", issues |-> TRUE, marked |-> FALSE,
                  data |-> None, sdk_requests |-> 0, resources |-> 0]
    /\ UNCHANGED <<projectVars, costVars, tool, listingVars, adapted>>

-----------------------------------------------------------------------------
(* What the adapters return. *)

\* The positions of the valid items among those that are looked at.
Listed(answer) ==
    IF answer = Unavailable THEN <<>>
    ELSE Ascending({i \in DOMAIN answer.items : i <= Limit /\ answer.items[i] = "valid"})

Adapt(t, status, issues, marked, data, count, requests) ==
    /\ tool = t /\ adapted = None /\ result = None
    /\ adapted' = [status |-> status, issues |-> issues, marked |-> marked, data |-> data,
                   sdk_requests |-> requests, resources |-> count]
    /\ UNCHANGED <<projectVars, costVars, tool, listingVars, result>>

\* Mutated form: whatever is wrong makes the result an error.
StatusWithoutPartial(fine, data) == IF fine THEN "ok" ELSE "error"

\* The ladder of the project inventory, of a search and of a cost query.
StatusOf(fine, data) ==
    IF fine THEN "ok" ELSE IF data # <<>> THEN "partial" ELSE "error"

\* Each service has a status, a mark and a list of its own; an item that is
\* no record is skipped and what is beyond the limit is left out.
InventoryEnds ==
    /\ Len(answers) = 2
    /\ LET failed == Cardinality({i \in 1..2 : answers[i] = Unavailable})
       IN  Adapt("inventory",
                 CASE failed = 0 -> "ok" [] failed = 1 -> "partial" [] OTHER -> "error",
                 failed > 0,
                 \E i \in 1..2 : answers[i] # Unavailable /\ answers[i].more,
                 Listed(answers[1]) \o Listed(answers[2]),
                 Len(Listed(answers[1])) + Len(Listed(answers[2])), 2)

SearchTruncated(answer) == answer.more \/ Len(answer.items) > Limit

SearchEnds ==
    /\ answers # <<>> /\ answers[1] # Unavailable
    /\ LET listed == Listed(answers[1])
           fine == \A i \in DOMAIN answers[1].items :
                        i <= Limit => answers[1].items[i] = "valid"
       IN  Adapt("search", StatusOf(fine, listed), ~fine, SearchTruncated(answers[1]),
                 listed, Len(listed), 1)

\* A view that is not configured fails before any request.
SearchFails ==
    \/ answers = <<>> /\ Adapt("search", "error", TRUE, FALSE, <<>>, 0, 0)
    \/ answers = <<Unavailable>> /\ Adapt("search", "error", TRUE, FALSE, <<>>, 0, 1)

\* _project_inventory_result
ProjectEnds ==
    /\ project_pc = "done"
    /\ Adapt("project", StatusOf(complete /\ issue_codes = {}, resources),
             issue_codes # {}, ~complete, resources, Len(resources), sdk_requests)

CostEnds ==
    \/ /\ cost_pc = "done"
       /\ Adapt("cost", StatusOf(malformed_count = 0, sanitized_periods),
                malformed_count # 0, clipped,
                sanitized_periods, group_count, 1)
    \/ cost_pc = "failed" /\ Adapt("cost", "error", TRUE, FALSE, <<>>, 0, 1)

-----------------------------------------------------------------------------
(* What the tool makes of it. *)

\* Mutated form: a result that is too large says nothing of its requests.
ResultTooLargeUncounted ==
    [adapted EXCEPT !.status = "error", !.data = None, !.issues = TRUE, !.sdk_requests = 0]

\* result_too_large: nothing of the data, and the counters as they are.
ResultTooLarge == [adapted EXCEPT !.status = "error", !.data = None, !.issues = TRUE]

\* _bounded_result; an "ok" result carries no issues.
BoundedResult ==
    /\ adapted # None /\ result = None
    /\ \/ adapted.data # <<>> /\ result' = ResultTooLarge
       \/ result' = [adapted EXCEPT !.issues = adapted.status # "ok" /\ adapted.issues]
    /\ UNCHANGED <<projectVars, costVars, tool, listingVars, adapted>>

\* The inventory makes a request whenever it may.
ProjectStep ==
    /\ tool = "project" /\ ProjectNext
    /\ sent' = IF MayAsk THEN sent + 1 ELSE sent
    /\ UNCHANGED <<costVars, tool, answers, adapted, result>>

\* The query is made, unless its client cannot be created.
CostStep ==
    /\ tool = "cost" /\ CostNext
    /\ \/ cost_pc = "asking" /\ sent' = sent + 1
       \/ (cost_pc = "asking" => cost_pc' = "failed") /\ sent' = sent
    /\ UNCHANGED <<projectVars, tool, answers, adapted, result>>

Next ==
    \/ ProjectStep \/ CostStep
    \/ ListingFails \/ ListingAnswered \/ ArgumentsRefused
    \/ InventoryEnds \/ SearchEnds \/ SearchFails \/ ProjectEnds \/ CostEnds
    \/ BoundedResult

Spec == Init /\ [][Next]_vars

-----------------------------------------------------------------------------
(* What AWS answered with, independently of how it is read. *)

Readable(answer) ==
    IF answer = Unavailable THEN <<>>
    ELSE Ascending({i \in DOMAIN answer.items : answer.items[i] = "valid"})

Everything ==
    CASE tool = "inventory" -> Readable(answers[1]) \o Readable(answers[2])
      [] tool = "search" -> IF answers = <<>> THEN <<>> ELSE Readable(answers[1])
      [] tool = "cost" -> IF cost_pc = "failed" THEN <<>> ELSE AllPeriods

WithinLimit ==
    \A i \in DOMAIN answers : answers[i] = Unavailable \/ Len(answers[i].items) <= Limit

Answered == \A i \in DOMAIN answers : answers[i] # Unavailable

\* Period k of the answer is shown as period k, and so are its groups, all of
\* them unless it is the last there was room for.
ShownWhole(data, k) ==
    LET p == RawPeriods[k]
        groups == data[k].groups
    IN  /\ data[k].period = k
        /\ p.total # "invalid" /\ p.groups # NotAList
        /\ \A j \in DOMAIN groups : groups[j] = j
        /\ \/ Len(groups) = Len(RawGroups(p))
           \/ group_count = MAX_COST_GROUPS /\ k = Len(data)

\* The data is the start of the answer, up to a cap.
StartOfAnswer(data) ==
    /\ \A k \in DOMAIN data : ShownWhole(data, k)
    /\ \/ Len(data) \in {Len(RawPeriods), MAX_COST_PERIODS}
       \/ group_count = MAX_COST_GROUPS

AsManyAsAsked(answer) ==
    IF Len(answer.items) <= Limit THEN Len(answer.items) ELSE Limit

\* What was asked for is shown, but for what a cap left out.
NothingWrong(data) ==
    CASE tool = "inventory" -> Answered
      [] tool = "search" ->
            answers # <<>> /\ Answered /\ Len(data) = AsManyAsAsked(answers[1])
      [] tool = "project" -> ended = Stack /\ Len(data) = offered
      [] tool = "cost" -> cost_pc = "done" /\ StartOfAnswer(data)

RequestsFailed ==
    CASE tool = "project" -> 0
      [] tool = "cost" -> IF cost_pc = "failed" THEN 1 ELSE 0
      [] OTHER -> Cardinality({i \in DOMAIN answers : answers[i] = Unavailable})

(***************************************************************************)
(* Data that is not marked as truncated or incomplete holds everything     *)
(* readable that AWS answered with, in order, whatever was malformed,      *)
(* cut or failed on the way.  The project inventory is marked unless every *)
(* stack was listed to its end, and lists nothing twice.  One gap: the     *)
(* two-service inventory cuts a list longer than it asked for unmarked.    *)
(***************************************************************************)
UnmarkedOmitsNothing ==
    result # None /\ result.data # None /\ ~result.marked =>
        IF tool = "project"
        THEN complete /\ CompleteMeansAll /\ ListedOnce
        ELSE (tool = "inventory" /\ ~WithinLimit) \/ result.data = Everything

(***************************************************************************)
(* A result, truncated, clipped or incomplete ones included, is "ok"       *)
(* exactly when nothing was wrong with what was asked for (an item of the  *)
(* two-service inventory that is no record is passed over in silence): the *)
(* services answered, the whole inventory was listed, no item of a search  *)
(* and no row of a cost answer is missing before the place where a cap     *)
(* ended it.  It says what was wrong exactly when it is not "ok".          *)
(***************************************************************************)
StatusTells ==
    result # None =>
        /\ result.issues <=> result.status # "ok"
        /\ result.data # None => (result.status = "ok" <=> NothingWrong(result.data))

(***************************************************************************)
(* What could be read is not thrown away because something else could not: *)
(* an error, other than a result that is too large, shows no items and     *)
(* means that there was none to show.                                      *)
(***************************************************************************)
ErrorMeansNothingRead ==
    result # None /\ result.data # None /\ result.status = "error" =>
        /\ result.data = <<>>
        /\ IF tool = "project" THEN resources = <<>> ELSE result.marked \/ Everything = <<>>

(***************************************************************************)
(* However AWS answers, the requests that a tool reports are those that it *)
(* made, and one for each that failed before it was made; also when the    *)
(* result is too large to be shown.  They stay within the documented       *)
(* bound, and the project inventory asks for no page twice.  The resources *)
(* it counts are those that it read.                                       *)
(***************************************************************************)
RequestsCounted ==
    result # None =>
        /\ sent <= result.sdk_requests /\ result.sdk_requests <= sent + RequestsFailed
        /\ CASE tool = "inventory" -> result.sdk_requests <= 2
             [] tool = "project" -> RequestsBounded /\ sent = Cardinality(asked)
             [] OTHER -> result.sdk_requests <= 1
        /\ result.resources =
             CASE tool = "project" -> Len(resources)
               [] tool = "cost" -> group_count
               [] OTHER -> IF adapted = None THEN 0 ELSE Len(adapted.data)
=============================================================================
