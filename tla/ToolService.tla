----------------------------- MODULE ToolService -----------------------------
(***************************************************************************)
(* The write and billable tools (services/tools.py, http_server.py): a     *)
(* prepare issues a confirmation; an execute validates its arguments,      *)
(* consumes the confirmation, for a cost query takes a monthly slot, and   *)
(* then makes one request to Telegram, Trello or Cost Explorer.  Every     *)
(* call runs in an invocation of its own; calls interleave between any two *)
(* remote steps and an invocation can be lost at each of them.             *)
(*                                                                         *)
(* The confirmation provider is the one of ConfirmationContract, which     *)
(* both guards implement.  The quota is one month of the limiter.  What a  *)
(* provider does with a request it has received does not wait for the call *)
(* that sent it.                                                           *)
(***************************************************************************)
EXTENDS Naturals

CONSTANTS Call, Caller, Payload,
          Tool,           \* a subset of {"telegram", "trello", "cost"}
          Invalid,        \* payloads that fail validation
          UnknownToken, Nothing,
          Limit           \* MONTHLY_COST_REQUEST_LIMIT

Token == Call \cup {UnknownToken}
Binding == [caller : Caller, action : Tool, payload : Payload]

ASSUME ToolAssumption ==
    /\ Tool \subseteq {"telegram", "trello", "cost"}
    /\ Invalid \subseteq Payload
    /\ UnknownToken \notin Call
    /\ Nothing \notin Binding
    /\ Nothing \notin [token : Token, binding : Binding]
    /\ Limit \in Nat \ {0}

VARIABLES issued, asked, spent, confirmed,  \* the confirmation provider
          count,     \* the count in the month's row
          slot,      \* what each call's increment made of it; 0 if none was applied
          binding,   \* what each call is about
          phase,     \* where each call stands
          counters,  \* its OperationCounters
          request,   \* its provider request: in flight, accepted, rejected or broken
          result     \* the code of its ToolResult

guardVars == <<issued, asked, spent, confirmed>>
quotaVars == <<count, slot>>
callVars == <<binding, phase, counters, request, result>>
vars == <<guardVars, quotaVars, callVars>>

Guard == INSTANCE ConfirmationContract

Counters == [attempted : 0..1, succeeded : 0..1, sdk_requests : 0..1]
ZeroCounters == [attempted |-> 0, succeeded |-> 0, sdk_requests |-> 0]

Codes == {"invalid_arguments", "confirmation_required", "confirmation_refused",
          "quota_refused", "config_unavailable", "config_invalid",
          "destination_not_configured", "rejected", "outcome_unknown",
          "unavailable", "query_unavailable", "unreadable_response",
          "invalid_response", "result_too_large", "ok"}

Phases == {"idle", "preparing", "confirming", "acquiring", "configuring",
           "calling", "answered", "returned", "lost"}

TypeOK ==
    /\ Guard!ContractTypeOK
    /\ count \in Nat /\ slot \in [Call -> Nat]
    /\ binding \in [Call -> Binding \cup {Nothing}]
    /\ phase \in [Call -> Phases]
    /\ counters \in [Call -> Counters]
    /\ request \in [Call -> {"none", "inFlight", "accepted", "rejected", "broken"}]
    /\ result \in [Call -> Codes \cup {"none"}]

Init ==
    /\ Guard!ContractInit
    /\ count = 0 /\ slot = [c \in Call |-> 0]
    /\ binding = [c \in Call |-> Nothing]
    /\ phase = [c \in Call |-> "idle"]
    /\ counters = [c \in Call |-> ZeroCounters]
    /\ request = [c \in Call |-> "none"]
    /\ result = [c \in Call |-> "none"]

-----------------------------------------------------------------------------
Goto(c, p) == phase' = [phase EXCEPT ![c] = p]

Answer(c, code) ==
    /\ Goto(c, "answered")
    /\ result' = [result EXCEPT ![c] = code]

Begin(c, b) ==
    /\ phase[c] = "idle"
    /\ binding' = [binding EXCEPT ![c] = b]

\* A token reaches its caller with the result of the prepare that drew it.
Presentable ==
    {UnknownToken} \cup
    {c \in Call : phase[c] = "returned" /\ result[c] = "confirmation_required"}

\* Arguments out of bounds, an unknown destination, an operation that is not
\* registered or an adapter that is not configured: no remote step is taken.
RefuseArguments(c, b) ==
    /\ Begin(c, b)
    /\ b.payload \in Invalid
    /\ Answer(c, "invalid_arguments")
    /\ UNCHANGED <<guardVars, quotaVars, counters, request>>

Prepare(c, b) ==
    /\ Begin(c, b)
    /\ b.payload \notin Invalid
    /\ Goto(c, "preparing")
    /\ UNCHANGED <<guardVars, quotaVars, counters, request, result>>

Prepared(c) ==
    /\ phase[c] = "preparing"
    /\ issued[c] # Nothing
    /\ Answer(c, "confirmation_required")
    /\ UNCHANGED <<guardVars, quotaVars, binding, counters, request>>

PrepareFails(c) ==
    /\ phase[c] = "preparing"
    /\ Answer(c, "confirmation_refused")
    /\ UNCHANGED <<guardVars, quotaVars, binding, counters, request>>

\* The counters of an execute are created here, after validation.
Execute(c, t, b) ==
    /\ Begin(c, b)
    /\ b.payload \notin Invalid
    /\ t \in Presentable
    /\ Guard!Ask(c, [token |-> t, binding |-> b])
    /\ Goto(c, "confirming")
    /\ UNCHANGED <<quotaVars, counters, request, result>>

-----------------------------------------------------------------------------
(* The stores and the providers. *)

GuardIssues(c) ==
    /\ binding[c] # Nothing /\ asked[c] = Nothing /\ binding[c].payload \notin Invalid
    /\ Guard!Issue(c, binding[c])
    /\ UNCHANGED <<quotaVars, callVars>>

GuardSpends(c) ==
    /\ Guard!Spend(c, {})
    /\ UNCHANGED <<quotaVars, callVars>>

\* Applied while the call waits, or after it stopped waiting.
Acquiring(c) ==
    c \in confirmed /\ binding[c].action = "cost" /\ phase[c] # "confirming"

\* Mutated form: the row is not updated under its own condition.
QuotaTakesUnasked(c) ==
    /\ Acquiring(c) /\ slot[c] = 0
    /\ count' = count + 1
    /\ slot' = [slot EXCEPT ![c] = count + 1]
    /\ UNCHANGED <<guardVars, callVars>>

QuotaTakes(c) ==
    /\ Acquiring(c) /\ slot[c] = 0
    /\ count < Limit
    /\ count' = count + 1
    /\ slot' = [slot EXCEPT ![c] = count + 1]
    /\ UNCHANGED <<guardVars, callVars>>

ProviderAccepts(c) ==
    /\ request[c] = "inFlight"
    /\ request' = [request EXCEPT ![c] = "accepted"]
    /\ UNCHANGED <<guardVars, quotaVars, binding, phase, counters, result>>

\* Refused, or answered with a server error, which tells nothing of whether
\* the provider acted.
ProviderRejects(c) ==
    /\ request[c] = "inFlight"
    /\ \E how \in {"rejected", "broken"} : request' = [request EXCEPT ![c] = how]
    /\ UNCHANGED <<guardVars, quotaVars, binding, phase, counters, result>>

-----------------------------------------------------------------------------
(* The call. *)

\* Mutated form: a call proceeds on a store that did not answer.
ConfirmedOrUnanswered(c) ==
    /\ phase[c] = "confirming"
    /\ UNCHANGED guardVars
    /\ Goto(c, IF binding[c].action = "cost" THEN "acquiring" ELSE "configuring")
    /\ counters' = [counters EXCEPT ![c].attempted = 1]
    /\ UNCHANGED <<quotaVars, binding, request, result>>

\* consume returns; a write is counted before the adapter is called.
Confirmed(c) ==
    /\ phase[c] = "confirming"
    /\ Guard!Confirm(c)
    /\ \/ /\ binding[c].action = "cost"
          /\ Goto(c, "acquiring")
          /\ UNCHANGED counters
       \/ /\ binding[c].action # "cost"
          /\ Goto(c, "configuring")
          /\ counters' = [counters EXCEPT ![c].attempted = 1]
    /\ UNCHANGED <<quotaVars, binding, request, result>>

\* consume raises: refused, or no answer from a store that may have spent it.
ConfirmationRefused(c) ==
    /\ phase[c] = "confirming"
    /\ Answer(c, "confirmation_refused")
    /\ UNCHANGED <<guardVars, quotaVars, binding, counters, request>>

\* The quota raises: exhausted, or no answer.  The confirmation stays spent.
QuotaRefused(c) ==
    /\ phase[c] = "acquiring"
    /\ Answer(c, "quota_refused")
    /\ UNCHANGED <<guardVars, quotaVars, binding, counters, request>>

\* The request is counted first; a client that cannot be built sends nothing.
SendCostQuery(c) ==
    /\ phase[c] = "acquiring"
    /\ slot[c] # 0
    /\ counters' = [counters EXCEPT ![c].sdk_requests = 1]
    /\ \/ request' = [request EXCEPT ![c] = "inFlight"]
       \/ UNCHANGED request
    /\ Goto(c, "calling")
    /\ UNCHANGED <<guardVars, quotaVars, binding, result>>

\* Before the request is built: nothing was sent, and the confirmation is spent.
NothingSent(c, code) ==
    /\ phase[c] = "configuring"
    /\ Answer(c, code)
    /\ UNCHANGED <<guardVars, quotaVars, binding, counters, request>>

\* The parameter cannot be read, is of another kind or holds no object.
ConfigUnavailable(c) == NothingSent(c, "config_unavailable")

\* The provider's part is missing, or what is in it has the wrong form.
ConfigInvalid(c) == NothingSent(c, "config_invalid")

\* The destination that was confirmed is not among those configured.
DestinationNotConfigured(c) == NothingSent(c, "destination_not_configured")

SendWrite(c) ==
    /\ phase[c] = "configuring"
    /\ request' = [request EXCEPT ![c] = "inFlight"]
    /\ Goto(c, "calling")
    /\ UNCHANGED <<guardVars, quotaVars, binding, counters, result>>

\* A status outside 2xx, server errors included, or Telegram's "ok" not true.
WriteRejected(c) ==
    /\ phase[c] = "calling" /\ request[c] \in {"rejected", "broken"}
    /\ binding[c].action # "cost"
    /\ Answer(c, "rejected")
    /\ UNCHANGED <<guardVars, quotaVars, binding, counters, request>>

\* A 2xx answer that is too long or no JSON object.
UnreadableResponse(c) ==
    /\ phase[c] = "calling" /\ request[c] = "accepted"
    /\ Answer(c, "unreadable_response")
    /\ UNCHANGED <<guardVars, quotaVars, binding, counters, request>>

\* An object without the identifier of what was created.
InvalidResponse(c) ==
    /\ phase[c] = "calling" /\ request[c] = "accepted"
    /\ binding[c].action # "cost"
    /\ Answer(c, "invalid_response")
    /\ UNCHANGED <<guardVars, quotaVars, binding, counters, request>>

\* Mutated form: the adapter's sdk_requests are added to the one counted before.
ProviderOkCountedTwice(c) ==
    /\ phase[c] = "calling" /\ request[c] = "accepted"
    /\ counters' = IF binding[c].action = "cost"
                   THEN [counters EXCEPT ![c].sdk_requests = @ + 1]
                   ELSE [counters EXCEPT ![c].succeeded = 1]
    /\ Answer(c, "ok")
    /\ UNCHANGED <<guardVars, quotaVars, binding, request>>

\* The bound on the result is checked after the write was counted.
ProviderOk(c) ==
    /\ phase[c] = "calling" /\ request[c] = "accepted"
    /\ counters' = IF binding[c].action = "cost" THEN counters
                   ELSE [counters EXCEPT ![c].succeeded = 1]
    /\ \E code \in {"ok", "result_too_large"} : Answer(c, code)
    /\ UNCHANGED <<guardVars, quotaVars, binding, request>>

\* Mutated forms: a timeout reported as a rejection; as a success.
TimeoutAsRejection(c) ==
    /\ phase[c] = "calling"
    /\ Answer(c, "rejected")
    /\ UNCHANGED <<guardVars, quotaVars, binding, counters, request>>

TimeoutAsSuccess(c) ==
    /\ phase[c] = "calling"
    /\ Answer(c, "ok")
    /\ counters' = [counters EXCEPT ![c].succeeded = 1]
    /\ UNCHANGED <<guardVars, quotaVars, binding, request>>

\* No usable answer in time: the provider may have the request, or get it
\* later.  Every exception of the Cost Explorer client, a rejection included,
\* is one code.
ProviderTimeout(c) ==
    /\ phase[c] = "calling"
    /\ \E code \in IF binding[c].action = "cost" THEN {"query_unavailable"}
                   ELSE {"outcome_unknown", "unavailable"} : Answer(c, code)
    /\ UNCHANGED <<guardVars, quotaVars, binding, counters, request>>

\* audited_result: an exception of the sink is swallowed.
AuditAndReturn(c) ==
    /\ phase[c] = "answered"
    /\ Goto(c, "returned")
    /\ UNCHANGED <<guardVars, quotaVars, binding, counters, request, result>>

\* The runtime stops the invocation.
Lose(c) ==
    /\ phase[c] \notin {"idle", "returned", "lost"}
    /\ Goto(c, "lost")
    /\ UNCHANGED <<guardVars, quotaVars, binding, counters, request, result>>

-----------------------------------------------------------------------------
CallStep(c) ==
    \/ Prepared(c) \/ PrepareFails(c)
    \/ Confirmed(c) \/ ConfirmationRefused(c)
    \/ QuotaRefused(c) \/ SendCostQuery(c)
    \/ ConfigUnavailable(c) \/ ConfigInvalid(c) \/ DestinationNotConfigured(c)
    \/ SendWrite(c) \/ WriteRejected(c) \/ UnreadableResponse(c) \/ InvalidResponse(c)
    \/ ProviderOk(c) \/ ProviderTimeout(c)
    \/ AuditAndReturn(c)

RemoteStep(c) ==
    GuardIssues(c) \/ GuardSpends(c) \/ QuotaTakes(c)
    \/ ProviderAccepts(c) \/ ProviderRejects(c)

Next ==
    \/ \E c \in Call, b \in Binding : RefuseArguments(c, b) \/ Prepare(c, b)
    \/ \E c \in Call, t \in Token, b \in Binding : Execute(c, t, b)
    \/ \E c \in Call : CallStep(c) \/ RemoteStep(c) \/ Lose(c)

Spec == Init /\ [][Next]_vars

-----------------------------------------------------------------------------
Sent(c) == request[c] # "none"

(***************************************************************************)
(* One confirmation never leads to two provider requests, however calls    *)
(* that present it interleave, time out or are lost.                       *)
(***************************************************************************)
OneRequestPerConfirmation ==
    \A c, d \in Call :
        Sent(c) /\ Sent(d) /\ asked[c].token = asked[d].token => c = d

(***************************************************************************)
(* A provider request is only made for what its caller was shown in a      *)
(* preview: the caller, tool and payload the token was issued for.         *)
(***************************************************************************)
RequestAsPreviewed ==
    \A c \in Call : Sent(c) =>
        /\ binding[c].payload \notin Invalid
        /\ asked[c].token \in Call
        /\ binding[asked[c].token] = binding[c]
        /\ result[asked[c].token] = "confirmation_required"

NoEffectCodes == {"invalid_arguments", "confirmation_refused", "quota_refused",
                  "config_unavailable", "config_invalid", "destination_not_configured"}

(***************************************************************************)
(* A result that says nothing was done stays true: after such an answer no *)
(* request of the call is or ever comes to be with the provider.  And      *)
(* "rejected" is only said of a request that the provider has answered,    *)
(* and not with success (a server error is all the code knows then).       *)
(***************************************************************************)
RefusalHasNoEffect ==
    \A c \in Call :
        /\ result[c] \in NoEffectCodes => request[c] = "none"
        /\ result[c] = "rejected" => request[c] \in {"rejected", "broken"}

(***************************************************************************)
(* The counters in a result do not hide what was done: a request that was  *)
(* sent shows as attempted or as an SDK request, and a success is counted  *)
(* exactly when the provider accepted the write and its answer was used.   *)
(***************************************************************************)
CountersTellTheTruth ==
    \A c \in Call :
        phase[c] \in {"answered", "returned"} =>
            /\ Sent(c) => counters[c].attempted + counters[c].sdk_requests = 1
            /\ counters[c].succeeded = 1 =>
                  request[c] = "accepted" /\ counters[c].attempted = 1
            /\ result[c] = "ok" /\ binding[c].action # "cost" =>
                  counters[c].succeeded = 1

Billed(c) == Sent(c) /\ binding[c].action = "cost"

(***************************************************************************)
(* Every billable request that is sent has a slot of the month to itself,  *)
(* one of as many as the limit allows: calls that ask for the last one at  *)
(* the same time, and late increments of calls that gave up, included.     *)
(***************************************************************************)
BillableWithinQuota ==
    \A c \in Call : Billed(c) =>
        /\ slot[c] \in 1..Limit
        /\ \A d \in Call : Billed(d) /\ slot[d] = slot[c] => d = c

(***************************************************************************)
(* docs/architecture.md: "Execution atomically consumes both the           *)
(* caller-bound confirmation and one of three global UTC-month quota       *)
(* slots".                                                                 *)
(***************************************************************************)
BothConsumed ==
    \A c \in Call :
        phase[c] = "returned" /\ asked[c] # Nothing /\ asked[c].binding.action = "cost"
        => (c \in confirmed <=> slot[c] # 0)
=============================================================================
