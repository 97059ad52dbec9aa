# aws-remote-mcp: a TLA+ specification

This directory models the parts of aws-remote-mcp in which several actors, remote
calls with uncertain outcomes, clocks and partial failures meet: one-time
confirmations, the monthly quota of billable queries, the write tools, who may call
them and what a deployed server builds for each event, the development window and its
AWS-side shutdown, paginated and capped readings of AWS, and the TOTP enrollment. `PROJECT.json` is the index: which definition models which
lines, which run checks which property, which theorem is proved.

## 1. Inventory of the system

An MCP server runs locally (`http_server.py`, one process) and remotely (one AWS
Lambda invocation per request, `lambda_handler.py`, behind API Gateway). Tools read
AWS, or write to Telegram and Trello after a two-step confirmation. The remote
endpoint is normally off; operator scripts turn it on for minutes.

| component | state | operations | interacts with | what makes it correct |
|---|---|---|---|---|
| `DynamoDbConfirmationGuard` (core/confirmation.py) | one table row per token | `prepare` = conditional put; `consume` = conditional update, and a read to explain a refusal | ToolService; DynamoDB, its TTL, the function timeout | a token is used at most once, only for what it was issued for and before it expired; refusals are true |
| `ConfirmationGuard` (core/confirmation.py) | a dict, lost at restart | the same, in memory | ToolService of the local server | the same promise |
| `DynamoDbCostRequestLimiter` (core/cost_quota.py) | one row per UTC month, in the same table | `acquire` = conditional increment | ToolService; TTL | never more slots than the limit; truthful exhaustion |
| `InMemoryCostRequestLimiter` | a month and a count | `acquire` | local ToolService | the same |
| `ToolService` (services/tools.py) | none; each call has counters | three prepare and three execute tools, three read tools | guard, limiter, adapters | one provider request per confirmation; a result that says nothing happened is true |
| audit (core/audit.py, http_server.py) | a log | one record per tool result | ToolService | the record tells what the caller was told |
| Telegram, Trello (adapters/external_integrations.py) | the configuration of their event | one HTTP request | providers, SSM | an unanswered write is "unknown", never "failed" |
| Cost Explorer (adapters/aws_cost_explorer.py) | none | one request, and the reading of its answer | AWS | nothing left out silently |
| inventory (adapters/aws_inventory.py) | none | project listing (paginated), two-service inventory, Resource Explorer search | AWS | nothing left out silently; bounded requests |
| server and gateway app (lambda_handler.py, http_server.py, template.yaml) | none; the environment of the function, and the table | per event: check the claims, build stores, adapters and tools, run one tool | API Gateway, CloudFormation deployments | features are only offered over stores that last; an event acts for whom it was let in |
| authorization (security/authorization.py, lambda_handler.py) | none | claims to caller, remotely and locally | API Gateway, Cognito, WorkOS | the two verifiers of the code agree on who may call and as whom |
| window scripts (scripts/*-window.ps1, validate-direct-lambda.ps1) | endpoint switch, concurrency, alarm, schedules (in AWS) | open, close, validate | AWS, each other, the shutdown | nothing stays on without a shutdown to come |
| safety shutdown (safety_shutdown/handler.py) | none | three independent actions, and a raise if one failed | EventBridge, SNS, the scripts' things | attempts every action while it has time, and is repeated |
| TOTP enrollment (scripts/enroll*) | temporary scope, one session | callback page, verification page | browser, Cognito, CloudFormation | completed means enrolled; the scope is closed at the end |
| provisioning and discovery scripts, fakes, MCP and ASGI wiring | - | - | - | - |

What is hard here, and hard to reach with a unit test: two invocations presenting
one token; an update that took effect and was never answered, or takes effect
after its sender gave up; TTL removing a row at any moment; clocks read before a
request and used after it; a month turning between two steps; a provider that may
have accepted what it never acknowledged; scripts killed or stalled between two AWS
calls while others open and close the same endpoint; a deployment that changes the
API, the function and the table one after the other under running events; answers that are malformed,
repeated or endless. `hazards` in `PROJECT.json` lists each at its line, with the
properties that watch it.

## 2. The modules

| module | models | abstracts |
|---|---|---|
| `ConfirmationContract` | what any `ConfirmationProvider` promises: a token is issued for one binding and spent at most once | clock, store, reasons of refusal |
| `DynamoDbConfirmation` | the DynamoDB guard at the grain of its requests | SHA-256 digests are the values they hash; canonical JSON only keeps "too large" |
| `ConfirmationGuard` | the in-memory guard, whole calls | the same |
| `CostQuota` | the limiter over DynamoDB, and the request the slot is for | dates inside a month |
| `InMemoryQuota` | the limiter of a local process, beside the former | the same |
| `ToolService` | the write and billable tools over the contract, with quota and providers | texts, the contents of messages and cards |
| `Authorization` | the claims of a token as API Gateway, the handler and the local verifier judge them | signatures; a claim has the few values the conditions tell apart |
| `Gateway` | the deployed server: events, what each builds and offers, deployments between and under them | expiry and lost answers of the store (`DynamoDbConfirmation`), the answers of providers (`ToolService`) |
| `ValidationWindow` | four scripts, schedules, alarm, shutdown function | what the checks of routes and identities, and the calls made while the window is open, look at: each passes or fails |
| `ProjectInventory` | the paginated listing of the project's stacks | the fields of a resource |
| `CostExplorerResponse` | the reading of one Cost Explorer answer | amounts, dates and names: valid or not |
| `AwsReads` | the tools that read AWS, to the result: the two former, the two-service inventory, the search | an item is its position, valid or not |
| `TotpEnrollment` | wrapper, loopback session, Cognito | HTML, PKCE arithmetic, hosts and origins |

`MC*` modules add what TLC needs (symmetry sets, small input sets); every `.cfg`
belongs to one run. `*_proofs` modules hold the theorems. A definition whose comment
begins "Mutated form" is not part of a specification: it is the plausible bug that
the property next to it must notice.

How they compose: `ConfirmationGuard` and `DynamoDbConfirmation` each instantiate
`ConfirmationContract` with a refinement mapping (`ImplementsContract`).
`ToolService` uses the actions of the contract as its guard (`Guard ==
INSTANCE ConfirmationContract`), so that what it shows holds with either guard; its
quota is the one counter that `CostQuota` details with months, TTL and lost answers.
`AwsReads` runs `ProjectInventory` and `CostExplorerResponse` as the adapters behind its
tools; `Gateway` uses the conditions of `Authorization` for the events it lets in;
`InMemoryQuota` puts both limiters under the properties of `CostQuota`.

### Confirmation

`DynamoDbConfirmation`: an invocation starts one `Prepare` or `Consume`; what it
sent is `wire[i]`; `StorePut` and `StoreUpdate` are DynamoDB applying it, each with
the condition expression of the code; `Receive*`, `GiveUp`, `ReadRecord` and
`ReadFails` are the code after the request, exceptions included. Giving up does not
withdraw the request: it may be applied afterwards (`wire` still holds it). `Lose` is
the end of an invocation at any point and `Tick` advances the clock, but not beyond
the function's timeout for an invocation that still runs. TTL deletes a row at any
moment after its expiry. A token is the invocation that drew it, because
`token_urlsafe(32)` does not repeat.

The mapping to the contract: a confirmation is spent when the update is applied, not
when its sender learns of it; a spent token whose caller was never told is "burned",
which the contract allows. So a lost answer never lets a second call through.

`ConfirmationGuard`: `Verdict` is the ladder of `consume` in its order (missing,
consumed, expired, caller, action, digest); `Restart` forgets every record.

### Quota

`CostQuota` has a clock and a month that turns at any point after `MonthLength`.
`Acquire` fixes `period[i]` from the clock, `StoreAcquire` is the conditional increment,
`Receive` and `GiveUp` the code after it, `SendCostQuery` the billable request. Two
constants state what the code takes for granted of AWS: a request is applied at most
`Flight` after it was sent, and TTL takes at least `TtlLag` more than that; without
`Flight < TtlLag` a late increment would meet a deleted row and start a month anew.

`InMemoryQuota`: `AcquireInMemory` is one step, with the billable request that follows it
in the same call, since the SDK runs a synchronous tool function to its end; it writes down
what a DynamoDB increment would have done, so the same properties judge it. The process does not start again: its count is process-local by its
own docstring.

### Tools

`ToolService`: a call goes through the phases of `execute_*` (validate, consume, take a
slot, load the configuration, send, answer, return). `ProviderAccepts` and
`ProviderRejects` are the provider's and do not wait for the caller. The outcome
codes are the code's; counters are set before the request as in the code. The quota is the
count in the month's row: an increment that is applied (`QuotaTakes`, while the call waits or
after it stopped waiting) makes the new count the slot of its call, so that two calls on one
slot can be told from two slots. Of the audit only the step itself is there
(`AuditAndReturn`): its record is made of a finished result and nothing reads it. Before the
request an attempt can end because the parameter cannot be read (`ConfigUnavailable`), its
content is of the wrong form (`ConfigInvalid`) or the destination is not in it
(`DestinationNotConfigured`); after it, with an answer outside 2xx or without Telegram's "ok"
(`WriteRejected`), one that is too long or no JSON object (`UnreadableResponse`), one without an
identifier (`InvalidResponse`), or none (`ProviderTimeout`). A provider request that is "broken"
was answered with a server error: the code calls that "rejected" although the provider may
have acted, and `RefusalHasNoEffect` says no more of it than that.

### The deployed server

`Authorization` has one operator per verifier: `AuthorizerAccepts` (template.yaml),
`HandlerAccepts` (`_gateway_caller`), `VerifyToken` with `ExtractScopes` (the local one). What
API Gateway does with a token is taken from the authorizer the template declares: issuer,
audience, expiry, and one of the route's scopes in `scope` or `scp`.

`Gateway`: `Invoke` needs the authorizer of the API and the handler to accept the claims;
`Components` is what `handler` builds of the environment, `Service` what `build_tool_service`
puts where nothing was passed (memory and fakes), `Included` and `Offered` the tools that are
registered. Then one tool runs: `Prepare`, or `Consume`, `Acquire` and `Send`. An event keeps
the environment it was built from. `Deploy` changes the parameters of the stack;
`CreateTable`, `UpdateFunction`, `UpdateApi` and `DeleteTable` carry it out, the table before
the function that names it, deletions last, and API and function in either order (the API's
definition names the function, so CloudFormation usually changes it second; the properties
do not rest on that). A table starts empty. `previews` and `sent` record who was given a token in which table
and what reached a provider, each request with its number, so that a second one for a token
is another element; no action reads `previews` but for a token being new.

### The window

`ValidationWindow` keeps, for each of the endpoint, the concurrency and the alarm,
whether and by what it is on. A script is the sequence of steps it has left
(`OpenScript`, `CloseScript`, `DirectScript`, and the Inspector wrapper that runs the
opener and then the closer); an AWS call that fails replaces the rest by the script's
`Catch` or `Finally`. Notes on fidelity:

- a call that fails may or may not have been applied;
- `Kill` is the operator's machine going away; `Find` is the closer looking its targets
  up, which ends it before it has closed anything if it cannot;
- `DirectReads`, `DirectWrites` and `InspectorCalls` stand for the calls a validation
  makes while the window is open. One step each: any of them fails, for a reason of its
  own or because somebody closed the window, and the block after it takes over. What the
  calls do to confirmations and providers is `ToolService`'s subject;
- `failed` holds the scripts that end with an error, `openedBy` who last turned a thing
  on; closing calls that fail are collected and raised at the end, and
  `SuccessMeansClosed` says that a validation that ends without an error has left nothing
  on that it turned on;
- the closer removes the schedules it found in one listing (`ListSchedules`), one by one;
  one that is created after the listing stays;
- an opener run by hand uses reserved concurrency; switching to the unreserved pool
  occurs only in the wrapper and in the direct validation;
- EventBridge fires a schedule within the minute it is due, and may fire at once or
  refuse one created after its time; a shutdown run ends within the minute;
- a shutdown run takes its three actions one after the other and goes on when one fails
  (`ShutdownStep`), but it need not reach them all: the handler may raise before its first
  action, and the function has 10 seconds (template.yaml:67) with clients that wait longer for
  an answer (`CutOff`). AWS repeats a run that raised or was cut off, `Retries` times;
- what a run did not close and its repeat still may is in `delayed`. It is no gap: the
  repeat is a shutdown to come, and `WindowEnds` expects it to close what is on;
- `Unwatched(x)` names the known gaps. `missed`: a closing call for `x` failed in a script,
  whether or not the script went on to delete the schedule, or `x` was left on by the last
  try of a shutdown. `raced`: a script turned `x` on after its own schedule was gone, or after
  a script that is to remove that schedule had closed `x`. A later opening or closing of `x`
  with a schedule to come ends the gap. `OnlyKnownGaps` says that there is no other way for
  anything to be on with no shutdown to come.

### Readings of AWS

`ProjectInventory` lets CloudFormation answer anything: any page, any token, any
failure. `CostExplorerResponse` takes answers, well-formed or not, and keeps the
positions of what was copied, so that the properties compare the result with the
answer itself and not with the loop. A list that is copied in order without its unusable
items is the ascending sequence of a set of positions (`Ascending`), which says what the
code's loops do without recursion. `AwsReads` adds the other two operations
(`ListingAnswered`, `ListingFails`, `ArgumentsRefused`, then `InventoryEnds`, `SearchEnds` or
`SearchFails`), what each adapter returns, and `BoundedResult`, what the tool makes of it: a
result that is too large loses its data and keeps its counters. Its properties compare the
final result with what AWS answered: can it claim to be whole, or well, when it is not?
`sent` counts the requests of all four tools apart from the code's own counter. A client that
cannot be created is counted as a request though none was sent, so `RequestsCounted` bounds
the reported number from both sides: by what was sent, and by that and what failed unsent.
`StatusTells` judges truncated, clipped and incomplete results by the part a cap left room for
(`NothingWrong`): an "ok" may stand beside "truncated", but not beside an invalid row, an item
that was passed over or a stack that could not be listed.

### Enrollment

`TotpEnrollment`: the helper handles one browser request at a time. `Begin`,
`TokenAnswered`, `AssociateAnswered` are the callback; `SubmitCode`, `VerifyAnswered`,
`PreferAnswered` the form. Any request can be `Refused` or `Unanswered`; an unanswered
one is counted in `late` and may take effect at any time. The page with the key, and the
last page, may not reach the browser; without the last one the server is not shut
down. `Interrupt` is Ctrl-C, which ends helper and wrapper after their `finally`; the
helper itself exits with 0 then (enroll_cognito_totp.py:361-368), so that a finished wrapper
means a completed session rests on Ctrl-C reaching both processes of the console.
Requests that change nothing (a wrong state, a wrong form token, a used callback) are
not actions. Cognito's own behaviour is external: a code is compared with the key that
waits for verification, and a token is given only for the verifier of the
authorization.

## 3. What the runs check

Every run finishes within about three minutes on two workers, most in seconds.

| run | instance | shows |
|---|---|---|
| `dynamodb_guard` | 3 calls: one prepare and two consumes, or any other three; 2 callers, one payload too large | at most one confirmed, and only as issued; truthful refusals; the inductive invariant; lateness; rows only age; the contract |
| `local_guard` | 3 calls, restarts; 2 callers, 2 actions, 2 payloads and one too large | the contract; each refusal true, expired and mismatched ones included |
| `cost_quota` | 3 queries, limit 2, 2 months, either limiter, each billing | slots, exhaustion, spend, lateness |
| `tools` | 4 calls, a write and a cost query, 1 slot; at most one call by another caller or with another payload | one request per confirmation and as previewed; refusals without effect; truthful counters; no billable request without a slot to itself |
| `window_direct` | opener and direct validation, one failing call | `OnlyKnownGaps`, `AtMostOneWindowLong` and `SuccessMeansClosed` with overlapping windows |
| `window_wrapper` | wrapper and closer, one failing call or cut-off run, one repeat | `OnlyKnownGaps` and `SuccessMeansClosed` with the wrapper's checks, its opener and its `finally`; `WindowEnds`, by the repeat where the first run did not close everything |
| `readings` | 2 stacks, 3 pages, 3 resources, pages of up to 2 items, 3 tokens; answers of up to 3 periods of up to 2 groups, caps 2 and 2; listings of up to 3 items, limit 2 | `UnmarkedOmitsNothing`, `StatusTells`, `ErrorMeansNothingRead`, `RequestsCounted` for each of the four tools |
| `gateway` | 2 concurrent events, 2 tokens, 2 providers that share a subject, limit 1, 2 deployments, tokens with up to two claims other than a good one's | `ActedAsPreviewed`, `LimitWhileTableIntact`, `PreviewOutlivesItsEvent`, `VerifiersAgree` |
| `totp_enrollment` | 3 keys, 2 attempts | completed means enrolled and stays so; the wrapper succeeds only with the scope closed |
| `cost_quota_readme`, `tools_architecture`, `window_late` | see section 5 | what the documentation claims and the code does not do |

Why the bounds are enough. A race for a token needs one issue and two consumes, so three
calls. In `dynamodb_guard` only callers and tokens can differ; a larger instance
takes too long. That a different action or payload is refused in the same way is
proved for the DynamoDB guard (section 4); `local_guard`, with two payloads that fit, checks it of the
guard in memory. `Ttl`, the timeout and `Flight` are one tick each and the clock has two to
four ticks, so that every order of "read the clock", "expire", "time out" and "apply"
occurs. `cost_quota` has one query more than a month has slots. In `tools`, two
previews and two executes are what it takes for two confirmed queries to ask for the last
slot; a constraint of `MCToolService` (`OneUnusual`) leaves at most one of the four calls
another caller or other arguments than the rest. One such call is what a swapped payload, a stolen
token or refused arguments need; the theorems have no such bound. Telegram and Trello go through one path of
`ToolService`, so one of them stands for both. Each window run has two scripts, and the
wrapper is an opener and a closer in one. One fault and one repeat in `window_wrapper` are a run that
fails or is cut off and the repeat that makes it good; that the last try fails is reached in
`window_direct`, where nothing is repeated, and both together only in the theorems. `MaxTime`
is one tick beyond the window. Two openers that both check before either creates its schedule meet in no run;
`OneWindowLong` is about any number of them. In `totp_enrollment` two requests that are alike may be
under way unawaited (`MaxLate`), so that one takes effect before and one after something else. Pages, tokens and caps are as small
as lets every cap be met in the middle of a page, at its end, and on the last page: three
pages so that a token can be repeated before the cap on pages is met, three tokens so
that the cap can be met at all. A third period and a third listed item are beyond the caps of
two. In `gateway` two deployments delete a table and create another one, or change the provider
there and back; two events put one before and one after a change; two claims that differ are what
the closest pair of conditions needs. Each bound is a named CONSTANT; `MaxTime`, `MaxMonth`,
`MaxFaults`, `MaxLate` and `MaxDeployments` occur only in guards and types.

`CHECK_DEADLOCK FALSE` stands where everything that was to be done may be done: all
invocations returned, all scripts ended, the call ended.

Fairness. `ValidationWindow`: the clock and due schedules go on, a shutdown run takes its next
step or is cut off, and its repeat is started, because AWS does so; no run has to reach all of
its actions, and no script ever has to take another step. `WindowEnds` holds because failures are
bounded by `MaxFaults`, or else end in `missed` with the last try.
Nothing else uses fairness: the other modules state safety only. Every wait of a call has an
exit that needs no answer (`GiveUp`, `ReadFails`, `QuotaRefused`, `ProviderTimeout`: boto
clients and HTTP clients have timeouts and one attempt), so that a call ends is a matter
of configuration.

## 4. What is proved

Eight `*_proofs` modules hold the theorems. Each theorem is about the specification that the
runs check, for every value of its constants under the named assumptions below; the bounds
of the runs (`MaxTime`, `MaxMonth`, `MaxFaults`, `MaxLate`, `MaxDeployments`) are then any number at all.
Every safety invariant and action property of the passing runs is proved.

| module | theorem | property | says |
|---|---|---|---|
| `DynamoDbConfirmation_proofs` | `TypeCorrect`, `Inductive` | `TypeOK`, `InductiveInv` | |
| | `OneConfirmation` | `AtMostOneConfirmed` | at most one call is told to go ahead on a token |
| | `Authorised` | `ConfirmedAsIssued` | it presented what was issued, before expiry |
| | `RefusalsTruthful` | `TruthfulRefusal` | each refusal names what is the case |
| | `BoundedLateness` | `GoAheadNotLate` | a call goes ahead less than the timeout after the expiry |
| | `RowsAge` | `RowsOnlyAge` | a row is created, consumed and dropped at most once |
| | `GuardImplementsContract` | `ImplementsContract` | every behaviour is one of `ConfirmationContract` |
| `ConfirmationGuard_proofs` | `TypeCorrect` | | |
| | `RefusalsTruthful` | `TruthfulRefusal` | refusals are true, "expired" included, across restarts |
| | `GuardImplementsContract` | `ImplementsContract` | the in-memory guard is a contract as well |
| `CostQuota_proofs` | `TypeCorrect` | `TypeOK` | (both limiters) |
| | `SlotsBounded` | `SlotsWithinLimit` | no month gives out more than `Limit` slots |
| | `ExceededTruthful` | `ExceededIsTrue` | "exhausted" is only said when it is so |
| | `SpendingBounded` | `SpendBounded` | by the end of any month, at most `Limit` requests per month so far |
| | `BilledInTime` | `BilledNearItsMonth` | a request is made in its month or at most the timeout after it |
| | `AttemptsBounded` | | a calendar month sees at most twice its limit, if it is longer than the timeout |
| `ToolService_proofs` | `TypeCorrect` | `TypeOK` | |
| | `OneRequest` | `OneRequestPerConfirmation` | one confirmation never leads to two provider requests |
| | `AsPreviewed` | `RequestAsPreviewed` | what is sent is what its caller was shown |
| | `NoEffect` | `RefusalHasNoEffect` | a result that says nothing happened stays true |
| | `CountersTruthful` | `CountersTellTheTruth` | counters tell what was sent and what came of it |
| | `WithinQuota` | `BillableWithinQuota` | every billable request has one of `Limit` slots, to itself |
| | `ContractSafe` | | of `ConfirmationContract`: at most one go-ahead per token, and only as issued |
| | `ToolsKeepContract` | | the tools use the provider of confirmations as its contract says, and in no other way |
| `Gateway_proofs` | `TypeCorrect` | `TypeOK` | a deployment that is done leaves API, function and table as the stack asks |
| | `ActsAsPreviewed` | `ActedAsPreviewed` | no two requests for one token, each for the holder and action of its preview, over any deployments |
| | `LimitHolds` | `LimitWhileTableIntact` | no table sees more billable requests than the limit |
| | `PreviewsOutlive` | `PreviewOutlivesItsEvent` | what an event previewed can be redeemed by the next |
| | `Verifiers` | `VerifiersAgree` | remote and local verification agree, for any authorization servers and claims |
| `TotpEnrollment_proofs` | `TypeCorrect` | `TypeOK` | no more codes are sent than `MAX_VERIFY_ATTEMPTS` |
| | `FinishedClosed` | `FinishedMeansClosed` | the wrapper finishes only with the scope closed for good |
| | `CompletedEnrolled` | `CompletedMeansEnrolled` | a completed session is enrolled with the key that was shown, and stays so |
| `ValidationWindow_proofs` | `TypeCorrect` | `TypeOK` | |
| | `ShutdownToCome` | `OnlyKnownGaps` | whatever is on has a shutdown to come, outside the named gaps |
| | `OneWindowLong` | `AtMostOneWindowLong` | outside them nothing is on longer than the window |
| | `SuccessCloses` | `SuccessMeansClosed` | a validation without an error has left nothing on |
| `AwsReads_proofs` | `TypeCorrect` | `TypeOK` | with the caps on periods, groups and resources |
| | `OmitsNothing` | `UnmarkedOmitsNothing` | what is not marked is all that AWS answered with, in order, for answers of any length |
| | `TellsWhatWasWrong` | `StatusTells` | "ok" is said exactly when all that was asked for is there up to the caps, of marked results too |
| | `ErrorShowsAll` | `ErrorMeansNothingRead` | an error means that nothing could be read |
| | `CountsRequests` | `RequestsCounted` | of all four tools, what is counted is what was sent and what failed unsent; no page is asked for twice |

### Assumptions

Each is an ASSUME of the module that declares the constants, and TLC evaluates it in that
module's runs.

- Values that stand for "nothing", "absent", "unknown" or "mistyped" are not used
  otherwise (`NameAssumption`, `ToolAssumption`, `AuthorizationAssumption`,
  `EnrollmentAssumption`, `InventoryAssumption`, `AnswerAssumption`).
- Times, limits and bounds are numbers, positive where the code's are (`TimeAssumption`,
  `TtlAssumption`, `QuotaAssumption`, `ToolAssumption`, `GatewayAssumption`,
  `WindowAssumption`, `InventoryAssumption`, `ResponseAssumption`, `AnswerAssumption`).
- A page is any sequence of items, and any set of pages, tokens and answers will do: nothing is
  assumed of what AWS answers with but its shape (`InventoryAssumption`, `ResponseAssumption`,
  `AnswerAssumption`).
- `QuotaAssumption` has `Flight < TtlLag` (section 2): without it `SlotsBounded` is false.
- `EnrollmentAssumption` says that Cognito draws no key that the user had before.
- `WindowAssumption`: there are finitely many scripts, and each has one kind. The listing of
  schedules that a closer goes through is a sequence, so it has to be finite.
- `AttemptsBounded` alone has a hypothesis of its own, `LambdaTimeout < MonthLength`.

### The arguments

Hardly any of the properties is inductive as it stands. Each module has an invariant of named
parts, in its first lines; one lemma per action, or group of actions, shows that it is kept,
and the theorems follow from it.

*The DynamoDB guard.* Nothing in "at most one is confirmed" prevents a second update from
being applied. `InductiveInv` adds where each call stands and what the store did for it
(`CallInv`); that a row holds what its prepare put, is consumed exactly when some update was
applied to it, and is absent only before its put or after its expiry (`RowInv`); that an
applied update met its condition (`SpendInv`); that a refused one had a reason that cannot
go away (`RefusalInv`), which makes the later read truthful although the row may have
changed or disappeared in between; and that the runtime stops an invocation in time
(`DeadlineInv`). Each step maps to an action of the contract or to a stutter under it.

*The in-memory guard.* A restart forgets records, so a record says nothing about the past by
its absence. `RecordInv` therefore speaks only of records that exist: each is the one of the
prepare that drew its token, and is consumed exactly when a call was confirmed on it. A
token is drawn once, so a lost record never comes back, and `ConfirmedInv` survives restarts.
`VerdictIs` states the ladder of `consume`; the step proof of the refinement rests on it.

*The limiters.* `RowInv` says that the row of a month counts the invocations whose increment
was applied in it, unless TTL may have dropped it; `Dropped` is then so late that
`ClockInv` and `Flight < TtlLag` leave no increment under way. `MemoryInv` is the same for
the counter of a process, which only knows the month of its last call. `SpendBounded` counts
over months: rather than summing, which would need induction over data, the invariant
numbers the slots of each month (`SeatInv`), and a query maps to month and number, injectively,
into `Limit` times the months. `AttemptsBounded` is the true bound next to the refuted
`AttemptsPerMonth`: a query billed in a month has its slot in it or in the one before.

*The tools.* `StageInv` ties each phase of a call to what guard and quota know of it,
`RequestInv` says that a request is sent only by a call that was told to go ahead and, for a
cost query, has a slot; `SpentInv` is the contract's. `ToolsKeepContract` maps each step to an
action of the contract or to a stutter, so `ContractSafe` and the refinements by the two guards
are about the very provider the tools call. `SlotInv` says that a slot is a number up to
the count, belongs to one call, and that the count stays within the limit.

*The deployed server.* `DeployInv` says that what is still to be deployed is exactly what
differs from the stack; with nothing left to deploy, whether there is a table follows from the
parameters. A token that was redeemed belongs to one event (`RedeemedInv`)
and a row that can be redeemed has had no request for it (`RowInv`), also after the table
it lived in is gone. The number of a request is the count of those before it, so
"at most one for a token" says that no second was sent, and not that it looked alike. `SlotInv` counts, per table, the requests made and those that hold a slot.
`Verifiers` needs no invariant beyond types: it is about the conditions on claims.

*The enrollment.* A verification that arrives late carries a code of the key that was
shown, of the old one, or a mistyped one (`CodeInv`); once a key was shown, a key waits or
the shown one is active (`KeyInv`), so that only the shown key can be verified. A late request can then only repeat what was done, or ask for a key that nobody sees.

*The window.* `ScriptInv` says what any rest of a script observes: the clock is read before
the schedule is created, each thing that is turned on is closed before the schedule goes,
closings come before removals of other schedules, a validation cleans up after itself.
Each part holds of the scripts as written (`OrderlyProgram`), of what follows a step, and of what replaces the rest when a call
fails. `GapInv` is the heart: what is on and not in a known gap is `Guarded`, by a schedule
that is pending, that no script is about to remove without closing the thing first (`Threat`),
and that is due within a window of the opening, by a shutdown run which still has to
close it, or, for what a run left on, by the repeat of a run. Every step that could break one of these closes the thing, or names a gap.
`OnlyKnownGaps` and, because a due schedule fires before the clock moves on,
`AtMostOneWindowLong` follow; `SuccessInv` does the same for what a validation opened.

*The readings.* The properties compare a result with answers of any length, which would be an
induction over data were it not for `Ascending`: the rank of a position is the number of smaller
ones of its set, ranks differ and are as many as the positions (`RankTells`, `RankTaken`, by
counting finite sets), so the next dated period is the next number of the sequence
(`AscendingNext`). `CopiedInv` and `WholeInv` then say step by step which periods were copied, and
that each is whole while nothing was cut. For the project inventory, `AskedInv` says that every
page that was asked for belongs to a stack that is left or follows a token that was seen, which
is why the next page is a new one; `PagesInv` counts the pages of each stack; `CountInv` says
that nothing is missing while the result is complete, and that an issue says what is missing
otherwise - except between the item that met the cap and the end of its page, the one state in
which something was left out and no issue was added yet. For `StatusTells` of results that are
incomplete or cut, `MissingInv` is the converse (an incomplete inventory misses an item or the end
of a stack), `MalformedInv` says that nothing was counted as malformed exactly while every period
looked at is shown whole, and `FullInv` that a full result was filled by the last of them. `SentInv`
ties what each tool sent to what it counted. `AdaptedInv` has what each of the four
adapters returns satisfy the properties before the tool bounds it, and `ResultInv` says that
bounding adds no claim.

### What only TLC checks

- `WindowEnds`: liveness under fairness is out of the prover's reach, as are statements with
  ENABLED. `ShutdownToCome` is the safety it rests on.
- The three refuted statements of section 5 are runs by nature.

No module here declares a RECURSIVE operator.

## 5. Disagreements found

Three statements of the repository do not hold of the code; each has a run whose
counterexample shows it.

- `cost_quota_readme`: README.md says three attempts per UTC month. A slot taken at the
  end of a month and used in the next gives that month one more. (`SpendBounded` and
  `BilledNearItsMonth` say what does hold.)
- `tools_architecture`: docs/architecture.md says execution atomically consumes the
  confirmation and a slot. They are two requests; a refused or unanswered quota burns the
  confirmation.
- `window_late`: README.md says a window lasts at most five minutes. A script that stalls
  between creating its schedule and enabling the endpoint opens it with no deadline left.

Two of the gaps that `OnlyKnownGaps` names are at odds with the scripts' own words,
without a run of their own: a closer whose disabling call failed deletes the schedules all
the same (docs/cost-safety.md:41 calls manual closure and the deadline redundant), and
two openers that check before either creates its schedule both go on
(open-dev-window.ps1:173 refuses to overlap a window).

Met while modelling, without a run, because a document and another document disagree or because
nothing in the repository says otherwise:

- docs/authorization-contract.md:29 and 55-56 ask for `token_use` to be `access`; the handler
  (lambda_handler.py:131) and the local verifier (authorization.py:108) also accept a token without
  it, as docs/architecture.md:176 and docs/decisions.md:360 say they should. The model follows
  the code.
- the count of a month belongs to a confirmation table and is deleted with it
  (template.yaml:228); docs/cost-safety.md:95 says as much, and `LimitWhileTableIntact` is the
  property with that premise.
- external_integrations.py:74 reports every `HTTPError`, a 5xx included, as "rejected".
- the two-service inventory does not mark a list that is longer than it asked for, and
  passes over items that are no records in silence (aws_inventory.py:493-495);
  `UnmarkedOmitsNothing` and `StatusTells` name both.

## 6. Not modelled, and the plan

Not modelled, and why:

- MCP, ASGI, CORS, host checks and the metadata route: library code around the tools, with no
  state of its own between requests; the challenge header of a refusal is wording;
- signatures and key rotation: the verifier takes a fixed key, API Gateway is AWS's;
- audit records: each is made of a finished result, inside a try that swallows every
  exception, and is read by nothing in the system;
- the wording, formatting and redaction of results, and the regular
  expressions that accept identifiers: an item, a payload or a query is valid or not;
- the rows a guard never writes (`confirmation_store_invalid`);
- what the validation scripts' checks of routes, authorizers, identities and tool results look at:
  each check passes or fails as one step;
- provisioning and discovery scripts, which run once and read or write one value each;
  fakes; templates apart from the timeouts, TTL, table, authorizer and shutdown they configure.

Done: every part that section 2 lists is modelled, and every safety property of the passing
runs is proved. `WindowEnds` and the three refuted statements rest on TLC alone.

A change of the code starts with the definition `PROJECT.json` maps to its lines, the run of that
module and, if its invariant is touched, the lemma named for the action.
