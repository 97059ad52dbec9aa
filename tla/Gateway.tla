------------------------------- MODULE Gateway -------------------------------
(***************************************************************************)
(* The remote server as it is deployed (lambda_handler.py, http_server.py, *)
(* template.yaml).  Each event is a sandbox's handler run: it checks the   *)
(* claims API Gateway passed on, builds an app of its own from the         *)
(* environment it was started with, and runs one tool.  Between events     *)
(* nothing lives but the table.                                            *)
(*                                                                         *)
(* Meanwhile the stack may be deployed with other parameters: the API, the *)
(* function and the table change one after the other, events begun before  *)
(* go on as they were built, and a table nobody needs is deleted.          *)
(*                                                                         *)
(* A confirmation here does not expire and its store always answers: both  *)
(* are DynamoDbConfirmation's subject.  An event that serves metadata,     *)
(* reads AWS or is refused changes nothing and ends.                       *)
(***************************************************************************)
EXTENDS Authorization, Naturals

CONSTANTS Event,           \* sandboxes
          Token,           \* what secrets.token_urlsafe draws
          Presented,       \* the claims clients come with
          Limit,           \* MONTHLY_COST_REQUEST_LIMIT
          MaxDeployments,  \* bound on the deployments
          Nothing

ASSUME GatewayAssumption ==
    /\ Presented \subseteq Claims
    /\ Limit \in Nat \ {0} /\ MaxDeployments \in Nat

Action == {"write", "cost"}

\* The parameters of the stack, and the environment the function gets of them.
Parameters == [provider : Provider, external : BOOLEAN, cost : BOOLEAN]

\* PersistentConfirmationEnabled
Persistent(p) == p.external \/ p.cost

VARIABLES stack, pending, deployments,  \* the deployment
          authorizer,   \* the provider the API checks tokens against
          environment,  \* of the function
          tables,       \* how many tables there have been
          exists,       \* the last of them is there
          rows, slots,  \* what it holds: confirmations, and the month's count
          invocation,   \* what runs in each sandbox
          previews,     \* who was given each token, for what, in which table
          sent          \* the provider requests

deployVars == <<stack, pending, deployments, authorizer, environment>>
tableVars == <<tables, exists, rows, slots>>
vars == <<deployVars, tableVars, invocation, previews, sent>>

Row == [caller : CallerContext, action : Action, consumed : BOOLEAN]
Preview == [holder : CallerContext, action : Action, table : Nat]
\* number: how many were sent before it.
Request == [holder : CallerContext, action : Action, token : Token, table : Nat,
            number : Nat]
Invocation == [environment : Parameters, holder : CallerContext, caller : CallerContext,
               at : {"built", "confirmed", "acquired"}, action : Action \cup {Nothing},
               token : Token \cup {Nothing}, table : Nat]

ASSUME NameAssumption ==
    /\ Nothing \notin Row \cup Preview \cup Invocation
    /\ Nothing \notin Token \cup Action \cup {"table", "provider"}

TypeOK ==
    /\ stack \in Parameters /\ environment \in Parameters /\ authorizer \in Provider
    /\ pending \subseteq {"table", "api", "function", "cleanup"}
    /\ deployments \in 0..MaxDeployments
    /\ tables \in 0..MaxDeployments + 1 /\ exists \in BOOLEAN
    /\ rows \in [Token -> Row \cup {Nothing}]
    /\ slots \in 0..Limit
    /\ invocation \in [Event -> Invocation \cup {Nothing}]
    /\ previews \in [Token -> Preview \cup {Nothing}]
    /\ sent \subseteq Request /\ IsFiniteSet(sent)
    /\ pending = {} =>
          /\ environment = stack /\ authorizer = stack.provider
          /\ exists = Persistent(stack)
    /\ ~exists => slots = 0 /\ \A t \in Token : rows[t] = Nothing

\* A stack that has been deployed, with a new table if it has one.
Init ==
    /\ stack \in Parameters /\ pending = {} /\ deployments = 0
    /\ authorizer = stack.provider /\ environment = stack
    /\ exists = Persistent(stack)
    /\ tables = IF exists THEN 1 ELSE 0
    /\ rows = [t \in Token |-> Nothing] /\ slots = 0
    /\ invocation = [e \in Event |-> Nothing]
    /\ previews = [t \in Token |-> Nothing]
    /\ sent = {}

-----------------------------------------------------------------------------
(* Deployments: what refers to something is updated after it, and what is  *)
(* no longer part of the stack is deleted last.                            *)

Deploy(p) ==
    /\ pending = {} /\ deployments < MaxDeployments
    /\ stack' = p
    /\ pending' = {"api", "function"}
                  \cup (IF Persistent(p) /\ ~exists THEN {"table"} ELSE {})
                  \cup (IF ~Persistent(p) /\ exists THEN {"cleanup"} ELSE {})
    /\ deployments' = deployments + 1
    /\ UNCHANGED <<authorizer, environment, tableVars, invocation, previews, sent>>

Done(step) == pending' = pending \ {step}

EmptyTable == rows' = [t \in Token |-> Nothing] /\ slots' = 0

CreateTable ==
    /\ "table" \in pending /\ Done("table")
    /\ tables' = tables + 1 /\ exists' = TRUE
    /\ UNCHANGED <<stack, deployments, authorizer, environment, rows, slots,
                   invocation, previews, sent>>

UpdateFunction ==
    /\ "function" \in pending /\ "table" \notin pending /\ Done("function")
    /\ environment' = stack
    /\ UNCHANGED <<stack, deployments, authorizer, tableVars, invocation, previews, sent>>

\* Before or after the function: neither order is relied on.
UpdateApi ==
    /\ "api" \in pending /\ Done("api")
    /\ authorizer' = stack.provider
    /\ UNCHANGED <<stack, deployments, environment, tableVars, invocation, previews, sent>>

DeleteTable ==
    /\ pending = {"cleanup"} /\ Done("cleanup")
    /\ exists' = FALSE /\ EmptyTable
    /\ UNCHANGED <<stack, deployments, authorizer, environment, tables,
                   invocation, previews, sent>>

-----------------------------------------------------------------------------
(* What an event builds. *)

\* Mutated form: the guard is built for the writes only.
ComponentsOfWrites(env) ==
    [confirmations |-> IF env.external THEN "table" ELSE Nothing,
     limiter |-> IF env.cost THEN "table" ELSE Nothing,
     adapters |-> IF env.external THEN "provider" ELSE Nothing]

\* handler: the stores and the adapters it passes on.
Components(env) ==
    [confirmations |-> IF env.cost \/ env.external THEN "table" ELSE Nothing,
     limiter |-> IF env.cost THEN "table" ELSE Nothing,
     adapters |-> IF env.external THEN "provider" ELSE Nothing]

\* build_tool_service puts the event's own memory, and fakes, where nothing
\* was passed; a limiter only in the local environment.
Service(env) ==
    LET passed == Components(env)
    IN  [confirmations |-> IF passed.confirmations = Nothing THEN "memory"
                           ELSE passed.confirmations,
         limiter |-> passed.limiter,
         telegram |-> IF passed.adapters = Nothing THEN "fake" ELSE passed.adapters]

\* create_gateway_app includes the previews with the writes.
Included(env) ==
    [previews |-> env.external, external_writes |-> env.external, cost_explorer |-> env.cost]

\* The tools create_server registers: previews without writes are the local ones.
Offered(env) ==
    LET include == Included(env)
    IN  (IF include.cost_explorer
         THEN {<<"prepare", "cost">>, <<"execute", "cost">>} ELSE {}) \cup
        (IF include.previews THEN {<<"prepare", "write">>} ELSE {}) \cup
        (IF include.previews /\ include.external_writes
         THEN {<<"execute", "write">>} ELSE {})

-----------------------------------------------------------------------------
(* Events. *)

\* The authorizer lets the request through, the handler accepts its claims.
Invoke(e, c) ==
    /\ invocation[e] = Nothing
    /\ AuthorizerAccepts(c, authorizer)
    /\ HandlerAccepts(c, environment.provider)
    /\ invocation' = [invocation EXCEPT ![e] =
          [environment |-> environment, holder |-> Caller(c.iss, c.sub),
           caller |-> GatewayCaller(c, environment.provider),
           at |-> "built", action |-> Nothing, token |-> Nothing, table |-> 0]]
    /\ UNCHANGED <<deployVars, tableVars, previews, sent>>

Calls(e, tool) ==
    /\ invocation[e] # Nothing /\ invocation[e].at = "built"
    /\ tool \in Offered(invocation[e].environment)

Ends(e) == invocation' = [invocation EXCEPT ![e] = Nothing]

\* A new token; a record in the memory of the event is gone with it.
Prepare(e, t, a) ==
    /\ Calls(e, <<"prepare", a>>)
    /\ previews[t] = Nothing
    /\ LET service == Service(invocation[e].environment)
       IN  \/ /\ service.confirmations = "table" /\ exists
              /\ rows' = [rows EXCEPT ![t] = [caller |-> invocation[e].caller,
                                              action |-> a, consumed |-> FALSE]]
           \/ service.confirmations = "memory" /\ UNCHANGED rows
    /\ previews' = [previews EXCEPT ![t] =
          [holder |-> invocation[e].holder, action |-> a, table |-> tables]]
    /\ Ends(e)
    /\ UNCHANGED <<deployVars, tables, exists, slots, sent>>

\* Mutated form: a row may be consumed again.
RowMatchesAgain(row, caller, a) ==
    row.caller = caller /\ row.action = a

RowMatches(row, caller, a) ==
    ~row.consumed /\ row.caller = caller /\ row.action = a

Consume(e, t, a) ==
    /\ Calls(e, <<"execute", a>>)
    /\ Service(invocation[e].environment).confirmations = "table"
    /\ rows[t] # Nothing
    /\ RowMatches(rows[t], invocation[e].caller, a)
    /\ rows' = [rows EXCEPT ![t].consumed = TRUE]
    /\ invocation' = [invocation EXCEPT ![e].at = "confirmed", ![e].action = a, ![e].token = t]
    /\ UNCHANGED <<deployVars, tables, exists, slots, previews, sent>>

At(e, where) == invocation[e] # Nothing /\ invocation[e].at = where

\* Mutated form: the limiter is the one in memory, new in each event.
AcquireInMemory(e) ==
    /\ At(e, "confirmed") /\ invocation[e].action = "cost"
    /\ invocation' = [invocation EXCEPT ![e].at = "acquired", ![e].table = tables]
    /\ UNCHANGED <<deployVars, tableVars, previews, sent>>

\* Mutated form: the count may pass the limit by one.
AcquireOneMore(e) ==
    /\ At(e, "confirmed") /\ invocation[e].action = "cost"
    /\ exists /\ slots <= Limit
    /\ slots' = slots + 1
    /\ invocation' = [invocation EXCEPT ![e].at = "acquired", ![e].table = tables]
    /\ UNCHANGED <<deployVars, tables, exists, rows, previews, sent>>

\* Without a limiter execute_aws_cost_query is refused here.
Acquire(e) ==
    /\ At(e, "confirmed") /\ invocation[e].action = "cost"
    /\ Service(invocation[e].environment).limiter = "table"
    /\ exists /\ slots < Limit
    /\ slots' = slots + 1
    /\ invocation' = [invocation EXCEPT ![e].at = "acquired", ![e].table = tables]
    /\ UNCHANGED <<deployVars, tables, exists, rows, previews, sent>>

ReadyToSend(e) ==
    \/ At(e, "acquired")
    \/ /\ At(e, "confirmed") /\ invocation[e].action = "write"
       /\ Service(invocation[e].environment).telegram = "provider"

Send(e) ==
    /\ ReadyToSend(e)
    /\ sent' = sent \cup {[holder |-> invocation[e].holder, action |-> invocation[e].action,
                           token |-> invocation[e].token, table |-> invocation[e].table,
                           number |-> Cardinality(sent)]}
    /\ Ends(e)
    /\ UNCHANGED <<deployVars, tableVars, previews>>

\* A refusal, a read, an error, or the runtime stops the sandbox.
End(e) ==
    /\ invocation[e] # Nothing
    /\ Ends(e)
    /\ UNCHANGED <<deployVars, tableVars, previews, sent>>

-----------------------------------------------------------------------------
Next ==
    \/ \E p \in Parameters : Deploy(p)
    \/ CreateTable \/ UpdateFunction \/ UpdateApi \/ DeleteTable
    \/ \E e \in Event, c \in Presented : Invoke(e, c)
    \/ \E e \in Event, t \in Token, a \in Action : Prepare(e, t, a) \/ Consume(e, t, a)
    \/ \E e \in Event : Acquire(e) \/ Send(e) \/ End(e)

Spec == Init /\ [][Next]_vars

-----------------------------------------------------------------------------
(***************************************************************************)
(* A provider request is made for the holder of the token that asked for   *)
(* it in a preview, and once, whatever was deployed between preview and    *)
(* execution: another provider in the API before or after the function,    *)
(* other features, another table.                                          *)
(***************************************************************************)
ActedAsPreviewed ==
    \A r \in sent :
        /\ previews[r.token] # Nothing
        /\ previews[r.token].holder = r.holder /\ previews[r.token].action = r.action
        /\ \A q \in sent : q.token = r.token => q = r

(***************************************************************************)
(* As long as a table lives no more billable requests are made on it than  *)
(* a month allows, by however many stateless events.  With a new table the *)
(* count starts again, as docs/cost-safety.md says ("while the table       *)
(* remains intact").                                                       *)
(***************************************************************************)
LimitWhileTableIntact ==
    \A k \in 0..tables :
        Cardinality({r \in sent : r.action = "cost" /\ r.table = k}) <= Limit

(***************************************************************************)
(* A token that was given out stays redeemable after the event that issued *)
(* it, as long as its table does: no feature is offered over a guard that  *)
(* forgets.                                                                *)
(***************************************************************************)
PreviewOutlivesItsEvent ==
    \A t \in Token :
        previews[t] # Nothing /\ previews[t].table = tables /\ exists => rows[t] # Nothing

\* The clients' tokens that an API set up for "at" with a function set up for
\* config, and a local server set up for config, treat differently.
Misjudged ==
    [at \in Provider |-> [config \in Provider |->
        {c \in Presented :
            LET remote == AuthorizerAccepts(c, at) /\ HandlerAccepts(c, config)
                local == ProtectedAppAccepts(c, config)
            IN  \/ remote /\ ~local /\ c.client
                \/ /\ local /\ ~remote /\ at = config
                   /\ c.aud # "several" /\ c.sub # NoSubject /\ c.scope # NoScopes
                \/ /\ remote /\ local
                   /\ GatewayCaller(c, config) # CallerFromAccessToken(c)}]]

(***************************************************************************)
(* API Gateway with the handler and the local protected server accept the  *)
(* same tokens and see the same caller, but for what each alone asks: a    *)
(* client identifier locally; remotely a plain audience, a subject that is *)
(* not empty, and scopes in "scope".  While a deployment has reached only  *)
(* the API or only the function, the remote server accepts no more.        *)
(***************************************************************************)
VerifiersAgree == Misjudged[authorizer][environment.provider] = {}
=============================================================================
