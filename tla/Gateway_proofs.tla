---------------------------- MODULE Gateway_proofs ----------------------------
(***************************************************************************)
(* Proofs about the remote server and its deployments, for any number of   *)
(* events, tokens and deployments, any quota, and any authorization        *)
(* servers.                                                                *)
(***************************************************************************)
EXTENDS Gateway, FiniteSetTheorems, TLAPS

\* What is still to be deployed is what differs from the stack.
DeployInv ==
    /\ "api" \notin pending => authorizer = stack.provider
    /\ "function" \notin pending => environment = stack
    /\ "table" \in pending => Persistent(stack) /\ ~exists
    /\ "cleanup" \in pending => ~Persistent(stack) /\ exists
    /\ {"table", "cleanup"} \cap pending = {} => exists = Persistent(stack)
    /\ tables <= deployments + 1
    /\ "table" \in pending => tables <= deployments

Holds(e) == invocation[e] # Nothing /\ invocation[e].at \in {"confirmed", "acquired"}

\* A redeemed token was given to the event's caller, for what it now does, and
\* nothing else holds it or has used it.
RedeemedInv(e) ==
    LET i == invocation[e]
    IN  /\ i.token \in Token /\ i.action \in Action
        /\ previews[i.token] # Nothing
        /\ previews[i.token].holder = i.holder
        /\ previews[i.token].action = i.action
        /\ rows[i.token] # Nothing => rows[i.token].consumed
        /\ \A r \in sent : r.token # i.token
        /\ \A d \in Event : Holds(d) /\ invocation[d].token = i.token => d = e

EventInv ==
    \A e \in Event : invocation[e] # Nothing =>
        /\ invocation[e].caller = invocation[e].holder
        /\ invocation[e].table <= tables
        /\ invocation[e].at = "acquired" => invocation[e].action = "cost"
        /\ Holds(e) => RedeemedInv(e)

\* A row is the one of the preview that drew its token; while it can be
\* redeemed nothing was sent for it.
RowInv ==
    \A t \in Token : rows[t] # Nothing =>
        /\ previews[t] # Nothing
        /\ rows[t].caller = previews[t].holder
        /\ rows[t].action = previews[t].action
        /\ ~rows[t].consumed => \A r \in sent : r.token # t

TableInv ==
    /\ \A t \in Token : previews[t] # Nothing => previews[t].table <= tables
    /\ \A r \in sent : r.table <= tables

\* The billable requests made on a table, and those that hold a slot of it.
Billed(k) == {r \in sent : r.action = "cost" /\ r.table = k}
Billing(k) == {e \in Event : At(e, "acquired") /\ invocation[e].table = k}

SlotInv ==
    \A k \in 0..tables :
        /\ IsFiniteSet(Billed(k)) /\ IsFiniteSet(Billing(k))
        /\ Cardinality(Billed(k)) + Cardinality(Billing(k)) <= Limit
        /\ k = tables /\ exists =>
              Cardinality(Billed(k)) + Cardinality(Billing(k)) <= slots

Inv ==
    /\ TypeOK /\ DeployInv /\ EventInv /\ RowInv /\ TableInv /\ SlotInv
    /\ ActedAsPreviewed /\ PreviewOutlivesItsEvent
-----------------------------------------------------------------------------
(* Typing. *)

LEMMA Parts ==
    /\ \A p \in Parameters : p.provider \in Provider /\ p.external \in BOOLEAN /\ p.cost \in BOOLEAN
    /\ \A p \in Provider : p.issuer \in Issuer /\ p.required_scopes \in SUBSET Scope
    /\ \A c \in Claims : c.iss \in Issuer /\ c.sub \in Subject \cup {NoSubject}
    /\ \A i \in Invocation :
          /\ i.environment \in Parameters /\ i.holder \in CallerContext
          /\ i.caller \in CallerContext /\ i.at \in {"built", "confirmed", "acquired"}
          /\ i.action \in Action \cup {Nothing} /\ i.token \in Token \cup {Nothing}
          /\ i.table \in Nat
    /\ \A r \in Row : r.caller \in CallerContext /\ r.action \in Action /\ r.consumed \in BOOLEAN
    /\ \A v \in Preview : v.holder \in CallerContext /\ v.action \in Action /\ v.table \in Nat
    /\ \A r \in Request :
          /\ r.holder \in CallerContext /\ r.action \in Action /\ r.token \in Token
          /\ r.table \in Nat /\ r.number \in Nat
    /\ Nothing \notin Row /\ Nothing \notin Preview /\ Nothing \notin Invocation
    /\ Nothing \notin Token /\ Nothing \notin Action
BY NameAssumption, AuthorizationAssumption
   DEF Parameters, AuthorizationConfig, Claims, Invocation, Row, Preview, Request

\* The service of an event that offers a tool of the table: its guard is there.
LEMMA ServiceIs ==
    ASSUME NEW env \in Parameters
    PROVE  /\ \A a \in Action : <<"prepare", a>> \in Offered(env) =>
                 Service(env).confirmations = "table"
           /\ Service(env).confirmations = "table" => Persistent(env)
BY NameAssumption, Parts
   DEF Service, Components, Offered, Included, Persistent, Action

\* A step of event e that leaves the deployment alone.
LEMMA InvokeType ==
    ASSUME TypeOK, NEW e \in Event, NEW c \in Presented, Invoke(e, c)
    PROVE  /\ Caller(c.iss, c.sub) \in CallerContext
           /\ GatewayCaller(c, environment.provider) = Caller(c.iss, c.sub)
           /\ [environment |-> environment, holder |-> Caller(c.iss, c.sub),
               caller |-> GatewayCaller(c, environment.provider),
               at |-> "built", action |-> Nothing, token |-> Nothing, table |-> 0]
                 \in Invocation
<1>1. c \in Claims /\ c.iss \in Issuer /\ c.sub \in Subject
  BY GatewayAssumption, Parts DEF Invoke, HandlerAccepts
<1>2. c.iss = environment.provider.issuer
  BY DEF Invoke, HandlerAccepts
<1>3. Caller(c.iss, c.sub) \in CallerContext
  BY <1>1 DEF Caller, CallerContext
<1>4. GatewayCaller(c, environment.provider) = Caller(c.iss, c.sub)
  BY <1>2 DEF GatewayCaller
<1> QED
  BY <1>3, <1>4 DEF Invocation, TypeOK

-----------------------------------------------------------------------------
(* The deployment: a step of it leaves the events alone, and the table is  *)
(* there for whoever was built to need it.                                 *)

LEMMA DeploymentTypes ==
    ASSUME TypeOK, DeployInv,
           \/ \E p \in Parameters : Deploy(p)
           \/ CreateTable \/ UpdateFunction \/ UpdateApi \/ DeleteTable
    PROVE  TypeOK' /\ DeployInv'
<1> USE DEF TypeOK, DeployInv, tableVars
<1>0. MaxDeployments \in Nat
  BY GatewayAssumption
<1>1. ASSUME NEW p \in Parameters, Deploy(p) PROVE TypeOK' /\ DeployInv'
  <2>1. /\ UNCHANGED <<tables, exists, rows, slots, invocation, previews, sent,
                       authorizer, environment>>
        /\ stack' = p /\ deployments' = deployments + 1 /\ deployments < MaxDeployments
        /\ pending = {} /\ exists \in BOOLEAN
    BY <1>1 DEF Deploy
  <2>2. pending' = {"api", "function"}
                   \cup (IF Persistent(p) /\ ~exists THEN {"table"} ELSE {})
                   \cup (IF ~Persistent(p) /\ exists THEN {"cleanup"} ELSE {})
    BY <1>1 DEF Deploy
  <2>3. pending' # {} /\ "api" \in pending' /\ "function" \in pending'
    BY <2>2
  <2>4. TypeOK'
    BY <1>0, <2>1, <2>2, <2>3
  <2>5. /\ "table" \in pending' => Persistent(p) /\ ~exists
        /\ "cleanup" \in pending' => ~Persistent(p) /\ exists
        /\ {"table", "cleanup"} \cap pending' = {} => exists = Persistent(p)
    <3>1. Persistent(p) \in BOOLEAN
      BY Parts DEF Persistent
    <3> QED  BY <2>1, <2>2, <3>1
  <2>6. Persistent(stack)' = Persistent(p)
    BY <2>1 DEF Persistent
  <2>7. tables <= deployments'
    BY <1>0, <2>1
  <2> QED  BY <1>0, <2>1, <2>3, <2>4, <2>5, <2>6, <2>7
<1>2. ASSUME CreateTable PROVE TypeOK' /\ DeployInv'
  <2>1. /\ UNCHANGED <<stack, deployments, rows, slots, invocation, previews, sent,
                       authorizer, environment>>
        /\ tables' = tables + 1 /\ exists' = TRUE /\ pending' = pending \ {"table"}
        /\ "table" \in pending
    BY <1>2 DEF CreateTable, Done
  <2>2. tables <= deployments /\ Persistent(stack) /\ "cleanup" \notin pending
    BY <2>1
  <2>3. Persistent(stack)' = Persistent(stack)
    BY <2>1 DEF Persistent
  <2>4. tables' \in 0..MaxDeployments + 1 /\ tables' <= deployments + 1
    BY <1>0, <2>1, <2>2
  <2> QED  BY <1>0, <2>1, <2>2, <2>3, <2>4
<1>3. ASSUME UpdateFunction PROVE TypeOK' /\ DeployInv'
  <2>1. /\ UNCHANGED <<stack, deployments, tables, exists, rows, slots, invocation, previews,
                       sent, authorizer>>
        /\ environment' = stack /\ pending' = pending \ {"function"}
        /\ "function" \in pending
    BY <1>3 DEF UpdateFunction, Done
  <2>2. Persistent(stack)' = Persistent(stack)
    BY <2>1 DEF Persistent
  <2> QED  BY <2>1, <2>2
<1>4. ASSUME UpdateApi PROVE TypeOK' /\ DeployInv'
  <2>1. /\ UNCHANGED <<stack, deployments, tables, exists, rows, slots, invocation, previews,
                       sent, environment>>
        /\ authorizer' = stack.provider /\ pending' = pending \ {"api"}
        /\ "api" \in pending
    BY <1>4 DEF UpdateApi, Done
  <2>2. Persistent(stack)' = Persistent(stack)
    BY <2>1 DEF Persistent
  <2>3. pending' = {} => environment' = stack' /\ exists' = Persistent(stack)'
    BY <2>1, <2>2
  <2>4. TypeOK'
    BY <2>1, <2>3, Parts
  <2> QED  BY <2>1, <2>2, <2>4
<1>5. ASSUME DeleteTable PROVE TypeOK' /\ DeployInv'
  <2>1. /\ UNCHANGED <<stack, deployments, tables, invocation, previews,
                       sent, authorizer, environment>>
        /\ pending = {"cleanup"} /\ pending' = {} /\ exists' = FALSE
        /\ rows' = [t \in Token |-> Nothing] /\ slots' = 0
    BY <1>5 DEF DeleteTable, Done, EmptyTable
  <2>2. Persistent(stack)' = Persistent(stack) /\ ~Persistent(stack)
    BY <2>1 DEF Persistent
  <2>3. Limit \in Nat
    BY GatewayAssumption
  <2>4. environment = stack /\ authorizer = stack.provider
    BY <2>1
  <2>5. environment' = stack' /\ authorizer' = stack'.provider
    BY <2>1, <2>4
  <2>8. exists' = FALSE /\ Persistent(stack)' = FALSE
    BY <2>1, <2>2 DEF Persistent
  <2>6. \A t \in Token : rows'[t] = Nothing
    BY <2>1
  <2>7. TypeOK'
    <3>1. (pending = {} => environment = stack /\ authorizer = stack.provider
                           /\ exists = Persistent(stack))'
      BY <2>5, <2>8
    <3>2. (~exists => slots = 0 /\ \A t \in Token : rows[t] = Nothing)'
      BY <2>1, <2>6
    <3>3. rows' \in [Token -> Row \cup {Nothing}] /\ slots' \in 0..Limit
      BY <2>1, <2>3
    <3>4. exists' \in BOOLEAN
      BY <2>8
    <3> QED  BY <2>1, <3>1, <3>2, <3>3, <3>4
  <2> QED  BY <1>0, <2>1, <2>5, <2>7, <2>8
<1> QED  BY <1>1, <1>2, <1>3, <1>4, <1>5

\* The steps of an event, and what each of them leaves alone.
EventStep ==
    \/ \E e \in Event, c \in Presented : Invoke(e, c)
    \/ \E e \in Event, t \in Token, a \in Action : Prepare(e, t, a) \/ Consume(e, t, a)
    \/ \E e \in Event : Acquire(e) \/ Send(e) \/ End(e)

\* What a preview writes.
NewRow(e, a) == [caller |-> invocation[e].caller, action |-> a, consumed |-> FALSE]
NewPreview(e, a) == [holder |-> invocation[e].holder, action |-> a, table |-> tables]

\* The service of whoever prepares is the table, which therefore is there.
LEMMA PrepareEffect ==
    ASSUME TypeOK, NEW e \in Event, NEW t \in Token, NEW a \in Action, Prepare(e, t, a)
    PROVE  /\ invocation[e] \in Invocation /\ previews[t] = Nothing
           /\ exists
           /\ rows' = [rows EXCEPT ![t] = NewRow(e, a)] /\ NewRow(e, a) \in Row
           /\ previews' = [previews EXCEPT ![t] = NewPreview(e, a)]
           /\ NewPreview(e, a) \in Preview
           /\ invocation' = [invocation EXCEPT ![e] = Nothing]
           /\ UNCHANGED <<deployVars, tables, exists, slots, sent>>
<1>1. invocation[e] \in Invocation /\ <<"prepare", a>> \in Offered(invocation[e].environment)
  BY DEF TypeOK, Prepare, Calls
<1>2. Service(invocation[e].environment).confirmations = "table"
  BY <1>1, Parts, ServiceIs
<1>3. tables \in Nat
  BY GatewayAssumption DEF TypeOK
<1>4. NewRow(e, a) \in Row /\ NewPreview(e, a) \in Preview
  BY <1>1, <1>3, Parts DEF Row, Preview, NewRow, NewPreview
<1> QED
  BY <1>1, <1>2, <1>4 DEF Prepare, Ends, NewRow, NewPreview

\* What redeeming a token makes of its row and of the event.
Redeemed(t) == [rows[t] EXCEPT !.consumed = TRUE]
Redeemer(e, t, a) ==
    [invocation[e] EXCEPT !.at = "confirmed", !.action = a, !.token = t]

LEMMA ConsumeEffect ==
    ASSUME TypeOK, NEW e \in Event, NEW t \in Token, NEW a \in Action, Consume(e, t, a)
    PROVE  /\ invocation[e] \in Invocation /\ invocation[e].at = "built"
           /\ rows[t] \in Row /\ ~rows[t].consumed
           /\ rows[t].caller = invocation[e].caller /\ rows[t].action = a
           /\ rows' = [rows EXCEPT ![t] = Redeemed(t)] /\ Redeemed(t) \in Row
           /\ invocation' = [invocation EXCEPT ![e] = Redeemer(e, t, a)]
           /\ Redeemer(e, t, a) \in Invocation
           /\ exists
           /\ UNCHANGED <<deployVars, tables, exists, slots, previews, sent>>
<1>1. invocation[e] \in Invocation /\ invocation[e].at = "built" /\ rows[t] \in Row
  BY DEF TypeOK, Consume, Calls
<1>2. Redeemed(t) \in Row /\ Redeemer(e, t, a) \in Invocation
  BY <1>1 DEF Row, Invocation, Redeemed, Redeemer
<1>3. ~rows[t].consumed /\ rows[t].caller = invocation[e].caller /\ rows[t].action = a
  BY DEF Consume, RowMatches
<1>4. exists
  BY <1>1, Parts DEF TypeOK, Consume
<1>5. invocation' = [invocation EXCEPT ![e] = Redeemer(e, t, a)]
  BY <1>1 DEF Consume, TypeOK, Redeemer
<1>6. rows' = [rows EXCEPT ![t] = Redeemed(t)]
  BY DEF Consume, TypeOK, Redeemed
<1> QED
  BY <1>1, <1>2, <1>3, <1>4, <1>5, <1>6 DEF Consume

LEMMA AcquireEffect ==
    ASSUME TypeOK, NEW e \in Event, Acquire(e)
    PROVE  /\ invocation[e] \in Invocation /\ invocation[e].at = "confirmed"
           /\ invocation[e].action = "cost"
           /\ exists /\ slots < Limit /\ slots' = slots + 1
           /\ invocation' = [invocation EXCEPT ![e] =
                 [invocation[e] EXCEPT !.at = "acquired", !.table = tables]]
           /\ [invocation[e] EXCEPT !.at = "acquired", !.table = tables] \in Invocation
           /\ UNCHANGED <<deployVars, tables, exists, rows, previews, sent>>
<1>1. invocation[e] \in Invocation /\ invocation[e].at = "confirmed"
  BY DEF TypeOK, Acquire, At
<1>2. tables \in Nat
  BY GatewayAssumption DEF TypeOK
<1>3. [invocation[e] EXCEPT !.at = "acquired", !.table = tables] \in Invocation
  BY <1>1, <1>2 DEF Invocation
<1>4. invocation' = [invocation EXCEPT ![e] =
                 [invocation[e] EXCEPT !.at = "acquired", !.table = tables]]
  BY <1>1 DEF Acquire, TypeOK
<1> QED
  BY <1>1, <1>3, <1>4 DEF Acquire

\* What an event sends is what it holds.
RequestOf(e) ==
    [holder |-> invocation[e].holder, action |-> invocation[e].action,
     token |-> invocation[e].token, table |-> invocation[e].table,
     number |-> Cardinality(sent)]

LEMMA SendEffect ==
    ASSUME TypeOK, EventInv, NEW e \in Event, Send(e)
    PROVE  /\ invocation[e] \in Invocation /\ Holds(e) /\ RedeemedInv(e)
           /\ invocation[e].at = "confirmed" => invocation[e].action = "write"
           /\ RequestOf(e) \in Request
           /\ sent' = sent \cup {RequestOf(e)} /\ IsFiniteSet(sent')
           /\ invocation' = [invocation EXCEPT ![e] = Nothing]
           /\ UNCHANGED <<deployVars, tables, exists, rows, slots, previews>>
<1>1. invocation[e] # Nothing /\ invocation[e] \in Invocation
  BY DEF TypeOK, Send, ReadyToSend, At
<1>2. Holds(e)
  BY DEF Holds, Send, ReadyToSend, At
<1>3. RedeemedInv(e)
  BY <1>1, <1>2 DEF EventInv
<1>4. IsFiniteSet(sent) /\ Cardinality(sent) \in Nat
  BY FS_CardinalityType DEF TypeOK
<1>5. RequestOf(e) \in Request
  BY <1>1, <1>3, <1>4, Parts DEF RequestOf, Request, RedeemedInv
<1>6. invocation[e].at = "confirmed" => invocation[e].action = "write"
  BY DEF Send, ReadyToSend, At
<1>7. sent' = sent \cup {RequestOf(e)}
  BY DEF Send, RequestOf
<1>8. IsFiniteSet(sent')
  BY <1>4, <1>7, FS_AddElement
<1> QED
  BY <1>1, <1>2, <1>3, <1>5, <1>6, <1>7, <1>8 DEF Send, Ends, tableVars

\* It is enough that what an event writes has its type, and that it writes
\* to the table only while that is there.
LEMMA EventTypeFrame ==
    ASSUME TypeOK, UNCHANGED <<deployVars, tables, exists>>,
           rows' \in [Token -> Row \cup {Nothing}], slots' \in 0..Limit,
           invocation' \in [Event -> Invocation \cup {Nothing}],
           previews' \in [Token -> Preview \cup {Nothing}],
           sent' \subseteq Request, IsFiniteSet(sent'),
           ~exists => UNCHANGED <<rows, slots>>
    PROVE  TypeOK'
<1>1. UNCHANGED <<stack, pending, deployments, authorizer, environment, tables, exists>>
  BY DEF deployVars
<1>2. Persistent(stack)' = Persistent(stack)
  BY <1>1 DEF Persistent
<1>3. (~exists => slots = 0 /\ \A t \in Token : rows[t] = Nothing)'
  BY <1>1 DEF TypeOK
<1> QED
  BY <1>1, <1>2, <1>3 DEF TypeOK

LEMMA EventTypes ==
    ASSUME TypeOK, EventInv, EventStep
    PROVE  TypeOK'
<1>0. /\ rows \in [Token -> Row \cup {Nothing}] /\ slots \in 0..Limit
      /\ invocation \in [Event -> Invocation \cup {Nothing}]
      /\ previews \in [Token -> Preview \cup {Nothing}]
      /\ sent \subseteq Request /\ IsFiniteSet(sent)
  BY DEF TypeOK
<1>1. ASSUME NEW e \in Event, NEW c \in Presented, Invoke(e, c) PROVE TypeOK'
  <2>1. invocation' \in [Event -> Invocation \cup {Nothing}]
    BY <1>0, <1>1, InvokeType DEF Invoke
  <2> QED  BY <1>0, <1>1, <2>1, EventTypeFrame DEF Invoke, tableVars
<1>2. ASSUME NEW e \in Event, NEW t \in Token, NEW a \in Action, Prepare(e, t, a) PROVE TypeOK'
  <2>0. /\ NewRow(e, a) \in Row /\ NewPreview(e, a) \in Preview
        /\ rows' = [rows EXCEPT ![t] = NewRow(e, a)]
        /\ previews' = [previews EXCEPT ![t] = NewPreview(e, a)]
        /\ invocation' = [invocation EXCEPT ![e] = Nothing]
    BY <1>2, PrepareEffect
  <2>1. /\ rows' \in [Token -> Row \cup {Nothing}]
        /\ invocation' \in [Event -> Invocation \cup {Nothing}]
        /\ previews' \in [Token -> Preview \cup {Nothing}]
    BY <1>0, <2>0
  <2>2. exists /\ UNCHANGED <<deployVars, tables, exists, slots, sent>>
    BY <1>2, PrepareEffect
  <2> QED  BY <1>0, <2>1, <2>2, EventTypeFrame
<1>3. ASSUME NEW e \in Event, NEW t \in Token, NEW a \in Action, Consume(e, t, a) PROVE TypeOK'
  <2>0. /\ Redeemed(t) \in Row /\ Redeemer(e, t, a) \in Invocation
        /\ rows' = [rows EXCEPT ![t] = Redeemed(t)]
        /\ invocation' = [invocation EXCEPT ![e] = Redeemer(e, t, a)]
    BY <1>3, ConsumeEffect
  <2>1. /\ rows' \in [Token -> Row \cup {Nothing}]
        /\ invocation' \in [Event -> Invocation \cup {Nothing}]
    BY <1>0, <2>0
  <2>2. exists /\ UNCHANGED <<deployVars, tables, exists, slots, previews, sent>>
    BY <1>3, ConsumeEffect
  <2> QED  BY <1>0, <2>1, <2>2, EventTypeFrame
<1>4. ASSUME NEW e \in Event, Acquire(e) PROVE TypeOK'
  <2>1. /\ slots < Limit /\ slots' = slots + 1
        /\ invocation' \in [Event -> Invocation \cup {Nothing}]
        /\ exists /\ UNCHANGED <<deployVars, tables, exists, rows, previews, sent>>
    BY <1>0, <1>4, AcquireEffect
  <2>2. slots' \in 0..Limit
    BY <1>0, <2>1, GatewayAssumption
  <2> QED  BY <1>0, <2>1, <2>2, EventTypeFrame
<1>5. ASSUME NEW e \in Event, Send(e) PROVE TypeOK'
  <2>1. /\ sent' \subseteq Request /\ IsFiniteSet(sent')
        /\ invocation' \in [Event -> Invocation \cup {Nothing}]
        /\ UNCHANGED <<deployVars, tables, exists, rows, slots, previews>>
    BY <1>0, <1>5, SendEffect
  <2> QED  BY <1>0, <2>1, EventTypeFrame
<1>6. ASSUME NEW e \in Event, End(e) PROVE TypeOK'
  <2>1. /\ invocation' \in [Event -> Invocation \cup {Nothing}]
        /\ UNCHANGED <<deployVars, tableVars, previews, sent>>
    BY <1>0, <1>6 DEF End, Ends
  <2> QED  BY <1>0, <2>1, EventTypeFrame DEF tableVars
<1> QED
  BY <1>1, <1>2, <1>3, <1>4, <1>5, <1>6 DEF EventStep

LEMMA EventKeepsDeployment ==
    ASSUME DeployInv, UNCHANGED <<deployVars, tables, exists>>
    PROVE  DeployInv'
BY DEF DeployInv, deployVars, Persistent

-----------------------------------------------------------------------------
(* The tokens: which event holds one, and what its row says. *)

\* A holder keeps its token through a step that changes neither the holder
\* nor the token's preview and row, sends nothing for it, and gives it to nobody.
LEMMA HolderKeeps ==
    ASSUME NEW d \in Event, RedeemedInv(d),
           invocation'[d] = invocation[d],
           previews'[invocation[d].token] = previews[invocation[d].token],
           rows'[invocation[d].token] = rows[invocation[d].token]
               \/ rows'[invocation[d].token] = Nothing,
           \A r \in sent' : r.token # invocation[d].token,
           \A f \in Event : Holds(f)' /\ invocation'[f].token = invocation[d].token => f = d
    PROVE  RedeemedInv(d)'
BY DEF RedeemedInv

\* A step that only ends events, begins them, or loses the rows.
LEMMA TokensKept ==
    ASSUME TypeOK, EventInv, RowInv, TableInv,
           NEW e \in Event,
           \A d \in Event \ {e} : invocation'[d] = invocation[d],
           invocation'[e] # Nothing =>
               /\ ~Holds(e)' /\ invocation'[e].at = "built"
               /\ invocation'[e].caller = invocation'[e].holder
               /\ invocation'[e].table = 0,
           tables' \in Nat, tables <= tables',
           \A t \in Token : rows'[t] \in {rows[t], Nothing},
           UNCHANGED <<previews, sent>>
    PROVE  EventInv' /\ RowInv' /\ TableInv'
<1>0. tables \in Nat
  BY GatewayAssumption DEF TypeOK
<1>1. \A d \in Event : Holds(d)' => d # e /\ Holds(d) /\ invocation'[d] = invocation[d]
  BY DEF Holds
<1>2. ASSUME NEW d \in Event, Holds(d)' PROVE RedeemedInv(d)'
  <2>1. Holds(d) /\ invocation'[d] = invocation[d] /\ RedeemedInv(d)
    BY <1>1, <1>2 DEF EventInv, Holds
  <2>2. \A f \in Event : Holds(f)' /\ invocation'[f].token = invocation[d].token => f = d
    BY <1>1, <2>1 DEF RedeemedInv
  <2>3. invocation[d].token \in Token /\ \A r \in sent' : r.token # invocation[d].token
    BY <2>1 DEF RedeemedInv
  <2> QED  BY <2>1, <2>2, <2>3, HolderKeeps
<1>3. EventInv'
  <2> SUFFICES ASSUME NEW d \in Event, invocation'[d] # Nothing
               PROVE  /\ invocation'[d].caller = invocation'[d].holder
                      /\ invocation'[d].table <= tables'
                      /\ invocation'[d].at = "acquired" => invocation'[d].action = "cost"
    BY <1>2 DEF EventInv
  <2>1. CASE d = e
    BY <1>0, <2>1
  <2>2. CASE d # e
    <3>1. invocation'[d] = invocation[d] /\ invocation[d].table <= tables
      BY <2>2 DEF EventInv
    <3>2. invocation[d].table \in Nat
      BY <3>1, Parts DEF TypeOK
    <3> QED  BY <1>0, <3>1, <3>2 DEF EventInv
  <2> QED  BY <2>1, <2>2
<1>4. RowInv'
  BY DEF RowInv
<1>5. TableInv'
  <2>1. \A t \in Token : previews[t] # Nothing => previews[t].table \in Nat
    BY Parts DEF TypeOK
  <2>2. \A r \in sent : r.table \in Nat
    BY Parts DEF TypeOK
  <2> QED  BY <1>0, <2>1, <2>2 DEF TableInv
<1> QED  BY <1>3, <1>4, <1>5

\* A token that nobody was given is held by no event and nothing was sent for it.
LEMMA FreshToken ==
    ASSUME TypeOK, EventInv, RowInv, ActedAsPreviewed, NEW t \in Token, previews[t] = Nothing
    PROVE  /\ rows[t] = Nothing
           /\ \A r \in sent : r.token # t
           /\ \A d \in Event : Holds(d) => invocation[d].token # t
BY DEF RowInv, ActedAsPreviewed, EventInv, RedeemedInv, Holds

LEMMA PrepareKeepsTokens ==
    ASSUME TypeOK, EventInv, RowInv, TableInv, ActedAsPreviewed,
           NEW e \in Event, NEW t \in Token, NEW a \in Action, Prepare(e, t, a)
    PROVE  EventInv' /\ RowInv' /\ TableInv' /\ ActedAsPreviewed'
<1>0. tables \in Nat
  BY GatewayAssumption DEF TypeOK
<1>1. /\ previews[t] = Nothing /\ invocation[e] # Nothing
      /\ tables' = tables /\ sent' = sent
      /\ invocation' = [invocation EXCEPT ![e] = Nothing]
  BY PrepareEffect, Parts
<1>2. /\ rows' = [rows EXCEPT ![t] = NewRow(e, a)]
      /\ previews' = [previews EXCEPT ![t] = NewPreview(e, a)]
      /\ NewPreview(e, a) \in Preview
  BY PrepareEffect
<1>3. /\ \A u \in Token \ {t} : rows'[u] = rows[u] /\ previews'[u] = previews[u]
      /\ rows'[t].caller = invocation[e].caller /\ rows'[t].action = a
      /\ previews'[t].holder = invocation[e].holder /\ previews'[t].action = a
      /\ previews'[t].table = tables /\ previews'[t] # Nothing
  BY <1>2, Parts DEF TypeOK, NewRow, NewPreview
<1>4. /\ rows[t] = Nothing
      /\ \A r \in sent : r.token # t
      /\ \A d \in Event : Holds(d) => invocation[d].token # t
  BY <1>1, FreshToken
<1>5. \A d \in Event : invocation'[d] # Nothing => d # e /\ invocation'[d] = invocation[d]
  BY <1>1 DEF TypeOK
<1>6. \A d \in Event : Holds(d)' => Holds(d) /\ invocation'[d] = invocation[d]
  BY <1>5 DEF Holds
<1>7. EventInv'
  <2>1. ASSUME NEW d \in Event, Holds(d)' PROVE RedeemedInv(d)'
    <3>1. Holds(d) /\ invocation'[d] = invocation[d] /\ RedeemedInv(d)
      BY <1>6, <2>1 DEF EventInv, Holds
    <3>2. \A f \in Event : Holds(f)' /\ invocation'[f].token = invocation[d].token => f = d
      BY <1>6, <3>1 DEF RedeemedInv
    <3>3. invocation[d].token \in Token /\ invocation[d].token # t
      BY <1>4, <3>1 DEF RedeemedInv
    <3>4. \A r \in sent' : r.token # invocation[d].token
      BY <1>1, <3>1 DEF RedeemedInv
    <3> QED  BY <1>3, <3>1, <3>2, <3>3, <3>4, HolderKeeps
  <2> QED  BY <1>1, <1>5, <2>1 DEF EventInv
<1>8. RowInv'
  <2>1. invocation[e].caller = invocation[e].holder
    BY <1>1 DEF EventInv
  <2> SUFFICES ASSUME NEW u \in Token, rows'[u] # Nothing
               PROVE  /\ previews'[u] # Nothing
                      /\ rows'[u].caller = previews'[u].holder
                      /\ rows'[u].action = previews'[u].action
                      /\ ~rows'[u].consumed => \A r \in sent' : r.token # u
    BY DEF RowInv
  <2>2. CASE u = t
    BY <1>1, <1>3, <1>4, <2>1, <2>2
  <2>3. CASE u # t
    BY <1>1, <1>3, <2>3 DEF RowInv
  <2> QED  BY <2>2, <2>3
<1>9. TableInv'
  BY <1>0, <1>1, <1>3 DEF TableInv
<1>10. ActedAsPreviewed'
  <2>1. \A r \in sent : r.token \in Token /\ r.token # t
    BY <1>4, Parts DEF TypeOK
  <2> QED  BY <1>1, <1>3, <2>1 DEF ActedAsPreviewed
<1> QED  BY <1>7, <1>8, <1>9, <1>10

LEMMA ConsumeKeepsTokens ==
    ASSUME TypeOK, EventInv, RowInv, TableInv, ActedAsPreviewed,
           NEW e \in Event, NEW t \in Token, NEW a \in Action, Consume(e, t, a)
    PROVE  EventInv' /\ RowInv' /\ TableInv'
<1>1. /\ invocation[e] \in Invocation /\ invocation[e].at = "built"
      /\ rows[t] \in Row /\ ~rows[t].consumed
      /\ rows[t].caller = invocation[e].caller /\ rows[t].action = a
      /\ tables' = tables /\ previews' = previews /\ sent' = sent
  BY ConsumeEffect
<1>2. /\ rows' = [rows EXCEPT ![t] = Redeemed(t)]
      /\ invocation' = [invocation EXCEPT ![e] = Redeemer(e, t, a)]
  BY ConsumeEffect
<1>3. /\ \A u \in Token \ {t} : rows'[u] = rows[u]
      /\ rows'[t].caller = rows[t].caller /\ rows'[t].action = rows[t].action
      /\ rows'[t].consumed
  BY <1>1, <1>2 DEF TypeOK, Redeemed, Row
<1>4. /\ \A d \in Event \ {e} : invocation'[d] = invocation[d]
      /\ invocation'[e].at = "confirmed" /\ invocation'[e].token = t
      /\ invocation'[e].action = a /\ invocation'[e].table = invocation[e].table
      /\ invocation'[e].holder = invocation[e].holder
      /\ invocation'[e].caller = invocation[e].caller
  BY <1>1, <1>2 DEF TypeOK, Redeemer, Invocation
<1>5. /\ previews[t] # Nothing
      /\ rows[t].caller = previews[t].holder /\ rows[t].action = previews[t].action
      /\ \A r \in sent : r.token # t
      /\ invocation[e].caller = invocation[e].holder
  BY <1>1, Parts DEF RowInv, EventInv
<1>6. \A d \in Event : Holds(d) => invocation[d].token # t /\ d # e
  BY <1>1, Parts DEF EventInv, RedeemedInv, Holds
<1>7. \A d \in Event \ {e} : Holds(d)' => Holds(d)
  BY <1>4 DEF Holds
<1>8. ASSUME NEW d \in Event, Holds(d)' PROVE RedeemedInv(d)'
  <2>1. CASE d = e
    <3>1. \A f \in Event : Holds(f)' /\ invocation'[f].token = t => f = e
      BY <1>4, <1>6, <1>7
    <3> QED  BY <1>1, <1>3, <1>4, <1>5, <2>1, <3>1 DEF RedeemedInv
  <2>2. CASE d # e
    <3>1. Holds(d) /\ invocation'[d] = invocation[d] /\ RedeemedInv(d)
      BY <1>4, <1>7, <1>8, <2>2 DEF EventInv, Holds
    <3>2. invocation[d].token # t /\ invocation[d].token \in Token
      BY <1>6, <3>1 DEF RedeemedInv
    <3>3. \A f \in Event : Holds(f)' /\ invocation'[f].token = invocation[d].token => f = d
      BY <1>4, <1>7, <3>1, <3>2 DEF RedeemedInv
    <3>4. \A r \in sent' : r.token # invocation[d].token
      BY <1>1, <3>1 DEF RedeemedInv
    <3> QED  BY <1>1, <1>3, <3>1, <3>2, <3>3, <3>4, HolderKeeps
  <2> QED  BY <2>1, <2>2
<1>9. EventInv'
  <2> SUFFICES ASSUME NEW d \in Event, invocation'[d] # Nothing
               PROVE  /\ invocation'[d].caller = invocation'[d].holder
                      /\ invocation'[d].table <= tables'
                      /\ invocation'[d].at = "acquired" => invocation'[d].action = "cost"
    BY <1>8 DEF EventInv
  <2>1. CASE d = e
    BY <1>1, <1>4, <1>5, <2>1, Parts DEF EventInv
  <2>2. CASE d # e
    BY <1>1, <1>4, <2>2 DEF EventInv
  <2> QED  BY <2>1, <2>2
<1>10. RowInv'
  <2> SUFFICES ASSUME NEW u \in Token, rows'[u] # Nothing
               PROVE  /\ previews'[u] # Nothing
                      /\ rows'[u].caller = previews'[u].holder
                      /\ rows'[u].action = previews'[u].action
                      /\ ~rows'[u].consumed => \A r \in sent' : r.token # u
    BY DEF RowInv
  <2>1. CASE u = t
    BY <1>1, <1>3, <1>5, <2>1
  <2>2. CASE u # t
    BY <1>1, <1>3, <2>2 DEF RowInv
  <2> QED  BY <2>1, <2>2
<1> QED
  BY <1>1, <1>9, <1>10 DEF TableInv

LEMMA AcquireKeepsTokens ==
    ASSUME TypeOK, EventInv, RowInv, TableInv, NEW e \in Event, Acquire(e)
    PROVE  EventInv' /\ RowInv' /\ TableInv'
<1>0. tables \in Nat
  BY GatewayAssumption DEF TypeOK
<1>1. /\ invocation[e] \in Invocation /\ invocation[e].at = "confirmed"
      /\ invocation[e].action = "cost"
      /\ tables' = tables /\ previews' = previews /\ sent' = sent /\ rows' = rows
      /\ invocation' = [invocation EXCEPT ![e] =
            [invocation[e] EXCEPT !.at = "acquired", !.table = tables]]
  BY AcquireEffect
<1>2. /\ \A d \in Event \ {e} : invocation'[d] = invocation[d]
      /\ invocation'[e].at = "acquired" /\ invocation'[e].table = tables
      /\ invocation'[e].token = invocation[e].token
      /\ invocation'[e].action = invocation[e].action
      /\ invocation'[e].holder = invocation[e].holder
      /\ invocation'[e].caller = invocation[e].caller
  BY <1>1 DEF TypeOK, Invocation
<1>3. Holds(e) /\ \A d \in Event : Holds(d)' => Holds(d) /\ invocation'[d].token = invocation[d].token
  BY <1>1, <1>2, Parts DEF Holds
<1>4. ASSUME NEW d \in Event, Holds(d)' PROVE RedeemedInv(d)'
  <2>1. Holds(d) /\ RedeemedInv(d)
    BY <1>3, <1>4 DEF EventInv, Holds
  <2>2. /\ invocation'[d].token = invocation[d].token
        /\ invocation'[d].action = invocation[d].action
        /\ invocation'[d].holder = invocation[d].holder
    BY <1>2
  <2>3. \A f \in Event : Holds(f)' /\ invocation'[f].token = invocation'[d].token => f = d
    BY <1>3, <2>1, <2>2 DEF RedeemedInv
  <2> QED  BY <1>1, <2>1, <2>2, <2>3 DEF RedeemedInv
<1>5. EventInv'
  <2> SUFFICES ASSUME NEW d \in Event, invocation'[d] # Nothing
               PROVE  /\ invocation'[d].caller = invocation'[d].holder
                      /\ invocation'[d].table <= tables'
                      /\ invocation'[d].at = "acquired" => invocation'[d].action = "cost"
    BY <1>4 DEF EventInv
  <2>1. CASE d = e
    BY <1>0, <1>1, <1>2, <2>1, Parts DEF EventInv
  <2>2. CASE d # e
    BY <1>1, <1>2, <2>2 DEF EventInv
  <2> QED  BY <2>1, <2>2
<1> QED
  BY <1>1, <1>5 DEF TableInv, RowInv

LEMMA SendKeepsTokens ==
    ASSUME TypeOK, EventInv, RowInv, TableInv, ActedAsPreviewed, NEW e \in Event, Send(e)
    PROVE  EventInv' /\ RowInv' /\ TableInv' /\ ActedAsPreviewed'
<1>1. /\ invocation[e] \in Invocation /\ Holds(e) /\ RedeemedInv(e)
      /\ sent' = sent \cup {RequestOf(e)}
      /\ invocation' = [invocation EXCEPT ![e] = Nothing]
      /\ tables' = tables /\ previews' = previews /\ rows' = rows
  BY SendEffect
<1>2. /\ RequestOf(e).token = invocation[e].token /\ RequestOf(e).holder = invocation[e].holder
      /\ RequestOf(e).action = invocation[e].action /\ RequestOf(e).table = invocation[e].table
  BY DEF RequestOf
<1>3. \A d \in Event : invocation'[d] # Nothing => d # e /\ invocation'[d] = invocation[d]
  BY <1>1 DEF TypeOK
<1>4. \A d \in Event : Holds(d)' => d # e /\ Holds(d) /\ invocation'[d] = invocation[d]
  BY <1>3 DEF Holds
<1>5. ASSUME NEW d \in Event, Holds(d)' PROVE RedeemedInv(d)'
  <2>1. d # e /\ Holds(d) /\ invocation'[d] = invocation[d] /\ RedeemedInv(d)
    BY <1>4, <1>5 DEF EventInv, Holds
  <2>2. invocation[d].token # invocation[e].token
    BY <1>1, <2>1 DEF RedeemedInv
  <2>3. \A f \in Event : Holds(f)' /\ invocation'[f].token = invocation[d].token => f = d
    BY <1>4, <2>1 DEF RedeemedInv
  <2>4. \A r \in sent' : r.token # invocation[d].token
    BY <1>1, <1>2, <2>1, <2>2 DEF RedeemedInv
  <2> QED  BY <1>1, <2>1, <2>3, <2>4, HolderKeeps
<1>6. EventInv'
  BY <1>1, <1>3, <1>5 DEF EventInv
<1>7. RowInv'
  <2> SUFFICES ASSUME NEW u \in Token, rows[u] # Nothing, ~rows[u].consumed, NEW r \in sent'
               PROVE  r.token # u
    BY <1>1 DEF RowInv
  <2>1. invocation[e].token # u
    BY <1>1 DEF RedeemedInv
  <2> QED  BY <1>1, <1>2, <2>1 DEF RowInv
<1>8. TableInv'
  BY <1>1, <1>2, Parts DEF TableInv, EventInv
<1>9. ActedAsPreviewed'
  <2>1. \A r \in sent : r.token # invocation[e].token
    BY <1>1 DEF RedeemedInv
  <2>2. /\ previews[invocation[e].token] # Nothing
        /\ previews[invocation[e].token].holder = invocation[e].holder
        /\ previews[invocation[e].token].action = invocation[e].action
    BY <1>1 DEF RedeemedInv
  <2> QED  BY <1>1, <1>2, <2>1, <2>2 DEF ActedAsPreviewed
<1> QED  BY <1>6, <1>7, <1>8, <1>9

\* What leaves the previews and the requests alone leaves this alone.
LEMMA ActedFrame ==
    ASSUME ActedAsPreviewed, UNCHANGED <<previews, sent>>
    PROVE  ActedAsPreviewed'
BY DEF ActedAsPreviewed

-----------------------------------------------------------------------------
(* The slots of a table. *)

\* A step that bills nothing, and lets no event hold a slot that did not.
LEMMA SlotsKept ==
    ASSUME TypeOK, SlotInv, UNCHANGED <<tables, sent>>,
           exists' => exists /\ slots' = slots,
           \A e \in Event : At(e, "acquired")' =>
               At(e, "acquired") /\ invocation'[e].table = invocation[e].table
    PROVE  SlotInv'
<1> SUFFICES ASSUME NEW k \in 0..tables
             PROVE  /\ IsFiniteSet(Billed(k)') /\ IsFiniteSet(Billing(k)')
                    /\ Cardinality(Billed(k)') + Cardinality(Billing(k)') <= Limit
                    /\ k = tables /\ exists' =>
                          Cardinality(Billed(k)') + Cardinality(Billing(k)') <= slots'
  BY DEF SlotInv
<1>1. Billed(k)' = Billed(k)
  BY DEF Billed
<1>2. Billing(k)' \subseteq Billing(k)
  BY DEF Billing
<1>3. IsFiniteSet(Billed(k)) /\ IsFiniteSet(Billing(k))
  BY DEF SlotInv
<1>4. IsFiniteSet(Billing(k)') /\ Cardinality(Billing(k)') <= Cardinality(Billing(k))
  BY <1>2, <1>3, FS_Subset
<1>5. /\ Cardinality(Billing(k)') \in Nat /\ Cardinality(Billing(k)) \in Nat
      /\ Cardinality(Billed(k)) \in Nat
  BY <1>3, <1>4, FS_CardinalityType
<1>6. Limit \in Nat
  BY GatewayAssumption
<1>7. Cardinality(Billed(k)) + Cardinality(Billing(k)) <= Limit
  BY DEF SlotInv
<1>8. k = tables /\ exists' => Cardinality(Billed(k)) + Cardinality(Billing(k)) <= slots'
  <2>1. k = tables /\ exists => Cardinality(Billed(k)) + Cardinality(Billing(k)) <= slots
    BY DEF SlotInv
  <2> QED  BY <2>1
<1>9. exists' => slots' \in Nat
  BY DEF TypeOK
<1> QED
  BY <1>1, <1>3, <1>4, <1>5, <1>6, <1>7, <1>8, <1>9

LEMMA AcquireKeepsSlots ==
    ASSUME TypeOK, SlotInv, NEW e \in Event, Acquire(e)
    PROVE  SlotInv'
<1>1. /\ invocation[e] \in Invocation /\ invocation[e].at = "confirmed"
      /\ tables' = tables /\ sent' = sent /\ slots' = slots + 1 /\ slots < Limit /\ exists
      /\ invocation' = [invocation EXCEPT ![e] =
            [invocation[e] EXCEPT !.at = "acquired", !.table = tables]]
  BY AcquireEffect
<1>2. /\ \A d \in Event \ {e} : invocation'[d] = invocation[d]
      /\ invocation'[e] # Nothing
      /\ invocation'[e].at = "acquired" /\ invocation'[e].table = tables
  <2>1. [invocation[e] EXCEPT !.at = "acquired", !.table = tables] # Nothing
    BY AcquireEffect, NameAssumption
  <2>2. LET new == [invocation[e] EXCEPT !.at = "acquired", !.table = tables]
        IN  new.at = "acquired" /\ new.table = tables
    BY <1>1 DEF Invocation
  <2>3. \A d \in Event \ {e} : invocation'[d] = invocation[d]
    BY <1>1 DEF TypeOK
  <2>4. invocation'[e] = [invocation[e] EXCEPT !.at = "acquired", !.table = tables]
    BY <1>1 DEF TypeOK
  <2> QED  BY <2>1, <2>2, <2>3, <2>4
<1>3. slots \in Nat /\ Limit \in Nat /\ tables \in Nat
  BY GatewayAssumption DEF TypeOK
<1> SUFFICES ASSUME NEW k \in 0..tables
             PROVE  /\ IsFiniteSet(Billed(k)') /\ IsFiniteSet(Billing(k)')
                    /\ Cardinality(Billed(k)') + Cardinality(Billing(k)') <= Limit
                    /\ k = tables =>
                          Cardinality(Billed(k)') + Cardinality(Billing(k)') <= slots'
  BY <1>1 DEF SlotInv
<1>4. Billed(k)' = Billed(k)
  BY <1>1 DEF Billed
<1>5. IsFiniteSet(Billed(k)) /\ IsFiniteSet(Billing(k))
  BY DEF SlotInv
<1>6. Cardinality(Billed(k)) \in Nat /\ Cardinality(Billing(k)) \in Nat
  BY <1>5, FS_CardinalityType
<1>7. e \notin Billing(k)
  BY <1>1 DEF Billing, At
<1>8. CASE k = tables
  <2>1. Billing(k)' = Billing(k) \cup {e}
    BY <1>2, <1>8 DEF Billing, At
  <2>2. /\ IsFiniteSet(Billing(k) \cup {e})
        /\ Cardinality(Billing(k) \cup {e}) = Cardinality(Billing(k)) + 1
    BY <1>5, <1>7, FS_AddElement
  <2>3. Cardinality(Billed(k)) + Cardinality(Billing(k)) <= slots
    BY <1>1, <1>8 DEF SlotInv
  <2> QED  BY <1>1, <1>3, <1>4, <1>5, <1>6, <2>1, <2>2, <2>3
<1>9. CASE k # tables
  <2>1. Billing(k)' = Billing(k)
    BY <1>1, <1>2, <1>9 DEF Billing, At
  <2> QED  BY <1>4, <1>5, <1>9, <2>1 DEF SlotInv
<1> QED  BY <1>8, <1>9

\* A billable request takes the place of the event that held its slot.
LEMMA SendKeepsSlots ==
    ASSUME TypeOK, EventInv, SlotInv, NEW e \in Event, Send(e)
    PROVE  SlotInv'
<1>1. /\ invocation[e] \in Invocation /\ Holds(e)
      /\ invocation[e].at = "confirmed" => invocation[e].action = "write"
      /\ sent' = sent \cup {RequestOf(e)}
      /\ invocation' = [invocation EXCEPT ![e] = Nothing]
      /\ tables' = tables /\ slots' = slots
  BY SendEffect
<1>2. exists' = exists
  BY SendEffect
<1>3. RequestOf(e).action = invocation[e].action /\ RequestOf(e).table = invocation[e].table
  BY DEF RequestOf
<1>4. /\ \A d \in Event \ {e} : invocation'[d] = invocation[d]
      /\ invocation'[e] = Nothing /\ invocation[e] # Nothing
  BY <1>1, Parts DEF TypeOK
<1> SUFFICES ASSUME NEW k \in 0..tables
             PROVE  /\ IsFiniteSet(Billed(k)') /\ IsFiniteSet(Billing(k)')
                    /\ Cardinality(Billed(k)') + Cardinality(Billing(k)')
                          <= Cardinality(Billed(k)) + Cardinality(Billing(k))
  <2>1. ASSUME NEW k \in 0..tables
        PROVE  /\ Cardinality(Billed(k)) \in Nat /\ Cardinality(Billing(k)) \in Nat
               /\ IsFiniteSet(Billed(k)') => Cardinality(Billed(k)') \in Nat
               /\ IsFiniteSet(Billing(k)') => Cardinality(Billing(k)') \in Nat
    BY FS_CardinalityType DEF SlotInv
  <2>2. slots \in Nat /\ Limit \in Nat
    BY GatewayAssumption DEF TypeOK
  <2>3. ASSUME NEW k \in 0..tables
        PROVE  /\ IsFiniteSet(Billed(k)') /\ IsFiniteSet(Billing(k)')
               /\ Cardinality(Billed(k)') + Cardinality(Billing(k)') <= Limit
               /\ k = tables /\ exists =>
                     Cardinality(Billed(k)') + Cardinality(Billing(k)') <= slots
    BY <2>1, <2>2, <2>3 DEF SlotInv
  <2> QED  BY <1>1, <1>2, <2>3 DEF SlotInv
<1>5. IsFiniteSet(Billed(k)) /\ IsFiniteSet(Billing(k))
  BY DEF SlotInv
<1>6. Cardinality(Billed(k)) \in Nat /\ Cardinality(Billing(k)) \in Nat
  BY <1>5, FS_CardinalityType
<1>7. Billing(k)' = Billing(k) \ {e}
  BY <1>4 DEF Billing, At
<1>8. CASE invocation[e].at = "acquired" /\ invocation[e].table = k
  <2>1. e \in Billing(k)
    BY <1>4, <1>8 DEF Billing, At
  <2>2. /\ IsFiniteSet(Billing(k) \ {e})
        /\ Cardinality(Billing(k) \ {e}) = Cardinality(Billing(k)) - 1
    BY <1>5, <2>1, FS_RemoveElement
  <2>3. Billed(k)' \subseteq Billed(k) \cup {RequestOf(e)}
    BY <1>1 DEF Billed
  <2>4. /\ IsFiniteSet(Billed(k) \cup {RequestOf(e)})
        /\ Cardinality(Billed(k) \cup {RequestOf(e)}) <= Cardinality(Billed(k)) + 1
    <3>1. IF RequestOf(e) \in Billed(k)
          THEN Cardinality(Billed(k) \cup {RequestOf(e)}) = Cardinality(Billed(k))
          ELSE Cardinality(Billed(k) \cup {RequestOf(e)}) = Cardinality(Billed(k)) + 1
      BY <1>5, FS_AddElement
    <3>2. IsFiniteSet(Billed(k) \cup {RequestOf(e)})
      BY <1>5, FS_AddElement
    <3> QED  BY <1>6, <3>1, <3>2
  <2>5. IsFiniteSet(Billed(k)') /\ Cardinality(Billed(k)') <= Cardinality(Billed(k)) + 1
    <3>1. IsFiniteSet(Billed(k)') /\
          Cardinality(Billed(k)') <= Cardinality(Billed(k) \cup {RequestOf(e)})
      BY <2>3, <2>4, FS_Subset
    <3> QED  BY <1>6, <2>4, <3>1, FS_CardinalityType
  <2>6. Cardinality(Billed(k)') \in Nat
    BY <2>5, FS_CardinalityType
  <2> QED  BY <1>6, <1>7, <2>2, <2>5, <2>6
<1>9. CASE ~(invocation[e].at = "acquired" /\ invocation[e].table = k)
  <2>1. e \notin Billing(k)
    BY <1>9 DEF Billing, At
  <2>2. ~(RequestOf(e).action = "cost" /\ RequestOf(e).table = k)
    BY <1>1, <1>3, <1>9 DEF Holds
  <2>3. Billed(k)' = Billed(k) /\ Billing(k)' = Billing(k)
    BY <1>1, <1>7, <2>1, <2>2 DEF Billed
  <2> QED  BY <1>5, <1>6, <2>3
<1> QED  BY <1>8, <1>9

\* Nothing was done yet with a table that did not exist.
LEMMA CreateKeepsSlots ==
    ASSUME TypeOK, DeployInv, EventInv, TableInv, SlotInv, CreateTable
    PROVE  SlotInv'
<1>1. /\ tables' = tables + 1 /\ slots' = slots /\ sent' = sent /\ invocation' = invocation
      /\ tables \in Nat /\ slots \in Nat /\ Limit \in Nat
  BY GatewayAssumption DEF CreateTable, TypeOK
<1> SUFFICES ASSUME NEW k \in 0..tables + 1
             PROVE  /\ IsFiniteSet(Billed(k)) /\ IsFiniteSet(Billing(k))
                    /\ Cardinality(Billed(k)) + Cardinality(Billing(k)) <= Limit
                    /\ k = tables + 1 =>
                          Cardinality(Billed(k)) + Cardinality(Billing(k)) <= slots
  <2>1. \A k : Billed(k)' = Billed(k) /\ Billing(k)' = Billing(k)
    BY <1>1 DEF Billed, Billing, At
  <2> QED  BY <1>1, <2>1 DEF SlotInv
<1>2. CASE k = tables + 1
  <2>1. Billed(k) = {}
    BY <1>1, <1>2, Parts DEF Billed, TableInv, TypeOK
  <2>2. Billing(k) = {}
    BY <1>1, <1>2, Parts DEF Billing, At, EventInv, TypeOK
  <2> QED  BY <1>1, <2>1, <2>2, FS_EmptySet
<1>3. CASE k # tables + 1
  <2>1. k \in 0..tables
    BY <1>1, <1>3
  <2> QED  BY <1>3, <2>1 DEF SlotInv
<1> QED  BY <1>2, <1>3

-----------------------------------------------------------------------------
(* The steps, one by one. *)

LEMMA DeploymentKeeps ==
    ASSUME Inv, \/ \E p \in Parameters : Deploy(p)
                \/ UpdateFunction \/ UpdateApi
    PROVE  Inv'
<1>1. UNCHANGED <<tables, rows, slots, invocation, previews, sent>>
  BY DEF Deploy, UpdateFunction, UpdateApi, tableVars
<1>2. exists' = exists
  BY DEF Deploy, UpdateFunction, UpdateApi, tableVars
<1>3. TypeOK' /\ DeployInv'
  BY DeploymentTypes DEF Inv
<1>4. EventInv' /\ RowInv' /\ TableInv'
  BY <1>1 DEF Inv, EventInv, RowInv, TableInv, RedeemedInv, Holds
<1>5. SlotInv'
  BY <1>1, <1>2, SlotsKept DEF Inv, At
<1>6. ActedAsPreviewed' /\ PreviewOutlivesItsEvent'
  BY <1>1, <1>2 DEF Inv, ActedAsPreviewed, PreviewOutlivesItsEvent
<1> QED  BY <1>3, <1>4, <1>5, <1>6 DEF Inv

LEMMA CreateTableKeeps ==
    ASSUME Inv, CreateTable
    PROVE  Inv'
<1>1. /\ UNCHANGED <<rows, slots, invocation, previews, sent>>
      /\ tables' = tables + 1 /\ tables \in Nat
  BY GatewayAssumption DEF CreateTable, Inv, TypeOK
<1>2. TypeOK' /\ DeployInv'
  BY DeploymentTypes DEF Inv
<1>3. SlotInv'
  BY CreateKeepsSlots DEF Inv
<1>4. RowInv' /\ ActedAsPreviewed'
  BY <1>1 DEF Inv, RowInv, ActedAsPreviewed
<1>5. EventInv'
  <2>1. \A e \in Event : invocation[e] # Nothing => invocation[e].table \in Nat
    BY Parts DEF Inv, TypeOK
  <2>2. \A e \in Event : RedeemedInv(e) => RedeemedInv(e)'
    BY <1>1 DEF RedeemedInv, Holds
  <2> QED  BY <1>1, <2>1, <2>2 DEF Inv, EventInv, Holds
<1>6. /\ \A t \in Token : previews[t] # Nothing => previews[t].table \in Nat
      /\ \A r \in sent : r.table \in Nat
  BY Parts DEF Inv, TypeOK
<1>7. TableInv' /\ PreviewOutlivesItsEvent'
  BY <1>1, <1>6 DEF Inv, TableInv, PreviewOutlivesItsEvent
<1> QED  BY <1>2, <1>3, <1>4, <1>5, <1>7 DEF Inv

LEMMA DeleteTableKeeps ==
    ASSUME Inv, DeleteTable
    PROVE  Inv'
<1>1. /\ UNCHANGED <<tables, invocation, previews, sent>>
      /\ rows' = [t \in Token |-> Nothing]
  BY DEF DeleteTable, EmptyTable
<1>2. ~exists'
  BY DEF DeleteTable
<1>3. TypeOK' /\ DeployInv'
  BY DeploymentTypes DEF Inv
<1>4. RowInv' /\ TableInv'
  BY <1>1 DEF Inv, RowInv, TableInv
<1>5. EventInv'
  <2>1. \A e \in Event : RedeemedInv(e) => RedeemedInv(e)'
    BY <1>1 DEF RedeemedInv, Holds
  <2> QED  BY <1>1, <2>1 DEF Inv, EventInv, Holds
<1>6. SlotInv'
  BY <1>1, <1>2, SlotsKept DEF Inv, At
<1>7. ActedAsPreviewed' /\ PreviewOutlivesItsEvent'
  BY <1>1, <1>2, ActedFrame DEF Inv, PreviewOutlivesItsEvent
<1> QED  BY <1>3, <1>4, <1>5, <1>6, <1>7 DEF Inv

LEMMA EventKeeps ==
    ASSUME Inv, EventStep
    PROVE  Inv'
<1>0. /\ TypeOK /\ DeployInv /\ EventInv /\ RowInv /\ TableInv /\ SlotInv
      /\ ActedAsPreviewed /\ PreviewOutlivesItsEvent
  BY DEF Inv
<1>1. TypeOK' /\ tables \in Nat
  BY <1>0, EventTypes, GatewayAssumption DEF TypeOK
<1>2. ASSUME NEW e \in Event, NEW c \in Presented, Invoke(e, c) PROVE Inv'
  <2> DEFINE next == [environment |-> environment, holder |-> Caller(c.iss, c.sub),
                      caller |-> GatewayCaller(c, environment.provider),
                      at |-> "built", action |-> Nothing, token |-> Nothing, table |-> 0]
  <2>1. /\ UNCHANGED <<deployVars, tables, rows, slots, previews, sent>>
        /\ invocation' = [invocation EXCEPT ![e] = next]
    BY <1>2 DEF Invoke, tableVars
  <2>2. UNCHANGED <<deployVars, tables, exists>>
    BY <1>2 DEF Invoke, tableVars
  <2>3. /\ next.caller = next.holder /\ next.at = "built" /\ next.table = 0
    BY <1>0, <1>2, InvokeType
  <2> HIDE DEF next
  <2>4. invocation'[e] = next /\ \A d \in Event \ {e} : invocation'[d] = invocation[d]
    BY <1>0, <2>1 DEF TypeOK
  <2>5. EventInv' /\ RowInv' /\ TableInv'
    BY <1>0, <1>1, <2>1, <2>3, <2>4, TokensKept DEF Holds
  <2>6. SlotInv'
    BY <1>0, <2>1, <2>2, <2>3, <2>4, SlotsKept DEF At
  <2>7. ActedAsPreviewed' /\ PreviewOutlivesItsEvent'
    BY <1>0, <2>1, <2>2, ActedFrame DEF PreviewOutlivesItsEvent
  <2> QED  BY <1>0, <1>1, <2>2, <2>5, <2>6, <2>7, EventKeepsDeployment DEF Inv
<1>3. ASSUME NEW e \in Event, NEW t \in Token, NEW a \in Action, Prepare(e, t, a) PROVE Inv'
  <2>1. /\ UNCHANGED <<deployVars, tables, slots, sent>>
        /\ rows' = [rows EXCEPT ![t] = NewRow(e, a)] /\ NewRow(e, a) \in Row
        /\ previews' = [previews EXCEPT ![t] = NewPreview(e, a)]
        /\ invocation' = [invocation EXCEPT ![e] = Nothing]
    BY <1>0, <1>3, PrepareEffect
  <2>2. UNCHANGED <<deployVars, tables, exists>>
    BY <1>0, <1>3, PrepareEffect
  <2>3. EventInv' /\ RowInv' /\ TableInv' /\ ActedAsPreviewed'
    BY <1>0, <1>3, PrepareKeepsTokens
  <2>4. SlotInv'
    BY <1>0, <2>1, <2>2, SlotsKept DEF At, TypeOK
  <2>5. PreviewOutlivesItsEvent'
    BY <1>0, <2>1, <2>2, Parts DEF PreviewOutlivesItsEvent, TypeOK
  <2> QED  BY <1>0, <1>1, <2>2, <2>3, <2>4, <2>5, EventKeepsDeployment DEF Inv
<1>4. ASSUME NEW e \in Event, NEW t \in Token, NEW a \in Action, Consume(e, t, a) PROVE Inv'
  <2>1. /\ UNCHANGED <<deployVars, tables, slots, previews, sent>>
        /\ rows' = [rows EXCEPT ![t] = Redeemed(t)] /\ Redeemed(t) \in Row
        /\ invocation' = [invocation EXCEPT ![e] = Redeemer(e, t, a)]
        /\ invocation[e] \in Invocation
    BY <1>0, <1>4, ConsumeEffect
  <2>2. UNCHANGED <<deployVars, tables, exists>>
    BY <1>0, <1>4, ConsumeEffect
  <2>3. EventInv' /\ RowInv' /\ TableInv'
    BY <1>0, <1>4, ConsumeKeepsTokens
  <2>4. Redeemer(e, t, a).at = "confirmed"
    BY <2>1 DEF Redeemer, Invocation
  <2>5. SlotInv'
    BY <1>0, <2>1, <2>2, <2>4, SlotsKept DEF At, TypeOK
  <2>6. ActedAsPreviewed' /\ PreviewOutlivesItsEvent'
    BY <1>0, <2>1, <2>2, Parts, ActedFrame DEF PreviewOutlivesItsEvent, TypeOK
  <2> QED  BY <1>0, <1>1, <2>2, <2>3, <2>5, <2>6, EventKeepsDeployment DEF Inv
<1>5. ASSUME NEW e \in Event, Acquire(e) PROVE Inv'
  <2>1. UNCHANGED <<rows, previews, sent, tables>>
    BY <1>0, <1>5, AcquireEffect
  <2>2. UNCHANGED <<deployVars, tables, exists>>
    BY <1>0, <1>5, AcquireEffect
  <2>3. EventInv' /\ RowInv' /\ TableInv' /\ SlotInv'
    BY <1>0, <1>5, AcquireKeepsTokens, AcquireKeepsSlots
  <2>4. ActedAsPreviewed' /\ PreviewOutlivesItsEvent'
    BY <1>0, <2>1, <2>2, ActedFrame DEF PreviewOutlivesItsEvent
  <2> QED  BY <1>0, <1>1, <2>2, <2>3, <2>4, EventKeepsDeployment DEF Inv
<1>6. ASSUME NEW e \in Event, Send(e) PROVE Inv'
  <2>1. UNCHANGED <<rows, previews, tables>>
    BY <1>0, <1>6, SendEffect
  <2>2. UNCHANGED <<deployVars, tables, exists>>
    BY <1>0, <1>6, SendEffect
  <2>3. EventInv' /\ RowInv' /\ TableInv' /\ SlotInv' /\ ActedAsPreviewed'
    BY <1>0, <1>6, SendKeepsTokens, SendKeepsSlots
  <2>4. PreviewOutlivesItsEvent'
    BY <1>0, <2>1, <2>2 DEF PreviewOutlivesItsEvent
  <2> QED  BY <1>0, <1>1, <2>2, <2>3, <2>4, EventKeepsDeployment DEF Inv
<1>7. ASSUME NEW e \in Event, End(e) PROVE Inv'
  <2>1. /\ UNCHANGED <<tables, rows, slots, previews, sent>>
        /\ invocation' = [invocation EXCEPT ![e] = Nothing]
    BY <1>7 DEF End, Ends, tableVars
  <2>2. UNCHANGED <<deployVars, tables, exists>>
    BY <1>7 DEF End, tableVars
  <2>3. invocation'[e] = Nothing /\ \A d \in Event \ {e} : invocation'[d] = invocation[d]
    BY <1>0, <2>1 DEF TypeOK
  <2>4. EventInv' /\ RowInv' /\ TableInv'
    BY <1>0, <1>1, <2>1, <2>3, TokensKept
  <2>5. SlotInv'
    BY <1>0, <2>1, <2>2, <2>3, SlotsKept DEF At
  <2>6. ActedAsPreviewed' /\ PreviewOutlivesItsEvent'
    BY <1>0, <2>1, <2>2, ActedFrame DEF PreviewOutlivesItsEvent
  <2> QED  BY <1>0, <1>1, <2>2, <2>4, <2>5, <2>6, EventKeepsDeployment DEF Inv
<1> QED
  BY <1>2, <1>3, <1>4, <1>5, <1>6, <1>7 DEF EventStep

-----------------------------------------------------------------------------
(* The invariant. *)

LEMMA InitInv ==
    ASSUME Init
    PROVE  Inv
<1>1. /\ stack \in Parameters /\ pending = {} /\ deployments = 0
      /\ authorizer = stack.provider /\ environment = stack
      /\ tables = IF exists THEN 1 ELSE 0
      /\ rows = [t \in Token |-> Nothing] /\ slots = 0
      /\ invocation = [e \in Event |-> Nothing]
      /\ previews = [t \in Token |-> Nothing] /\ sent = {}
      /\ IsFiniteSet(sent)
  BY FS_EmptySet DEF Init
<1>2. exists = Persistent(stack) /\ exists \in BOOLEAN
  BY <1>1, Parts DEF Init, Persistent
<1>3. tables \in {0, 1}
  BY <1>1, <1>2
<1>4. MaxDeployments \in Nat /\ Limit \in Nat
  BY GatewayAssumption
<1>5. TypeOK
  BY <1>1, <1>2, <1>3, <1>4, Parts DEF TypeOK
<1>6. DeployInv
  BY <1>1, <1>2, <1>3 DEF DeployInv
<1>7. EventInv /\ RowInv /\ TableInv /\ ActedAsPreviewed /\ PreviewOutlivesItsEvent
  BY <1>1 DEF EventInv, RowInv, TableInv, ActedAsPreviewed, PreviewOutlivesItsEvent
<1>8. SlotInv
  <2>1. \A k : Billed(k) = {} /\ Billing(k) = {}
    BY <1>1 DEF Billed, Billing, At
  <2> QED  BY <1>1, <1>4, <2>1, FS_EmptySet DEF SlotInv
<1> QED  BY <1>5, <1>6, <1>7, <1>8 DEF Inv

LEMMA StutterInv ==
    ASSUME Inv, UNCHANGED vars
    PROVE  Inv'
<1>1. UNCHANGED <<deployVars, tables, rows, slots, invocation, previews, sent>>
  BY DEF vars, tableVars
<1>2. exists' = exists
  BY DEF vars, tableVars
<1>3. TypeOK' /\ DeployInv'
  <2>1. /\ rows \in [Token -> Row \cup {Nothing}] /\ slots \in 0..Limit
        /\ invocation \in [Event -> Invocation \cup {Nothing}]
        /\ previews \in [Token -> Preview \cup {Nothing}] /\ sent \subseteq Request
        /\ IsFiniteSet(sent)
    BY DEF Inv, TypeOK
  <2> QED  BY <1>1, <1>2, <2>1, EventTypeFrame, EventKeepsDeployment DEF Inv
<1>4. EventInv' /\ RowInv' /\ TableInv'
  BY <1>1 DEF Inv, EventInv, RowInv, TableInv, RedeemedInv, Holds
<1>5. SlotInv'
  BY <1>1, <1>2, SlotsKept DEF Inv, At
<1>6. ActedAsPreviewed' /\ PreviewOutlivesItsEvent'
  BY <1>1, <1>2 DEF Inv, ActedAsPreviewed, PreviewOutlivesItsEvent
<1> QED  BY <1>3, <1>4, <1>5, <1>6 DEF Inv

LEMMA Invariance == Spec => []Inv
<1>1. Init => Inv
  BY InitInv
<1>2. Inv /\ [Next]_vars => Inv'
  BY DeploymentKeeps, CreateTableKeeps, DeleteTableKeeps, EventKeeps, StutterInv
     DEF Next, EventStep
<1> QED
  BY <1>1, <1>2, PTL DEF Spec

-----------------------------------------------------------------------------
(***************************************************************************)
(* The state stays well typed; in particular, once a deployment is done    *)
(* the API, the function and the table are what the stack asks for.        *)
(***************************************************************************)
THEOREM TypeCorrect == Spec => []TypeOK
<1>1. Inv => TypeOK
  BY DEF Inv
<1> QED
  BY <1>1, Invariance, PTL

(***************************************************************************)
(* Every provider request is for the holder and the action of the preview  *)
(* that drew its token, and the only one for it, across any number of      *)
(* deployments (Consume, Send).                                            *)
(***************************************************************************)
THEOREM ActsAsPreviewed == Spec => []ActedAsPreviewed
<1>1. Inv => ActedAsPreviewed
  BY DEF Inv
<1> QED
  BY <1>1, Invariance, PTL

(***************************************************************************)
(* No table sees more billable requests than a month's limit, by however   *)
(* many events at a time (Acquire).                                        *)
(***************************************************************************)
THEOREM LimitHolds == Spec => []LimitWhileTableIntact
<1>1. ASSUME Inv PROVE LimitWhileTableIntact
  <2> SUFFICES ASSUME NEW k \in 0..tables PROVE Cardinality(Billed(k)) <= Limit
    BY DEF LimitWhileTableIntact, Billed
  <2>1. /\ IsFiniteSet(Billed(k)) /\ IsFiniteSet(Billing(k))
        /\ Cardinality(Billed(k)) + Cardinality(Billing(k)) <= Limit
    BY <1>1 DEF Inv, SlotInv
  <2> QED  BY <2>1, FS_CardinalityType, GatewayAssumption
<1> QED
  BY <1>1, Invariance, PTL

(***************************************************************************)
(* A preview given out over the present table can still be redeemed after  *)
(* its event: no offered tool prepares in the event's own memory           *)
(* (Components, Service, Offered).                                         *)
(***************************************************************************)
THEOREM PreviewsOutlive == Spec => []PreviewOutlivesItsEvent
<1>1. Inv => PreviewOutlivesItsEvent
  BY DEF Inv
<1> QED
  BY <1>1, Invariance, PTL

-----------------------------------------------------------------------------
(* Who may call. *)

\* What the handler reads of the scopes is what the local server does, but for "scp".
LEMMA ScopesRead ==
    ASSUME NEW c \in Claims
    PROVE  /\ HandlerScopes(c) \subseteq ExtractScopes(c)
           /\ c.scope # NoScopes => ExtractScopes(c) = c.scope
<1>1. c.scope # NoScopes => ExtractScopes(c) = c.scope
  BY DEF ExtractScopes
<1>2. c.scope # NoScopes => HandlerScopes(c) = c.scope
  BY DEF HandlerScopes
<1>3. c.scope = NoScopes => HandlerScopes(c) = {}
  BY DEF HandlerScopes
<1> QED  BY <1>1, <1>2, <1>3

LEMMA NoneMisjudged ==
    ASSUME NEW at \in Provider, NEW config \in Provider
    PROVE  Misjudged[at][config] = {}
<1> SUFFICES ASSUME NEW c \in Presented
             PROVE  LET remote == AuthorizerAccepts(c, at) /\ HandlerAccepts(c, config)
                        local == ProtectedAppAccepts(c, config)
                    IN  /\ ~(remote /\ ~local /\ c.client)
                        /\ ~(/\ local /\ ~remote /\ at = config
                             /\ c.aud # "several" /\ c.sub # NoSubject /\ c.scope # NoScopes)
                        /\ ~(/\ remote /\ local
                             /\ GatewayCaller(c, config) # CallerFromAccessToken(c))
  BY DEF Misjudged
<1>0. c \in Claims /\ config.required_scopes \in SUBSET Scope
  BY GatewayAssumption, AuthorizationAssumption DEF AuthorizationConfig
<1>1. ASSUME AuthorizerAccepts(c, at), HandlerAccepts(c, config), c.client
      PROVE  ProtectedAppAccepts(c, config)
  BY <1>0, <1>1, ScopesRead
     DEF AuthorizerAccepts, HandlerAccepts, ProtectedAppAccepts, VerifyToken
<1>2. ASSUME ProtectedAppAccepts(c, config), at = config,
             c.aud # "several", c.sub # NoSubject, c.scope # NoScopes
      PROVE  AuthorizerAccepts(c, at) /\ HandlerAccepts(c, config)
  <2>1. config.required_scopes \subseteq c.scope
    BY <1>0, <1>2, ScopesRead DEF ProtectedAppAccepts
  <2>2. HandlerScopes(c) = c.scope
    BY <1>2 DEF HandlerScopes
  <2> QED
    BY <1>2, <2>1, <2>2
       DEF AuthorizerAccepts, HandlerAccepts, ProtectedAppAccepts, VerifyToken
<1>3. ASSUME HandlerAccepts(c, config)
      PROVE  GatewayCaller(c, config) = CallerFromAccessToken(c)
  BY <1>3 DEF HandlerAccepts, GatewayCaller, CallerFromAccessToken
<1> QED  BY <1>1, <1>2, <1>3

(***************************************************************************)
(* Whatever the authorization servers, their scopes and the claims, the    *)
(* remote endpoint and the local server judge a token alike and see the    *)
(* same caller in it, but for what VerifiersAgree excepts: also while the  *)
(* API and the function are set up for different servers.                  *)
(***************************************************************************)
THEOREM Verifiers == Spec => []VerifiersAgree
<1>1. TypeOK => VerifiersAgree
  BY NoneMisjudged, Parts DEF TypeOK, VerifiersAgree
<1> QED
  BY <1>1, TypeCorrect, PTL
=============================================================================
