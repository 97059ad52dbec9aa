-------------------------- MODULE ToolService_proofs --------------------------
(***************************************************************************)
(* Proofs about the write and billable tools, for any number of calls,     *)
(* callers and payloads and any quota.  The inductive invariant ties what  *)
(* the provider of confirmations and the quota know of a call to where the *)
(* call stands, and that to what it has sent, counted and answered.        *)
(***************************************************************************)
EXTENDS ToolService, TLAPS

\* An issued token is the one of a prepare, and it is bound to what that
\* prepare was about.
IssueInv ==
    \A t \in Token : issued[t] # Nothing =>
        /\ t \in Call
        /\ asked[t] = Nothing
        /\ binding[t] \in Binding
        /\ binding[t].payload \notin Invalid
        /\ issued[t] = binding[t]

\* A call asks about its own binding, with a token it can have been given.
AskInv ==
    \A c \in Call : asked[c] # Nothing =>
        /\ asked[c].token \in Presentable
        /\ asked[c].binding = binding[c]

\* A confirmation is spent by one call, on what it was issued for.
SpentInv ==
    /\ confirmed \subseteq spent
    /\ \A c \in spent :
          /\ asked[c] # Nothing
          /\ issued[asked[c].token] = asked[c].binding
    /\ \A c, d \in spent : asked[c].token = asked[d].token => c = d

\* Where a call stands, against what the provider and the quota know of it.
StageInv(c) ==
    /\ phase[c] = "idle" => binding[c] = Nothing
    /\ phase[c] \in {"idle", "preparing"} => asked[c] = Nothing
    /\ result[c] = "confirmation_required" => asked[c] = Nothing
    /\ c \in confirmed => phase[c] \notin {"idle", "preparing", "confirming"}
    /\ phase[c] \in {"acquiring", "configuring", "calling"} => c \in confirmed
    /\ phase[c] = "acquiring" => binding[c].action = "cost"
    /\ phase[c] = "configuring" => binding[c].action # "cost"

\* A request is only sent by a call that was told to go ahead and, for a cost
\* query, has its slot.
RequestInv(c) ==
    Sent(c) =>
        /\ phase[c] \in {"calling", "answered", "returned", "lost"}
        /\ c \in confirmed
        /\ binding[c].action = "cost" => slot[c] # 0
        /\ counters[c].attempted + counters[c].sdk_requests = 1

\* What is counted and answered at each stage.
CounterInv(c) ==
    /\ phase[c] \in {"idle", "preparing", "confirming", "acquiring"} =>
          counters[c] = ZeroCounters
    /\ phase[c] = "configuring" =>
          counters[c].attempted = 1 /\ counters[c].sdk_requests = 0
    /\ phase[c] = "calling" =>
          /\ counters[c].attempted = (IF binding[c].action = "cost" THEN 0 ELSE 1)
          /\ counters[c].sdk_requests = (IF binding[c].action = "cost" THEN 1 ELSE 0)
    /\ counters[c].succeeded = 1 =>
          request[c] = "accepted" /\ counters[c].attempted = 1
          /\ phase[c] \in {"answered", "returned", "lost"}

ResultInv(c) ==
    /\ phase[c] \notin {"answered", "returned", "lost"} => result[c] = "none"
    /\ phase[c] \in {"answered", "returned"} => result[c] \in Codes
    /\ result[c] = "ok" /\ binding[c].action # "cost" => counters[c].succeeded = 1
    /\ result[c] \in NoEffectCodes => request[c] = "none"
    /\ result[c] = "rejected" => request[c] \in {"rejected", "broken"}

CallInv(c) == StageInv(c) /\ RequestInv(c) /\ CounterInv(c) /\ ResultInv(c)

\* The row never counts past the limit; a slot was given once, and is one of
\* those the row has counted.
SlotInv ==
    /\ count <= Limit
    /\ \A c \in Call : slot[c] # 0 =>
          /\ slot[c] \in 1..count
          /\ \A d \in Call : slot[d] = slot[c] => d = c

Inv ==
    /\ TypeOK
    /\ IssueInv /\ AskInv /\ SpentInv /\ SlotInv
    /\ \A c \in Call : CallInv(c)

-----------------------------------------------------------------------------
LEMMA Parts ==
    /\ \A b \in Binding : b.caller \in Caller /\ b.action \in Tool /\ b.payload \in Payload
    /\ \A q \in Guard!Question : q.token \in Token /\ q.binding \in Binding
    /\ Nothing \notin Binding
    /\ Nothing \notin Guard!Question
    /\ UnknownToken \notin Call
BY ToolAssumption DEF Binding, Guard!Question

LEMMA CounterParts ==
    /\ ZeroCounters \in Counters
    /\ \A k \in Counters :
          /\ k.attempted \in 0..1 /\ k.succeeded \in 0..1 /\ k.sdk_requests \in 0..1
          /\ [k EXCEPT !.attempted = 1] \in Counters
          /\ [k EXCEPT !.succeeded = 1] \in Counters
          /\ [k EXCEPT !.sdk_requests = 1] \in Counters
BY DEF Counters, ZeroCounters

LEMMA InitHolds == Init => Inv
<1> SUFFICES ASSUME Init
             PROVE  Inv
  OBVIOUS
<1>1. TypeOK
  BY CounterParts, ToolAssumption
     DEF Init, Guard!ContractInit, TypeOK, Guard!ContractTypeOK, Phases
<1>2. IssueInv /\ AskInv /\ SpentInv
  BY DEF Init, Guard!ContractInit, IssueInv, AskInv, SpentInv
<1>3. SlotInv
  BY ToolAssumption DEF Init, SlotInv
<1>4. ASSUME NEW c \in Call
      PROVE  CallInv(c)
  BY <1>1, CounterParts DEF Init, Guard!ContractInit, CallInv, StageInv, RequestInv,
     CounterInv,
     ResultInv, Sent, NoEffectCodes, ZeroCounters
<1> QED
  BY <1>1, <1>2, <1>3, <1>4 DEF Inv

\* A step of one call that leaves the provider of confirmations, the quota and
\* the other calls alone.
OnlyCall(c) ==
    /\ UNCHANGED <<guardVars, quotaVars>>
    /\ \A d \in Call \ {c} :
          /\ binding'[d] = binding[d] /\ phase'[d] = phase[d]
          /\ counters'[d] = counters[d] /\ request'[d] = request[d]
          /\ result'[d] = result[d]

LEMMA OnlyCallKeeps ==
    ASSUME Inv, NEW c \in Call, OnlyCall(c), TypeOK', CallInv(c)',
           binding[c] # Nothing => binding'[c] = binding[c],
           phase[c] = "returned" =>
               phase'[c] = "returned" /\ result'[c] = result[c]
    PROVE  Inv'
<1>1. Presentable \subseteq Presentable'
  BY DEF OnlyCall, Presentable
<1>2. issued' = issued /\ asked' = asked /\ spent' = spent
      /\ confirmed' = confirmed /\ count' = count /\ slot' = slot
  BY DEF OnlyCall, guardVars, quotaVars
<1>3. \A d \in Call : binding[d] # Nothing => binding'[d] = binding[d]
  BY DEF OnlyCall
<1>4. IssueInv'
  BY <1>2, <1>3, Parts DEF Inv, IssueInv
<1>5. \A d \in Call : asked[d] # Nothing => binding[d] # Nothing
  BY Parts DEF Inv, AskInv, TypeOK, Guard!ContractTypeOK
<1>6. AskInv'
  BY <1>1, <1>2, <1>3, <1>5 DEF Inv, AskInv
<1>7. SpentInv' /\ SlotInv'
  BY <1>2 DEF Inv, SpentInv, SlotInv
<1>8. ASSUME NEW d \in Call \ {c}
      PROVE  CallInv(d)'
  BY <1>2 DEF Inv, OnlyCall, CallInv, StageInv, RequestInv, CounterInv, ResultInv, Sent
<1> QED
  BY <1>4, <1>6, <1>7, <1>8 DEF Inv

-----------------------------------------------------------------------------
(* Type correctness. *)

LEMMA TypeStep ==
    ASSUME Inv, [Next]_vars
    PROVE  TypeOK'
<1> USE DEF Inv, TypeOK, Guard!ContractTypeOK, guardVars, quotaVars, callVars, Goto, Answer,
            Codes, Phases
<1>1. ASSUME NEW c \in Call, NEW b \in Binding,
             RefuseArguments(c, b) \/ Prepare(c, b)
      PROVE  TypeOK'
  BY <1>1 DEF RefuseArguments, Prepare, Begin
<1>2. ASSUME NEW c \in Call, NEW t \in Token, NEW b \in Binding, Execute(c, t, b)
      PROVE  TypeOK'
  <2>1. [token |-> t, binding |-> b] \in Guard!Question
    BY DEF Guard!Question
  <2> QED
    BY <1>2, <2>1 DEF Execute, Begin, Guard!Ask
<1>3. ASSUME NEW c \in Call, CallStep(c)
      PROVE  TypeOK'
  <2>1. CASE Prepared(c) \/ PrepareFails(c)
    BY <2>1 DEF Prepared, PrepareFails
  <2>2. CASE Confirmed(c)
    <3>1. \/ counters' = counters
          \/ counters' = [counters EXCEPT ![c] = [@ EXCEPT !.attempted = 1]]
      BY <2>2 DEF Confirmed
    <3>2. [counters[c] EXCEPT !.attempted = 1] \in Counters
      BY CounterParts
    <3>3. counters' \in [Call -> Counters]
      BY <3>1, <3>2
    <3> QED
      BY <2>2, <3>3 DEF Confirmed, Guard!Confirm
  <2>3. CASE ConfirmationRefused(c) \/ QuotaRefused(c)
    BY <2>3 DEF ConfirmationRefused, QuotaRefused
  <2>4. CASE SendCostQuery(c)
    <3>1. counters' \in [Call -> Counters]
      BY <2>4, CounterParts DEF SendCostQuery
    <3> QED
      BY <2>4, <3>1 DEF SendCostQuery
  <2>5. CASE ConfigUnavailable(c) \/ ConfigInvalid(c) \/ DestinationNotConfigured(c)
    BY <2>5 DEF ConfigUnavailable, ConfigInvalid, DestinationNotConfigured, NothingSent
  <2>6. CASE SendWrite(c)
    BY <2>6 DEF SendWrite
  <2>7. CASE WriteRejected(c) \/ UnreadableResponse(c) \/ InvalidResponse(c)
    BY <2>7 DEF WriteRejected, UnreadableResponse, InvalidResponse
  <2>8. CASE ProviderOk(c)
    <3>1. counters' \in [Call -> Counters]
      BY <2>8, CounterParts DEF ProviderOk
    <3> QED
      BY <2>8, <3>1 DEF ProviderOk
  <2>9. CASE ProviderTimeout(c)
    BY <2>9 DEF ProviderTimeout
  <2>10. CASE AuditAndReturn(c)
    BY <2>10 DEF AuditAndReturn
  <2> QED
    BY <1>3, <2>1, <2>2, <2>3, <2>4, <2>5, <2>6, <2>7, <2>8, <2>9, <2>10 DEF CallStep
<1>4. ASSUME NEW c \in Call, RemoteStep(c)
      PROVE  TypeOK'
  <2>1. CASE QuotaTakes(c)
    <3>1. count + 1 \in Nat
      OBVIOUS
    <3> QED
      BY <2>1, <3>1 DEF QuotaTakes
  <2>2. CASE ~QuotaTakes(c)
    BY <1>4, <2>2 DEF RemoteStep, GuardIssues, GuardSpends,
       ProviderAccepts, ProviderRejects, Guard!Issue, Guard!Spend, Token
  <2> QED
    BY <2>1, <2>2
<1>5. ASSUME NEW c \in Call, Lose(c)
      PROVE  TypeOK'
  BY <1>5 DEF Lose
<1>6. CASE UNCHANGED vars
  BY <1>6 DEF vars
<1> QED
  BY <1>1, <1>2, <1>3, <1>4, <1>5, <1>6 DEF Next
-----------------------------------------------------------------------------
(* The steps of one call. *)

LEMMA PreparedKeeps ==
    ASSUME Inv, NEW c \in Call, TypeOK', Prepared(c) \/ PrepareFails(c)
    PROVE  Inv'
<1>1. OnlyCall(c) /\ binding' = binding
  BY DEF OnlyCall, Inv, TypeOK, Prepared, PrepareFails, Answer, Goto
<1>2. CallInv(c)'
  BY <1>1, CounterParts DEF OnlyCall, Inv, TypeOK, Guard!ContractTypeOK, CallInv,
     StageInv, RequestInv, CounterInv, ResultInv, Sent, NoEffectCodes, Codes,
     guardVars, quotaVars, Prepared, PrepareFails, Answer, Goto
<1>3. phase[c] # "returned"
  BY DEF Prepared, PrepareFails, Answer, Goto
<1> QED
  BY <1>1, <1>2, <1>3, OnlyCallKeeps

LEMMA RefusedKeeps ==
    ASSUME Inv, NEW c \in Call, TypeOK', ConfirmationRefused(c) \/ QuotaRefused(c)
    PROVE  Inv'
<1>1. OnlyCall(c) /\ binding' = binding
  BY DEF OnlyCall, Inv, TypeOK, ConfirmationRefused, QuotaRefused, Answer, Goto
<1>2. CallInv(c)'
  BY <1>1, CounterParts DEF OnlyCall, Inv, TypeOK, Guard!ContractTypeOK, CallInv,
     StageInv, RequestInv, CounterInv, ResultInv, Sent, NoEffectCodes, Codes,
     guardVars, quotaVars, ConfirmationRefused, QuotaRefused, Answer, Goto
<1>3. phase[c] # "returned"
  BY DEF ConfirmationRefused, QuotaRefused, Answer, Goto
<1> QED
  BY <1>1, <1>2, <1>3, OnlyCallKeeps

LEMMA SendCostQueryKeeps ==
    ASSUME Inv, NEW c \in Call, TypeOK', SendCostQuery(c)
    PROVE  Inv'
<1>1. OnlyCall(c) /\ binding' = binding
  BY DEF OnlyCall, Inv, TypeOK, SendCostQuery, Goto
<1>2. counters'[c] = [attempted |-> 0, succeeded |-> 0, sdk_requests |-> 1]
  BY DEF Inv, TypeOK, CallInv, CounterInv, SendCostQuery, ZeroCounters
<1>3. CallInv(c)'
  BY <1>1, <1>2 DEF OnlyCall, Inv, TypeOK, Guard!ContractTypeOK, CallInv,
     StageInv, RequestInv, CounterInv, ResultInv, Sent, NoEffectCodes, Codes,
     guardVars, quotaVars, SendCostQuery, Goto
<1>4. phase[c] # "returned"
  BY DEF SendCostQuery, Goto
<1> QED
  BY <1>1, <1>3, <1>4, OnlyCallKeeps

LEMMA NothingSentKeeps ==
    ASSUME Inv, NEW c \in Call, TypeOK',
           ConfigUnavailable(c) \/ ConfigInvalid(c) \/ DestinationNotConfigured(c)
    PROVE  Inv'
<1>1. OnlyCall(c) /\ binding' = binding
  BY DEF OnlyCall, Inv, TypeOK, ConfigUnavailable, ConfigInvalid,
     DestinationNotConfigured, NothingSent, Answer, Goto
<1>2. CallInv(c)'
  BY <1>1, CounterParts DEF OnlyCall, Inv, TypeOK, Guard!ContractTypeOK, CallInv,
     StageInv, RequestInv, CounterInv, ResultInv, Sent, NoEffectCodes, Codes,
     guardVars, quotaVars, ConfigUnavailable, ConfigInvalid,
     DestinationNotConfigured, NothingSent, Answer, Goto
<1>3. phase[c] # "returned"
  BY DEF ConfigUnavailable, ConfigInvalid, DestinationNotConfigured, NothingSent, Answer, Goto
<1> QED
  BY <1>1, <1>2, <1>3, OnlyCallKeeps

LEMMA SendWriteKeeps ==
    ASSUME Inv, NEW c \in Call, TypeOK', SendWrite(c)
    PROVE  Inv'
<1>1. OnlyCall(c) /\ binding' = binding
  BY DEF OnlyCall, Inv, TypeOK, SendWrite, Goto
<1>2. CallInv(c)'
  BY <1>1, CounterParts DEF OnlyCall, Inv, TypeOK, Guard!ContractTypeOK, CallInv,
     StageInv, RequestInv, CounterInv, ResultInv, Sent, NoEffectCodes, Codes,
     guardVars, quotaVars, SendWrite, Goto
<1>3. phase[c] # "returned"
  BY DEF SendWrite, Goto
<1> QED
  BY <1>1, <1>2, <1>3, OnlyCallKeeps

LEMMA UnsuccessfulKeeps ==
    ASSUME Inv, NEW c \in Call, TypeOK',
           WriteRejected(c) \/ UnreadableResponse(c) \/ InvalidResponse(c)
    PROVE  Inv'
<1>1. OnlyCall(c) /\ binding' = binding
  BY DEF OnlyCall, Inv, TypeOK, WriteRejected, UnreadableResponse, InvalidResponse,
     Answer, Goto
<1>2. CallInv(c)'
  BY <1>1, CounterParts DEF OnlyCall, Inv, TypeOK, Guard!ContractTypeOK, CallInv,
     StageInv, RequestInv, CounterInv, ResultInv, Sent, NoEffectCodes, Codes,
     guardVars, quotaVars, WriteRejected, UnreadableResponse, InvalidResponse, Answer, Goto
<1>3. phase[c] # "returned"
  BY DEF WriteRejected, UnreadableResponse, InvalidResponse, Answer, Goto
<1> QED
  BY <1>1, <1>2, <1>3, OnlyCallKeeps

LEMMA ProviderOkKeeps ==
    ASSUME Inv, NEW c \in Call, TypeOK', ProviderOk(c)
    PROVE  Inv'
<1>1. OnlyCall(c) /\ binding' = binding
  BY DEF OnlyCall, Inv, TypeOK, ProviderOk, Answer, Goto
<1>2. CallInv(c)'
  BY <1>1, CounterParts DEF OnlyCall, Inv, TypeOK, Guard!ContractTypeOK, CallInv,
     StageInv, RequestInv, CounterInv, ResultInv, Sent, NoEffectCodes, Codes,
     guardVars, quotaVars, ProviderOk, Answer, Goto
<1>3. phase[c] # "returned"
  BY DEF ProviderOk, Answer, Goto
<1> QED
  BY <1>1, <1>2, <1>3, OnlyCallKeeps

LEMMA ProviderTimeoutKeeps ==
    ASSUME Inv, NEW c \in Call, TypeOK', ProviderTimeout(c)
    PROVE  Inv'
<1>1. OnlyCall(c) /\ binding' = binding
  BY DEF OnlyCall, Inv, TypeOK, ProviderTimeout, Answer, Goto
<1>2. CallInv(c)'
  BY <1>1, CounterParts DEF OnlyCall, Inv, TypeOK, Guard!ContractTypeOK, CallInv,
     StageInv, RequestInv, CounterInv, ResultInv, Sent, NoEffectCodes, Codes,
     guardVars, quotaVars, ProviderTimeout, Answer, Goto
<1>3. phase[c] # "returned"
  BY DEF ProviderTimeout, Answer, Goto
<1> QED
  BY <1>1, <1>2, <1>3, OnlyCallKeeps

LEMMA AuditAndReturnKeeps ==
    ASSUME Inv, NEW c \in Call, TypeOK', AuditAndReturn(c)
    PROVE  Inv'
<1>1. OnlyCall(c) /\ binding' = binding
  BY DEF OnlyCall, Inv, TypeOK, AuditAndReturn, Goto
<1>2. CallInv(c)'
  BY <1>1, CounterParts DEF OnlyCall, Inv, TypeOK, Guard!ContractTypeOK, CallInv,
     StageInv, RequestInv, CounterInv, ResultInv, Sent, NoEffectCodes, Codes,
     guardVars, quotaVars, AuditAndReturn, Goto
<1>3. phase[c] # "returned"
  BY DEF AuditAndReturn, Goto
<1> QED
  BY <1>1, <1>2, <1>3, OnlyCallKeeps

LEMMA LoseKeeps ==
    ASSUME Inv, NEW c \in Call, TypeOK', Lose(c)
    PROVE  Inv'
<1>1. OnlyCall(c) /\ binding' = binding
  BY DEF OnlyCall, Inv, TypeOK, Lose, Goto
<1>2. CallInv(c)'
  BY <1>1, CounterParts DEF OnlyCall, Inv, TypeOK, Guard!ContractTypeOK, CallInv,
     StageInv, RequestInv, CounterInv, ResultInv, Sent, NoEffectCodes, Codes,
     guardVars, quotaVars, Lose, Goto
<1>3. phase[c] # "returned"
  BY DEF Lose, Goto
<1> QED
  BY <1>1, <1>2, <1>3, OnlyCallKeeps

LEMMA ProviderKeeps ==
    ASSUME Inv, NEW c \in Call, TypeOK', ProviderAccepts(c) \/ ProviderRejects(c)
    PROVE  Inv'
<1>1. OnlyCall(c) /\ binding' = binding
  BY DEF OnlyCall, Inv, TypeOK, ProviderAccepts, ProviderRejects
<1>2. CallInv(c)'
  BY <1>1, CounterParts DEF OnlyCall, Inv, TypeOK, Guard!ContractTypeOK, CallInv,
     StageInv, RequestInv, CounterInv, ResultInv, Sent, NoEffectCodes, Codes,
     guardVars, quotaVars, ProviderAccepts, ProviderRejects
<1>3. phase' = phase /\ result' = result
  BY DEF ProviderAccepts, ProviderRejects
<1> QED
  BY <1>1, <1>2, <1>3, OnlyCallKeeps

LEMMA BeginKeeps ==
    ASSUME Inv, NEW c \in Call, NEW b \in Binding, TypeOK',
           RefuseArguments(c, b) \/ Prepare(c, b)
    PROVE  Inv'
<1>1. OnlyCall(c) /\ binding[c] = Nothing /\ phase[c] = "idle"
  BY DEF OnlyCall, Inv, TypeOK, CallInv, StageInv, RefuseArguments, Prepare, Begin,
         Answer, Goto
<1>2. CallInv(c)'
  BY <1>1 DEF OnlyCall, Inv, TypeOK, Guard!ContractTypeOK, CallInv,
     StageInv, RequestInv, CounterInv, ResultInv, Sent, NoEffectCodes, Codes,
     guardVars, quotaVars, RefuseArguments, Prepare, Begin, Answer, Goto
<1> QED
  BY <1>1, <1>2, OnlyCallKeeps

-----------------------------------------------------------------------------
(* The steps in which the provider of confirmations or the quota takes part. *)

LEMMA ExecuteKeeps ==
    ASSUME Inv, NEW c \in Call, NEW t \in Token, NEW b \in Binding, TypeOK',
           Execute(c, t, b)
    PROVE  Inv'
<1>1. /\ phase[c] = "idle" /\ asked[c] = Nothing /\ binding[c] = Nothing
      /\ issued[c] = Nothing /\ c \notin spent /\ t \in Presentable
  BY Parts DEF Execute, Begin, Inv, CallInv, StageInv, IssueInv, SpentInv, Token
<1>2. /\ issued' = issued /\ spent' = spent /\ confirmed' = confirmed
      /\ count' = count /\ slot' = slot /\ counters' = counters
      /\ request' = request /\ result' = result
      /\ asked' = [asked EXCEPT ![c] = [token |-> t, binding |-> b]]
      /\ binding' = [binding EXCEPT ![c] = b]
      /\ phase' = [phase EXCEPT ![c] = "confirming"]
  BY DEF Execute, Begin, Goto, Guard!Ask, quotaVars
<1>3. \A d \in Call \ {c} :
        asked'[d] = asked[d] /\ binding'[d] = binding[d] /\ phase'[d] = phase[d]
  BY <1>2 DEF Inv, TypeOK, Guard!ContractTypeOK
<1>4. /\ asked'[c] = [token |-> t, binding |-> b]
      /\ binding'[c] = b /\ phase'[c] = "confirming"
  BY <1>2 DEF Inv, TypeOK, Guard!ContractTypeOK
<1>5. Presentable \subseteq Presentable'
  BY <1>1, <1>2, <1>3 DEF Presentable
<1>6. IssueInv'
  BY <1>1, <1>2, <1>3 DEF Inv, IssueInv
<1>7. AskInv'
  BY <1>1, <1>3, <1>4, <1>5 DEF Inv, AskInv
<1>8. SpentInv'
  BY <1>1, <1>2, <1>3 DEF Inv, SpentInv, TypeOK, Guard!ContractTypeOK
<1>9. SlotInv'
  BY <1>2 DEF Inv, SlotInv
<1>10. ASSUME NEW d \in Call \ {c}
       PROVE  CallInv(d)'
  BY <1>2, <1>3 DEF Inv, CallInv, StageInv, RequestInv, CounterInv, ResultInv, Sent
<1>11. CallInv(c)'
  BY <1>1, <1>2, <1>4 DEF Inv, CallInv, StageInv, RequestInv, CounterInv, ResultInv,
     Sent, NoEffectCodes, TypeOK
<1> QED
  BY <1>6, <1>7, <1>8, <1>9, <1>10, <1>11 DEF Inv

LEMMA ConfirmedKeeps ==
    ASSUME Inv, NEW c \in Call, TypeOK', Confirmed(c)
    PROVE  Inv'
<1>1. /\ phase[c] = "confirming" /\ c \in spent
      /\ issued' = issued /\ asked' = asked /\ spent' = spent
      /\ confirmed' = confirmed \cup {c} /\ count' = count /\ slot' = slot
      /\ binding' = binding /\ request' = request /\ result' = result
  BY DEF Confirmed, Guard!Confirm, quotaVars
<1>2. \A d \in Call \ {c} : phase'[d] = phase[d] /\ counters'[d] = counters[d]
  BY DEF Confirmed, Goto, Inv, TypeOK
<1>3. \/ /\ binding[c].action = "cost"
         /\ phase'[c] = "acquiring" /\ counters'[c] = ZeroCounters
      \/ /\ binding[c].action # "cost" /\ phase'[c] = "configuring"
         /\ counters'[c] = [attempted |-> 1, succeeded |-> 0, sdk_requests |-> 0]
  BY <1>1 DEF Confirmed, Goto, Inv, TypeOK, CallInv, CounterInv, ZeroCounters
<1>4. Presentable \subseteq Presentable'
  BY <1>1, <1>2 DEF Presentable
<1>5. IssueInv' /\ AskInv' /\ SpentInv' /\ SlotInv'
  BY <1>1, <1>4 DEF Inv, IssueInv, AskInv, SpentInv, SlotInv
<1>6. ASSUME NEW d \in Call \ {c}
      PROVE  CallInv(d)'
  BY <1>1, <1>2 DEF Inv, CallInv, StageInv, RequestInv, CounterInv, ResultInv, Sent
<1>7. CallInv(c)'
  BY <1>1, <1>3 DEF Inv, CallInv, StageInv, RequestInv, CounterInv, ResultInv, Sent,
     NoEffectCodes, ZeroCounters, SpentInv
<1> QED
  BY <1>5, <1>6, <1>7 DEF Inv

LEMMA GuardIssuesKeeps ==
    ASSUME Inv, NEW c \in Call, TypeOK', GuardIssues(c)
    PROVE  Inv'
<1>1. /\ binding[c] # Nothing /\ asked[c] = Nothing /\ issued[c] = Nothing
      /\ binding[c].payload \notin Invalid
      /\ issued' = [issued EXCEPT ![c] = binding[c]]
      /\ UNCHANGED <<asked, spent, confirmed, count, slot, callVars>>
  BY DEF GuardIssues, Guard!Issue, quotaVars
<1>2. binding[c] \in Binding
  BY <1>1 DEF Inv, TypeOK
<1>3. Presentable' = Presentable
  BY <1>1 DEF Presentable, callVars
<1>4. IssueInv'
  BY <1>1, <1>2 DEF Inv, IssueInv, TypeOK, Guard!ContractTypeOK, callVars
<1>5. AskInv'
  BY <1>1, <1>3 DEF Inv, AskInv, callVars
<1>6. \A d \in spent : asked[d].token \in Token /\ asked[d].token # c
  BY <1>1, Parts DEF Inv, SpentInv, TypeOK, Guard!ContractTypeOK
<1>7. SpentInv'
  BY <1>1, <1>6 DEF Inv, SpentInv, TypeOK, Guard!ContractTypeOK
<1>8. SlotInv' /\ \A d \in Call : CallInv(d)'
  BY <1>1 DEF Inv, SlotInv, CallInv, StageInv, RequestInv, CounterInv, ResultInv,
     Sent, callVars
<1> QED
  BY <1>4, <1>5, <1>7, <1>8 DEF Inv

LEMMA GuardSpendsKeeps ==
    ASSUME Inv, NEW c \in Call, TypeOK', GuardSpends(c)
    PROVE  Inv'
<1>1. /\ Guard!MaySpend(c) /\ spent' = spent \cup {c} /\ confirmed' = confirmed
      /\ UNCHANGED <<issued, asked, count, slot, callVars>>
  BY DEF GuardSpends, Guard!Spend, quotaVars
<1>2. SpentInv'
  BY <1>1 DEF Inv, SpentInv, Guard!MaySpend
<1>3. IssueInv' /\ AskInv' /\ SlotInv'
  BY <1>1 DEF Inv, IssueInv, AskInv, SlotInv, Presentable, callVars
<1>4. ASSUME NEW d \in Call
      PROVE  CallInv(d)'
  BY <1>1 DEF Inv, CallInv, StageInv, RequestInv, CounterInv, ResultInv, Sent, callVars
<1> QED
  BY <1>2, <1>3, <1>4 DEF Inv

LEMMA QuotaTakesKeeps ==
    ASSUME Inv, NEW c \in Call, TypeOK', QuotaTakes(c)
    PROVE  Inv'
<1>1. /\ slot[c] = 0 /\ count \in Nat /\ count < Limit /\ count' = count + 1
      /\ slot' = [slot EXCEPT ![c] = count + 1] /\ UNCHANGED <<guardVars, callVars>>
  BY DEF QuotaTakes, Inv, TypeOK
<1>2. SlotInv'
  <2>1. /\ slot'[c] = count + 1 /\ count' <= Limit
        /\ \A d \in Call \ {c} : slot'[d] = slot[d] /\ slot[d] \in 0..count
    BY <1>1, ToolAssumption DEF Inv, TypeOK, SlotInv
  <2>2. \A d \in Call : slot'[d] # 0 => slot'[d] \in 1..count'
    BY <1>1, <2>1, ToolAssumption
  <2>3. ASSUME NEW d \in Call, NEW e \in Call, slot'[d] # 0, slot'[e] = slot'[d]
        PROVE  e = d
    <3>1. CASE d = c
      BY <1>1, <2>1, <2>3, <3>1, ToolAssumption
    <3>2. CASE d # c /\ e = c
      BY <1>1, <2>1, <2>3, <3>2, ToolAssumption
    <3>3. CASE d # c /\ e # c
      BY <2>1, <2>3, <3>3 DEF Inv, SlotInv
    <3> QED
      BY <3>1, <3>2, <3>3
  <2> QED
    BY <2>1, <2>2, <2>3 DEF SlotInv
<1>3. IssueInv' /\ AskInv' /\ SpentInv'
  BY <1>1 DEF Inv, IssueInv, AskInv, SpentInv, Presentable, callVars, guardVars
<1>4. ASSUME NEW d \in Call
      PROVE  CallInv(d)'
  BY <1>1 DEF Inv, CallInv, StageInv, RequestInv, CounterInv, ResultInv, Sent,
     callVars, guardVars
<1> QED
  BY <1>2, <1>3, <1>4 DEF Inv

LEMMA StepKeeps ==
    ASSUME Inv, [Next]_vars
    PROVE  Inv'
<1>0. TypeOK'
  BY TypeStep
<1>1. ASSUME NEW c \in Call, NEW b \in Binding,
             RefuseArguments(c, b) \/ Prepare(c, b)
      PROVE  Inv'
  BY <1>0, <1>1, BeginKeeps
<1>2. ASSUME NEW c \in Call, NEW t \in Token, NEW b \in Binding, Execute(c, t, b)
      PROVE  Inv'
  BY <1>0, <1>2, ExecuteKeeps
<1>3. ASSUME NEW c \in Call, CallStep(c)
      PROVE  Inv'
  BY <1>0, <1>3, PreparedKeeps, ConfirmedKeeps, RefusedKeeps, SendCostQueryKeeps,
     NothingSentKeeps, SendWriteKeeps, UnsuccessfulKeeps, ProviderOkKeeps,
     ProviderTimeoutKeeps, AuditAndReturnKeeps
     DEF CallStep
<1>4. ASSUME NEW c \in Call, RemoteStep(c)
      PROVE  Inv'
  BY <1>0, <1>4, GuardIssuesKeeps, GuardSpendsKeeps, QuotaTakesKeeps, ProviderKeeps
     DEF RemoteStep
<1>5. ASSUME NEW c \in Call, Lose(c)
      PROVE  Inv'
  BY <1>0, <1>5, LoseKeeps
<1>6. CASE UNCHANGED vars
  BY <1>0, <1>6 DEF Inv, vars, guardVars, callVars, IssueInv, AskInv, SpentInv, SlotInv,
     CallInv, StageInv, RequestInv, CounterInv, ResultInv, Sent, Presentable, quotaVars
<1> QED
  BY <1>1, <1>2, <1>3, <1>4, <1>5, <1>6 DEF Next
-----------------------------------------------------------------------------
LEMMA Invariance == Spec => []Inv
<1> QED
  BY InitHolds, StepKeeps, PTL DEF Spec

(***************************************************************************)
(* Type correctness.                                                       *)
(***************************************************************************)
THEOREM TypeCorrect == Spec => []TypeOK
<1>1. Inv => TypeOK
  BY DEF Inv
<1> QED
  BY <1>1, Invariance, PTL

(***************************************************************************)
(* One confirmation never leads to two provider requests.                  *)
(***************************************************************************)
THEOREM OneRequest == Spec => []OneRequestPerConfirmation
<1>1. Inv => OneRequestPerConfirmation
  BY DEF Inv, CallInv, RequestInv, SpentInv, OneRequestPerConfirmation
<1> QED
  BY <1>1, Invariance, PTL

(***************************************************************************)
(* What is sent is what the caller was shown when it asked.  The token of  *)
(* a call that was told to go ahead is issued, hence of a prepare; it was  *)
(* presentable, hence that prepare has answered confirmation_required.     *)
(***************************************************************************)
THEOREM AsPreviewed == Spec => []RequestAsPreviewed
<1>1. ASSUME Inv, NEW c \in Call, Sent(c)
      PROVE  RequestAsPreviewed!(c)!2
  <2>1. /\ c \in spent /\ asked[c] \in Guard!Question
        /\ asked[c].token \in Token /\ asked[c].binding \in Binding
        /\ asked[c].token \in Presentable
        /\ issued[asked[c].token] = binding[c]
        /\ asked[c].binding = binding[c]
    BY <1>1, Parts DEF Inv, CallInv, RequestInv, SpentInv, AskInv, TypeOK,
       Guard!ContractTypeOK
  <2>2. issued[asked[c].token] # Nothing
    BY <2>1, Parts
  <2>3. /\ asked[c].token \in Call
        /\ issued[asked[c].token] = binding[asked[c].token]
        /\ binding[asked[c].token].payload \notin Invalid
    BY <1>1, <2>1, <2>2 DEF Inv, IssueInv
  <2> QED
    BY <2>1, <2>3, Parts DEF Presentable
<1>2. Inv => RequestAsPreviewed
  BY <1>1 DEF RequestAsPreviewed
<1> QED
  BY <1>2, Invariance, PTL

(***************************************************************************)
(* After an answer that says nothing was done, nothing was, and nothing    *)
(* comes to be done later.                                                 *)
(***************************************************************************)
THEOREM NoEffect == Spec => []RefusalHasNoEffect
<1>1. Inv => RefusalHasNoEffect
  BY DEF Inv, CallInv, ResultInv, RefusalHasNoEffect
<1> QED
  BY <1>1, Invariance, PTL

(***************************************************************************)
(* The counters of a result tell what was done.                            *)
(***************************************************************************)
THEOREM CountersTruthful == Spec => []CountersTellTheTruth
<1>1. Inv => CountersTellTheTruth
  BY DEF Inv, CallInv, RequestInv, CounterInv, ResultInv, CountersTellTheTruth
<1> QED
  BY <1>1, Invariance, PTL

(***************************************************************************)
(* Every billable request that is sent holds a slot of the month that no   *)
(* other request holds, one of as many as the limit allows, however many   *)
(* calls there are (QuotaTakes, SendCostQuery).                            *)
(***************************************************************************)
THEOREM WithinQuota == Spec => []BillableWithinQuota
<1>1. ASSUME Inv, NEW c \in Call, Billed(c) PROVE BillableWithinQuota!(c)!2
  <2>1. slot[c] # 0
    BY <1>1 DEF Inv, CallInv, RequestInv, Billed
  <2>2. slot[c] \in 1..Limit
    BY <1>1, <2>1, ToolAssumption DEF Inv, TypeOK, SlotInv
  <2> QED
    BY <1>1, <2>1, <2>2 DEF Inv, SlotInv
<1>2. Inv => BillableWithinQuota
  BY <1>1 DEF BillableWithinQuota
<1> QED
  BY <1>2, Invariance, PTL

-----------------------------------------------------------------------------
(* The contract of the confirmation provider. *)

\* A call that went ahead spent its confirmation, and a confirmation is spent
\* by one call, on what it was issued for.
ContractInv ==
    /\ Guard!ContractTypeOK
    /\ confirmed \subseteq spent
    /\ \A c \in spent :
          /\ asked[c] \in Guard!Question
          /\ issued[asked[c].token] = asked[c].binding
    /\ \A c, d \in spent : asked[c].token = asked[d].token => c = d

LEMMA ContractStepKeeps ==
    ASSUME ContractInv, [Guard!ContractNext]_Guard!contractVars
    PROVE  ContractInv'
<1> USE DEF ContractInv, Guard!ContractTypeOK
<1>1. ASSUME NEW t \in Token, NEW b \in Binding, Guard!Issue(t, b)
      PROVE  ContractInv'
  BY <1>1, Parts DEF Guard!Issue
<1>2. ASSUME NEW c \in Call, NEW q \in Guard!Question, Guard!Ask(c, q)
      PROVE  ContractInv'
  <2>1. c \notin spent
    BY <1>2, Parts DEF Guard!Ask
  <2> QED
    BY <1>2, <2>1 DEF Guard!Ask
<1>3. ASSUME NEW c \in Call, NEW told \in SUBSET {c}, Guard!Spend(c, told)
      PROVE  ContractInv'
  <2>1. asked[c] \in Guard!Question
    BY <1>3 DEF Guard!Spend, Guard!MaySpend
  <2> QED
    BY <1>3, <2>1, Parts DEF Guard!Spend, Guard!MaySpend
<1>4. ASSUME NEW c \in Call, Guard!Confirm(c)
      PROVE  ContractInv'
  BY <1>4 DEF Guard!Confirm
<1>5. CASE UNCHANGED Guard!contractVars
  BY <1>5 DEF Guard!contractVars
<1> QED
  BY <1>1, <1>2, <1>3, <1>4, <1>5 DEF Guard!ContractNext

LEMMA ContractInvSafe == ContractInv => Guard!ContractSafety
BY Parts DEF ContractInv, Guard!ContractSafety, Guard!AtMostOnePerToken,
     Guard!ConfirmedAsIssued

(***************************************************************************)
(* The contract is worth having: whatever implements it never lets two     *)
(* calls go ahead on one token, and lets a call go ahead only on what its  *)
(* token was issued for.                                                   *)
(***************************************************************************)
THEOREM ContractSafe == Guard!ContractSpec => []Guard!ContractSafety
<1>1. Guard!ContractInit => ContractInv
  BY DEF Guard!ContractInit, ContractInv, Guard!ContractTypeOK
<1> QED
  BY <1>1, ContractStepKeeps, ContractInvSafe, PTL DEF Guard!ContractSpec

LEMMA ContractStep ==
    ASSUME Inv, [Next]_vars
    PROVE  [Guard!ContractNext]_Guard!contractVars
<1>1. ASSUME NEW c \in Call, NEW t \in Token, NEW b \in Binding, Execute(c, t, b)
      PROVE  Guard!ContractNext
  <2>1. [token |-> t, binding |-> b] \in Guard!Question
    BY DEF Guard!Question
  <2> QED
    BY <1>1, <2>1 DEF Execute, Guard!ContractNext
<1>2. ASSUME NEW c \in Call, Confirmed(c)
      PROVE  Guard!ContractNext
  BY <1>2 DEF Confirmed, Guard!ContractNext
<1>3. ASSUME NEW c \in Call, GuardIssues(c)
      PROVE  Guard!ContractNext
  <2>1. binding[c] \in Binding /\ c \in Token
    BY <1>3 DEF GuardIssues, Inv, TypeOK, Token
  <2> QED
    BY <1>3, <2>1 DEF GuardIssues, Guard!ContractNext
<1>4. ASSUME NEW c \in Call, GuardSpends(c)
      PROVE  Guard!ContractNext
  BY <1>4 DEF GuardSpends, Guard!ContractNext
<1>5. CASE UNCHANGED guardVars
  BY <1>5 DEF guardVars, Guard!contractVars
<1>6. ASSUME NEW c \in Call, NEW b \in Binding, RefuseArguments(c, b) \/ Prepare(c, b)
      PROVE  UNCHANGED guardVars
  BY <1>6 DEF RefuseArguments, Prepare
<1>7. ASSUME NEW c \in Call, CallStep(c), ~Confirmed(c)
      PROVE  UNCHANGED guardVars
  BY <1>7 DEF CallStep, Prepared, PrepareFails, ConfirmationRefused, QuotaRefused,
     SendCostQuery,
     ConfigUnavailable, ConfigInvalid, DestinationNotConfigured, NothingSent, SendWrite,
     WriteRejected, UnreadableResponse, InvalidResponse, ProviderOk, ProviderTimeout,
     AuditAndReturn
<1>8. ASSUME NEW c \in Call,
             QuotaTakes(c) \/ ProviderAccepts(c) \/ ProviderRejects(c) \/ Lose(c)
      PROVE  UNCHANGED guardVars
  BY <1>8 DEF QuotaTakes, ProviderAccepts, ProviderRejects, Lose
<1>9. UNCHANGED vars => UNCHANGED guardVars
  BY DEF vars
<1> QED
  BY <1>1, <1>2, <1>3, <1>4, <1>5, <1>6, <1>7, <1>8, <1>9 DEF Next, RemoteStep

(***************************************************************************)
(* The tools use the provider of confirmations as its contract says, and   *)
(* in no other way: what is proved of the contract, and of the guards that *)
(* implement it, holds of the tools.                                       *)
(***************************************************************************)
THEOREM ToolsKeepContract == Spec => Guard!ContractSpec
<1>1. Init => Guard!ContractInit
  BY DEF Init
<1> QED
  BY <1>1, ContractStep, Invariance, PTL DEF Spec, Guard!ContractSpec
=============================================================================
