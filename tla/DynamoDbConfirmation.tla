------------------------ MODULE DynamoDbConfirmation ------------------------
(***************************************************************************)
(* DynamoDbConfirmationGuard (core/confirmation.py): confirmations kept in *)
(* one DynamoDB table and consumed by whichever Lambda invocation presents *)
(* them.  Each MCP request runs in an invocation of its own, so prepare    *)
(* and consume calls interleave at every store request, an invocation can  *)
(* be stopped between two of them, and a request whose answer never came   *)
(* may have been applied, may still be applied later, or may be lost.      *)
(*                                                                         *)
(* Time is in whole seconds, what int(now.timestamp()) returns: the TTL is *)
(* a whole number of seconds, so int((now + ttl).timestamp()) is that      *)
(* reading plus Ttl.  The invocation that prepared a confirmation names    *)
(* its token: token_urlsafe(32) draws a string no other prepare draws.     *)
(***************************************************************************)
EXTENDS Naturals

CONSTANTS Invocation,     \* Lambda invocations; each serves one call
          Caller, Action, Payload,
          Oversized,      \* payloads whose canonical form is over 16384 bytes
          UnknownToken,   \* a string no prepare ever returned
          Nothing,        \* no row, no question
          Ttl,            \* DEFAULT_CONFIRMATION_TTL
          LambdaTimeout,  \* the function's Timeout in template.yaml
          MaxTime         \* bound on the clock

Token == Invocation \cup {UnknownToken}
Binding == [caller : Caller, action : Action, payload : Payload]
Question == [token : Token, binding : Binding]
Row == [binding : Binding, expires_at : Nat, consumed : BOOLEAN]

ASSUME TimeAssumption ==
    /\ Ttl \in Nat \ {0}
    /\ LambdaTimeout \in Nat
    /\ MaxTime \in Nat

ASSUME NameAssumption ==
    /\ UnknownToken \notin Invocation
    /\ Nothing \notin Row
    /\ Nothing \notin Question
    /\ Nothing \notin Binding

VARIABLES now,        \* the clock
          table,      \* the confirmation table, by token
          op,         \* what each invocation was asked to do
          question,   \* the token and binding it works on
          clockRead,  \* the clock reading it took before its first request
          wire,       \* its write request: in flight, or what the store did
          pc,         \* where it waits
          answer      \* what it returned, or the code it raised

vars == <<now, table, op, question, clockRead, wire, pc, answer>>

Answers == {"none", "issued", "confirmed", "payload_too_large",
            "confirmation_store_unavailable", "confirmation_invalid",
            "confirmation_replayed", "confirmation_expired",
            "confirmation_caller_mismatch", "confirmation_action_mismatch",
            "confirmation_payload_mismatch", "lost"}

TypeOK ==
    /\ now \in Nat
    /\ table \in [Token -> Row \cup {Nothing}]
    /\ op \in [Invocation -> {"none", "prepare", "consume"}]
    /\ question \in [Invocation -> Question \cup {Nothing}]
    /\ \A i \in Invocation : op[i] # "none" => question[i] \in Question
    /\ clockRead \in [Invocation -> Nat]
    /\ wire \in [Invocation -> {"none", "inFlight", "applied", "refused", "failed"}]
    /\ pc \in [Invocation -> {"idle", "sent", "read", "done"}]
    /\ answer \in [Invocation -> Answers]

Init ==
    /\ now = 0
    /\ table = [t \in Token |-> Nothing]
    /\ op = [i \in Invocation |-> "none"]
    /\ question = [i \in Invocation |-> Nothing]
    /\ clockRead = [i \in Invocation |-> 0]
    /\ wire = [i \in Invocation |-> "none"]
    /\ pc = [i \in Invocation |-> "idle"]
    /\ answer = [i \in Invocation |-> "none"]

-----------------------------------------------------------------------------
Running(i) == pc[i] \in {"sent", "read"}

\* A caller can present a token it was given, or a string that is none.
Presentable == {UnknownToken} \cup {i \in Invocation : answer[i] = "issued"}

Finish(i, a) ==
    /\ pc' = [pc EXCEPT ![i] = "done"]
    /\ answer' = [answer EXCEPT ![i] = a]

\* The clock is read and the payload digested before the write is sent; a
\* payload over the limit ends the call with the code errorCode.
Start(i, kind, q, errorCode) ==
    /\ op[i] = "none"
    /\ op' = [op EXCEPT ![i] = kind]
    /\ question' = [question EXCEPT ![i] = q]
    /\ clockRead' = [clockRead EXCEPT ![i] = now]
    /\ IF q.binding.payload \in Oversized
         THEN Finish(i, errorCode) /\ UNCHANGED wire
         ELSE /\ wire' = [wire EXCEPT ![i] = "inFlight"]
              /\ pc' = [pc EXCEPT ![i] = "sent"]
              /\ UNCHANGED answer
    /\ UNCHANGED <<now, table>>

Prepare(i, b) ==
    Start(i, "prepare", [token |-> i, binding |-> b],
          "payload_too_large")

\* The digest is an argument of update_item, inside its try: its error is
\* reported as an unavailable store.
Consume(i, t, b) ==
    /\ t \in Presentable
    /\ Start(i, "consume", [token |-> t, binding |-> b],
             "confirmation_store_unavailable")

-----------------------------------------------------------------------------
(* What the store does with a write request, whoever still waits for it.   *)

\* put_item with ConditionExpression attribute_not_exists(token_digest).
StorePut(i) ==
    /\ op[i] = "prepare" /\ wire[i] = "inFlight"
    /\ \/ /\ table[i] = Nothing
          /\ table' = [table EXCEPT ![i] =
                 [binding |-> question[i].binding,
                  expires_at |-> clockRead[i] + Ttl,
                  consumed |-> FALSE]]
          /\ wire' = [wire EXCEPT ![i] = "applied"]
       \/ /\ table[i] # Nothing
          /\ wire' = [wire EXCEPT ![i] = "refused"]
          /\ UNCHANGED table
    /\ UNCHANGED <<now, op, question, clockRead, pc, answer>>

\* Mutated forms: the consumed test dropped; the binding test dropped; the
\* expiry compared with >= instead of >.
UpdateConditionUnlessConsumed(i) ==
    LET row == table[question[i].token]
    IN  row # Nothing /\ row.expires_at > clockRead[i] /\ row.binding = question[i].binding

UpdateConditionUnbound(i) ==
    LET row == table[question[i].token]
    IN  row # Nothing /\ ~row.consumed /\ row.expires_at > clockRead[i]

UpdateConditionAtExpiry(i) ==
    LET row == table[question[i].token]
    IN  /\ row # Nothing /\ ~row.consumed
        /\ row.expires_at >= clockRead[i]
        /\ row.binding = question[i].binding

\* The condition of update_item: :now is the caller's reading, not the store's.
UpdateCondition(i) ==
    LET row == table[question[i].token]
    IN  /\ row # Nothing
        /\ row.consumed = FALSE
        /\ row.expires_at > clockRead[i]
        /\ row.binding = question[i].binding

StoreUpdate(i) ==
    /\ op[i] = "consume" /\ wire[i] = "inFlight"
    /\ \/ /\ UpdateCondition(i)
          /\ table' = [table EXCEPT ![question[i].token].consumed = TRUE]
          /\ wire' = [wire EXCEPT ![i] = "applied"]
       \/ /\ ~UpdateCondition(i)
          /\ wire' = [wire EXCEPT ![i] = "refused"]
          /\ UNCHANGED table
    /\ UNCHANGED <<now, op, question, clockRead, pc, answer>>

\* Throttling or an internal error: nothing was written.
StoreFails(i) ==
    /\ wire[i] = "inFlight"
    /\ wire' = [wire EXCEPT ![i] = "failed"]
    /\ UNCHANGED <<now, table, op, question, clockRead, pc, answer>>

\* Mutated form: rows are dropped before they expire.
TtlDeleteEarly(t) ==
    /\ table[t] # Nothing
    /\ table' = [table EXCEPT ![t] = Nothing]
    /\ UNCHANGED <<now, op, question, clockRead, wire, pc, answer>>

\* TTL on expires_at: the store drops an expired row at any later time.
TtlDelete(t) ==
    /\ table[t] # Nothing
    /\ table[t].expires_at <= now
    /\ table' = [table EXCEPT ![t] = Nothing]
    /\ UNCHANGED <<now, op, question, clockRead, wire, pc, answer>>

-----------------------------------------------------------------------------
(* The invocation's side. *)

ReceivePut(i) ==
    /\ op[i] = "prepare" /\ pc[i] = "sent" /\ wire[i] # "inFlight"
    /\ Finish(i, IF wire[i] = "applied" THEN "issued"
                                        ELSE "confirmation_store_unavailable")
    /\ UNCHANGED <<now, table, op, question, clockRead, wire>>

ReceiveUpdate(i) ==
    /\ op[i] = "consume" /\ pc[i] = "sent" /\ wire[i] # "inFlight"
    /\ \/ wire[i] = "applied" /\ Finish(i, "confirmed")
       \/ wire[i] = "failed" /\ Finish(i, "confirmation_store_unavailable")
       \/ /\ wire[i] = "refused"
          /\ pc' = [pc EXCEPT ![i] = "read"]
          /\ UNCHANGED answer
    /\ UNCHANGED <<now, table, op, question, clockRead, wire>>

\* Mutated forms: after a lost answer the call goes ahead as if confirmed; the
\* confirmation is released.
GiveUpOptimistically(i) ==
    /\ pc[i] = "sent"
    /\ Finish(i, IF op[i] = "consume" THEN "confirmed"
                                     ELSE "confirmation_store_unavailable")
    /\ UNCHANGED <<now, table, op, question, clockRead, wire>>

GiveUpAndRelease(i) ==
    /\ pc[i] = "sent"
    /\ Finish(i, "confirmation_store_unavailable")
    /\ table' = [t \in Token |->
          IF t = question[i].token /\ table[t] # Nothing
          THEN [table[t] EXCEPT !.consumed = FALSE] ELSE table[t]]
    /\ UNCHANGED <<now, op, question, clockRead, wire>>

\* The answer does not come (client timeouts, one attempt): the request may
\* have been applied, or be applied after the invocation stopped waiting.
GiveUp(i) ==
    /\ pc[i] = "sent"
    /\ Finish(i, "confirmation_store_unavailable")
    /\ UNCHANGED <<now, table, op, question, clockRead, wire>>

\* Mutated form: the expiry is not diagnosed.
DiagnosisWithoutExpiry(row, i) ==
    LET b == question[i].binding
    IN  CASE row = Nothing                 -> "confirmation_invalid"
          [] row # Nothing /\ row.consumed -> "confirmation_replayed"
          [] OTHER ->
              IF row.binding.caller # b.caller
              THEN "confirmation_caller_mismatch"
              ELSE IF row.binding.action # b.action
                   THEN "confirmation_action_mismatch"
              ELSE "confirmation_payload_mismatch"

Diagnosis(row, i) ==
    LET b == question[i].binding
    IN  CASE row = Nothing                   -> "confirmation_invalid"
          [] row # Nothing /\ row.consumed   -> "confirmation_replayed"
          [] OTHER ->
              IF row.expires_at <= clockRead[i] THEN "confirmation_expired"
              ELSE IF row.binding.caller # b.caller
                   THEN "confirmation_caller_mismatch"
              ELSE IF row.binding.action # b.action
                   THEN "confirmation_action_mismatch"
              ELSE "confirmation_payload_mismatch"

\* get_item (ConsistentRead) after a refused condition: the row may have
\* changed since the store evaluated the condition.
ReadRecord(i) ==
    /\ pc[i] = "read"
    /\ Finish(i, Diagnosis(table[question[i].token], i))
    /\ UNCHANGED <<now, table, op, question, clockRead, wire>>

ReadFails(i) ==
    /\ pc[i] = "read"
    /\ Finish(i, "confirmation_store_unavailable")
    /\ UNCHANGED <<now, table, op, question, clockRead, wire>>

\* The runtime stops the invocation: nobody gets its answer.
Lose(i) ==
    /\ Running(i)
    /\ Finish(i, "lost")
    /\ UNCHANGED <<now, table, op, question, clockRead, wire>>

\* No invocation outlives LambdaTimeout; MaxTime bounds the clock.
Tick ==
    /\ now < MaxTime
    /\ \A i \in Invocation : Running(i) => now < clockRead[i] + LambdaTimeout
    /\ now' = now + 1
    /\ UNCHANGED <<table, op, question, clockRead, wire, pc, answer>>

-----------------------------------------------------------------------------
InvocationStep(i) ==
    \/ StorePut(i) \/ StoreUpdate(i) \/ StoreFails(i)
    \/ ReceivePut(i) \/ ReceiveUpdate(i) \/ GiveUp(i)
    \/ ReadRecord(i) \/ ReadFails(i) \/ Lose(i)

Next ==
    \/ \E i \in Invocation, b \in Binding : Prepare(i, b)
    \/ \E i \in Invocation, t \in Token, b \in Binding : Consume(i, t, b)
    \/ \E i \in Invocation : InvocationStep(i)
    \/ \E t \in Token : TtlDelete(t)
    \/ Tick

Spec == Init /\ [][Next]_vars

-----------------------------------------------------------------------------
(* Properties. *)

Issued(t) == t \in Invocation /\ op[t] = "prepare" /\ wire[t] = "applied"
Expiry(t) == clockRead[t] + Ttl
Spent(i) == op[i] = "consume" /\ wire[i] = "applied"
SpentBy(i, t) == Spent(i) /\ question[i].token = t

(***************************************************************************)
(* At most one call is told to go ahead on one token, and the update is    *)
(* applied for at most one call: concurrent consumes, late requests and    *)
(* callers that present a token again never share a confirmation.          *)
(***************************************************************************)
AtMostOneSpend ==
    \A i, j \in Invocation :
        Spent(i) /\ Spent(j) /\ question[i].token = question[j].token => i = j

AtMostOneConfirmed ==
    \A i, j \in Invocation :
        /\ answer[i] = "confirmed"
        /\ answer[j] = "confirmed"
        /\ question[i].token = question[j].token
        => i = j

(***************************************************************************)
(* A call told to go ahead presented a token that was issued, for the very *)
(* binding it presents, and read its clock before that token expired.      *)
(***************************************************************************)
ConfirmedAsIssued ==
    \A i \in Invocation : answer[i] = "confirmed" =>
        LET t == question[i].token
        IN  /\ Issued(t)
            /\ question[i].binding = question[t].binding
            /\ clockRead[i] < Expiry(t)

(***************************************************************************)
(* A refusal names what is the case, although the diagnosis reads the row  *)
(* after the condition was refused and the row may have changed, or been   *)
(* dropped, in between: "invalid" only for a token that was never issued   *)
(* or has expired, "replayed" only if another call's update was applied,   *)
(* a mismatch only if that very part of the binding differs.               *)
(***************************************************************************)
Mismatches == {"confirmation_expired", "confirmation_caller_mismatch",
               "confirmation_action_mismatch", "confirmation_payload_mismatch"}

TruthfulRefusal ==
    \A i \in Invocation : op[i] = "consume" =>
        LET t == question[i].token
            b == question[i].binding
        IN  /\ answer[i] = "confirmation_invalid" =>
                  t = UnknownToken \/ Expiry(t) <= now
            /\ answer[i] = "confirmation_replayed" =>
                  \E j \in Invocation \ {i} : SpentBy(j, t)
            /\ answer[i] \in Mismatches => t # UnknownToken
            /\ answer[i] = "confirmation_expired" => Expiry(t) <= clockRead[i]
            /\ answer[i] = "confirmation_caller_mismatch" =>
                  question[t].binding.caller # b.caller
            /\ answer[i] = "confirmation_action_mismatch" =>
                  question[t].binding.action # b.action
            /\ answer[i] = "confirmation_payload_mismatch" =>
                  question[t].binding.payload # b.payload

(***************************************************************************)
(* The inductive invariant behind the invariants above.  Its parts: where  *)
(* a call stands determines what it asked and what the store did; a row    *)
(* keeps what its prepare put there, is consumed exactly when some update  *)
(* was applied to it, and is missing only before its put and after its     *)
(* expiry; an applied update met its condition; a refused one had a reason *)
(* that can never go away.                                                 *)
(***************************************************************************)
CallInv ==
    \A i \in Invocation :
        /\ op[i] = "none" => wire[i] = "none" /\ pc[i] = "idle"
        /\ pc[i] # "done" => answer[i] = "none"
        /\ op[i] = "prepare" => question[i].token = i
        /\ op[i] = "consume" => question[i].token \in Presentable
        /\ pc[i] = "read" => op[i] = "consume" /\ wire[i] = "refused"
        /\ answer[i] = "issued" => Issued(i)
        /\ answer[i] = "confirmed" => Spent(i)
        /\ clockRead[i] <= now

RowInv ==
    \A t \in Token :
        /\ table[t] # Nothing =>
              /\ Issued(t)
              /\ table[t].binding = question[t].binding
              /\ table[t].expires_at = Expiry(t)
              /\ table[t].consumed <=> \E i \in Invocation : SpentBy(i, t)
        /\ table[t] = Nothing /\ Issued(t) => Expiry(t) <= now

SpendInv ==
    \A i \in Invocation : Spent(i) =>
        LET t == question[i].token
        IN  /\ Issued(t)
            /\ question[i].binding = question[t].binding
            /\ clockRead[i] < Expiry(t)

RefusalInv ==
    \A i \in Invocation : op[i] = "consume" /\ wire[i] = "refused" =>
        LET t == question[i].token
        IN  \/ table[t] = Nothing
            \/ Expiry(t) <= clockRead[i]
            \/ question[i].binding # question[t].binding
            \/ \E j \in Invocation : SpentBy(j, t)

\* The runtime stops an invocation at its timeout.
DeadlineInv ==
    \A i \in Invocation : Running(i) => now <= clockRead[i] + LambdaTimeout

InductiveInv ==
    /\ TypeOK
    /\ DeadlineInv
    /\ CallInv
    /\ RowInv
    /\ SpendInv
    /\ AtMostOneSpend
    /\ RefusalInv
    /\ TruthfulRefusal

(***************************************************************************)
(* A call is told to go ahead less than LambdaTimeout after the expiry:    *)
(* the clock is read once, before the update, and only the function's      *)
(* timeout bounds how stale that reading is when the call goes ahead.      *)
(***************************************************************************)
GoAheadNotLate ==
    [][\A i \in Invocation :
          answer[i] # "confirmed" /\ answer'[i] = "confirmed" =>
              now < Expiry(question[i].token) + LambdaTimeout]_vars

(***************************************************************************)
(* A row is created once, consumed once and dropped once: it never goes    *)
(* back to unconsumed, a dropped row never comes back, and no step changes *)
(* what it is bound to or when it expires.                                 *)
(***************************************************************************)
RowsOnlyAge ==
    [][\A t \in Token : table'[t] # table[t] =>
          \/ table[t] = Nothing /\ ~Issued(t)
          \/ table'[t] = Nothing
          \/ /\ ~table[t].consumed
             /\ table'[t] = [table[t] EXCEPT !.consumed = TRUE]]_vars

(***************************************************************************)
(* The guard implements the contract of a confirmation provider.           *)
(***************************************************************************)
Contract == INSTANCE ConfirmationContract WITH
    Call <- Invocation,
    issued <- [t \in Token |->
                  IF Issued(t) THEN question[t].binding ELSE Nothing],
    asked <- [i \in Invocation |->
                  IF op[i] = "consume" THEN question[i] ELSE Nothing],
    spent <- {i \in Invocation : Spent(i)},
    confirmed <- {i \in Invocation :
                     op[i] = "consume" /\ answer[i] = "confirmed"}

ImplementsContract == Contract!ContractSpec
=============================================================================
