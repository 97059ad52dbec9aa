-------------------------- MODULE ConfirmationGuard --------------------------
(***************************************************************************)
(* ConfirmationGuard (core/confirmation.py): the provider of the local     *)
(* server.  Records live in one process; each prepare and each consume     *)
(* runs to its end without another one in between, so calls interleave     *)
(* only as whole calls, with the clock, and with a restart of the process, *)
(* which loses every record.  The clock is read where the code reads it,   *)
(* with the resolution of datetime: a tick is the smallest step of time.   *)
(* A token is named by the prepare that drew it.                           *)
(***************************************************************************)
EXTENDS Naturals

CONSTANTS Call,           \* tool calls; each is one prepare or one consume
          Caller, Action, Payload,
          Oversized,      \* payloads whose canonical form is over 16384 bytes
          UnknownToken,   \* a string no prepare ever returned
          Nothing,        \* no record, no question
          Ttl,
          MaxTime         \* bound on the clock

Token == Call \cup {UnknownToken}
Binding == [caller : Caller, action : Action, payload : Payload]
Question == [token : Token, binding : Binding]
ConfirmationRecord == [binding : Binding, expires_at : Nat, consumed : BOOLEAN]

ASSUME TtlAssumption == Ttl \in Nat \ {0} /\ MaxTime \in Nat

ASSUME NameAssumption ==
    /\ UnknownToken \notin Call
    /\ Nothing \notin ConfirmationRecord \cup Question \cup Binding

VARIABLES now, records, question, answer

vars == <<now, records, question, answer>>

\* A call that asks for a confirmation presents no token: its own names it.
Preparing(c) == question[c] # Nothing /\ question[c].token = c
Consuming(c) == question[c] # Nothing /\ question[c].token # c

Answers == {"none", "issued", "confirmed", "payload_too_large",
            "confirmation_invalid", "confirmation_replayed",
            "confirmation_expired", "confirmation_caller_mismatch",
            "confirmation_action_mismatch", "confirmation_payload_mismatch"}

TypeOK ==
    /\ now \in Nat
    /\ records \in [Token -> ConfirmationRecord \cup {Nothing}]
    /\ question \in [Call -> Question \cup {Nothing}]
    /\ answer \in [Call -> Answers]

Init ==
    /\ now = 0
    /\ records = [t \in Token |-> Nothing]
    /\ question = [c \in Call |-> Nothing]
    /\ answer = [c \in Call |-> "none"]

Presentable == {UnknownToken} \cup {c \in Call : answer[c] = "issued"}

\* A tool call reaches the server; it runs when the event loop gets to it.
Arrive(c) ==
    /\ question[c] = Nothing
    /\ \E t \in Presentable \cup {c}, b \in Binding :
          question' = [question EXCEPT ![c] = [token |-> t, binding |-> b]]
    /\ UNCHANGED <<now, records, answer>>

Prepare(c) ==
    /\ Preparing(c) /\ answer[c] = "none"
    /\ LET b == question[c].binding
       IN  \/ /\ b.payload \in Oversized
              /\ answer' = [answer EXCEPT ![c] = "payload_too_large"]
              /\ UNCHANGED records
           \/ /\ b.payload \notin Oversized
              /\ records' = [records EXCEPT ![c] =
                    [binding |-> b, expires_at |-> now + Ttl, consumed |-> FALSE]]
              /\ answer' = [answer EXCEPT ![c] = "issued"]
    /\ UNCHANGED <<now, question>>

\* Mutated form: the payloads are not compared.
BindingVerdictWithoutPayload(r, b) ==
    IF r.binding.caller # b.caller THEN "confirmation_caller_mismatch"
    ELSE IF r.binding.action # b.action THEN "confirmation_action_mismatch"
    ELSE IF b.payload \in Oversized THEN "payload_too_large"
    ELSE "confirmed"

BindingVerdict(r, b) ==
    IF r.binding.caller # b.caller THEN "confirmation_caller_mismatch"
    ELSE IF r.binding.action # b.action THEN "confirmation_action_mismatch"
    ELSE IF b.payload \in Oversized THEN "payload_too_large"
    ELSE IF r.binding.payload # b.payload THEN "confirmation_payload_mismatch"
    ELSE "confirmed"

\* Mutated form: the expiry is looked at before the use.
VerdictExpiryFirst(c) ==
    LET r == records[question[c].token]
    IN  CASE r = Nothing -> "confirmation_invalid"
          [] r # Nothing /\ now >= r.expires_at -> "confirmation_expired"
          [] OTHER -> IF r.consumed THEN "confirmation_replayed"
                      ELSE BindingVerdict(r, question[c].binding)

\* The checks of consume, in the order of the code.
Verdict(c) ==
    LET r == records[question[c].token]
    IN  CASE r = Nothing -> "confirmation_invalid"
          [] r # Nothing /\ r.consumed -> "confirmation_replayed"
          [] OTHER -> IF now >= r.expires_at THEN "confirmation_expired"
                      ELSE BindingVerdict(r, question[c].binding)

Consume(c) ==
    /\ Consuming(c) /\ answer[c] = "none"
    /\ answer' = [answer EXCEPT ![c] = Verdict(c)]
    /\ \/ /\ Verdict(c) = "confirmed"
          /\ records' = [records EXCEPT ![question[c].token].consumed = TRUE]
       \/ Verdict(c) # "confirmed" /\ UNCHANGED records
    /\ UNCHANGED <<now, question>>

\* The process is started again: its dictionary is empty.
Restart ==
    /\ records' = [t \in Token |-> Nothing]
    /\ UNCHANGED <<now, question, answer>>

Tick ==
    /\ now < MaxTime
    /\ now' = now + 1
    /\ UNCHANGED <<records, question, answer>>

Next ==
    \/ \E c \in Call : Arrive(c) \/ Prepare(c) \/ Consume(c)
    \/ Restart
    \/ Tick

Spec == Init /\ [][Next]_vars

-----------------------------------------------------------------------------
(***************************************************************************)
(* A refusal names what is the case: "invalid" only for a token nobody was *)
(* given or whose record the process lost, "replayed" only if another call *)
(* was confirmed, "expired" only from the expiry on and only if no call    *)
(* was or will be confirmed on the token, a mismatch only if that part of  *)
(* the binding differs, and an oversized payload is only reported to the   *)
(* caller and for the action the record is bound to.                       *)
(***************************************************************************)
TruthfulRefusal ==
    \A c \in Call : Consuming(c) =>
        LET t == question[c].token
            b == question[c].binding
            given == t # UnknownToken /\ answer[t] = "issued"
        IN  /\ answer[c] = "confirmation_invalid" => ~given \/ records[t] = Nothing
            /\ answer[c] = "confirmation_replayed" =>
                  \E d \in Call \ {c} : answer[d] = "confirmed" /\ question[d].token = t
            /\ answer[c] = "confirmation_expired" =>
                  /\ given
                  /\ records[t] # Nothing => now >= records[t].expires_at
                  /\ \A d \in Call : answer[d] = "confirmed" => question[d].token # t
            /\ answer[c] = "confirmation_caller_mismatch" =>
                  given /\ question[t].binding.caller # b.caller
            /\ answer[c] = "confirmation_action_mismatch" =>
                  given /\ question[t].binding.action # b.action
            /\ answer[c] = "confirmation_payload_mismatch" =>
                  given /\ question[t].binding.payload # b.payload
            /\ answer[c] = "payload_too_large" =>
                  /\ given
                  /\ question[t].binding.caller = b.caller
                  /\ question[t].binding.action = b.action

(***************************************************************************)
(* The in-memory guard implements the same contract as the DynamoDB one.   *)
(***************************************************************************)
Contract == INSTANCE ConfirmationContract WITH
    issued <- [t \in Token |->
                  IF t \in Call /\ answer[t] = "issued"
                  THEN question[t].binding ELSE Nothing],
    asked <- [c \in Call |-> IF Consuming(c) THEN question[c] ELSE Nothing],
    spent <- {c \in Call : answer[c] = "confirmed"},
    confirmed <- {c \in Call : answer[c] = "confirmed"}

ImplementsContract == Contract!ContractSpec
=============================================================================
