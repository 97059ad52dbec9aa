----------------------- MODULE ConfirmationGuard_proofs -----------------------
(***************************************************************************)
(* Proofs about the guard of the local server, for any number of calls and *)
(* restarts: its refusals are truthful, and it implements the contract the *)
(* tools rely on.  Records are lost in a restart; what is shown is that    *)
(* none is ever made again for a token that was given before.              *)
(***************************************************************************)
EXTENDS ConfirmationGuard, TLAPS

Given(t) == t \in Call /\ answer[t] = "issued"
ConfirmedBy(c, t) == answer[c] = "confirmed" /\ question[c].token = t

\* A call presents a token that was given, or one that never is; it is
\* answered as what it is, a prepare or a consume.
CallInv ==
    \A c \in Call :
        /\ Consuming(c) => question[c].token = UnknownToken \/ Given(question[c].token)
        /\ Preparing(c) => answer[c] \in {"none", "issued", "payload_too_large"}
        /\ answer[c] = "issued" => Preparing(c)
        /\ answer[c] # "none" => question[c] # Nothing

\* A record is the one of the prepare that drew its token, and it is consumed
\* exactly when some call was confirmed on it.
RecordInv ==
    \A t \in Token : records[t] # Nothing =>
        /\ Given(t)
        /\ records[t].binding = question[t].binding
        /\ records[t].consumed <=> \E c \in Call : ConfirmedBy(c, t)

\* A confirmed call presented what its token was given for, and was the only
\* one, also after a restart.
ConfirmedInv ==
    /\ \A c \in Call : answer[c] = "confirmed" =>
          /\ Given(question[c].token)
          /\ question[question[c].token].binding = question[c].binding
    /\ \A t \in Token, c, d \in Call : ConfirmedBy(c, t) /\ ConfirmedBy(d, t) => c = d

Inv == TypeOK /\ CallInv /\ RecordInv /\ ConfirmedInv /\ TruthfulRefusal
-----------------------------------------------------------------------------
LEMMA Parts ==
    /\ UnknownToken \notin Call
    /\ Nothing \notin ConfirmationRecord /\ Nothing \notin Question /\ Nothing \notin Binding
    /\ \A q \in Question : q.token \in Token /\ q.binding \in Binding
    /\ \A r \in ConfirmationRecord :
          r.binding \in Binding /\ r.expires_at \in Nat /\ r.consumed \in BOOLEAN
    /\ \A a, b \in Binding :
          a.caller = b.caller /\ a.action = b.action /\ a.payload = b.payload => a = b
BY NameAssumption DEF Question, ConfirmationRecord, Binding

LEMMA AskedParts ==
    ASSUME TypeOK, NEW c \in Call, question[c] # Nothing
    PROVE  /\ question[c] \in Question
           /\ question[c].token \in Token /\ question[c].binding \in Binding
BY Parts DEF TypeOK

\* What consume answers, check by check.
LEMMA VerdictIs ==
    ASSUME TypeOK, NEW c \in Call, Consuming(c)
    PROVE  LET r == records[question[c].token]
               b == question[c].binding
           IN  /\ Verdict(c) \in Answers \ {"none", "issued"}
               /\ Verdict(c) = "confirmation_invalid" <=> r = Nothing
               /\ Verdict(c) = "confirmation_replayed" => r # Nothing /\ r.consumed
               /\ Verdict(c) = "confirmation_caller_mismatch" =>
                     r # Nothing /\ r.binding.caller # b.caller
               /\ Verdict(c) = "confirmation_action_mismatch" =>
                     r # Nothing /\ r.binding.action # b.action
               /\ Verdict(c) = "payload_too_large" =>
                     /\ r # Nothing /\ r.binding.caller = b.caller
                     /\ r.binding.action = b.action
               /\ Verdict(c) = "confirmation_payload_mismatch" =>
                     r # Nothing /\ r.binding.payload # b.payload
               /\ Verdict(c) = "confirmation_expired" =>
                     r # Nothing /\ ~r.consumed /\ now >= r.expires_at
               /\ Verdict(c) = "confirmed" =>
                     /\ r # Nothing /\ ~r.consumed /\ r.binding = b
                     /\ ~(now >= r.expires_at)
<1> DEFINE r == records[question[c].token]
           b == question[c].binding
<1>1. b \in Binding /\ r \in ConfirmationRecord \cup {Nothing}
  BY AskedParts DEF Consuming, TypeOK
<1>2. CASE r = Nothing
  BY <1>2 DEF Verdict, Answers
<1>3. CASE r # Nothing
  <2>1. r.binding \in Binding /\ r.consumed \in BOOLEAN
    BY <1>1, <1>3, Parts
  <2>2. CASE r.consumed
    BY <1>3, <2>1, <2>2 DEF Verdict, Answers
  <2>3. CASE ~r.consumed
    <3>1. Verdict(c) = IF now >= r.expires_at THEN "confirmation_expired"
                       ELSE BindingVerdict(r, b)
      BY <1>3, <2>1, <2>3 DEF Verdict
    <3> QED
      BY <1>1, <1>3, <2>1, <2>3, <3>1, Parts DEF Answers, BindingVerdict
  <2> QED
    BY <2>2, <2>3
<1> QED
  BY <1>2, <1>3

LEMMA InitHolds == Init => Inv
BY Parts DEF Init, Inv, TypeOK, Answers, CallInv, RecordInv, ConfirmedInv, TruthfulRefusal,
   Consuming, Preparing, Given, ConfirmedBy

LEMMA ArriveKeeps ==
    ASSUME Inv, NEW c \in Call, Arrive(c)
    PROVE  Inv'
<1> USE DEF Inv
<1>1. PICK t \in Presentable \cup {c}, b \in Binding :
        question' = [question EXCEPT ![c] = [token |-> t, binding |-> b]]
  BY DEF Arrive
<1>2. /\ question[c] = Nothing /\ answer[c] = "none"
      /\ UNCHANGED <<now, records, answer>>
  BY DEF Arrive, CallInv
<1>3. /\ \A d \in Call \ {c} : question'[d] = question[d]
      /\ question'[c] = [token |-> t, binding |-> b]
      /\ question'[c] # Nothing /\ t \in Token
  BY <1>1, Parts DEF TypeOK, Presentable, Token, Question
<1>4. TypeOK'
  BY <1>1, <1>2, <1>3 DEF TypeOK, Question
<1>5. \A u \in Token : Given(u)' <=> Given(u)
  BY <1>2 DEF Given
<1>6. \A u \in Token, d \in Call : ConfirmedBy(d, u)' <=> ConfirmedBy(d, u)
  BY <1>2, <1>3 DEF ConfirmedBy
<1>7. \A u \in Token : Given(u) => question'[u] = question[u]
  BY <1>2, <1>3 DEF Given
<1>8. CallInv'
  BY <1>2, <1>3, <1>5, AskedParts DEF CallInv, Consuming, Preparing, Given, Presentable
<1>9. RecordInv'
  BY <1>2, <1>5, <1>6, <1>7 DEF RecordInv
<1>10. ConfirmedInv'
  BY <1>2, <1>3, <1>5, <1>6, <1>7 DEF ConfirmedInv, Given, ConfirmedBy
<1>11. TruthfulRefusal'
  <2> SUFFICES ASSUME NEW d \in Call, Consuming(d)', answer[d] # "none"
               PROVE  TruthfulRefusal!(d)!2'
    BY <1>2 DEF TruthfulRefusal
  <2>1. d # c /\ question'[d] = question[d] /\ Consuming(d)
    BY <1>2, <1>3 DEF Consuming
  <2>2. question[d].token \in Token
    BY <2>1, AskedParts DEF Consuming
  <2>3. TruthfulRefusal!(d)!2
    BY <2>1 DEF TruthfulRefusal
  <2> QED
    BY <1>2, <1>3, <1>7, <2>1, <2>2, <2>3 DEF Given, Token
<1> QED
  BY <1>4, <1>8, <1>9, <1>10, <1>11

LEMMA PrepareKeeps ==
    ASSUME Inv, NEW c \in Call, Prepare(c)
    PROVE  Inv'
<1> USE DEF Inv
<1>1. /\ Preparing(c) /\ answer[c] = "none" /\ c \in Token /\ ~Given(c)
      /\ question' = question /\ now' = now
  BY DEF Prepare, Given, Token
<1>2. records[c] = Nothing
  BY <1>1 DEF RecordInv
<1>3. PICK code \in {"payload_too_large", "issued"} : answer' = [answer EXCEPT ![c] = code]
  BY DEF Prepare
<1>4. answer'[c] = code /\ \A d \in Call \ {c} : answer'[d] = answer[d]
  BY <1>3 DEF TypeOK
<1>5. /\ \A t \in Token \ {c} : records'[t] = records[t]
      /\ \/ records'[c] = Nothing
         \/ /\ code = "issued"
            /\ records'[c] = [binding |-> question[c].binding,
                              expires_at |-> now + Ttl, consumed |-> FALSE]
      /\ TypeOK'
  <2>1. question[c].binding \in Binding
    BY <1>1, AskedParts DEF Preparing
  <2>2. [binding |-> question[c].binding, expires_at |-> now + Ttl, consumed |-> FALSE]
           \in ConfirmationRecord
    BY <2>1, TtlAssumption DEF ConfirmationRecord, TypeOK
  <2>3. CASE UNCHANGED records /\ answer' = [answer EXCEPT ![c] = "payload_too_large"]
    BY <1>1, <1>2, <2>3 DEF TypeOK, Answers
  <2>4. CASE /\ records' = [records EXCEPT ![c] =
                    [binding |-> question[c].binding, expires_at |-> now + Ttl,
                     consumed |-> FALSE]]
             /\ answer' = [answer EXCEPT ![c] = "issued"]
    BY <1>1, <1>4, <2>2, <2>4 DEF TypeOK, Answers
  <2> QED
    BY <2>3, <2>4 DEF Prepare
<1>6. \A t \in Token : t # c => (Given(t)' <=> Given(t))
  BY <1>4 DEF Given
<1>7. \A t \in Token, d \in Call : ConfirmedBy(d, t)' <=> ConfirmedBy(d, t)
  BY <1>1, <1>4 DEF ConfirmedBy
<1>8. \A d \in Call : question[d] # Nothing /\ question[d].token = c => ~Consuming(d)
  BY <1>1, Parts DEF CallInv, Given, Consuming
<1>9. \A d \in Call : ~ConfirmedBy(d, c)
  BY <1>1 DEF ConfirmedInv, ConfirmedBy
<1>10. CallInv'
  <2>1. ASSUME NEW d \in Call, d # c
        PROVE  CallInv!(d)'
    BY <1>1, <1>4, <1>6, <1>8, <2>1, AskedParts DEF CallInv, Consuming, Preparing
  <2>2. CallInv!(c)'
    BY <1>1, <1>4 DEF CallInv, Consuming, Preparing
  <2> QED
    BY <2>1, <2>2 DEF CallInv
<1>11. RecordInv'
  <2>1. ASSUME NEW t \in Token, t # c
        PROVE  RecordInv!(t)'
    BY <1>1, <1>5, <1>6, <1>7, <2>1 DEF RecordInv
  <2>2. RecordInv!(c)'
    BY <1>1, <1>4, <1>5, <1>7, <1>9 DEF Given
  <2> QED
    BY <2>1, <2>2 DEF RecordInv
<1>12. ConfirmedInv'
  BY <1>1, <1>4, <1>7 DEF ConfirmedInv, Given, ConfirmedBy
<1>13. TruthfulRefusal'
  <2> SUFFICES ASSUME NEW d \in Call, Consuming(d)
               PROVE  TruthfulRefusal!(d)!2'
    BY <1>1 DEF TruthfulRefusal, Consuming
  <2>1. /\ d # c /\ answer'[d] = answer[d] /\ question[d].token \in Token
        /\ question[d].token # c
    BY <1>1, <1>4, <1>8, AskedParts DEF Consuming, Preparing
  <2>2. TruthfulRefusal!(d)!2
    BY DEF TruthfulRefusal
  <2> QED
    BY <1>1, <1>4, <1>5, <2>1, <2>2 DEF Token
<1> QED
  BY <1>5, <1>10, <1>11, <1>12, <1>13

LEMMA ConsumeKeeps ==
    ASSUME Inv, NEW c \in Call, Consume(c)
    PROVE  Inv'
<1> USE DEF Inv
<1> DEFINE b == question[c].binding
<1>1. /\ Consuming(c) /\ answer[c] = "none" /\ question' = question /\ now' = now
      /\ answer' = [answer EXCEPT ![c] = Verdict(c)]
  BY DEF Consume
<1>2. PICK t \in Token : t = question[c].token
  BY <1>1, AskedParts DEF Consuming
<1>3. /\ answer'[c] = Verdict(c) /\ Verdict(c) \in Answers \ {"none", "issued"}
      /\ \A d \in Call \ {c} : answer'[d] = answer[d]
      /\ answer' \in [Call -> Answers]
  BY <1>1, VerdictIs DEF TypeOK
<1>4. /\ \A u \in Token : u # t => records'[u] = records[u]
      /\ \A u \in Token : records'[u] = Nothing <=> records[u] = Nothing
      /\ \A u \in Token : records[u] # Nothing =>
            /\ records'[u].binding = records[u].binding
            /\ records'[u].expires_at = records[u].expires_at
      /\ Verdict(c) # "confirmed" => records' = records
      /\ Verdict(c) = "confirmed" =>
            records[t] # Nothing /\ ~records[t].consumed /\ records'[t].consumed
      /\ records' \in [Token -> ConfirmationRecord \cup {Nothing}]
  <2>1. CASE Verdict(c) = "confirmed"
    <3>1. records[t] \in ConfirmationRecord /\ ~records[t].consumed
      BY <1>1, <1>2, <2>1, VerdictIs DEF TypeOK
    <3>2. records' = [records EXCEPT ![t] = [@ EXCEPT !.consumed = TRUE]]
      BY <1>2, <2>1 DEF Consume
    <3>3. [records[t] EXCEPT !.consumed = TRUE] \in ConfirmationRecord
      BY <3>1 DEF ConfirmationRecord
    <3>4. /\ [records[t] EXCEPT !.consumed = TRUE].binding = records[t].binding
          /\ [records[t] EXCEPT !.consumed = TRUE].expires_at = records[t].expires_at
          /\ [records[t] EXCEPT !.consumed = TRUE].consumed
      BY <3>1 DEF ConfirmationRecord
    <3>5. records'[t] = [records[t] EXCEPT !.consumed = TRUE]
          /\ \A u \in Token : u # t => records'[u] = records[u]
      BY <3>2 DEF TypeOK
    <3>6. records' \in [Token -> ConfirmationRecord \cup {Nothing}]
      BY <3>2, <3>3 DEF TypeOK
    <3> QED
      BY <2>1, <3>1, <3>3, <3>4, <3>5, <3>6, Parts
  <2>2. CASE Verdict(c) # "confirmed"
    BY <2>2 DEF Consume, TypeOK
  <2> QED
    BY <2>1, <2>2
<1>5. TypeOK'
  BY <1>1, <1>3, <1>4 DEF TypeOK
<1>6. \A u \in Token : Given(u)' <=> Given(u)
  BY <1>1, <1>3 DEF Given
<1>7. \A u \in Token, d \in Call :
        ConfirmedBy(d, u)' <=>
            ConfirmedBy(d, u) \/ (d = c /\ u = t /\ Verdict(c) = "confirmed")
  BY <1>1, <1>2, <1>3 DEF ConfirmedBy
<1>8. CallInv'
  <2>1. ~Preparing(c)
    BY <1>1 DEF Consuming, Preparing
  <2> QED
    BY <1>1, <1>3, <1>6, <2>1, AskedParts DEF CallInv, Consuming, Preparing, Given
<1>9. RecordInv'
  <2>1. ASSUME NEW u \in Token, u # t
        PROVE  RecordInv!(u)'
    BY <1>1, <1>4, <1>6, <1>7, <2>1 DEF RecordInv
  <2>2. RecordInv!(t)'
    <3>1. CASE Verdict(c) = "confirmed"
      BY <1>1, <1>4, <1>6, <1>7, <3>1 DEF RecordInv
    <3>2. CASE Verdict(c) # "confirmed"
      BY <1>1, <1>4, <1>6, <1>7, <3>2 DEF RecordInv
    <3> QED
      BY <3>1, <3>2
  <2> QED
    BY <2>1, <2>2 DEF RecordInv
<1>10. ConfirmedInv'
  <2>1. Verdict(c) = "confirmed" =>
          /\ Given(t) /\ question[t].binding = b
          /\ \A d \in Call : ~ConfirmedBy(d, t)
    BY <1>1, <1>2, VerdictIs DEF RecordInv
  <2>2. ASSUME NEW d \in Call, answer'[d] = "confirmed"
        PROVE  /\ Given(question[d].token)'
               /\ question'[question[d].token].binding = question'[d].binding
    BY <1>1, <1>2, <1>3, <2>1, <2>2 DEF ConfirmedInv, Given
  <2>3. \A u \in Token, d, e \in Call :
          ConfirmedBy(d, u)' /\ ConfirmedBy(e, u)' => d = e
    BY <1>7, <2>1 DEF ConfirmedInv
  <2> QED
    BY <1>1, <2>2, <2>3 DEF ConfirmedInv
<1>11. TruthfulRefusal'
  <2>1. ASSUME NEW d \in Call, d # c, Consuming(d)
        PROVE  TruthfulRefusal!(d)!2'
    <3>1. /\ answer'[d] = answer[d] /\ question[d].token \in Token
          /\ TruthfulRefusal!(d)!2
      BY <1>3, <2>1, AskedParts DEF Consuming, TruthfulRefusal
    <3>2. \A e \in Call : answer[e] = "confirmed" => answer'[e] = "confirmed"
      BY <1>1, <1>3
    <3>3. question[d].token # UnknownToken =>
            (answer'[question[d].token] = "issued" <=> answer[question[d].token] = "issued")
      BY <1>6, <3>1 DEF Given, Token
    <3>4. answer[d] = "confirmation_expired" =>
            /\ answer'[d] = "confirmation_expired"
            /\ records'[question[d].token] # Nothing =>
                  now >= records'[question[d].token].expires_at
            /\ \A e \in Call : answer'[e] = "confirmed" =>
                  question[e].token # question[d].token
      BY <1>1, <1>2, <1>3, <1>4, <3>1, VerdictIs
    <3> QED
      BY <1>1, <1>3, <1>4, <3>1, <3>2, <3>3, <3>4
  <2>2. TruthfulRefusal!(c)!2'
    <3>1. \/ t = UnknownToken
          \/ t \in Call /\ answer[t] = "issued" /\ answer'[t] = "issued" /\ t # c
      BY <1>1, <1>2, <1>3 DEF CallInv, Given
    <3>2. records[t] # Nothing => /\ t # UnknownToken
                                  /\ records[t].binding = question[t].binding
      BY Parts DEF RecordInv, Given
    <3>3. records[t] # Nothing /\ records[t].consumed =>
            \E d \in Call \ {c} : answer'[d] = "confirmed" /\ question[d].token = t
      BY <1>1, <1>3 DEF RecordInv, ConfirmedBy
    <3>4. answer'[c] = Verdict(c) /\ question' = question
      BY <1>1, <1>3
    <3>5. LET r == records[t]
          IN  /\ Verdict(c) = "confirmation_invalid" <=> r = Nothing
              /\ Verdict(c) = "confirmation_replayed" => r # Nothing /\ r.consumed
              /\ Verdict(c) = "confirmation_caller_mismatch" =>
                    r # Nothing /\ r.binding.caller # b.caller
              /\ Verdict(c) = "confirmation_action_mismatch" =>
                    r # Nothing /\ r.binding.action # b.action
              /\ Verdict(c) = "confirmation_payload_mismatch" =>
                    r # Nothing /\ r.binding.payload # b.payload
              /\ Verdict(c) = "payload_too_large" =>
                    /\ r # Nothing /\ r.binding.caller = b.caller
                    /\ r.binding.action = b.action
              /\ Verdict(c) = "confirmation_expired" =>
                    r # Nothing /\ ~r.consumed /\ now >= r.expires_at
      BY <1>1, <1>2, VerdictIs
    <3>6. records[t] # Nothing /\ ~records[t].consumed /\ Verdict(c) # "confirmed" =>
            \A d \in Call : answer'[d] = "confirmed" => question[d].token # t
      BY <1>1, <1>3 DEF RecordInv, ConfirmedBy
    <3>7. answer'[c] = "confirmation_expired" =>
            /\ records'[t] # Nothing => now >= records'[t].expires_at
            /\ \A d \in Call : answer'[d] = "confirmed" => question[d].token # t
      BY <1>4, <3>4, <3>5, <3>6
    <3> QED
      BY <1>1, <1>2, <1>4, <3>1, <3>2, <3>3, <3>4, <3>5, <3>7
  <2> QED
    BY <1>1, <2>1, <2>2 DEF TruthfulRefusal, Consuming
<1> QED
  BY <1>5, <1>8, <1>9, <1>10, <1>11

LEMMA StepKeeps ==
    ASSUME Inv, [Next]_vars
    PROVE  Inv'
<1>1. ASSUME NEW c \in Call, Arrive(c) \/ Prepare(c) \/ Consume(c)
      PROVE  Inv'
  BY <1>1, ArriveKeeps, PrepareKeeps, ConsumeKeeps
<1>2. CASE Restart \/ Tick \/ UNCHANGED vars
  <2>1. question' = question /\ answer' = answer
    BY <1>2 DEF Restart, Tick, vars
  <2>2. /\ TypeOK'
        /\ records' = records \/ \A t \in Token : records'[t] = Nothing
    BY <1>2 DEF Inv, TypeOK, Restart, Tick, vars
  <2>3. CallInv' /\ RecordInv' /\ ConfirmedInv'
    BY <2>1, <2>2 DEF Inv, CallInv, RecordInv, ConfirmedInv, Consuming, Preparing, Given,
       ConfirmedBy
  <2>4. TruthfulRefusal'
    <3> SUFFICES ASSUME NEW c \in Call, Consuming(c)
                 PROVE  TruthfulRefusal!(c)!2'
      BY <2>1 DEF TruthfulRefusal, Consuming
    <3>1. question[c].token \in Token /\ TruthfulRefusal!(c)!2
      BY AskedParts DEF Inv, Consuming, TruthfulRefusal
    <3>2. now \in Nat /\ now' \in Nat /\ now' >= now
      BY <1>2 DEF Inv, TypeOK, Restart, Tick, vars
    <3>3. \A t \in Token : records[t] # Nothing => records[t].expires_at \in Nat
      BY Parts DEF Inv, TypeOK
    <3> QED
      BY <2>1, <2>2, <3>1, <3>2, <3>3
  <2> QED
    BY <2>2, <2>3, <2>4 DEF Inv
<1> QED
  BY <1>1, <1>2 DEF Next

LEMMA Invariance == Spec => []Inv
BY InitHolds, StepKeeps, PTL DEF Spec

(***************************************************************************)
(* Type correctness.                                                       *)
(***************************************************************************)
THEOREM TypeCorrect == Spec => []TypeOK
<1>1. Inv => TypeOK
  BY DEF Inv
<1> QED
  BY <1>1, Invariance, PTL

(***************************************************************************)
(* Every refusal names what is the case, also after restarts.              *)
(***************************************************************************)
THEOREM RefusalsTruthful == Spec => []TruthfulRefusal
<1>1. Inv => TruthfulRefusal
  BY DEF Inv
<1> QED
  BY <1>1, Invariance, PTL

-----------------------------------------------------------------------------
(* The contract. *)

IssuedMap == [t \in Token |-> IF Given(t) THEN question[t].binding ELSE Nothing]
AskedMap == [c \in Call |-> IF Consuming(c) THEN question[c] ELSE Nothing]
SpentMap == {c \in Call : answer[c] = "confirmed"}

LEMMA ContractStep ==
    ASSUME Inv, [Next]_vars
    PROVE  [Contract!ContractNext]_Contract!contractVars
<1> USE DEF Inv
<1> DEFINE Stutter == IssuedMap' = IssuedMap /\ AskedMap' = AskedMap /\ SpentMap' = SpentMap
<1>0. Stutter => UNCHANGED Contract!contractVars
  BY DEF IssuedMap, AskedMap, SpentMap, Given, Contract!contractVars
<1>1. ASSUME NEW c \in Call, Arrive(c)
      PROVE  [Contract!ContractNext]_Contract!contractVars
  <2>1. PICK t \in Presentable \cup {c}, b \in Binding :
          question' = [question EXCEPT ![c] = [token |-> t, binding |-> b]]
    BY <1>1 DEF Arrive
  <2>2. question[c] = Nothing /\ answer[c] = "none" /\ answer' = answer
    BY <1>1 DEF Arrive, CallInv
  <2>3. [token |-> t, binding |-> b] \in Question
    BY DEF Question, Presentable, Token
  <2>4. /\ question'[c] = [token |-> t, binding |-> b] /\ question'[c] # Nothing
        /\ \A d \in Call \ {c} : question'[d] = question[d]
    BY <2>1, <2>3, Parts DEF TypeOK
  <2>5. SpentMap' = SpentMap
    BY <2>2 DEF SpentMap
  <2>6. IssuedMap' = IssuedMap
    BY <2>2, <2>4 DEF IssuedMap, Given
  <2>7. ~Consuming(c) /\ AskedMap[c] = Nothing
    BY <2>2 DEF Consuming, AskedMap
  <2>8. CASE t = c
    <3>1. \A d \in Call : Consuming(d)' <=> Consuming(d)
      BY <2>4, <2>7, <2>8 DEF Consuming
    <3>2. AskedMap' = AskedMap
      BY <2>4, <2>7, <3>1 DEF AskedMap, Consuming
    <3> QED
      BY <1>0, <2>5, <2>6, <3>2
  <2>9. CASE t # c
    <3>1. /\ Consuming(c)' /\ \A d \in Call \ {c} : Consuming(d)' <=> Consuming(d)
      BY <2>4, <2>9 DEF Consuming
    <3>2. AskedMap' = [AskedMap EXCEPT ![c] = [token |-> t, binding |-> b]]
      BY <2>4, <3>1 DEF AskedMap
    <3>3. Contract!Ask(c, [token |-> t, binding |-> b])
      BY <2>5, <2>6, <2>7, <3>2
         DEF Contract!Ask, IssuedMap, AskedMap, SpentMap, Given
    <3>4. [token |-> t, binding |-> b] \in Contract!Question
      BY <2>3 DEF Question, Contract!Question
    <3> QED
      BY <3>3, <3>4 DEF Contract!ContractNext
  <2> QED
    BY <2>8, <2>9
<1>2. ASSUME NEW c \in Call, Prepare(c)
      PROVE  [Contract!ContractNext]_Contract!contractVars
  <2>1. /\ Preparing(c) /\ answer[c] = "none" /\ question' = question /\ c \in Token
        /\ question[c].binding \in Binding
    BY <1>2, AskedParts DEF Prepare, Preparing, Token
  <2>2. AskedMap' = AskedMap
    BY <2>1 DEF AskedMap, Consuming
  <2>3. CASE answer' = [answer EXCEPT ![c] = "payload_too_large"]
    <3>1. SpentMap' = SpentMap /\ IssuedMap' = IssuedMap
      BY <2>1, <2>3 DEF SpentMap, IssuedMap, Given, TypeOK
    <3> QED
      BY <1>0, <2>2, <3>1
  <2>4. CASE answer' = [answer EXCEPT ![c] = "issued"]
    <3>1. SpentMap' = SpentMap
      BY <2>1, <2>4 DEF SpentMap, TypeOK
    <3>2. IssuedMap[c] = Nothing
      BY <2>1 DEF IssuedMap, Given
    <3>3. IssuedMap' = [IssuedMap EXCEPT ![c] = question[c].binding]
      BY <2>1, <2>4 DEF IssuedMap, Given, TypeOK
    <3> PICK b \in Binding : b = question[c].binding
      BY <2>1
    <3>4. Contract!Issue(c, b)
      BY <2>2, <3>1, <3>2, <3>3
         DEF Contract!Issue, IssuedMap, AskedMap, SpentMap, Given
    <3> QED
      BY <2>1, <3>4 DEF Contract!ContractNext
  <2> QED
    BY <1>2, <2>3, <2>4 DEF Prepare
<1>3. ASSUME NEW c \in Call, Consume(c)
      PROVE  [Contract!ContractNext]_Contract!contractVars
  <2>1. /\ Consuming(c) /\ answer[c] = "none" /\ question' = question
        /\ answer' = [answer EXCEPT ![c] = Verdict(c)]
        /\ Verdict(c) \in Answers \ {"none", "issued"}
    BY <1>3, VerdictIs DEF Consume
  <2>2. AskedMap' = AskedMap
    BY <2>1 DEF AskedMap, Consuming
  <2>3. IssuedMap' = IssuedMap
    BY <2>1 DEF IssuedMap, Given, TypeOK
  <2>4. CASE Verdict(c) # "confirmed"
    <3>1. SpentMap' = SpentMap
      BY <2>1, <2>4 DEF SpentMap, TypeOK
    <3> QED
      BY <1>0, <2>2, <2>3, <3>1
  <2>5. CASE Verdict(c) = "confirmed"
    <3>1. PICK t \in Token : t = question[c].token
      BY <2>1, AskedParts DEF Consuming
    <3>2. /\ records[t] # Nothing /\ ~records[t].consumed
          /\ records[t].binding = question[c].binding
      BY <2>1, <2>5, <3>1, VerdictIs
    <3>3. /\ Given(t) /\ question[t].binding = question[c].binding
          /\ \A d \in Call : ~ConfirmedBy(d, t)
      BY <3>2 DEF RecordInv
    <3>4. SpentMap' = SpentMap \cup {c}
      BY <2>1, <2>5 DEF SpentMap, TypeOK
    <3>5. /\ AskedMap[c] = question[c] /\ AskedMap[c] # Nothing
          /\ IssuedMap[AskedMap[c].token] = AskedMap[c].binding
      BY <2>1, <3>1, <3>3 DEF AskedMap, IssuedMap, Consuming
    <3>6. \A d \in SpentMap : AskedMap[d].token # AskedMap[c].token
      <4> SUFFICES ASSUME NEW d \in Call, answer[d] = "confirmed"
                   PROVE  AskedMap[d].token # t
        BY <3>1, <3>5 DEF SpentMap
      <4>1. Consuming(d)
        BY DEF CallInv, Consuming, Preparing
      <4> QED
        BY <3>3, <4>1 DEF AskedMap, ConfirmedBy
    <3>7. Contract!Spend(c, {c})
      BY <2>2, <2>3, <3>4, <3>5, <3>6
         DEF Contract!Spend, Contract!MaySpend, IssuedMap, AskedMap, SpentMap, Given
    <3> QED
      BY <3>7 DEF Contract!ContractNext
  <2> QED
    BY <2>4, <2>5
<1>4. CASE Restart \/ Tick \/ UNCHANGED vars
  <2>1. question' = question /\ answer' = answer
    BY <1>4 DEF Restart, Tick, vars
  <2>2. Stutter
    BY <2>1 DEF IssuedMap, AskedMap, SpentMap, Given, Consuming
  <2> QED
    BY <1>0, <2>2
<1> QED
  BY <1>1, <1>2, <1>3, <1>4 DEF Next

(***************************************************************************)
(* The guard of the local server implements the contract: an issue is the  *)
(* prepare's answer, and a spend is the consume that is confirmed.  Losing *)
(* the records is invisible, since a token is never given twice.           *)
(***************************************************************************)
THEOREM GuardImplementsContract == Spec => ImplementsContract
<1>1. Init => Contract!ContractInit
  BY DEF Init, Contract!ContractInit, Consuming
<1> QED
  BY <1>1, ContractStep, Invariance, PTL
     DEF Spec, ImplementsContract, Contract!ContractSpec
=============================================================================
