-------------------- MODULE DynamoDbConfirmation_proofs --------------------
(***************************************************************************)
(* Proofs about DynamoDbConfirmation, for every set of invocations and     *)
(* every timeout.                                                          *)
(***************************************************************************)
EXTENDS DynamoDbConfirmation, TLAPS

LEMMA QuestionParts ==
    ASSUME NEW q \in Question
    PROVE  q.token \in Token /\ q.binding \in Binding
BY DEF Question

LEMMA StepType ==
    ASSUME TypeOK, [Next]_vars
    PROVE  TypeOK'
<1> USE DEF TypeOK
<1>1. ASSUME NEW i \in Invocation, NEW b \in Binding, Prepare(i, b)
      PROVE  TypeOK'
  <2>1. [token |-> i, binding |-> b] \in Question
    BY DEF Question, Token
  <2> QED
    BY <1>1, <2>1 DEF Prepare, Start, Finish, Answers
<1>2. ASSUME NEW i \in Invocation, NEW t \in Token, NEW b \in Binding,
             Consume(i, t, b)
      PROVE  TypeOK'
  <2>1. [token |-> t, binding |-> b] \in Question
    BY DEF Question
  <2> QED
    BY <1>2, <2>1 DEF Consume, Start, Finish, Answers
<1>3. ASSUME NEW i \in Invocation, InvocationStep(i)
      PROVE  TypeOK'
  <2>1. CASE StorePut(i)
    <3>1. question[i].binding \in Binding
      BY <2>1, QuestionParts DEF StorePut
    <3>2. [binding |-> question[i].binding, expires_at |-> clockRead[i] + Ttl,
           consumed |-> FALSE] \in Row
      BY <3>1, TimeAssumption DEF Row
    <3>3. table' \in [Token -> Row \cup {Nothing}]
      BY <2>1, <3>2 DEF StorePut
    <3> QED
      BY <2>1, <3>3 DEF StorePut
  <2>2. CASE StoreUpdate(i)
    <3>1. CASE UpdateCondition(i)
      <4> DEFINE t == question[i].token
      <4>1. t \in Token /\ table[t] \in Row
        BY <2>2, <3>1, QuestionParts DEF StoreUpdate, UpdateCondition
      <4>2. [table[t] EXCEPT !.consumed = TRUE] \in Row
        BY <4>1 DEF Row
      <4>3. table' = [table EXCEPT ![t] = [table[t] EXCEPT !.consumed = TRUE]]
        BY <2>2, <3>1, <4>1 DEF StoreUpdate
      <4>4. table' \in [Token -> Row \cup {Nothing}]
        BY <4>1, <4>2, <4>3
      <4> QED
        BY <2>2, <3>1, <4>4 DEF StoreUpdate
    <3>2. CASE ~UpdateCondition(i)
      BY <2>2, <3>2 DEF StoreUpdate
    <3> QED
      BY <3>1, <3>2
  <2>3. CASE StoreFails(i) \/ ReceivePut(i) \/ ReceiveUpdate(i) \/ GiveUp(i)
                 \/ ReadFails(i) \/ Lose(i)
    BY <2>3 DEF StoreFails, ReceivePut, ReceiveUpdate, GiveUp, ReadFails,
                Lose, Finish, Answers
  <2>4. CASE ReadRecord(i)
    <3>1. Diagnosis(table[question[i].token], i) \in Answers
      BY DEF Diagnosis, Answers
    <3> QED
      BY <2>4, <3>1 DEF ReadRecord, Finish
  <2> QED
    BY <1>3, <2>1, <2>2, <2>3, <2>4 DEF InvocationStep
<1>4. ASSUME NEW t \in Token, TtlDelete(t)
      PROVE  TypeOK'
  BY <1>4 DEF TtlDelete
<1>5. CASE Tick
  BY <1>5 DEF Tick
<1>6. CASE UNCHANGED vars
  BY <1>6 DEF vars
<1> QED
  BY <1>1, <1>2, <1>3, <1>4, <1>5, <1>6 DEF Next

(***************************************************************************)
(* Every variable keeps its type, whatever the interleaving.               *)
(***************************************************************************)
THEOREM TypeCorrect == Spec => []TypeOK
<1>1. Init => TypeOK
  BY DEF Init, TypeOK, Answers
<1> QED
  BY <1>1, StepType, PTL DEF Spec

-----------------------------------------------------------------------------
(* The inductive invariant.  The store's part depends only on what the     *)
(* store and the requests hold, so the steps that only end a call keep it. *)

StoreInv == RowInv /\ SpendInv /\ AtMostOneSpend /\ RefusalInv

storeVars == <<now, table, op, question, clockRead, wire>>

LEMMA StoreFrame ==
    ASSUME StoreInv, UNCHANGED storeVars
    PROVE  StoreInv'
BY DEF StoreInv, RowInv, SpendInv, AtMostOneSpend, RefusalInv, storeVars,
       Issued, Expiry, Spent, SpentBy

\* Only a token some prepare put in the table is presented, or none at all.
LEMMA PresentedTokens ==
    ASSUME TypeOK, CallInv, RowInv, NEW j \in Invocation, op[j] = "consume"
    PROVE  LET t == question[j].token
           IN  /\ t \in Token
               /\ Issued(t) \/ (t = UnknownToken /\ table[t] = Nothing)
<1> DEFINE t == question[j].token
<1>1. question[j] \in Question /\ t \in Presentable
  BY DEF TypeOK, CallInv
<1>2. t = UnknownToken \/ Issued(t)
  BY <1>1 DEF Presentable, CallInv
<1>3. t = UnknownToken => table[t] = Nothing
  BY NameAssumption DEF RowInv, Issued, Token
<1> QED
  BY <1>1, <1>2, <1>3, QuestionParts

\* A call that starts has no write applied: it is no prepare a row stands for
\* and it has spent nothing.
LEMMA StartKeeps ==
    ASSUME TypeOK, CallInv, StoreInv, TruthfulRefusal,
           NEW i \in Invocation, NEW q \in Question,
           NEW kind \in {"prepare", "consume"},
           NEW errorCode \in {"payload_too_large",
                              "confirmation_store_unavailable"},
           kind = "prepare" => q.token = i,
           kind = "consume" => q.token \in Presentable,
           Start(i, kind, q, errorCode)
    PROVE  CallInv' /\ StoreInv' /\ TruthfulRefusal'
<1>1. /\ op[i] = "none" /\ wire[i] = "none" /\ answer[i] = "none"
      /\ ~Issued(i) /\ ~Spent(i)
  BY DEF CallInv, Start, Issued, Spent
<1>2. /\ \A t \in Token : Issued(t)' <=> Issued(t)
      /\ \A j \in Invocation : Spent(j)' <=> Spent(j)
  BY <1>1 DEF Start, Finish, Issued, Spent, TypeOK
<1>3. \A j \in Invocation \ {i} :
        /\ op'[j] = op[j] /\ question'[j] = question[j]
        /\ clockRead'[j] = clockRead[j] /\ wire'[j] = wire[j]
        /\ pc'[j] = pc[j] /\ answer'[j] = answer[j]
  BY DEF Start, Finish, TypeOK
<1>4. \A t \in Token : Issued(t) =>
        question'[t] = question[t] /\ clockRead'[t] = clockRead[t]
  BY <1>1, <1>3 DEF Issued
<1>5. \A j \in Invocation, t \in Token : SpentBy(j, t)' <=> SpentBy(j, t)
  BY <1>1, <1>2, <1>3 DEF SpentBy
<1>6. now' = now /\ table' = table
  BY DEF Start
<1>7. op'[i] = kind /\ question'[i] = q /\ clockRead'[i] = now
  BY DEF Start, TypeOK
<1>8. \/ wire'[i] = "inFlight" /\ pc'[i] = "sent" /\ answer'[i] = "none"
      \/ wire'[i] = "none" /\ pc'[i] = "done" /\ answer'[i] = errorCode
  BY <1>1 DEF Start, Finish, TypeOK
<1>9. CallInv'
  <2>1. Presentable \subseteq Presentable'
    BY <1>1, <1>3 DEF Presentable
  <2>2. ASSUME NEW j \in Invocation \ {i}
        PROVE  CallInv!(j)'
    BY <1>2, <1>3, <1>6, <2>1 DEF CallInv, TypeOK, Token
  <2>3. CallInv!(i)'
    BY <1>6, <1>7, <1>8, <2>1 DEF TypeOK
  <2> QED
    BY <2>2, <2>3 DEF CallInv
<1>10. StoreInv'
  <2>1. RowInv'
    BY <1>2, <1>4, <1>5, <1>6 DEF StoreInv, RowInv, Expiry
  <2>2. SpendInv' /\ AtMostOneSpend'
    BY <1>1, <1>2, <1>3, <1>4, QuestionParts
       DEF StoreInv, SpendInv, AtMostOneSpend, Expiry, Spent, TypeOK
  <2>3. RefusalInv'
    <3> SUFFICES ASSUME NEW j \in Invocation, op'[j] = "consume",
                        wire'[j] = "refused"
                 PROVE  RefusalInv!(j)!2'
      BY DEF RefusalInv
    <3>1. j # i /\ op[j] = "consume" /\ wire[j] = "refused"
      BY <1>3, <1>8
    <3>2. RefusalInv!(j)!2
      BY <3>1 DEF StoreInv, RefusalInv
    <3> QED
      BY <1>3, <1>4, <1>5, <1>6, <3>1, <3>2, PresentedTokens
         DEF StoreInv, Expiry
  <2> QED
    BY <2>1, <2>2, <2>3 DEF StoreInv
<1>11. TruthfulRefusal'
  BY <1>1, <1>3, <1>4, <1>5, <1>6, <1>8, QuestionParts
     DEF TruthfulRefusal, Mismatches, CallInv, Expiry, TypeOK, Presentable
<1> QED
  BY <1>9, <1>10, <1>11

LEMMA PutKeeps ==
    ASSUME TypeOK, CallInv, StoreInv, TruthfulRefusal,
           NEW i \in Invocation, StorePut(i)
    PROVE  CallInv' /\ StoreInv' /\ TruthfulRefusal'
<1> USE DEF StoreInv
<1>1. i \in Token /\ ~Issued(i) /\ ~Spent(i) /\ ~Spent(i)'
  BY DEF StorePut, Issued, Spent, Token
<1>2. table[i] = Nothing
  BY <1>1 DEF RowInv
<1>3. /\ table' = [table EXCEPT ![i] =
             [binding |-> question[i].binding,
              expires_at |-> clockRead[i] + Ttl, consumed |-> FALSE]]
      /\ wire' = [wire EXCEPT ![i] = "applied"]
      /\ UNCHANGED <<now, op, question, clockRead, pc, answer>>
  BY <1>2 DEF StorePut
<1>4. \A t \in Token : Issued(t)' <=> Issued(t) \/ t = i
  BY <1>3 DEF Issued, TypeOK, StorePut
<1>5. \A j \in Invocation :
        /\ Spent(j)' <=> Spent(j)
        /\ \A t \in Token : SpentBy(j, t)' <=> SpentBy(j, t)
  BY <1>3, <1>1 DEF Spent, SpentBy, TypeOK
<1>6. \A j \in Invocation : ~SpentBy(j, i)
  BY <1>1 DEF SpendInv, SpentBy
<1>7. \A j \in Invocation : op[j] = "consume" => question[j].token # i
  BY <1>1, PresentedTokens, NameAssumption
<1>8. CallInv'
  BY <1>3, <1>4, <1>5 DEF CallInv, Presentable, StorePut, TypeOK, Token
<1>9. RowInv'
  <2>1. ASSUME NEW t \in Token, t # i
        PROVE  RowInv!(t)'
    BY <1>3, <1>4, <1>5, <2>1 DEF RowInv, Expiry, TypeOK
  <2>2. RowInv!(i)'
    <3>1. question[i].binding \in Binding
      BY QuestionParts DEF StorePut, TypeOK
    <3>2. table'[i] = [binding |-> question[i].binding,
                       expires_at |-> clockRead[i] + Ttl, consumed |-> FALSE]
      BY <1>1, <1>3 DEF TypeOK
    <3>3. table'[i] \in Row
      BY <3>1, <3>2, TimeAssumption DEF Row, TypeOK
    <3>4. /\ table'[i] # Nothing /\ ~table'[i].consumed
          /\ table'[i].binding = question'[i].binding
          /\ table'[i].expires_at = Expiry(i)'
      <4>1. table'[i] # Nothing
        BY <3>3, NameAssumption
      <4>2. question' = question /\ clockRead' = clockRead
        BY <1>3
      <4> QED
        BY <3>2, <4>1, <4>2 DEF Expiry
    <3> QED
      BY <1>1, <1>4, <1>5, <1>6, <3>4
  <2> QED
    BY <2>1, <2>2 DEF RowInv
<1>10. SpendInv' /\ AtMostOneSpend'
  BY <1>3, <1>4, <1>5, QuestionParts DEF SpendInv, AtMostOneSpend, Expiry,
     Issued, Spent, TypeOK, StorePut
<1>11. RefusalInv'
  BY <1>3, <1>5, <1>7, PresentedTokens DEF RefusalInv, Expiry, StorePut, TypeOK
<1>12. TruthfulRefusal'
  BY <1>3, <1>5, PresentedTokens DEF TruthfulRefusal, Mismatches, Expiry
<1> QED
  BY <1>8, <1>9, <1>10, <1>11, <1>12

LEMMA UpdateKeeps ==
    ASSUME TypeOK, CallInv, StoreInv, TruthfulRefusal,
           NEW i \in Invocation, StoreUpdate(i)
    PROVE  CallInv' /\ StoreInv' /\ TruthfulRefusal'
<1> USE DEF StoreInv
<1>0. PICK q \in Token : q = question[i].token
  BY PresentedTokens DEF StoreUpdate
<1>1. Issued(q) \/ table[q] = Nothing
  BY <1>0, PresentedTokens DEF StoreUpdate
<1>2. ~Issued(i) /\ ~Spent(i) /\ op[i] = "consume" /\ wire[i] = "inFlight"
  BY DEF StoreUpdate, Issued, Spent
<1>3. UNCHANGED <<now, op, question, clockRead, pc, answer>>
  BY DEF StoreUpdate
<1>4. \A t \in Token : Issued(t)' <=> Issued(t)
  BY <1>2, <1>3 DEF Issued, TypeOK, StoreUpdate
<1>5. CASE UpdateCondition(i)
  <2>1. /\ table' = [table EXCEPT ![q].consumed = TRUE]
        /\ wire' = [wire EXCEPT ![i] = "applied"]
    BY <1>0, <1>5 DEF StoreUpdate
  <2>2. /\ table[q] \in Row /\ table[q].consumed = FALSE
        /\ Issued(q) /\ table[q].binding = question[i].binding
        /\ question[q].binding = question[i].binding
        /\ clockRead[i] < Expiry(q)
        /\ \A j \in Invocation : ~SpentBy(j, q)
    BY <1>0, <1>1, <1>5, NameAssumption DEF UpdateCondition, RowInv, TypeOK, Expiry
  <2>3. \A j \in Invocation :
          /\ Spent(j)' <=> Spent(j) \/ j = i
          /\ \A t \in Token :
                SpentBy(j, t)' <=> SpentBy(j, t) \/ (j = i /\ t = q)
    BY <1>0, <1>2, <1>3, <2>1 DEF Spent, SpentBy, TypeOK
  <2>4. /\ table'[q] = [table[q] EXCEPT !.consumed = TRUE]
        /\ \A t \in Token \ {q} : table'[t] = table[t]
    BY <1>1, <2>1 DEF TypeOK
  <2>5. CallInv'
    BY <1>2, <1>3, <1>4, <2>1, <2>3 DEF CallInv, Presentable, Token, TypeOK
  <2>6. RowInv'
    <3>1. ASSUME NEW t \in Token, t # q
          PROVE  RowInv!(t)'
      BY <1>3, <1>4, <2>3, <2>4, <3>1 DEF RowInv, Expiry
    <3>2. RowInv!(q)'
      <4>1. table'[q] # Nothing /\ table'[q].consumed
            /\ table'[q].binding = table[q].binding
            /\ table'[q].expires_at = table[q].expires_at
        BY <2>2, <2>4, NameAssumption DEF Row
      <4> QED
        BY <1>1, <1>3, <1>4, <2>2, <2>3, <4>1, NameAssumption DEF RowInv, Expiry
    <3> QED
      BY <3>1, <3>2 DEF RowInv
  <2>7. SpendInv' /\ AtMostOneSpend'
    <3>1. SpendInv'
      BY <1>0, <1>3, <1>4, <2>2, <2>3, QuestionParts DEF SpendInv, Expiry, Spent, TypeOK
    <3>2. AtMostOneSpend'
      BY <1>0, <1>3, <2>2, <2>3 DEF AtMostOneSpend, SpentBy
    <3> QED
      BY <3>1, <3>2
  <2>8. RefusalInv'
    BY <1>0, <1>2, <1>3, <2>1, <2>2, <2>3, <2>4, PresentedTokens
       DEF RefusalInv, Expiry, TypeOK
  <2>9. TruthfulRefusal'
    BY <1>3, <2>3, PresentedTokens DEF TruthfulRefusal, Mismatches, Expiry
  <2> QED
    BY <2>5, <2>6, <2>7, <2>8, <2>9
<1>6. CASE ~UpdateCondition(i)
  <2>1. table' = table /\ wire' = [wire EXCEPT ![i] = "refused"]
    BY <1>6 DEF StoreUpdate
  <2>2. \A j \in Invocation :
          /\ Spent(j)' <=> Spent(j)
          /\ \A t \in Token : SpentBy(j, t)' <=> SpentBy(j, t)
    BY <1>2, <1>3, <2>1 DEF Spent, SpentBy, TypeOK
  <2>3. CallInv'
    BY <1>2, <1>3, <1>4, <2>1, <2>2 DEF CallInv, Presentable, Token, TypeOK
  <2>4. RowInv' /\ SpendInv' /\ AtMostOneSpend'
    BY <1>3, <1>4, <2>1, <2>2, QuestionParts DEF RowInv, SpendInv, AtMostOneSpend,
       Expiry, Spent, TypeOK
  <2>5. RefusalInv'
    <3>1. \/ table[q] = Nothing
          \/ Expiry(q) <= clockRead[i]
          \/ question[i].binding # question[q].binding
          \/ \E j \in Invocation : SpentBy(j, q)
      <4>1. CASE table[q] # Nothing
        <5>1. /\ table[q].consumed <=> \E j \in Invocation : SpentBy(j, q)
              /\ table[q].expires_at = Expiry(q)
              /\ table[q].binding = question[q].binding
              /\ table[q].consumed \in BOOLEAN
              /\ Expiry(q) \in Nat /\ clockRead[i] \in Nat
          BY <1>1, <4>1 DEF RowInv, TypeOK, Row
        <5> QED
          BY <1>0, <1>6, <4>1, <5>1 DEF UpdateCondition
      <4> QED
        BY <4>1
    <3> QED
      BY <1>0, <1>1, <1>3, <2>1, <2>2, <3>1, PresentedTokens DEF RefusalInv, Expiry, TypeOK
  <2>6. TruthfulRefusal'
    BY <1>3, <2>2, PresentedTokens DEF TruthfulRefusal, Mismatches, Expiry
  <2> QED
    BY <2>3, <2>4, <2>5, <2>6
<1> QED
  BY <1>5, <1>6

\* A step that only ends a call with answer a, and what a must be for it.
LEMMA FinishKeeps ==
    ASSUME TypeOK, CallInv, StoreInv, TruthfulRefusal,
           NEW i \in Invocation, NEW a,
           Running(i), Finish(i, a), UNCHANGED storeVars,
           a = "issued" => Issued(i),
           a = "confirmed" => Spent(i),
           a \in {"issued", "confirmed", "confirmation_store_unavailable", "lost"}
    PROVE  CallInv' /\ StoreInv' /\ TruthfulRefusal'
<1>1. /\ op' = op /\ question' = question /\ clockRead' = clockRead
      /\ wire' = wire /\ now' = now /\ table' = table
      /\ pc' = [pc EXCEPT ![i] = "done"] /\ answer' = [answer EXCEPT ![i] = a]
  BY DEF storeVars, Finish
<1>2. StoreInv'
  BY <1>1, StoreFrame DEF storeVars
<1>3. op[i] # "none" /\ answer[i] = "none"
  BY DEF Running, CallInv
<1>4. CallInv'
  <2>1. Presentable \subseteq Presentable'
    BY <1>1, <1>3 DEF Presentable, TypeOK
  <2> QED
    BY <1>1, <1>3, <2>1 DEF CallInv, Issued, Spent, TypeOK
<1>5. TruthfulRefusal'
  BY <1>1, PresentedTokens DEF TruthfulRefusal, Mismatches, SpentBy, Spent,
     Expiry, TypeOK
<1> QED
  BY <1>2, <1>4, <1>5

LEMMA ReadKeeps ==
    ASSUME TypeOK, CallInv, StoreInv, TruthfulRefusal,
           NEW i \in Invocation, ReadRecord(i)
    PROVE  CallInv' /\ StoreInv' /\ TruthfulRefusal'
<1> DEFINE a == Diagnosis(table[question[i].token], i)
<1>1. /\ op' = op /\ question' = question /\ clockRead' = clockRead
      /\ wire' = wire /\ now' = now /\ table' = table
      /\ pc' = [pc EXCEPT ![i] = "done"] /\ answer' = [answer EXCEPT ![i] = a]
  BY DEF ReadRecord, Finish
<1>2. StoreInv'
  BY <1>1, StoreFrame DEF storeVars
<1>3. op[i] = "consume" /\ wire[i] = "refused" /\ answer[i] = "none" /\ ~Spent(i)
  BY DEF ReadRecord, CallInv, Spent
<1>4. a \in Mismatches \cup {"confirmation_invalid", "confirmation_replayed"}
  BY DEF Diagnosis, Mismatches
<1>5. CallInv'
  <2>1. Presentable \subseteq Presentable'
    BY <1>1, <1>3 DEF Presentable, TypeOK
  <2> QED
    BY <1>1, <1>3, <1>4, <2>1 DEF CallInv, Issued, Spent, TypeOK, Mismatches
<1>6. TruthfulRefusal'
  <2>1. ASSUME NEW j \in Invocation \ {i}
        PROVE  TruthfulRefusal!(j)'
    BY <1>1, <2>1 DEF TruthfulRefusal, SpentBy, Spent, Expiry, TypeOK
  <2>2. TruthfulRefusal!(i)'
    <3> DEFINE t == question[i].token
               b == question[i].binding
    <3>1. t \in Token /\ (Issued(t) \/ (t = UnknownToken /\ table[t] = Nothing))
      BY <1>3, PresentedTokens DEF StoreInv
    <3>2. CASE table[t] = Nothing
      <4>1. a = "confirmation_invalid"
        BY <3>2 DEF Diagnosis
      <4>2. t = UnknownToken \/ Expiry(t) <= now
        BY <3>1, <3>2 DEF StoreInv, RowInv
      <4> QED
        BY <1>1, <4>1, <4>2 DEF Expiry, TypeOK, Mismatches
    <3>3. CASE table[t] # Nothing
      <4>1. /\ table[t] \in Row /\ Issued(t)
            /\ table[t].binding = question[t].binding
            /\ table[t].expires_at = Expiry(t)
            /\ table[t].consumed <=> \E j \in Invocation : SpentBy(j, t)
        BY <3>1, <3>3 DEF StoreInv, RowInv, TypeOK
      <4>2. t # UnknownToken
        BY <4>1, NameAssumption DEF Issued
      <4>3. CASE table[t].consumed
        <5>1. a = "confirmation_replayed"
          BY <3>3, <4>3 DEF Diagnosis
        <5>2. \E j \in Invocation \ {i} : SpentBy(j, t)
          BY <1>3, <4>1, <4>3 DEF SpentBy
        <5> QED
          BY <1>1, <5>1, <5>2 DEF SpentBy, Spent, TypeOK, Mismatches
      <4>4. CASE ~table[t].consumed
        <5>1. \/ Expiry(t) <= clockRead[i]
              \/ b # question[t].binding
          BY <1>3, <3>3, <4>1, <4>4 DEF StoreInv, RefusalInv
        <5>2. a = IF Expiry(t) <= clockRead[i] THEN "confirmation_expired"
                  ELSE IF question[t].binding.caller # b.caller
                       THEN "confirmation_caller_mismatch"
                  ELSE IF question[t].binding.action # b.action
                       THEN "confirmation_action_mismatch"
                  ELSE "confirmation_payload_mismatch"
          BY <3>3, <4>1, <4>4 DEF Diagnosis
        <5>3. b \in Binding /\ question[t].binding \in Binding
          BY <1>3, <4>1, QuestionParts DEF TypeOK, Issued
        <5>4. b # question[t].binding =>
                \/ question[t].binding.caller # b.caller
                \/ question[t].binding.action # b.action
                \/ question[t].binding.payload # b.payload
          BY <5>3 DEF Binding
        <5> QED
          BY <1>1, <4>2, <5>1, <5>2, <5>4 DEF Expiry, TypeOK, Mismatches
      <4> QED
        BY <4>3, <4>4
    <3> QED
      BY <3>2, <3>3
  <2> QED
    BY <2>1, <2>2 DEF TruthfulRefusal
<1> QED
  BY <1>2, <1>5, <1>6

LEMMA FailKeeps ==
    ASSUME TypeOK, CallInv, StoreInv, TruthfulRefusal,
           NEW i \in Invocation, StoreFails(i)
    PROVE  CallInv' /\ StoreInv' /\ TruthfulRefusal'
<1>1. /\ UNCHANGED <<now, table, op, question, clockRead, pc, answer>>
      /\ wire[i] = "inFlight" /\ wire' = [wire EXCEPT ![i] = "failed"]
  BY DEF StoreFails
<1>2. /\ \A t \in Token : Issued(t)' <=> Issued(t)
      /\ \A j \in Invocation :
            /\ Spent(j)' <=> Spent(j)
            /\ \A t \in Token : SpentBy(j, t)' <=> SpentBy(j, t)
  BY <1>1 DEF Issued, Spent, SpentBy, TypeOK
<1>3. CallInv'
  BY <1>1, <1>2 DEF CallInv, Presentable, Token, TypeOK
<1>4. StoreInv'
  BY <1>1, <1>2, QuestionParts DEF StoreInv, RowInv, SpendInv, AtMostOneSpend,
     RefusalInv, Expiry, Spent, TypeOK
<1>5. TruthfulRefusal'
  BY <1>1, <1>2, QuestionParts DEF TruthfulRefusal, Mismatches, Expiry, TypeOK
<1> QED
  BY <1>3, <1>4, <1>5

LEMMA RefusedKeeps ==
    ASSUME TypeOK, CallInv, StoreInv, TruthfulRefusal,
           NEW i \in Invocation, op[i] = "consume", wire[i] = "refused",
           pc[i] = "sent", pc' = [pc EXCEPT ![i] = "read"],
           UNCHANGED storeVars, UNCHANGED answer
    PROVE  CallInv' /\ StoreInv' /\ TruthfulRefusal'
<1>1. CallInv'
  BY DEF CallInv, Presentable, Issued, Spent, TypeOK, storeVars
<1>2. TruthfulRefusal'
  BY DEF TruthfulRefusal, SpentBy, Spent, Expiry, storeVars
<1> QED
  BY <1>1, <1>2, StoreFrame

LEMMA TtlKeeps ==
    ASSUME TypeOK, CallInv, StoreInv, TruthfulRefusal,
           NEW t \in Token, TtlDelete(t)
    PROVE  CallInv' /\ StoreInv' /\ TruthfulRefusal'
<1>1. /\ UNCHANGED <<now, op, question, clockRead, wire, pc, answer>>
      /\ table' = [table EXCEPT ![t] = Nothing]
      /\ Expiry(t) <= now
  BY DEF TtlDelete, StoreInv, RowInv
<1>2. CallInv'
  BY <1>1 DEF CallInv, Presentable, Issued, Spent
<1>3. StoreInv'
  BY <1>1, QuestionParts DEF StoreInv, RowInv, SpendInv, AtMostOneSpend, RefusalInv,
     Issued, Expiry, Spent, SpentBy, TypeOK
<1>4. TruthfulRefusal'
  BY <1>1 DEF TruthfulRefusal, SpentBy, Spent, Expiry
<1> QED
  BY <1>2, <1>3, <1>4

LEMMA TickKeeps ==
    ASSUME TypeOK, CallInv, StoreInv, TruthfulRefusal, Tick
    PROVE  CallInv' /\ StoreInv' /\ TruthfulRefusal'
<1>1. /\ UNCHANGED <<table, op, question, clockRead, wire, pc, answer>>
      /\ now' = now + 1 /\ now \in Nat
  BY DEF Tick, TypeOK
<1>2. \A x \in Nat : x <= now => x <= now'
  BY <1>1
<1>3. \A t \in Invocation : Expiry(t) \in Nat /\ clockRead[t] \in Nat
  BY TimeAssumption DEF Expiry, TypeOK
<1>4. CallInv'
  BY <1>1, <1>2, <1>3 DEF CallInv, Presentable, Issued, Spent
<1>5. StoreInv'
  BY <1>1, <1>2, <1>3 DEF StoreInv, RowInv, SpendInv, AtMostOneSpend, RefusalInv,
     Issued, Expiry, Spent, SpentBy
<1>6. TruthfulRefusal'
  <2>1. \A i \in Invocation : op[i] = "consume" =>
          question[i].token \in Invocation \cup {UnknownToken}
    BY QuestionParts DEF TypeOK, Token
  <2> QED
    BY <1>1, <1>2, <1>3, <2>1 DEF TruthfulRefusal, Mismatches, SpentBy, Spent, Expiry
<1> QED
  BY <1>4, <1>5, <1>6

LEMMA DeadlineKeeps ==
    ASSUME TypeOK, DeadlineInv, [Next]_vars
    PROVE  DeadlineInv'
<1> USE TimeAssumption DEF DeadlineInv, Running, TypeOK
<1>1. ASSUME NEW i \in Invocation, NEW q, NEW kind, NEW code,
             Start(i, kind, q, code)
      PROVE  DeadlineInv'
  BY <1>1 DEF Start, Finish
<1>2. ASSUME NEW i \in Invocation, InvocationStep(i)
      PROVE  DeadlineInv'
  BY <1>2 DEF InvocationStep, StorePut, StoreUpdate, StoreFails, ReceivePut,
     ReceiveUpdate, GiveUp, ReadRecord, ReadFails, Lose, Finish
<1>3. ASSUME NEW t \in Token, TtlDelete(t)
      PROVE  DeadlineInv'
  BY <1>3 DEF TtlDelete
<1>4. CASE Tick
  BY <1>4 DEF Tick
<1>5. CASE UNCHANGED vars
  BY <1>5 DEF vars
<1> QED
  BY <1>1, <1>2, <1>3, <1>4, <1>5 DEF Next, Prepare, Consume

LEMMA StepKeeps ==
    ASSUME InductiveInv, [Next]_vars
    PROVE  InductiveInv'
<1> DEFINE Kept == CallInv' /\ StoreInv' /\ TruthfulRefusal'
<1> USE DEF InductiveInv
<1>0. StoreInv
  BY DEF StoreInv
<1>1. ASSUME NEW i \in Invocation, NEW b \in Binding, Prepare(i, b)
      PROVE  Kept
  <2>1. [token |-> i, binding |-> b] \in Question
    BY DEF Question, Token
  <2> QED
    BY <1>0, <1>1, <2>1, StartKeeps DEF Prepare
<1>2. ASSUME NEW i \in Invocation, NEW t \in Token, NEW b \in Binding,
             Consume(i, t, b)
      PROVE  Kept
  <2>1. [token |-> t, binding |-> b] \in Question
    BY DEF Question
  <2> QED
    BY <1>0, <1>2, <2>1, StartKeeps DEF Consume
<1>3. ASSUME NEW i \in Invocation, InvocationStep(i)
      PROVE  Kept
  <2>1. CASE StorePut(i) \/ StoreUpdate(i) \/ StoreFails(i)
    BY <1>0, <2>1, PutKeeps, UpdateKeeps, FailKeeps
  <2>2. CASE ReceivePut(i)
    BY <1>0, <2>2, FinishKeeps DEF ReceivePut, Issued, Running, storeVars
  <2>3. CASE ReceiveUpdate(i)
    <3>1. CASE wire[i] = "refused"
      BY <1>0, <2>3, <3>1, RefusedKeeps DEF ReceiveUpdate, storeVars
    <3>2. CASE wire[i] # "refused"
      BY <1>0, <2>3, <3>2, FinishKeeps DEF ReceiveUpdate, Spent, Running, storeVars
    <3> QED
      BY <3>1, <3>2
  <2>4. CASE GiveUp(i) \/ ReadFails(i) \/ Lose(i)
    BY <1>0, <2>4, FinishKeeps DEF GiveUp, ReadFails, Lose, Running, storeVars
  <2>5. CASE ReadRecord(i)
    BY <1>0, <2>5, ReadKeeps
  <2> QED
    BY <1>3, <2>1, <2>2, <2>3, <2>4, <2>5 DEF InvocationStep
<1>4. ASSUME NEW t \in Token, TtlDelete(t)
      PROVE  Kept
  BY <1>0, <1>4, TtlKeeps
<1>5. ASSUME Tick
      PROVE  Kept
  BY <1>0, <1>5, TickKeeps
<1>6. ASSUME UNCHANGED vars
      PROVE  Kept
  <2>1. StoreInv'
    BY <1>0, <1>6, StoreFrame DEF vars, storeVars
  <2>2. CallInv' /\ TruthfulRefusal'
    BY <1>6 DEF vars, CallInv, Presentable, TruthfulRefusal, Issued, Expiry,
       Spent, SpentBy
  <2> QED
    BY <2>1, <2>2
<1>7. Kept
  BY <1>1, <1>2, <1>3, <1>4, <1>5, <1>6 DEF Next
<1> QED
  BY <1>7, StepType, DeadlineKeeps DEF StoreInv

(***************************************************************************)
(* The inductive invariant holds in every reachable state.                 *)
(***************************************************************************)
THEOREM Inductive == Spec => []InductiveInv
<1>1. Init => InductiveInv
  <2> SUFFICES ASSUME Init PROVE InductiveInv
    OBVIOUS
  <2>1. TypeOK
    BY DEF Init, TypeOK, Answers
  <2>2. DeadlineInv /\ CallInv /\ RowInv /\ SpendInv /\ AtMostOneSpend
        /\ RefusalInv /\ TruthfulRefusal
    BY DEF Init, DeadlineInv, Running, CallInv, RowInv, SpendInv, AtMostOneSpend,
       RefusalInv, TruthfulRefusal, Issued, Spent, SpentBy
  <2> QED
    BY <2>1, <2>2 DEF InductiveInv
<1> QED
  BY <1>1, StepKeeps, PTL DEF Spec

(***************************************************************************)
(* At most one call goes ahead on one token.                               *)
(***************************************************************************)
THEOREM OneConfirmation == Spec => []AtMostOneConfirmed
<1>1. InductiveInv => AtMostOneConfirmed
  BY DEF InductiveInv, CallInv, AtMostOneSpend, AtMostOneConfirmed
<1> QED
  BY <1>1, Inductive, PTL

(***************************************************************************)
(* A call that goes ahead presents what its token was issued for, read its *)
(* clock before the expiry, and nobody else can.                           *)
(***************************************************************************)
THEOREM Authorised == Spec => []ConfirmedAsIssued
<1>1. InductiveInv => ConfirmedAsIssued
  BY DEF InductiveInv, CallInv, SpendInv, ConfirmedAsIssued
<1> QED
  BY <1>1, Inductive, PTL

(***************************************************************************)
(* A refusal names what is the case.                                       *)
(***************************************************************************)
THEOREM RefusalsTruthful == Spec => []TruthfulRefusal
<1>1. InductiveInv => TruthfulRefusal
  BY DEF InductiveInv
<1> QED
  BY <1>1, Inductive, PTL

(***************************************************************************)
(* A call never goes ahead LambdaTimeout or more after the expiry.         *)
(***************************************************************************)
THEOREM BoundedLateness == Spec => GoAheadNotLate
<1> DEFINE Late == \A i \in Invocation :
               answer[i] # "confirmed" /\ answer'[i] = "confirmed" =>
                   now < Expiry(question[i].token) + LambdaTimeout
<1>1. ASSUME InductiveInv, [Next]_vars
      PROVE  Late
  <2> SUFFICES ASSUME NEW i \in Invocation,
                      answer[i] # "confirmed", answer'[i] = "confirmed"
               PROVE  now < Expiry(question[i].token) + LambdaTimeout
    OBVIOUS
  <2>0. InductiveInv /\ TypeOK
    BY <1>1 DEF InductiveInv
  <2>1. ReceiveUpdate(i)
    <3>1. ASSUME NEW j \in Invocation, NEW a, a # "confirmed", Finish(j, a)
          PROVE  FALSE
      BY <2>0, <3>1 DEF Finish, TypeOK
    <3>2. ASSUME NEW j \in Invocation, ReadRecord(j)
          PROVE  FALSE
      <4>1. Diagnosis(table[question[j].token], j) # "confirmed"
        BY DEF Diagnosis
      <4> QED
        BY <3>1, <3>2, <4>1 DEF ReadRecord
    <3>3. ASSUME NEW j \in Invocation, NEW q, NEW kind,
                 NEW code \in {"payload_too_large",
                               "confirmation_store_unavailable"},
                 Start(j, kind, q, code)
          PROVE  FALSE
      BY <3>1, <3>3 DEF Start
    <3>4. ASSUME NEW j \in Invocation, ReceiveUpdate(j)
          PROVE  j = i
      BY <2>0, <3>4 DEF ReceiveUpdate, Finish, TypeOK
    <3>5. answer' # answer
      OBVIOUS
    <3>6. ASSUME NEW j \in Invocation,
                 ReceivePut(j) \/ GiveUp(j) \/ ReadFails(j) \/ Lose(j)
          PROVE  FALSE
      BY <3>1, <3>6 DEF ReceivePut, GiveUp, ReadFails, Lose
    <3> QED
      BY <1>1, <3>2, <3>3, <3>4, <3>5, <3>6
         DEF Next, Prepare, Consume, InvocationStep, StorePut, StoreUpdate,
             StoreFails, TtlDelete, Tick, vars
  <2>2. Running(i) /\ Spent(i)
    <3>1. \A a : a # "confirmed" => ~Finish(i, a)
      BY <2>0 DEF Finish, TypeOK
    <3> QED
      BY <2>1, <3>1 DEF ReceiveUpdate, Running, Spent
  <2>3. now <= clockRead[i] + LambdaTimeout
    BY <2>2, <1>1 DEF InductiveInv, DeadlineInv
  <2>4. clockRead[i] < Expiry(question[i].token) /\ Issued(question[i].token)
    BY <2>2, <1>1 DEF InductiveInv, SpendInv
  <2> QED
    BY <2>0, <2>3, <2>4, TimeAssumption DEF Expiry, Issued, TypeOK
<1> QED
  BY <1>1, Inductive, PTL DEF Spec, GoAheadNotLate

(***************************************************************************)
(* Rows are created, consumed and dropped, in that order, and otherwise    *)
(* never change.                                                           *)
(***************************************************************************)
THEOREM RowsAge == Spec => RowsOnlyAge
<1> DEFINE Ages == \A t \in Token : table'[t] # table[t] =>
                \/ table[t] = Nothing /\ ~Issued(t)
                \/ table'[t] = Nothing
                \/ /\ ~table[t].consumed
                   /\ table'[t] = [table[t] EXCEPT !.consumed = TRUE]
<1>1. ASSUME InductiveInv, [Next]_vars
      PROVE  Ages
  <2>0. TypeOK /\ CallInv /\ RowInv
    BY <1>1 DEF InductiveInv
  <2>1. ASSUME NEW i \in Invocation, StorePut(i) PROVE Ages
    BY <2>0, <2>1 DEF StorePut, Issued, TypeOK
  <2>2. ASSUME NEW i \in Invocation, StoreUpdate(i) PROVE Ages
    <3>1. question[i].token \in Token
      BY <2>0, <2>2, PresentedTokens DEF StoreUpdate
    <3> QED
      BY <2>0, <2>2, <3>1 DEF StoreUpdate, UpdateCondition, TypeOK
  <2>3. ASSUME NEW t \in Token, TtlDelete(t) PROVE Ages
    BY <2>0, <2>3 DEF TtlDelete, TypeOK
  <2>4. CASE UNCHANGED table
    BY <2>4
  <2> QED
    BY <1>1, <2>1, <2>2, <2>3, <2>4 DEF Next, Prepare, Consume, Start, InvocationStep,
       StoreFails, ReceivePut, ReceiveUpdate, GiveUp, ReadRecord, ReadFails, Lose,
       Tick, vars
<1> QED
  BY <1>1, Inductive, PTL DEF Spec, RowsOnlyAge

-----------------------------------------------------------------------------
(* The guard implements the contract: issued, asked, spent and confirmed   *)
(* are read off the rows' puts, the questions, the applied updates and the *)
(* answers; only five kinds of step change any of them.                    *)

issuedMap == [t \in Token |-> IF Issued(t) THEN question[t].binding ELSE Nothing]
askedMap == [i \in Invocation |-> IF op[i] = "consume" THEN question[i] ELSE Nothing]
spentMap == {i \in Invocation : Spent(i)}
confirmedMap == {i \in Invocation : op[i] = "consume" /\ answer[i] = "confirmed"}
mapVars == <<issuedMap, askedMap, spentMap, confirmedMap>>

LEMMA ContractStep ==
    ASSUME InductiveInv, [Next]_vars
    PROVE  [Contract!ContractNext]_(Contract!contractVars)
<1> DEFINE Goal == Contract!ContractNext \/ UNCHANGED mapVars
<1>0. TypeOK /\ CallInv /\ RowInv /\ SpendInv /\ AtMostOneSpend
  BY DEF InductiveInv
<1>1. ASSUME NEW i \in Invocation, NEW kind \in {"prepare", "consume"},
             NEW q \in Question, NEW code \in Answers \ {"confirmed"},
             Start(i, kind, q, code)
      PROVE  Goal
  <2>1. /\ op[i] = "none" /\ wire[i] = "none" /\ answer[i] = "none"
        /\ op'[i] = kind /\ question'[i] = q
        /\ answer'[i] # "confirmed" /\ wire'[i] # "applied"
    BY <1>0, <1>1 DEF Start, Finish, CallInv, TypeOK
  <2>2. \A j \in Invocation \ {i} :
          /\ op'[j] = op[j] /\ question'[j] = question[j]
          /\ wire'[j] = wire[j] /\ answer'[j] = answer[j]
    BY <1>0, <1>1 DEF Start, Finish, TypeOK
  <2>3. issuedMap' = issuedMap
    BY <2>1, <2>2 DEF issuedMap, Issued
  <2>4. spentMap' = spentMap /\ confirmedMap' = confirmedMap
    BY <2>1, <2>2 DEF spentMap, confirmedMap, Spent
  <2>5. CASE kind = "prepare"
    <3>1. askedMap' = askedMap
      BY <2>1, <2>2, <2>5 DEF askedMap
    <3> QED
      BY <2>3, <2>4, <3>1 DEF mapVars
  <2>6. CASE kind = "consume"
    <3>1. askedMap[i] = Nothing
      BY <2>1 DEF askedMap
    <3>2. askedMap' = [askedMap EXCEPT ![i] = q]
      BY <2>1, <2>2, <2>6 DEF askedMap
    <3>3. Contract!Ask(i, q)
      BY <2>3, <2>4, <3>1, <3>2
         DEF Contract!Ask, issuedMap, askedMap, spentMap, confirmedMap
    <3> QED
      BY <3>3 DEF Contract!ContractNext, Contract!Question, Question
  <2> QED
    BY <2>5, <2>6
<1>2. ASSUME NEW i \in Invocation, StorePut(i)
      PROVE  Goal
  <2>1. /\ i \in Token /\ ~Issued(i) /\ ~Spent(i)
        /\ question[i].binding \in Binding
        /\ question' = question /\ op' = op /\ answer' = answer
    BY <1>0, <1>2, QuestionParts DEF StorePut, Issued, Spent, Token, TypeOK
  <2>2. wire' = [wire EXCEPT ![i] = "applied"]
    BY <1>0, <1>2, <2>1 DEF StorePut, RowInv
  <2>3. issuedMap' = [issuedMap EXCEPT ![i] = question[i].binding]
    <3>1. Issued(i)'
      BY <1>0, <1>2, <2>1, <2>2 DEF Issued, StorePut, TypeOK
    <3>2. \A t \in Token \ {i} : Issued(t)' <=> Issued(t)
      BY <1>0, <2>1, <2>2 DEF Issued, TypeOK
    <3>3. \A t \in Token : issuedMap'[t] =
             IF t = i THEN question[i].binding ELSE issuedMap[t]
      BY <2>1, <3>1, <3>2 DEF issuedMap
    <3>4. DOMAIN issuedMap = Token /\ issuedMap' = [t \in Token |-> issuedMap'[t]]
      BY DEF issuedMap
    <3> QED  BY <3>3, <3>4
  <2>4. askedMap' = askedMap /\ spentMap' = spentMap /\ confirmedMap' = confirmedMap
    BY <1>0, <1>2, <2>1, <2>2 DEF askedMap, spentMap, confirmedMap, Spent,
       StorePut, TypeOK
  <2>5. issuedMap[i] = Nothing
    BY <2>1 DEF issuedMap
  <2>. PICK b \in Binding : b = question[i].binding
    BY <2>1
  <2>6. Contract!Issue(i, b)
    BY <2>3, <2>4, <2>5
       DEF Contract!Issue, issuedMap, askedMap, spentMap, confirmedMap
  <2> QED
    BY <2>1, <2>6 DEF Contract!ContractNext
<1>3. ASSUME NEW i \in Invocation, StoreUpdate(i)
      PROVE  Goal
  <2>1. /\ ~Issued(i) /\ op[i] = "consume" /\ wire[i] = "inFlight" /\ ~Spent(i)
        /\ question' = question /\ op' = op /\ answer' = answer
        /\ question[i] \in Question
    BY <1>0, <1>3 DEF StoreUpdate, Issued, Spent, TypeOK
  <2>2. /\ askedMap' = askedMap /\ confirmedMap' = confirmedMap
        /\ issuedMap' = issuedMap
    BY <1>0, <1>3, <2>1 DEF askedMap, confirmedMap, issuedMap, Issued,
       StoreUpdate, TypeOK
  <2>3. CASE UpdateCondition(i)
    <3> DEFINE t == question[i].token
    <3>1. spentMap' = spentMap \cup {i}
      BY <1>0, <1>3, <2>1, <2>3 DEF spentMap, Spent, StoreUpdate, TypeOK
    <3>2. /\ t \in Token /\ Issued(t)
          /\ question[t].binding = question[i].binding
          /\ \A j \in Invocation : ~SpentBy(j, t)
      BY <1>0, <2>1, <2>3, QuestionParts DEF UpdateCondition, RowInv
    <3>3. Contract!MaySpend(i)
      <4>1. askedMap[i] = question[i] /\ issuedMap[t] = question[i].binding
        BY <2>1, <3>2 DEF askedMap, issuedMap
      <4>2. \A d \in spentMap : askedMap[d].token # t
        BY <3>2 DEF askedMap, spentMap, Spent, SpentBy
      <4>3. question[i] # Nothing
        BY <2>1, NameAssumption
      <4> QED
        BY <4>1, <4>2, <4>3 DEF Contract!MaySpend, issuedMap, askedMap, spentMap
    <3>4. Contract!Spend(i, {})
      BY <2>2, <3>1, <3>3
         DEF Contract!Spend, issuedMap, askedMap, spentMap, confirmedMap
    <3> QED
      BY <3>4 DEF Contract!ContractNext
  <2>4. CASE ~UpdateCondition(i)
    <3>1. spentMap' = spentMap
      BY <1>0, <1>3, <2>1, <2>4 DEF spentMap, Spent, StoreUpdate, TypeOK
    <3> QED
      BY <2>2, <3>1 DEF mapVars
  <2> QED
    BY <2>3, <2>4
<1>4. ASSUME NEW i \in Invocation, ReceiveUpdate(i), wire[i] = "applied"
      PROVE  Goal
  <2>1. /\ answer' = [answer EXCEPT ![i] = "confirmed"] /\ op[i] = "consume"
        /\ op' = op /\ question' = question /\ wire' = wire
        /\ answer[i] = "none" /\ Spent(i)
    BY <1>0, <1>4 DEF ReceiveUpdate, Finish, CallInv, Spent
  <2>2. issuedMap' = issuedMap /\ askedMap' = askedMap /\ spentMap' = spentMap
    BY <2>1 DEF issuedMap, askedMap, spentMap, Issued, Spent
  <2>3. confirmedMap' = confirmedMap \cup {i} /\ i \in spentMap \ confirmedMap
    BY <1>0, <2>1 DEF confirmedMap, spentMap, TypeOK
  <2>4. Contract!Confirm(i)
    BY <2>2, <2>3 DEF Contract!Confirm, issuedMap, askedMap, spentMap, confirmedMap
  <2> QED
    BY <2>4 DEF Contract!ContractNext
<1>5. ASSUME NEW i \in Invocation, NEW a \in Answers \ {"confirmed"},
             Finish(i, a), answer[i] = "none", UNCHANGED storeVars
      PROVE  Goal
  <2>1. op' = op /\ question' = question /\ wire' = wire
    BY <1>5 DEF storeVars
  <2>2. issuedMap' = issuedMap /\ askedMap' = askedMap /\ spentMap' = spentMap
    BY <2>1 DEF issuedMap, askedMap, spentMap, Issued, Spent
  <2>3. confirmedMap' = confirmedMap
    BY <1>0, <1>5, <2>1 DEF confirmedMap, Finish, TypeOK
  <2> QED
    BY <2>2, <2>3 DEF mapVars
<1>6. ASSUME NEW i \in Invocation,
             \/ ReceivePut(i) \/ GiveUp(i) \/ ReadRecord(i) \/ ReadFails(i) \/ Lose(i)
             \/ ReceiveUpdate(i) /\ wire[i] = "failed"
      PROVE  Goal
  <2>1. answer[i] = "none" /\ UNCHANGED storeVars
    BY <1>0, <1>6 DEF ReceivePut, GiveUp, ReadRecord, ReadFails, Lose, Running,
       ReceiveUpdate, CallInv, storeVars
  <2>2. Diagnosis(table[question[i].token], i) \in Answers \ {"confirmed"}
    BY DEF Diagnosis, Answers
  <2>3. \E a \in Answers \ {"confirmed"} : Finish(i, a)
    <3>1. CASE ReadRecord(i)
      BY <2>2, <3>1 DEF ReadRecord
    <3>2. CASE ReceivePut(i)
      BY <3>2 DEF ReceivePut, Answers
    <3>3. CASE GiveUp(i) \/ ReadFails(i) \/ Lose(i)
               \/ (ReceiveUpdate(i) /\ wire[i] = "failed")
      BY <3>3 DEF GiveUp, ReadFails, Lose, ReceiveUpdate, Answers
    <3> QED
      BY <1>6, <3>1, <3>2, <3>3
  <2> QED
    BY <1>5, <2>1, <2>3
<1>7. ASSUME UNCHANGED <<op, question, answer>>,
             \A i \in Invocation : Spent(i)' <=> Spent(i),
             \A t \in Token : Issued(t)' <=> Issued(t)
      PROVE  Goal
  BY <1>7 DEF mapVars, issuedMap, askedMap, spentMap, confirmedMap
<1>8. ASSUME NEW i \in Invocation, StoreFails(i)
      PROVE  Goal
  <2>1. /\ \A j \in Invocation : Spent(j)' <=> Spent(j)
        /\ \A t \in Token : Issued(t)' <=> Issued(t)
    BY <1>0, <1>8 DEF StoreFails, Spent, Issued, TypeOK
  <2> QED
    BY <1>7, <1>8, <2>1 DEF StoreFails
<1>9. ASSUME UNCHANGED <<op, question, answer, wire>>
      PROVE  Goal
  BY <1>7, <1>9 DEF Spent, Issued
<1>10. Goal
  <2>1. ASSUME NEW i \in Invocation, InvocationStep(i)
        PROVE  Goal
    <3>1. CASE ReceiveUpdate(i)
      <4>1. CASE wire[i] = "refused"
        BY <1>9, <3>1, <4>1 DEF ReceiveUpdate
      <4>2. CASE wire[i] # "refused"
        BY <1>4, <1>6, <3>1, <4>2 DEF ReceiveUpdate
      <4> QED
        BY <4>1, <4>2
    <3>2. CASE ~ReceiveUpdate(i)
      BY <1>2, <1>3, <1>6, <1>8, <2>1, <3>2 DEF InvocationStep
    <3> QED
      BY <3>1, <3>2
  <2>2. ASSUME NEW i \in Invocation, NEW b \in Binding, Prepare(i, b)
        PROVE  Goal
    <3>1. [token |-> i, binding |-> b] \in Question
      BY DEF Question, Token
    <3> QED
      BY <1>1, <2>2, <3>1 DEF Prepare, Answers
  <2>3. ASSUME NEW i \in Invocation, NEW t \in Token, NEW b \in Binding,
               Consume(i, t, b)
        PROVE  Goal
    <3>1. [token |-> t, binding |-> b] \in Question
      BY DEF Question
    <3> QED
      BY <1>1, <2>3, <3>1 DEF Consume, Answers
  <2>4. ASSUME UNCHANGED vars \/ Tick \/ \E t \in Token : TtlDelete(t)
        PROVE  Goal
    BY <1>9, <2>4 DEF vars, Tick, TtlDelete
  <2> QED
    BY <2>1, <2>2, <2>3, <2>4 DEF Next
<1> QED
  BY <1>10 DEF Contract!contractVars, mapVars, issuedMap, askedMap, spentMap,
     confirmedMap

(***************************************************************************)
(* Every behaviour of the guard is one the contract allows.                *)
(***************************************************************************)
THEOREM GuardImplementsContract == Spec => ImplementsContract
<1>1. Init => Contract!ContractInit
  BY DEF Init, Contract!ContractInit, Issued, Spent
<1> QED
  BY <1>1, ContractStep, Inductive, PTL
     DEF Spec, ImplementsContract, Contract!ContractSpec
=============================================================================
