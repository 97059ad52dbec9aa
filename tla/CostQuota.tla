------------------------------ MODULE CostQuota ------------------------------
(***************************************************************************)
(* DynamoDbCostRequestLimiter (core/cost_quota.py) and the billable call   *)
(* it precedes (services/tools.py, execute_aws_cost_query).  One row per   *)
(* UTC month, in the confirmation table, counts the slots taken.  An       *)
(* invocation reads its clock, sends one conditional increment of the row  *)
(* of that month, and only when it is told of the slot sends one           *)
(* GetCostAndUsage request.  The month may turn between any two of these   *)
(* steps, the answer may be lost, and TTL drops the row of a past month.   *)
(*                                                                         *)
(* Two constants stand for what the code takes for granted about AWS: a    *)
(* request is applied at most Flight after it was sent, and TTL drops a    *)
(* row no sooner than TtlLag after its expires_at.                         *)
(***************************************************************************)
EXTENDS Naturals, FiniteSets

CONSTANTS Invocation,
          Limit,          \* MONTHLY_COST_REQUEST_LIMIT
          LambdaTimeout,  \* the function's Timeout in template.yaml
          Flight, TtlLag,
          MonthLength,    \* a month has at least this many seconds
          MaxMonth,       \* bound on the months
          MaxTime         \* bound on the clock

ASSUME QuotaAssumption ==
    /\ Limit \in Nat \ {0}
    /\ LambdaTimeout \in Nat
    /\ Flight \in Nat /\ TtlLag \in Nat /\ Flight < TtlLag
    /\ MonthLength \in Nat \ {0}
    /\ MaxMonth \in Nat /\ MaxTime \in Nat

Month == 0..MaxMonth

VARIABLES now,
          month,       \* the current UTC month
          monthStart,  \* when each month began
          count,       \* the count of each month's row; 0 when there is no row
          clockRead,   \* the time each invocation read
          period,      \* the month it computed from that reading
          wire,        \* its increment: in flight, or what the store did
          pc,
          answer,
          billed       \* the months in which it sent GetCostAndUsage

clockVars == <<now, month, monthStart>>
vars == <<now, month, monthStart, count, clockRead, period, wire, pc, answer, billed>>

TypeOK ==
    /\ now \in Nat
    /\ month \in Month
    /\ monthStart \in [Month -> Nat]
    /\ count \in [Month -> 0..Limit]
    /\ clockRead \in [Invocation -> Nat]
    /\ period \in [Invocation -> Month]
    /\ wire \in [Invocation -> {"none", "inFlight", "applied", "refused", "failed"}]
    /\ pc \in [Invocation -> {"idle", "sent", "holding", "done"}]
    /\ answer \in [Invocation -> {"none", "acquired", "cost_monthly_limit_exceeded",
                                  "cost_quota_unavailable"}]
    /\ billed \in [Invocation -> SUBSET Month]

Init ==
    /\ now = 0
    /\ month = 0
    /\ monthStart = [m \in Month |-> 0]
    /\ count = [m \in Month |-> 0]
    /\ clockRead = [i \in Invocation |-> 0]
    /\ period = [i \in Invocation |-> 0]
    /\ wire = [i \in Invocation |-> "none"]
    /\ pc = [i \in Invocation |-> "idle"]
    /\ answer = [i \in Invocation |-> "none"]
    /\ billed = [i \in Invocation |-> {}]

-----------------------------------------------------------------------------
Running(i) == pc[i] \in {"sent", "holding"}

Acquire(i) ==
    /\ pc[i] = "idle"
    /\ clockRead' = [clockRead EXCEPT ![i] = now]
    /\ period' = [period EXCEPT ![i] = month]
    /\ wire' = [wire EXCEPT ![i] = "inFlight"]
    /\ pc' = [pc EXCEPT ![i] = "sent"]
    /\ UNCHANGED <<clockVars, count, answer, billed>>

\* Mutated form of the condition: one slot too many.
SlotLeftOrOneMore(i) == count[period[i]] <= Limit

\* attribute_not_exists(#count) OR #count < :limit.
SlotLeft(i) == count[period[i]] < Limit

StoreAcquire(i) ==
    /\ wire[i] = "inFlight"
    /\ now <= clockRead[i] + Flight
    /\ \/ /\ SlotLeft(i)
          /\ count' = [count EXCEPT ![period[i]] = @ + 1]
          /\ wire' = [wire EXCEPT ![i] = "applied"]
       \/ /\ ~SlotLeft(i)
          /\ wire' = [wire EXCEPT ![i] = "refused"]
          /\ UNCHANGED count
    /\ UNCHANGED <<clockVars, clockRead, period, pc, answer, billed>>

\* Throttled, rejected or lost on the way: nothing was written.
StoreFails(i) ==
    /\ wire[i] = "inFlight"
    /\ wire' = [wire EXCEPT ![i] = "failed"]
    /\ UNCHANGED <<clockVars, count, clockRead, period, pc, answer, billed>>

Fail(i, code) ==
    /\ pc' = [pc EXCEPT ![i] = "done"]
    /\ answer' = [answer EXCEPT ![i] = code]

Receive(i) ==
    /\ pc[i] = "sent" /\ wire[i] # "inFlight"
    /\ \/ /\ wire[i] = "applied"
          /\ pc' = [pc EXCEPT ![i] = "holding"]
          /\ answer' = [answer EXCEPT ![i] = "acquired"]
       \/ wire[i] = "refused" /\ Fail(i, "cost_monthly_limit_exceeded")
       \/ wire[i] = "failed" /\ Fail(i, "cost_quota_unavailable")
    /\ UNCHANGED <<clockVars, count, clockRead, period, wire, billed>>

\* Mutated form: an unavailable quota does not stop the query.
GiveUpOpen(i) ==
    /\ pc[i] = "sent"
    /\ pc' = [pc EXCEPT ![i] = "holding"]
    /\ answer' = [answer EXCEPT ![i] = "cost_quota_unavailable"]
    /\ UNCHANGED <<clockVars, count, clockRead, period, wire, billed>>

\* Mutated form: an unanswered increment is taken for an exhausted quota.
GiveUpAsExceeded(i) ==
    /\ pc[i] = "sent"
    /\ Fail(i, "cost_monthly_limit_exceeded")
    /\ UNCHANGED <<clockVars, count, clockRead, period, wire, billed>>

\* The answer does not come: the slot may have been taken all the same.
GiveUp(i) ==
    /\ pc[i] = "sent"
    /\ Fail(i, "cost_quota_unavailable")
    /\ UNCHANGED <<clockVars, count, clockRead, period, wire, billed>>

\* The one GetCostAndUsage request the slot was taken for.
SendCostQuery(i) ==
    /\ pc[i] = "holding"
    /\ billed' = [billed EXCEPT ![i] = @ \cup {month}]
    /\ pc' = [pc EXCEPT ![i] = "done"]
    /\ UNCHANGED <<clockVars, count, clockRead, period, wire, answer>>

\* The runtime stops the invocation.
Lose(i) ==
    /\ Running(i)
    /\ pc' = [pc EXCEPT ![i] = "done"]
    /\ UNCHANGED <<clockVars, count, clockRead, period, wire, answer, billed>>

-----------------------------------------------------------------------------
\* Mutated form: rows expire with the slot that was taken, not with the month.
TtlDeleteAtOnce(m) ==
    /\ count[m] > 0
    /\ count' = [count EXCEPT ![m] = 0]
    /\ UNCHANGED <<clockVars, clockRead, period, wire, pc, answer, billed>>

\* expires_at of a month's row is the first second of the next month.
TtlDelete(m) ==
    /\ count[m] > 0
    /\ m < month
    /\ now >= monthStart[m + 1] + TtlLag
    /\ count' = [count EXCEPT ![m] = 0]
    /\ UNCHANGED <<clockVars, clockRead, period, wire, pc, answer, billed>>

\* Mutated form: nothing stops an invocation that takes too long.
TickUnbounded ==
    /\ now < MaxTime
    /\ now' = now + 1
    /\ UNCHANGED <<month, monthStart, count, clockRead, period, wire, pc, answer, billed>>

\* No invocation outlives LambdaTimeout; MaxTime bounds the clock.
Tick ==
    /\ now < MaxTime
    /\ \A i \in Invocation : Running(i) => now < clockRead[i] + LambdaTimeout
    /\ now' = now + 1
    /\ UNCHANGED <<month, monthStart, count, clockRead, period, wire, pc, answer, billed>>

NewMonth ==
    /\ month < MaxMonth
    /\ now >= monthStart[month] + MonthLength
    /\ month' = month + 1
    /\ monthStart' = [monthStart EXCEPT ![month + 1] = now]
    /\ UNCHANGED <<now, count, clockRead, period, wire, pc, answer, billed>>

InvocationStep(i) ==
    \/ Acquire(i) \/ StoreAcquire(i) \/ StoreFails(i) \/ Receive(i)
    \/ GiveUp(i) \/ SendCostQuery(i) \/ Lose(i)

Next ==
    \/ \E i \in Invocation : InvocationStep(i)
    \/ \E m \in Month : TtlDelete(m)
    \/ Tick
    \/ NewMonth

Spec == Init /\ [][Next]_vars

-----------------------------------------------------------------------------
TakenIn(m) == {i \in Invocation : wire[i] = "applied" /\ period[i] = m}
BilledIn(m) == {i \in Invocation : m \in billed[i]}
Billed == {i \in Invocation : billed[i] # {}}

(***************************************************************************)
(* No month ever gives out more than Limit slots, counting those whose     *)
(* invocation never learned of them, although increments for a month are   *)
(* applied after it has ended and its row is dropped by TTL.               *)
(***************************************************************************)
SlotsWithinLimit == \A m \in Month : Cardinality(TakenIn(m)) <= Limit

(***************************************************************************)
(* "cost_monthly_limit_exceeded" is only answered when all Limit slots of  *)
(* the month the caller asked in are taken.                                *)
(***************************************************************************)
ExceededIsTrue ==
    \A i \in Invocation : answer[i] = "cost_monthly_limit_exceeded" =>
        Cardinality(TakenIn(period[i])) = Limit

(***************************************************************************)
(* By the end of any month at most Limit requests per month so far were    *)
(* sent: a slot that is carried over a month's end is not a new one.       *)
(***************************************************************************)
SpendBounded == Cardinality(Billed) <= Limit * (month + 1)

(***************************************************************************)
(* A request is sent in the month its slot belongs to, or at most          *)
(* LambdaTimeout after that month ended.                                   *)
(***************************************************************************)
BilledNearItsMonth ==
    [][\A i \in Invocation : billed'[i] # billed[i] /\ period'[i] < month =>
          now <= monthStart[period'[i] + 1] + LambdaTimeout]_vars

(***************************************************************************)
(* README.md: "maximum of three request attempts per UTC month".           *)
(***************************************************************************)
AttemptsPerMonth == \A m \in Month : Cardinality(BilledIn(m)) <= Limit
=============================================================================
