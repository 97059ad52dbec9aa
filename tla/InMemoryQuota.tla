---------------------------- MODULE InMemoryQuota ----------------------------
(***************************************************************************)
(* InMemoryCostRequestLimiter (core/cost_quota.py), the limiter of one     *)
(* local process, beside the one over DynamoDB: one counter, for the month *)
(* of the last call.  An acquire is one step, and is recorded as a         *)
(* DynamoDB increment that was applied or refused at once, so that what is *)
(* asked of either limiter is stated once, in CostQuota.  The process is   *)
(* not started again.                                                      *)
(***************************************************************************)
EXTENDS CostQuota

NoMonth == MaxMonth + 1

VARIABLES limiter,        \* which of the two the service was built with
          memory_period,  \* of the in-memory limiter
          memory_count

memoryVars == <<memory_period, memory_count>>

LimiterInit ==
    /\ Init
    /\ limiter \in {"dynamodb", "memory"}
    /\ memory_period = NoMonth /\ memory_count = 0

\* The count starts again in another month than that of the last call.
Counted == IF month # memory_period THEN 0 ELSE memory_count

\* The query follows in the same call, unless no client can be created.
AcquireInMemory(i) ==
    /\ pc[i] = "idle"
    /\ clockRead' = [clockRead EXCEPT ![i] = now]
    /\ period' = [period EXCEPT ![i] = month]
    /\ memory_period' = month
    /\ pc' = [pc EXCEPT ![i] = "done"]
    /\ \/ /\ Counted < Limit
          /\ memory_count' = Counted + 1
          /\ wire' = [wire EXCEPT ![i] = "applied"]
          /\ answer' = [answer EXCEPT ![i] = "acquired"]
          /\ billed' \in {billed, [billed EXCEPT ![i] = {month}]}
       \/ /\ Counted >= Limit
          /\ memory_count' = Counted
          /\ wire' = [wire EXCEPT ![i] = "refused"]
          /\ answer' = [answer EXCEPT ![i] = "cost_monthly_limit_exceeded"]
          /\ UNCHANGED billed
    /\ UNCHANGED <<clockVars, count>>

LimiterNext ==
    \/ limiter = "dynamodb" /\ Next /\ UNCHANGED <<limiter, memoryVars>>
    \/ /\ limiter = "memory" /\ UNCHANGED limiter
       /\ \/ \E i \in Invocation : AcquireInMemory(i)
          \/ (Tick \/ NewMonth) /\ UNCHANGED memoryVars

LimiterSpec == LimiterInit /\ [][LimiterNext]_<<vars, limiter, memoryVars>>
=============================================================================
