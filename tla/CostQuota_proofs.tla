-------------------------- MODULE CostQuota_proofs --------------------------
(***************************************************************************)
(* Proofs about both cost limiters, for any number of queries, months and  *)
(* slots.  A row or a counter stands for the set of invocations whose      *)
(* increment was applied in its month; a row that TTL has dropped does not *)
(* matter, because no increment for its month can still arrive.            *)
(***************************************************************************)
EXTENDS InMemoryQuota, FiniteSetTheorems, FunctionTheorems, TLAPS

LimiterTypeOK ==
    /\ TypeOK
    /\ limiter \in {"dynamodb", "memory"}
    /\ memory_period \in Nat
    /\ memory_count \in Nat

Taken == {i \in Invocation : wire[i] = "applied"}

\* The time an invocation read is within its month, and recent as long as the
\* invocation runs.
ClockInv ==
    /\ \A m \in Month : monthStart[m] <= now
    /\ \A i \in Invocation : pc[i] # "idle" =>
          /\ clockRead[i] <= now
          /\ period[i] <= month
          /\ period[i] < month => clockRead[i] <= monthStart[period[i] + 1]
    /\ \A i \in Invocation : Running(i) => now <= clockRead[i] + LambdaTimeout

CallInv ==
    \A i \in Invocation :
        /\ pc[i] = "idle" <=> wire[i] = "none"
        /\ pc[i] = "idle" => answer[i] = "none"
        /\ pc[i] = "holding" => wire[i] = "applied"
        /\ billed[i] # {} => wire[i] = "applied"
        /\ answer[i] = "cost_monthly_limit_exceeded" => wire[i] = "refused"

\* TTL may have dropped the row of this month.
Dropped(m) == m < month /\ now >= monthStart[m + 1] + TtlLag

\* The row counts the slots that were given out of its month.
RowInv ==
    \A m \in Month : count[m] = Cardinality(TakenIn(m)) \/ Dropped(m)

\* The in-memory counter counts those of the month of the last call, and no
\* call has read a later month.
MemoryInv ==
    /\ \A i \in Taken : memory_period \in Month /\ period[i] <= memory_period
    /\ memory_period \in Month =>
          /\ memory_period <= month
          /\ memory_count = Cardinality(TakenIn(memory_period))

SlotInv ==
    \A m \in Month : IsFiniteSet(TakenIn(m)) /\ Cardinality(TakenIn(m)) <= Limit

RefusedInv ==
    \A m \in Month, i \in Invocation :
        wire[i] = "refused" /\ period[i] = m => Cardinality(TakenIn(m)) = Limit

\* The slots of a month are numbered, in the order they were taken.
Seating(seat) ==
    \A m \in Month :
        /\ \A i \in TakenIn(m) : seat[i] \in 1..Cardinality(TakenIn(m))
        /\ \A i, j \in TakenIn(m) : seat[i] = seat[j] => i = j

SeatInv == \E seat \in [Invocation -> Nat] : Seating(seat)

Inv ==
    /\ LimiterTypeOK /\ ClockInv /\ CallInv
    /\ limiter = "dynamodb" => RowInv
    /\ limiter = "memory" => MemoryInv
    /\ SlotInv /\ RefusedInv /\ SeatInv
-----------------------------------------------------------------------------
(* The slots: a step either gives out one more or none. *)

NoSlotTaken ==
    \A i \in Invocation :
        /\ wire'[i] = "applied" <=> wire[i] = "applied"
        /\ wire[i] = "applied" => period'[i] = period[i]

LEMMA NoSlotTakenKeeps ==
    ASSUME SlotInv, SeatInv, NoSlotTaken
    PROVE  /\ Taken' = Taken
           /\ \A m : TakenIn(m)' = TakenIn(m)
           /\ SlotInv' /\ SeatInv'
<1>1. Taken' = Taken /\ \A m : TakenIn(m)' = TakenIn(m)
  BY DEF NoSlotTaken, Taken, TakenIn
<1>2. SlotInv'
  BY <1>1 DEF SlotInv
<1>3. SeatInv'
  <2>1. PICK seat \in [Invocation -> Nat] : Seating(seat)
    BY DEF SeatInv
  <2>2. Seating(seat)'
    BY <1>1, <2>1 DEF Seating
  <2> QED
    BY <2>2 DEF SeatInv
<1> QED
  BY <1>1, <1>2, <1>3

\* Invocation i takes a slot of month p.
Takes(i, p) ==
    /\ wire[i] \notin {"applied", "refused"}
    /\ wire'[i] = "applied" /\ period'[i] = p
    /\ \A j \in Invocation \ {i} : wire'[j] = wire[j] /\ period'[j] = period[j]

LEMMA TakesKeeps ==
    ASSUME TypeOK, SlotInv, SeatInv, RefusedInv,
           NEW i \in Invocation, NEW p \in Month, Takes(i, p),
           Cardinality(TakenIn(p)) < Limit
    PROVE  /\ Taken' = Taken \cup {i}
           /\ \A m \in Month \ {p} : TakenIn(m)' = TakenIn(m)
           /\ Cardinality(TakenIn(p))' = Cardinality(TakenIn(p)) + 1
           /\ SlotInv' /\ SeatInv' /\ RefusedInv'
<1> DEFINE n == Cardinality(TakenIn(p))
<1>1. /\ Taken' = Taken \cup {i} /\ i \notin Taken /\ i \notin TakenIn(p)
      /\ TakenIn(p)' = TakenIn(p) \cup {i}
      /\ \A m \in Month \ {p} : TakenIn(m)' = TakenIn(m)
  BY DEF Takes, Taken, TakenIn
<1>2. /\ IsFiniteSet(TakenIn(p)) /\ IsFiniteSet(TakenIn(p)')
      /\ Cardinality(TakenIn(p)') = n + 1
  BY <1>1, FS_AddElement DEF SlotInv
<1>3. n \in Nat
  BY <1>2, FS_CardinalityType
<1>4. SlotInv'
  <2> SUFFICES ASSUME NEW m \in Month
               PROVE  IsFiniteSet(TakenIn(m)') /\ Cardinality(TakenIn(m)') <= Limit
    BY DEF SlotInv
  <2>1. CASE m = p
    BY <1>2, <1>3, <2>1, QuotaAssumption
  <2>2. CASE m # p
    BY <1>1, <2>2 DEF SlotInv
  <2> QED
    BY <2>1, <2>2
<1>5. SeatInv'
  <2>1. PICK seat \in [Invocation -> Nat] : Seating(seat)
    BY DEF SeatInv
  <2>2. PICK k \in Nat : k = n
    BY <1>3
  <2> DEFINE after == [seat EXCEPT ![i] = k + 1]
  <2>3. /\ after \in [Invocation -> Nat] /\ after[i] = k + 1
        /\ \A m \in Month : \A j \in TakenIn(m) : j # i /\ after[j] = seat[j]
    BY DEF Takes, TakenIn
  <2>4. \A j \in TakenIn(p) : seat[j] \in 1..k
    BY <2>1, <2>2 DEF Seating
  <2>5. ASSUME NEW m \in Month
        PROVE  /\ \A j \in TakenIn(m)' : after[j] \in 1..Cardinality(TakenIn(m)')
               /\ \A j, l \in TakenIn(m)' : after[j] = after[l] => j = l
    <3>1. CASE m # p
      BY <1>1, <2>1, <2>3, <3>1 DEF Seating
    <3>2. CASE m = p
      <4>1. \A j \in TakenIn(p)' : after[j] \in 1..k + 1
        BY <1>1, <2>3, <2>4
      <4>2. \A j, l \in TakenIn(p)' : after[j] = after[l] => j = l
        BY <1>1, <2>1, <2>3, <2>4 DEF Seating
      <4> QED
        BY <1>2, <2>2, <3>2, <4>1, <4>2
    <3> QED
      BY <3>1, <3>2
  <2>6. Seating(after)'
    BY <2>5 DEF Seating
  <2> QED
    BY <2>3, <2>6 DEF SeatInv
<1>6. RefusedInv'
  <2> SUFFICES ASSUME NEW m \in Month, NEW j \in Invocation,
                      wire'[j] = "refused", period'[j] = m
               PROVE  Cardinality(TakenIn(m)') = Limit
    BY DEF RefusedInv
  <2>1. Cardinality(TakenIn(m)) = Limit
    BY DEF RefusedInv, Takes
  <2>2. m # p
    BY <1>3, <2>1, QuotaAssumption
  <2> QED
    BY <1>1, <2>1, <2>2
<1> QED
  BY <1>1, <1>2, <1>4, <1>5, <1>6
-----------------------------------------------------------------------------
LEMMA InitHolds == LimiterInit => Inv
<1> SUFFICES ASSUME LimiterInit
             PROVE  Inv
  OBVIOUS
<1> USE QuotaAssumption DEF LimiterInit, Init, Month
<1>1. LimiterTypeOK
  BY DEF LimiterTypeOK, TypeOK, NoMonth
<1>2. ClockInv /\ CallInv
  BY DEF ClockInv, CallInv, Running
<1>3. Taken = {} /\ \A m : TakenIn(m) = {}
  BY DEF Taken, TakenIn
<1>4. \A m : IsFiniteSet(TakenIn(m)) /\ Cardinality(TakenIn(m)) = 0
  BY <1>3, FS_EmptySet
<1>5. RowInv /\ SlotInv /\ RefusedInv
  BY <1>4 DEF RowInv, SlotInv, RefusedInv
<1>6. MemoryInv
  BY <1>3 DEF MemoryInv, NoMonth
<1>7. SeatInv
  <2>1. Seating([i \in Invocation |-> 0])
    BY <1>3 DEF Seating
  <2> QED
    BY <2>1 DEF SeatInv
<1> QED
  BY <1>1, <1>2, <1>5, <1>6, <1>7 DEF Inv

LEMMA TypeStep ==
    ASSUME LimiterTypeOK, [LimiterNext]_<<vars, limiter, memoryVars>>
    PROVE  LimiterTypeOK'
<1> USE QuotaAssumption DEF LimiterTypeOK, TypeOK, clockVars, Month
<1>1. ASSUME NEW i \in Invocation, InvocationStep(i)
      PROVE  TypeOK'
  <2>1. CASE Acquire(i)
    BY <2>1 DEF Acquire
  <2>2. CASE StoreAcquire(i)
    <3>1. period[i] \in Month /\ count[period[i]] \in 0..Limit
      OBVIOUS
    <3>2. CASE UNCHANGED count
      BY <2>2, <3>2 DEF StoreAcquire
    <3>3. CASE SlotLeft(i) /\ count' = [count EXCEPT ![period[i]] = @ + 1]
      <4>1. count[period[i]] + 1 \in 0..Limit
        BY <3>1, <3>3 DEF SlotLeft
      <4>2. count' \in [Month -> 0..Limit]
        BY <3>3, <4>1
      <4> QED
        BY <2>2, <4>2 DEF StoreAcquire
    <3> QED
      BY <2>2, <3>2, <3>3 DEF StoreAcquire
  <2>3. CASE StoreFails(i) \/ Receive(i) \/ GiveUp(i) \/ Lose(i)
    BY <2>3 DEF StoreFails, Receive, GiveUp, Lose, Fail
  <2>4. CASE SendCostQuery(i)
    BY <2>4 DEF SendCostQuery
  <2> QED
    BY <1>1, <2>1, <2>2, <2>3, <2>4 DEF InvocationStep
<1>2. ASSUME NEW m \in Month, TtlDelete(m)
      PROVE  TypeOK'
  <2>1. 0 \in 0..Limit
    OBVIOUS
  <2>2. count' \in [Month -> 0..Limit]
    BY <1>2, <2>1 DEF TtlDelete
  <2> QED
    BY <1>2, <2>2 DEF TtlDelete
<1>3. ASSUME Tick
      PROVE  TypeOK'
  BY <1>3 DEF Tick
<1>4. ASSUME NewMonth
      PROVE  TypeOK'
  <2>1. month' \in Month
    BY <1>4 DEF NewMonth
  <2>2. monthStart' \in [Month -> Nat]
    BY <1>4 DEF NewMonth
  <2> QED
    BY <1>4, <2>1, <2>2 DEF NewMonth
<1>5. ASSUME NEW i \in Invocation, AcquireInMemory(i)
      PROVE  TypeOK' /\ memory_period' \in Nat /\ memory_count' \in Nat
  <2>1. Counted \in Nat /\ Counted + 1 \in Nat /\ month \in Nat
    BY DEF Counted
  <2>2. memory_period' \in Nat /\ memory_count' \in Nat
    BY <1>5, <2>1 DEF AcquireInMemory
  <2>3. billed' \in [Invocation -> SUBSET Month]
    <3>1. {month} \in SUBSET Month
      OBVIOUS
    <3>2. billed' = billed \/ billed' = [billed EXCEPT ![i] = {month}]
      BY <1>5 DEF AcquireInMemory
    <3> QED
      BY <3>1, <3>2
  <2>4. TypeOK'
    BY <1>5, <2>3 DEF AcquireInMemory
  <2> QED
    BY <2>2, <2>4
<1>6. CASE UNCHANGED <<vars, limiter, memoryVars>>
  BY <1>6 DEF vars, memoryVars
<1>7. CASE limiter = "dynamodb" /\ Next /\ UNCHANGED <<limiter, memoryVars>>
  BY <1>1, <1>2, <1>3, <1>4, <1>7 DEF Next, memoryVars
<1>8. CASE limiter = "memory" /\ limiter' = limiter /\ (Tick \/ NewMonth)
           /\ UNCHANGED memoryVars
  BY <1>3, <1>4, <1>8 DEF memoryVars
<1> QED
  BY <1>5, <1>6, <1>7, <1>8 DEF LimiterNext
-----------------------------------------------------------------------------
(* The steps of the limiter over DynamoDB. *)

DynamoInv == ClockInv /\ CallInv /\ RowInv /\ SlotInv /\ RefusedInv /\ SeatInv

\* An invocation reads the clock: in its month, and as recent as can be.
LEMMA ReadsClockKeeps ==
    ASSUME TypeOK, ClockInv, NEW i \in Invocation, NEW stage,
           clockRead' = [clockRead EXCEPT ![i] = now],
           period' = [period EXCEPT ![i] = month], pc' = [pc EXCEPT ![i] = stage],
           UNCHANGED <<now, month, monthStart>>
    PROVE  ClockInv'
<1>1. now \in Nat /\ month \in Nat /\ LambdaTimeout \in Nat
  BY QuotaAssumption DEF TypeOK, Month
<1>2. clockRead'[i] = now /\ period'[i] = month
  BY DEF TypeOK
<1>3. \A j \in Invocation \ {i} :
         clockRead'[j] = clockRead[j] /\ period'[j] = period[j] /\ pc'[j] = pc[j]
  BY DEF TypeOK
<1>4. \A m \in Month : monthStart'[m] <= now'
  BY DEF ClockInv
<1>5. ASSUME NEW j \in Invocation, pc'[j] # "idle"
      PROVE  /\ clockRead'[j] <= now'
             /\ period'[j] <= month'
             /\ period'[j] < month' => clockRead'[j] <= monthStart'[period'[j] + 1]
  <2>1. CASE j = i
    BY <1>1, <1>2, <2>1
  <2>2. CASE j # i
    BY <1>3, <1>5, <2>2 DEF ClockInv
  <2> QED  BY <2>1, <2>2
<1>6. ASSUME NEW j \in Invocation, Running(j)'
      PROVE  now' <= clockRead'[j] + LambdaTimeout
  <2>1. CASE j = i
    BY <1>1, <1>2, <2>1
  <2>2. CASE j # i
    BY <1>3, <1>6, <2>2 DEF ClockInv, Running
  <2> QED  BY <2>1, <2>2
<1> QED
  BY <1>4, <1>5, <1>6 DEF ClockInv

LEMMA AcquireKeeps ==
    ASSUME TypeOK, DynamoInv, NEW i \in Invocation, Acquire(i)
    PROVE  DynamoInv'
<1> USE DEF DynamoInv
<1>1. NoSlotTaken
  BY DEF Acquire, NoSlotTaken, CallInv, TypeOK
<1>2. ClockInv'
  BY ReadsClockKeeps DEF Acquire, clockVars
<1>3. CallInv'
  BY DEF Acquire, CallInv, TypeOK
<1>4. RowInv'
  BY <1>1, NoSlotTakenKeeps DEF Acquire, RowInv, Dropped, clockVars
<1>5. RefusedInv'
  BY <1>1, NoSlotTakenKeeps DEF Acquire, RefusedInv, TypeOK
<1> QED
  BY <1>1, <1>2, <1>3, <1>4, <1>5, NoSlotTakenKeeps

\* Nothing is written, and at most the answer, the stage and the requests
\* sent by one invocation change.
LEMMA QuietKeeps ==
    ASSUME TypeOK, DynamoInv, NEW i \in Invocation,
           StoreFails(i) \/ Receive(i) \/ GiveUp(i) \/ SendCostQuery(i) \/ Lose(i)
    PROVE  DynamoInv'
<1> USE DEF DynamoInv, StoreFails, Receive, GiveUp, SendCostQuery, Lose, Fail
<1>1. NoSlotTaken
  BY DEF NoSlotTaken, TypeOK
<1>2. UNCHANGED <<now, month, monthStart, count, clockRead, period>>
  BY DEF clockVars
<1>3. ClockInv'
  <2>1. \A j \in Invocation : /\ pc'[j] # "idle" => pc[j] # "idle"
                              /\ Running(j)' => Running(j)
    BY DEF Running, TypeOK, CallInv
  <2> QED
    BY <1>2, <2>1 DEF ClockInv
<1>4. CallInv'
  BY DEF CallInv, Running, TypeOK
<1>5. RowInv'
  BY <1>1, <1>2, NoSlotTakenKeeps DEF RowInv, Dropped
<1>6. RefusedInv'
  BY <1>1, <1>2, NoSlotTakenKeeps DEF RefusedInv, TypeOK
<1> QED
  BY <1>1, <1>3, <1>4, <1>5, <1>6, NoSlotTakenKeeps

\* An increment that can still be applied finds its row.
LEMMA RowInPlace ==
    ASSUME TypeOK, ClockInv, NEW i \in Invocation, pc[i] # "idle",
           now <= clockRead[i] + Flight
    PROVE  ~Dropped(period[i])
<1>1. period[i] \in Nat /\ month \in Month /\ month \in Nat /\ now \in Nat /\ clockRead[i] \in Nat
  BY QuotaAssumption DEF TypeOK, Month
<1>2. CASE period[i] < month
  <2>1. period[i] + 1 \in Month
    BY <1>1, <1>2, QuotaAssumption DEF Month
  <2>2. monthStart[period[i] + 1] \in Nat /\ clockRead[i] <= monthStart[period[i] + 1]
    BY <1>2, <2>1 DEF ClockInv, TypeOK
  <2> QED
    BY <1>1, <2>2, QuotaAssumption DEF Dropped
<1> QED
  BY <1>2 DEF Dropped

LEMMA StoreAcquireKeeps ==
    ASSUME TypeOK, DynamoInv, NEW i \in Invocation, StoreAcquire(i)
    PROVE  DynamoInv'
<1> USE DEF DynamoInv
<1>1. PICK p \in Month : p = period[i]
  BY DEF TypeOK
<1>2. /\ wire[i] = "inFlight" /\ pc[i] # "idle" /\ now <= clockRead[i] + Flight
      /\ UNCHANGED <<now, month, monthStart, clockRead, period, pc, answer, billed>>
  BY DEF StoreAcquire, CallInv, clockVars
<1>3. count[p] = Cardinality(TakenIn(p))
  BY <1>1, <1>2, RowInPlace DEF RowInv
<1>4. ClockInv'
  BY <1>2 DEF ClockInv, Running
<1>5. CASE SlotLeft(i) /\ count' = [count EXCEPT ![period[i]] = @ + 1]
           /\ wire' = [wire EXCEPT ![i] = "applied"]
  <2>1. Takes(i, p) /\ Cardinality(TakenIn(p)) < Limit
    BY <1>1, <1>2, <1>3, <1>5 DEF Takes, SlotLeft, TypeOK
  <2>2. CallInv'
    BY <1>2, <1>5 DEF CallInv, TypeOK
  <2>3. RowInv'
    <3> SUFFICES ASSUME NEW m \in Month
                 PROVE  count'[m] = Cardinality(TakenIn(m)') \/ Dropped(m)'
      BY DEF RowInv
    <3>1. Dropped(m)' <=> Dropped(m)
      BY <1>2 DEF Dropped
    <3>2. CASE m = p
      BY <1>1, <1>3, <1>5, <2>1, <3>2, TakesKeeps DEF TypeOK
    <3>3. CASE m # p
      BY <1>1, <1>5, <2>1, <3>1, <3>3, TakesKeeps DEF TypeOK, RowInv
    <3> QED
      BY <3>2, <3>3
  <2> QED
    BY <1>4, <2>1, <2>2, <2>3, TakesKeeps
<1>6. CASE ~SlotLeft(i) /\ count' = count /\ wire' = [wire EXCEPT ![i] = "refused"]
  <2>1. NoSlotTaken
    BY <1>2, <1>6 DEF NoSlotTaken, TypeOK
  <2>2. CallInv'
    BY <1>2, <1>6 DEF CallInv, TypeOK
  <2>3. RowInv'
    BY <1>2, <1>6, <2>1, NoSlotTakenKeeps DEF RowInv, Dropped
  <2>4. Cardinality(TakenIn(p)) = Limit
    <3>1. count[p] \in 0..Limit /\ ~(count[p] < Limit)
      BY <1>1, <1>6 DEF TypeOK, SlotLeft
    <3> QED
      BY <1>3, <3>1, QuotaAssumption
  <2>5. RefusedInv'
    BY <1>1, <1>2, <1>6, <2>1, <2>4, NoSlotTakenKeeps DEF RefusedInv, TypeOK
  <2> QED
    BY <1>4, <2>1, <2>2, <2>3, <2>5, NoSlotTakenKeeps
<1> QED
  BY <1>5, <1>6 DEF StoreAcquire

LEMMA TtlDeleteKeeps ==
    ASSUME TypeOK, DynamoInv, NEW m \in Month, TtlDelete(m)
    PROVE  DynamoInv'
<1> USE DEF DynamoInv
<1>1. Dropped(m) /\ count' = [count EXCEPT ![m] = 0]
      /\ UNCHANGED <<now, month, monthStart, clockRead, period, wire, pc, answer, billed>>
  BY DEF TtlDelete, Dropped, clockVars
<1>2. NoSlotTaken
  BY <1>1 DEF NoSlotTaken
<1>3. RowInv'
  BY <1>1, <1>2, NoSlotTakenKeeps DEF RowInv, Dropped, TypeOK
<1>4. ClockInv' /\ CallInv'
  BY <1>1 DEF ClockInv, CallInv, Running
<1>5. RefusedInv'
  BY <1>1, <1>2, NoSlotTakenKeeps DEF RefusedInv
<1> QED
  BY <1>2, <1>3, <1>4, <1>5, NoSlotTakenKeeps
-----------------------------------------------------------------------------
(* The clock and the limiter in memory. *)

LEMMA ClockKeeps ==
    ASSUME TypeOK, ClockInv, CallInv, SlotInv, RefusedInv, SeatInv, Tick \/ NewMonth
    PROVE  /\ ClockInv' /\ CallInv' /\ SlotInv' /\ RefusedInv' /\ SeatInv'
           /\ RowInv => RowInv'
           /\ memoryVars' = memoryVars /\ MemoryInv => MemoryInv'
<1> USE QuotaAssumption
<1>1. UNCHANGED <<count, clockRead, period, wire, pc, answer, billed>>
  BY DEF Tick, NewMonth
<1>2. NoSlotTaken
  BY <1>1 DEF NoSlotTaken
<1>3. /\ month \in Nat /\ now \in Nat /\ month' \in Nat /\ now' \in Nat
      /\ month <= MaxMonth /\ month <= month' /\ now <= now'
  BY DEF Tick, NewMonth, TypeOK, Month
<1>4. ASSUME NEW m \in Month, m < month
      PROVE  /\ m \in Nat /\ m + 1 \in Month /\ monthStart[m + 1] \in Nat
             /\ monthStart'[m + 1] = monthStart[m + 1]
  <2>1. m \in Nat /\ m + 1 \in Month /\ m + 1 # month + 1
    BY <1>3, <1>4 DEF Month
  <2> QED
    BY <2>1 DEF Tick, NewMonth, TypeOK
<1>5. ClockInv'
  <2>1. CASE Tick
    BY <1>1, <1>3, <2>1 DEF Tick, ClockInv, Running, TypeOK
  <2>2. CASE NewMonth
    <3>1. /\ now' = now /\ month' = month + 1 /\ month + 1 \in Month
          /\ monthStart' = [monthStart EXCEPT ![month + 1] = now]
      BY <1>3, <2>2 DEF NewMonth, Month
    <3>2. \A m \in Month : monthStart'[m] <= now'
      BY <1>3, <3>1 DEF ClockInv, TypeOK
    <3>3. \A i \in Invocation : Running(i)' => now' <= clockRead'[i] + LambdaTimeout
      BY <1>1, <3>1 DEF ClockInv, Running
    <3>4. ASSUME NEW i \in Invocation, pc'[i] # "idle"
          PROVE  /\ clockRead'[i] <= now' /\ period'[i] <= month'
                 /\ period'[i] < month' => clockRead'[i] <= monthStart'[period'[i] + 1]
      <4>1. clockRead[i] <= now /\ period[i] <= month /\ period[i] \in Month
        BY <1>1, <3>4 DEF ClockInv, TypeOK
      <4>2. CASE period[i] < month
        <5>1. clockRead[i] <= monthStart[period[i] + 1] /\ period[i] < month'
          BY <1>1, <1>3, <3>1, <3>4, <4>1, <4>2 DEF ClockInv, Month
        <5>2. monthStart'[period[i] + 1] = monthStart[period[i] + 1]
          BY <1>4, <4>1, <4>2
        <5>3. /\ clockRead'[i] = clockRead[i] /\ period'[i] = period[i]
              /\ period[i] \in Nat
          BY <1>1, <4>1 DEF Month
        <5> QED
          BY <1>3, <3>1, <4>1, <5>1, <5>2, <5>3
      <4>3. CASE period[i] = month
        BY <1>1, <1>3, <3>1, <4>1, <4>3 DEF TypeOK
      <4> QED
        BY <1>3, <4>1, <4>2, <4>3 DEF Month
    <3> QED
      BY <3>2, <3>3, <3>4 DEF ClockInv
  <2> QED
    BY <2>1, <2>2
<1>6. CallInv' /\ RefusedInv'
  BY <1>1, <1>2, NoSlotTakenKeeps DEF CallInv, RefusedInv
<1>7. ASSUME RowInv
      PROVE  RowInv'
  <2>1. ASSUME NEW m \in Month, Dropped(m)
        PROVE  Dropped(m)'
    <3>1. m < month /\ now >= monthStart[m + 1] + TtlLag
      BY <2>1 DEF Dropped
    <3>2. /\ m \in Nat /\ monthStart[m + 1] \in Nat
          /\ monthStart'[m + 1] = monthStart[m + 1]
      BY <1>4, <3>1
    <3>3. m < month' /\ now' >= monthStart[m + 1] + TtlLag
      BY <1>3, <3>1, <3>2
    <3> QED
      BY <3>2, <3>3 DEF Dropped
  <2> QED
    BY <1>1, <1>2, <1>7, <2>1, NoSlotTakenKeeps DEF RowInv
<1>8. ASSUME memoryVars' = memoryVars, MemoryInv
      PROVE  MemoryInv'
  <2>1. memory_period' = memory_period /\ memory_count' = memory_count
    BY <1>8 DEF memoryVars
  <2>2. Taken' = Taken /\ \A i \in Taken : period'[i] = period[i]
    BY <1>1 DEF Taken
  <2>3. memory_period \in Month => memory_period <= month'
    BY <1>3, <1>8 DEF MemoryInv, Month
  <2>4. memory_period \in Month =>
          Cardinality(TakenIn(memory_period))' = Cardinality(TakenIn(memory_period))
    BY <2>1, <1>1 DEF TakenIn
  <2> QED
    BY <1>8, <2>1, <2>2, <2>3, <2>4 DEF MemoryInv
<1> QED
  BY <1>2, <1>5, <1>6, <1>7, <1>8, NoSlotTakenKeeps

LEMMA AcquireInMemoryKeeps ==
    ASSUME TypeOK, ClockInv, CallInv, MemoryInv, SlotInv, RefusedInv, SeatInv,
           memory_period \in Nat, memory_count \in Nat,
           NEW i \in Invocation, AcquireInMemory(i)
    PROVE  ClockInv' /\ CallInv' /\ MemoryInv' /\ SlotInv' /\ RefusedInv' /\ SeatInv'
<1> USE QuotaAssumption
<1>1. PICK p \in Month : p = month
  BY DEF TypeOK
<1>2. /\ pc[i] = "idle" /\ wire[i] = "none" /\ billed[i] = {} /\ answer[i] = "none"
      /\ clockRead' = [clockRead EXCEPT ![i] = now]
      /\ period' = [period EXCEPT ![i] = p] /\ pc' = [pc EXCEPT ![i] = "done"]
      /\ memory_period' = p
      /\ UNCHANGED <<now, month, monthStart>>
  BY <1>1 DEF AcquireInMemory, CallInv, clockVars
<1>3. ClockInv'
  BY <1>1, <1>2, ReadsClockKeeps
<1>4. Counted = Cardinality(TakenIn(p))
  <2>1. CASE memory_period = p
    BY <1>1, <2>1 DEF Counted, MemoryInv
  <2>2. CASE memory_period # p
    <3>1. \A j \in Taken : period[j] # p
      BY <1>1, <2>2 DEF MemoryInv, Taken, TypeOK, Month
    <3>2. TakenIn(p) = {}
      BY <3>1 DEF Taken, TakenIn
    <3> QED
      BY <1>1, <2>2, <3>2, FS_EmptySet DEF Counted
  <2> QED
    BY <2>1, <2>2
<1>5. \A j \in Taken : j # i /\ period[j] <= p
  BY <1>1, <1>2 DEF ClockInv, CallInv, Taken
<1>6. CASE /\ Counted < Limit /\ memory_count' = Counted + 1
           /\ wire' = [wire EXCEPT ![i] = "applied"]
           /\ answer' = [answer EXCEPT ![i] = "acquired"]
           /\ \A j \in Invocation \ {i} : billed'[j] = billed[j]
  <2>1. Takes(i, p) /\ Cardinality(TakenIn(p)) < Limit
    BY <1>2, <1>4, <1>6 DEF Takes, TypeOK
  <2>2. CallInv'
    BY <1>2, <1>6 DEF CallInv, TypeOK
  <2>3. Taken' = Taken \cup {i} /\ memory_count' = Cardinality(TakenIn(p))'
    BY <1>4, <1>6, <2>1, TakesKeeps
  <2>4. \A j \in Taken' : memory_period' \in Month /\ period'[j] <= memory_period'
    BY <1>1, <1>2, <1>5, <2>3 DEF Taken, TypeOK, Month
  <2>5. memory_count' = Cardinality(TakenIn(memory_period))'
    BY <1>2, <2>3 DEF TakenIn
  <2>6. MemoryInv'
    BY <1>1, <1>2, <2>4, <2>5 DEF MemoryInv, Month
  <2> QED
    BY <1>3, <2>1, <2>2, <2>6, TakesKeeps
<1>7. CASE /\ Counted >= Limit /\ memory_count' = Counted
           /\ wire' = [wire EXCEPT ![i] = "refused"]
           /\ answer' = [answer EXCEPT ![i] = "cost_monthly_limit_exceeded"]
           /\ billed' = billed
  <2>1. NoSlotTaken
    BY <1>2, <1>7 DEF NoSlotTaken, TypeOK
  <2>2. CallInv'
    BY <1>2, <1>7 DEF CallInv, TypeOK
  <2>3. Taken' = Taken /\ TakenIn(p)' = TakenIn(p)
    BY <2>1, NoSlotTakenKeeps
  <2>4. \A j \in Taken' : memory_period' \in Month /\ period'[j] <= memory_period'
    BY <1>1, <1>2, <1>5, <2>3 DEF Taken, TypeOK, Month
  <2>5. memory_count' = Cardinality(TakenIn(memory_period))'
    BY <1>2, <1>4, <1>7, <2>3 DEF TakenIn
  <2>6. MemoryInv'
    BY <1>1, <1>2, <2>4, <2>5 DEF MemoryInv, Month
  <2>7. Cardinality(TakenIn(p)) = Limit
    <3>1. Cardinality(TakenIn(p)) \in Nat /\ Cardinality(TakenIn(p)) <= Limit
      BY FS_CardinalityType DEF SlotInv
    <3> QED
      BY <1>4, <1>7, <3>1
  <2>8. RefusedInv'
    BY <1>2, <1>7, <2>1, <2>7, NoSlotTakenKeeps DEF RefusedInv, TypeOK
  <2> QED
    BY <1>3, <2>1, <2>2, <2>6, <2>8, NoSlotTakenKeeps
<1> QED
  BY <1>6, <1>7 DEF AcquireInMemory, TypeOK

LEMMA StepKeeps ==
    ASSUME Inv, [LimiterNext]_<<vars, limiter, memoryVars>>
    PROVE  Inv'
<1>0. LimiterTypeOK /\ LimiterTypeOK' /\ TypeOK
  BY TypeStep DEF Inv, LimiterTypeOK
<1>1. CASE limiter = "dynamodb" /\ limiter' = limiter /\ Next
  <2>0. DynamoInv
    BY <1>1 DEF Inv, DynamoInv
  <2>1. ASSUME NEW i \in Invocation, InvocationStep(i)
        PROVE  DynamoInv'
    BY <1>0, <2>0, <2>1, AcquireKeeps, StoreAcquireKeeps, QuietKeeps DEF InvocationStep
  <2>2. ASSUME NEW m \in Month, TtlDelete(m)
        PROVE  DynamoInv'
    BY <1>0, <2>0, <2>2, TtlDeleteKeeps
  <2>3. ASSUME Tick \/ NewMonth
        PROVE  DynamoInv'
    BY <1>0, <2>0, <2>3, ClockKeeps DEF DynamoInv
  <2>4. DynamoInv'
    BY <1>1, <2>1, <2>2, <2>3 DEF Next
  <2> QED
    BY <1>0, <1>1, <2>4 DEF Inv, DynamoInv
<1>2. CASE limiter = "memory" /\ limiter' = limiter
           /\ \E i \in Invocation : AcquireInMemory(i)
  BY <1>0, <1>2, AcquireInMemoryKeeps DEF Inv, LimiterTypeOK
<1>3. CASE limiter = "memory" /\ limiter' = limiter
           /\ (Tick \/ NewMonth) /\ UNCHANGED memoryVars
  BY <1>0, <1>3, ClockKeeps DEF Inv
<1>4. CASE UNCHANGED <<vars, limiter, memoryVars>>
  <2>1. NoSlotTaken
    BY <1>4 DEF vars, NoSlotTaken
  <2>2. SlotInv' /\ SeatInv' /\ Taken' = Taken /\ \A m : TakenIn(m)' = TakenIn(m)
    BY <2>1, NoSlotTakenKeeps DEF Inv
  <2>3. ClockInv' /\ CallInv' /\ (RowInv <=> RowInv') /\ RefusedInv'
    BY <1>4, <2>2 DEF vars, Inv, ClockInv, CallInv, RowInv, RefusedInv, Running, Dropped
  <2>4. MemoryInv <=> MemoryInv'
    BY <1>4 DEF vars, memoryVars, MemoryInv, Taken, TakenIn
  <2> QED
    BY <1>0, <1>4, <2>2, <2>3, <2>4 DEF Inv
<1> QED
  BY <1>1, <1>2, <1>3, <1>4 DEF LimiterNext
-----------------------------------------------------------------------------
LEMMA Invariance == LimiterSpec => []Inv
<1> QED
  BY InitHolds, StepKeeps, PTL DEF LimiterSpec

(***************************************************************************)
(* Type correctness of both limiters.                                      *)
(***************************************************************************)
THEOREM TypeCorrect == LimiterSpec => []TypeOK
<1>1. Inv => TypeOK
  BY DEF Inv, LimiterTypeOK
<1> QED
  BY <1>1, Invariance, PTL

(***************************************************************************)
(* No month gives out more than Limit slots, whatever TTL drops and        *)
(* however late an increment is applied.                                   *)
(***************************************************************************)
THEOREM SlotsBounded == LimiterSpec => []SlotsWithinLimit
<1>1. Inv => SlotsWithinLimit
  BY DEF Inv, SlotInv, SlotsWithinLimit
<1> QED
  BY <1>1, Invariance, PTL

(***************************************************************************)
(* A caller is only told that the quota is exhausted when it is.           *)
(***************************************************************************)
THEOREM ExceededTruthful == LimiterSpec => []ExceededIsTrue
<1>1. Inv => ExceededIsTrue
  <2> SUFFICES ASSUME Inv, NEW i \in Invocation,
                      answer[i] = "cost_monthly_limit_exceeded"
               PROVE  Cardinality(TakenIn(period[i])) = Limit
    BY DEF ExceededIsTrue
  <2>1. PICK m \in Month : m = period[i]
    BY DEF Inv, LimiterTypeOK, TypeOK
  <2> QED
    BY <2>1 DEF Inv, CallInv, RefusedInv
<1> QED
  BY <1>1, Invariance, PTL

(***************************************************************************)
(* The slots of all months together are no more than Limit for each month  *)
(* so far: an invocation is mapped to its month and the number of its slot *)
(* in that month, and no two are mapped to the same pair.                  *)
(***************************************************************************)
LEMMA AllSlots ==
    ASSUME Inv
    PROVE  IsFiniteSet(Taken) /\ Cardinality(Taken) <= Limit * (month + 1)
<1> DEFINE Seats == (0..month) \X (1..Limit)
<1>1. month \in Nat /\ Limit \in Nat
  BY QuotaAssumption DEF Inv, LimiterTypeOK, TypeOK, Month
<1>2. IsFiniteSet(0..month) /\ Cardinality(0..month) = month + 1
  BY <1>1, FS_Interval
<1>3. IsFiniteSet(1..Limit) /\ Cardinality(1..Limit) = Limit
  BY <1>1, FS_Interval, QuotaAssumption
<1>4. IsFiniteSet(Seats) /\ Cardinality(Seats) = Cardinality(0..month) * Cardinality(1..Limit)
  BY <1>2, <1>3, FS_Product
<1>5. PICK seat \in [Invocation -> Nat] : Seating(seat)
  BY DEF Inv, SeatInv
<1>6. \A i \in Taken :
        /\ i \in TakenIn(period[i]) /\ period[i] \in Month /\ period[i] \in 0..month
        /\ seat[i] \in 1..Limit
  <2> SUFFICES ASSUME NEW i \in Taken
               PROVE  /\ i \in TakenIn(period[i]) /\ period[i] \in Month
                      /\ period[i] \in 0..month /\ seat[i] \in 1..Limit
    OBVIOUS
  <2>1. period[i] \in Month /\ i \in TakenIn(period[i])
    BY DEF Taken, TakenIn, Inv, LimiterTypeOK, TypeOK
  <2>2. period[i] \in 0..month
    BY <1>1, <2>1 DEF Inv, ClockInv, CallInv, Taken, Month
  <2>3. /\ seat[i] \in 1..Cardinality(TakenIn(period[i]))
        /\ Cardinality(TakenIn(period[i])) \in Nat
        /\ Cardinality(TakenIn(period[i])) <= Limit
    BY <1>5, <2>1, FS_CardinalityType DEF Seating, Inv, SlotInv
  <2> QED
    BY <1>1, <2>1, <2>2, <2>3
<1> DEFINE place == [i \in Taken |-> <<period[i], seat[i]>>]
<1>7. place \in [Taken -> Seats]
  BY <1>6
<1>8. \A i, j \in Taken : place[i] = place[j] => i = j
  BY <1>5, <1>6 DEF Seating
<1>9. place \in Injection(Taken, Seats)
  BY <1>7, <1>8, Fun_IsInj
<1>10. IsFiniteSet(Taken) /\ Cardinality(Taken) <= Cardinality(Seats)
  BY <1>4, <1>9, FS_Injection
<1>11. Cardinality(Seats) = Limit * (month + 1)
  BY <1>1, <1>2, <1>3, <1>4
<1> QED
  BY <1>10, <1>11

(***************************************************************************)
(* By the end of any month at most Limit requests per month so far were    *)
(* sent.                                                                   *)
(***************************************************************************)
THEOREM SpendingBounded == LimiterSpec => []SpendBounded
<1>1. ASSUME Inv
      PROVE  SpendBounded
  <2>1. IsFiniteSet(Taken) /\ Cardinality(Taken) <= Limit * (month + 1)
    BY <1>1, AllSlots
  <2>2. Billed \subseteq Taken
    BY <1>1 DEF Inv, CallInv, Billed, Taken
  <2>3. /\ Cardinality(Billed) <= Cardinality(Taken)
        /\ Cardinality(Billed) \in Nat /\ Cardinality(Taken) \in Nat
    BY <2>1, <2>2, FS_Subset, FS_CardinalityType
  <2>4. Limit * (month + 1) \in Nat
    BY <1>1, QuotaAssumption DEF Inv, LimiterTypeOK, TypeOK, Month
  <2> QED
    BY <2>1, <2>3, <2>4 DEF SpendBounded
<1> QED
  BY <1>1, Invariance, PTL

(***************************************************************************)
(* A request is sent in the month its slot belongs to, or at most          *)
(* LambdaTimeout after that month ended.                                   *)
(***************************************************************************)
THEOREM BilledInTime == LimiterSpec => BilledNearItsMonth
<1>1. ASSUME Inv, [LimiterNext]_<<vars, limiter, memoryVars>>,
             NEW i \in Invocation, billed'[i] # billed[i], period'[i] < month
      PROVE  now <= monthStart[period'[i] + 1] + LambdaTimeout
  <2>1. pc[i] = "holding" /\ period'[i] = period[i]
    <3>1. ASSUME NEW j \in Invocation, AcquireInMemory(j)
          PROVE  FALSE
      <4>1. j = i
        <5>1. billed' = billed \/ billed' = [billed EXCEPT ![j] = {month}]
          BY <3>1 DEF AcquireInMemory
        <5> QED
          BY <1>1, <5>1 DEF Inv, LimiterTypeOK, TypeOK
      <4>2. period'[i] = month /\ month \in Nat
        <5>1. period' = [period EXCEPT ![i] = month]
          BY <3>1, <4>1 DEF AcquireInMemory
        <5>2. period \in [Invocation -> Month] /\ month \in Month
          BY <1>1 DEF Inv, LimiterTypeOK, TypeOK
        <5> QED
          BY <5>1, <5>2, QuotaAssumption DEF Month
      <4> QED
        BY <1>1, <4>2
    <3>2. \E j \in Invocation : SendCostQuery(j)
      BY <1>1, <3>1 DEF LimiterNext, Next, InvocationStep, Acquire, StoreAcquire, StoreFails,
         Receive, GiveUp, Lose, TtlDelete, Tick, NewMonth, vars
    <3> QED
      BY <1>1, <3>2 DEF SendCostQuery, Inv, LimiterTypeOK, TypeOK
  <2>2. /\ period[i] \in Month /\ period[i] \in Nat /\ month \in Nat /\ month <= MaxMonth
        /\ now \in Nat /\ clockRead[i] \in Nat
    BY <1>1 DEF Inv, LimiterTypeOK, TypeOK, Month
  <2>3. period[i] < month /\ period[i] + 1 \in Month
    BY <1>1, <2>1, <2>2, QuotaAssumption DEF Month
  <2>4. /\ clockRead[i] <= monthStart[period[i] + 1]
        /\ now <= clockRead[i] + LambdaTimeout
        /\ monthStart[period[i] + 1] \in Nat
    BY <1>1, <2>1, <2>3 DEF Inv, ClockInv, Running, LimiterTypeOK, TypeOK
  <2> QED
    BY <2>1, <2>2, <2>4, QuotaAssumption
<1>2. Inv /\ [LimiterNext]_<<vars, limiter, memoryVars>> =>
        [\A i \in Invocation : billed'[i] # billed[i] /\ period'[i] < month =>
            now <= monthStart[period'[i] + 1] + LambdaTimeout]_vars
  BY <1>1
<1> QED
  BY <1>2, Invariance, PTL DEF LimiterSpec, BilledNearItsMonth
-----------------------------------------------------------------------------
(* What holds of the attempts in one calendar month. *)

MonthsInv ==
    \A m \in Month : m < month => monthStart[m] + MonthLength <= monthStart[m + 1]

BilledInv ==
    \A i \in Invocation : \A m \in billed[i] : m = period[i] \/ m = period[i] + 1

AtMostTwiceTheLimit == \A m \in Month : Cardinality(BilledIn(m)) <= 2 * Limit

LEMMA BilledStep ==
    ASSUME LambdaTimeout < MonthLength,
           Inv, MonthsInv, BilledInv, [LimiterNext]_<<vars, limiter, memoryVars>>
    PROVE  MonthsInv' /\ BilledInv'
<1> USE QuotaAssumption
<1>1. TypeOK /\ month \in Nat /\ month <= MaxMonth /\ now \in Nat
  BY DEF Inv, LimiterTypeOK, TypeOK, Month
<1>2. CASE NewMonth
  <2>1. UNCHANGED <<period, billed>>
    BY <1>2 DEF NewMonth
  <2>2. /\ month' = month + 1 /\ month + 1 \in Month
        /\ now >= monthStart[month] + MonthLength
        /\ monthStart' = [monthStart EXCEPT ![month + 1] = now]
    BY <1>1, <1>2 DEF NewMonth, Month
  <2>3. ASSUME NEW m \in Month, m < month'
        PROVE  monthStart'[m] + MonthLength <= monthStart'[m + 1]
    <3>1. m \in Nat /\ m # month + 1 /\ m <= month /\ m + 1 \in Month
      BY <1>1, <2>2, <2>3 DEF Month
    <3>2. monthStart'[m] = monthStart[m]
      BY <1>1, <2>2, <3>1 DEF TypeOK
    <3>3. CASE m = month
      BY <1>1, <2>2, <3>2, <3>3 DEF TypeOK
    <3>4. CASE m < month
      BY <1>1, <2>2, <3>1, <3>2, <3>4 DEF TypeOK, MonthsInv
    <3> QED
      BY <1>1, <3>1, <3>3, <3>4
  <2> QED
    BY <2>1, <2>3 DEF MonthsInv, BilledInv
<1>3. ASSUME NEW i \in Invocation, SendCostQuery(i)
      PROVE  MonthsInv' /\ BilledInv'
  <2>1. /\ UNCHANGED <<month, monthStart, period>>
        /\ billed' = [billed EXCEPT ![i] = @ \cup {month}]
    BY <1>3 DEF SendCostQuery, clockVars
  <2>2. month = period[i] \/ month = period[i] + 1
    <3> SUFFICES ASSUME period[i] + 1 < month
                 PROVE  FALSE
      <4>1. period[i] \in Nat /\ period[i] <= month
        BY <1>1, <1>3 DEF SendCostQuery, Inv, ClockInv, TypeOK, Month
      <4> QED
        BY <1>1, <4>1
    <3>1. /\ period[i] \in Nat /\ period[i] + 1 \in Month /\ period[i] + 1 + 1 \in Month
          /\ clockRead[i] \in Nat
      <4>1. period[i] \in Nat /\ clockRead[i] \in Nat
        BY <1>1 DEF TypeOK, Month
      <4> QED
        BY <1>1, <4>1 DEF Month
    <3>2. /\ clockRead[i] <= monthStart[period[i] + 1]
          /\ now <= clockRead[i] + LambdaTimeout
          /\ monthStart[period[i] + 1 + 1] <= now
      BY <1>1, <1>3, <3>1 DEF SendCostQuery, Running, Inv, ClockInv
    <3>3. monthStart[period[i] + 1] + MonthLength <= monthStart[period[i] + 1 + 1]
      BY <3>1 DEF MonthsInv
    <3>4. monthStart[period[i] + 1] \in Nat /\ monthStart[period[i] + 1 + 1] \in Nat
      BY <1>1, <3>1 DEF TypeOK
    <3> QED
      BY <1>1, <3>1, <3>2, <3>3, <3>4
  <2> QED
    BY <1>1, <2>1, <2>2 DEF MonthsInv, BilledInv, TypeOK
<1>4. ASSUME NEW i \in Invocation, Acquire(i) \/ AcquireInMemory(i)
      PROVE  MonthsInv' /\ BilledInv'
  <2>1. UNCHANGED <<month, monthStart>> /\ billed[i] = {} /\ period'[i] = month
    BY <1>1, <1>4 DEF Acquire, AcquireInMemory, clockVars, Inv, CallInv, TypeOK
  <2>2. /\ \A j \in Invocation \ {i} : period'[j] = period[j] /\ billed'[j] = billed[j]
        /\ billed'[i] \in {{}, {month}}
    BY <1>1, <1>4, <2>1 DEF Acquire, AcquireInMemory, TypeOK
  <2> QED
    BY <2>1, <2>2 DEF MonthsInv, BilledInv
<1>5. CASE UNCHANGED <<month, monthStart, period, billed>>
  BY <1>5 DEF MonthsInv, BilledInv
<1> QED
  BY <1>2, <1>3, <1>4, <1>5 DEF LimiterNext, Next, InvocationStep, StoreAcquire, StoreFails,
     Receive, GiveUp, Lose, TtlDelete, Tick, clockVars, vars

(***************************************************************************)
(* A calendar month sees at most twice its limit of requests (README.md    *)
(* says once; see AttemptsPerMonth): its own, and those of the month       *)
(* before that were sent late.  The hypothesis is that a month is longer   *)
(* than an invocation.                                                     *)
(***************************************************************************)
THEOREM AttemptsBounded ==
    ASSUME LambdaTimeout < MonthLength
    PROVE  LimiterSpec => []AtMostTwiceTheLimit
<1>1. LimiterInit => MonthsInv /\ BilledInv
  BY DEF LimiterInit, Init, MonthsInv, BilledInv, Month
<1>2. LimiterSpec => [](Inv /\ MonthsInv /\ BilledInv)
  BY <1>1, BilledStep, Invariance, PTL DEF LimiterSpec
<1>3. ASSUME Inv, BilledInv
      PROVE  AtMostTwiceTheLimit
  <2> SUFFICES ASSUME NEW m \in Month
               PROVE  Cardinality(BilledIn(m)) <= 2 * Limit
    BY DEF AtMostTwiceTheLimit
  <2>1. m \in Nat
    BY QuotaAssumption DEF Month
  <2>2. PICK l \in Month : BilledIn(m) \subseteq TakenIn(m) \cup TakenIn(l)
    <3> DEFINE l == IF m = 0 THEN m ELSE m - 1
    <3>1. l \in Month
      BY <2>1, QuotaAssumption DEF Month
    <3>2. BilledIn(m) \subseteq TakenIn(m) \cup TakenIn(l)
      <4> SUFFICES ASSUME NEW i \in Invocation, m \in billed[i]
                   PROVE  wire[i] = "applied" /\ period[i] \in {m, l}
        BY DEF BilledIn, TakenIn
      <4>1. wire[i] = "applied" /\ period[i] \in Nat
        BY <1>3 DEF Inv, CallInv, LimiterTypeOK, TypeOK, Month
      <4> QED
        BY <1>3, <2>1, <4>1 DEF BilledInv
    <3> QED
      BY <3>1, <3>2
  <2>3. /\ IsFiniteSet(TakenIn(m)) /\ Cardinality(TakenIn(m)) <= Limit
        /\ IsFiniteSet(TakenIn(l)) /\ Cardinality(TakenIn(l)) <= Limit
    BY <1>3 DEF Inv, SlotInv
  <2>4. /\ IsFiniteSet(TakenIn(m) \cup TakenIn(l))
        /\ Cardinality(TakenIn(m) \cup TakenIn(l)) =
              Cardinality(TakenIn(m)) + Cardinality(TakenIn(l))
                - Cardinality(TakenIn(m) \cap TakenIn(l))
    BY <2>3, FS_Union
  <2>5. /\ Cardinality(TakenIn(m)) \in Nat /\ Cardinality(TakenIn(l)) \in Nat
        /\ Cardinality(TakenIn(m) \cap TakenIn(l)) \in Nat
    BY <2>3, FS_Intersection, FS_CardinalityType
  <2>6. /\ Cardinality(BilledIn(m)) <= Cardinality(TakenIn(m) \cup TakenIn(l))
        /\ Cardinality(BilledIn(m)) \in Nat
    BY <2>2, <2>4, FS_Subset, FS_CardinalityType
  <2> QED
    BY <2>3, <2>4, <2>5, <2>6, QuotaAssumption
<1> QED
  BY <1>2, <1>3, PTL
=============================================================================
