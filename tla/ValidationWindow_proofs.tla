----------------------- MODULE ValidationWindow_proofs -----------------------
(***************************************************************************)
(* Proofs about the development window, for any number of scripts of each  *)
(* kind, any window, and any number of repeats and of failing calls.       *)
(***************************************************************************)
EXTENDS ValidationWindow, FiniteSetTheorems, SequenceTheorems, TLAPS

\* What a script observes in the steps q it has left.  Each part also holds of
\* what is left after a step.

WellFormed(q) ==
    \A i \in DOMAIN q :
        /\ q[i].do = "close" => q[i].what \in Thing
        /\ q[i].do = "list" => q[i].what = "schedules"
        /\ q[i].do = "read" => q[i].what = "clock"

Enables(step, x) == step.do \in {"arm", "enable"} /\ step.what = x
Ends(step, s) == step \in {Do("delete", s), Do("list", "schedules")}

\* The clock is read and the schedule created once, in this order.
ArmsOnce(q) ==
    \A i, j \in DOMAIN q : i < j /\ q[i] = Do("arm", "schedule") =>
        q[j] \notin {Do("read", "clock"), Do("arm", "schedule")}

\* Once schedules of others are being removed nothing is closed any more.
EndsOthers(step, s) == step.do \in {"list", "delete"} /\ step # Do("delete", s)

ClosesFirst(s, q) ==
    \A i, j \in DOMAIN q : i < j /\ EndsOthers(q[i], s) => q[j].do # "close"

\* What is turned on is closed before the schedule is removed.
ClosesBetween(s, q) ==
    \A i, j \in DOMAIN q : \A x \in Thing :
        i < j /\ Enables(q[i], x) /\ Ends(q[j], s) =>
            \E m \in DOMAIN q : i < m /\ m < j /\ q[m] = Do("close", x)

\* A validation closes what it turns on, and removes its schedule.
CleansUp(s, q) ==
    \A i \in DOMAIN q :
        /\ \A x \in Thing : Enables(q[i], x) =>
              \E j \in DOMAIN q : i < j /\ q[j] = Do("close", x)
        /\ q[i] = Do("arm", "schedule") => \E j \in DOMAIN q : i < j /\ Ends(q[j], s)

\* The direct validation has nothing to do with the alarm, and what is left of
\* it when a call fails removes its schedule.
LeavesAlarm(s, q) ==
    \A i \in DOMAIN q :
        /\ \A x \in Thing : Enables(q[i], x) => x = "lambda"
        /\ q[i] # Do("close", "alarm")
        /\ q[i].do \in {"enable", "call"} =>
              \E j \in DOMAIN q : i < j /\ q[j] = Do("delete", s)

Orderly(s, q) ==
    /\ WellFormed(q) /\ ArmsOnce(q) /\ ClosesFirst(s, q) /\ ClosesBetween(s, q)
    /\ s \in Inspector \cup Direct => CleansUp(s, q)
    /\ s \in Direct => LeavesAlarm(s, q)

\* The steps q remove the schedule of s with no closing of x before it.
Threat(q, s, x) ==
    \E i \in DOMAIN q :
        /\ Ends(q[i], s)
        /\ \A j \in DOMAIN q : j < i => q[j] # Do("close", x)

ScriptInv == \A s \in Script : Orderly(s, todo[s])

\* A shutdown run only closes.
RunInv ==
    \A t \in Trigger : \A i \in DOMAIN run[t].todo :
        run[t].todo[i].do = "close" /\ run[t].todo[i].what \in Thing

\* The deadline is computed from the clock, before the schedule is created.
ArmsNow(q) ==
    \E i \in DOMAIN q : /\ q[i] = Do("arm", "schedule")
                        /\ \A j \in DOMAIN q : j < i => q[j] # Do("read", "clock")

Arms(q) == \E i \in DOMAIN q : q[i] \in {Do("read", "clock"), Do("arm", "schedule")}

ScheduleInv ==
    \A s \in Script :
        /\ closeAt[s] <= now + Window
        /\ Arms(todo[s]) => schedule[s] = "none"
        /\ ArmsNow(todo[s]) => closeAt[s] > 0

\* A schedule that nobody removes before closing x fires in time.
Kept(s, x) ==
    /\ schedule[s] = "pending"
    /\ \A k \in Script : ~Threat(todo[k], s, x)
    /\ closeAt[s] <= openSince[x] + Window

Guarded(x) ==
    \/ \E s \in Script : Kept(s, x)
    \/ \E t \in Trigger : Left(run[t].todo, "close", x)
    \/ x \in delayed /\ \E t \in Trigger : WillRetry(t)

GapInv == \A x \in Thing : up[x] # "off" /\ ~Unwatched(x) => Guarded(x)

\* A validation that has nothing to report still has to undo what it did.
Accounts(s) ==
    s \notin failed =>
        /\ schedule[s] = "pending" => \E i \in DOMAIN todo[s] : Ends(todo[s][i], s)
        /\ \A x \in Thing : s \in openedBy[x] => Left(todo[s], "close", x)

SuccessInv == \A s \in Inspector \cup Direct : Accounts(s)

Inv ==
    /\ TypeOK /\ ScriptInv /\ RunInv /\ ScheduleInv
    /\ GapInv /\ AtMostOneWindowLong /\ SuccessInv
-----------------------------------------------------------------------------
(* Sequences of steps. *)

LEMMA StepEquals ==
    ASSUME NEW c \in Step, NEW v, NEW w
    PROVE  c = Do(v, w) <=> c.do = v /\ c.what = w
BY DEF Step, Do

LEMMA InDomain ==
    ASSUME NEW q \in Seq(Step)
    PROVE  /\ Len(q) \in Nat /\ DOMAIN q = 1..Len(q)
           /\ \A i \in DOMAIN q : q[i] \in Step
BY LenProperties

LEMMA LeftIs ==
    ASSUME NEW q \in Seq(Step), NEW v, NEW w
    PROVE  Left(q, v, w) <=> \E i \in DOMAIN q : q[i] = Do(v, w)
BY InDomain DEF Left, Contains

LEMMA AfterHead ==
    ASSUME NEW q \in Seq(Step), q # <<>>
    PROVE  /\ Tail(q) \in Seq(Step) /\ Head(q) = q[1] /\ Head(q) \in Step
           /\ 1 \in DOMAIN q
           /\ \A i \in DOMAIN Tail(q) :
                 i \in Nat /\ i + 1 \in DOMAIN q /\ i + 1 > 1 /\ Tail(q)[i] = q[i + 1]
           /\ \A i \in DOMAIN q :
                 /\ i \in Nat
                 /\ i # 1 => i > 1 /\ i - 1 \in DOMAIN Tail(q) /\ Tail(q)[i - 1] = q[i]
<1>1. Tail(q) \in Seq(Step) /\ Len(Tail(q)) = Len(q) - 1
  BY HeadTailProperties
<1>2. \A i \in 1..Len(Tail(q)) : Tail(q)[i] = q[i + 1]
  BY HeadTailProperties
<1>3. Len(q) \in Nat \ {0}
  BY EmptySeq
<1>4. DOMAIN q = 1..Len(q) /\ DOMAIN Tail(q) = 1..(Len(q) - 1)
  BY <1>1, InDomain
<1>5. Head(q) = q[1] /\ Head(q) \in Step
  BY HeadTailProperties
<1>. QED
  BY <1>1, <1>2, <1>3, <1>4, <1>5

LEMMA Joined ==
    ASSUME NEW p \in Seq(Step), NEW q \in Seq(Step)
    PROVE  /\ p \o q \in Seq(Step)
           /\ \A i \in DOMAIN (p \o q) :
                 \/ i \in DOMAIN p /\ (p \o q)[i] = p[i]
                 \/ /\ i - Len(p) \in DOMAIN q /\ (p \o q)[i] = q[i - Len(p)]
                    /\ i \notin DOMAIN p
           /\ \A i \in DOMAIN p : i \in DOMAIN (p \o q) /\ (p \o q)[i] = p[i]
           /\ \A i \in DOMAIN q :
                 /\ i + Len(p) \in DOMAIN (p \o q) /\ (p \o q)[i + Len(p)] = q[i]
                 /\ i + Len(p) \notin DOMAIN p
<1>1. /\ p \o q \in Seq(Step) /\ Len(p \o q) = Len(p) + Len(q)
      /\ \A i \in 1..(Len(p) + Len(q)) :
            (p \o q)[i] = IF i <= Len(p) THEN p[i] ELSE q[i - Len(p)]
  BY ConcatProperties
<1>2. DOMAIN p = 1..Len(p) /\ DOMAIN q = 1..Len(q) /\ Len(p) \in Nat /\ Len(q) \in Nat
  BY InDomain
<1>3. DOMAIN (p \o q) = 1..(Len(p) + Len(q))
  BY <1>1, InDomain
<1>. QED
  BY <1>1, <1>2, <1>3

\* The rest of an orderly script is orderly.
LEMMA OrderlyAfter ==
    ASSUME NEW s \in Script, NEW q \in Seq(Step), q # <<>>, Orderly(s, q)
    PROVE  Orderly(s, Tail(q))
<1>. DEFINE r == Tail(q)
<1>1. /\ \A i \in DOMAIN r : i \in Nat /\ i + 1 \in DOMAIN q /\ i + 1 > 1 /\ r[i] = q[i + 1]
      /\ \A i \in DOMAIN q :
            i \in Nat /\ (i # 1 => i > 1 /\ i - 1 \in DOMAIN r /\ r[i - 1] = q[i])
  BY AfterHead
<1>. HIDE DEF r
<1>2. WellFormed(r)
  BY <1>1 DEF Orderly, WellFormed
<1>3. ArmsOnce(r)
  BY <1>1 DEF Orderly, ArmsOnce
<1>4. ClosesFirst(s, r)
  BY <1>1 DEF Orderly, ClosesFirst
<1>5. ClosesBetween(s, r)
  <2>. SUFFICES ASSUME NEW i \in DOMAIN r, NEW j \in DOMAIN r, NEW x \in Thing,
                       i < j, Enables(r[i], x), Ends(r[j], s)
                PROVE  \E m \in DOMAIN r : i < m /\ m < j /\ r[m] = Do("close", x)
    BY DEF ClosesBetween
  <2>1. i \in Nat /\ j \in Nat /\ i + 1 < j + 1
    BY <1>1
  <2>2. PICK m \in DOMAIN q : i + 1 < m /\ m < j + 1 /\ q[m] = Do("close", x)
    BY <1>1, <2>1 DEF Orderly, ClosesBetween
  <2>3. m # 1 /\ m - 1 \in DOMAIN r /\ r[m - 1] = Do("close", x) /\ i < m - 1 /\ m - 1 < j
    BY <1>1, <2>1, <2>2
  <2>. QED
    BY <2>3
<1>6. CleansUp(s, q) => CleansUp(s, r)
  <2>. SUFFICES ASSUME CleansUp(s, q), NEW i \in DOMAIN r
                PROVE  /\ \A x \in Thing : Enables(r[i], x) =>
                             \E j \in DOMAIN r : i < j /\ r[j] = Do("close", x)
                       /\ r[i] = Do("arm", "schedule") =>
                             \E j \in DOMAIN r : i < j /\ Ends(r[j], s)
    BY DEF CleansUp
  <2>1. ASSUME NEW x \in Thing, Enables(r[i], x)
        PROVE  \E j \in DOMAIN r : i < j /\ r[j] = Do("close", x)
    <3>1. PICK j \in DOMAIN q : i + 1 < j /\ q[j] = Do("close", x)
      BY <1>1, <2>1 DEF CleansUp
    <3>. QED
      BY <1>1, <3>1
  <2>2. ASSUME r[i] = Do("arm", "schedule")
        PROVE  \E j \in DOMAIN r : i < j /\ Ends(r[j], s)
    <3>1. PICK j \in DOMAIN q : i + 1 < j /\ Ends(q[j], s)
      BY <1>1, <2>2 DEF CleansUp
    <3>. QED
      BY <1>1, <3>1
  <2>. QED
    BY <2>1, <2>2
<1>7. LeavesAlarm(s, q) => LeavesAlarm(s, r)
  <2>. SUFFICES ASSUME LeavesAlarm(s, q), NEW i \in DOMAIN r
                PROVE  /\ \A x \in Thing : Enables(r[i], x) => x = "lambda"
                       /\ r[i] # Do("close", "alarm")
                       /\ r[i].do \in {"enable", "call"} =>
                             \E j \in DOMAIN r : i < j /\ r[j] = Do("delete", s)
    BY DEF LeavesAlarm
  <2>1. /\ \A x \in Thing : Enables(r[i], x) => x = "lambda"
        /\ r[i] # Do("close", "alarm")
    BY <1>1 DEF LeavesAlarm
  <2>2. ASSUME r[i].do \in {"enable", "call"}
        PROVE  \E j \in DOMAIN r : i < j /\ r[j] = Do("delete", s)
    <3>1. PICK j \in DOMAIN q : i + 1 < j /\ q[j] = Do("delete", s)
      BY <1>1, <2>2 DEF LeavesAlarm
    <3>. QED
      BY <1>1, <3>1
  <2>. QED
    BY <2>1, <2>2
<1>. QED
  BY <1>2, <1>3, <1>4, <1>5, <1>6, <1>7 DEF Orderly, r

\* Steps that open nothing are orderly as soon as they close first.
LEMMA OrderlyClosing ==
    ASSUME NEW s \in Script, NEW q \in Seq(Step), WellFormed(q), ClosesFirst(s, q),
           \A i \in DOMAIN q : q[i].do \in {"find", "close", "list", "delete"},
           s \in Direct => \A i \in DOMAIN q : q[i] # Do("close", "alarm")
    PROVE  Orderly(s, q)
<1>1. \A i \in DOMAIN q : q[i] # Do("arm", "schedule") /\ \A x \in Thing : ~Enables(q[i], x)
  BY DEF Enables, Do
<1>. QED
  BY <1>1 DEF Orderly, ArmsOnce, ClosesBetween, CleansUp, LeavesAlarm

\* A script that opens before it closes.
LEMMA OrderlyOpening ==
    ASSUME NEW s \in Script, NEW p \in Seq(Step), NEW q \in Seq(Step),
           WellFormed(p), ArmsOnce(p),
           \A i \in DOMAIN p : p[i].do \notin {"find", "close", "list", "delete"},
           WellFormed(q), ClosesFirst(s, q),
           \A i \in DOMAIN q : q[i].do \in {"find", "close", "list", "delete"},
           \A i \in DOMAIN p, j \in DOMAIN q : \A x \in Thing :
              Enables(p[i], x) /\ Ends(q[j], s) =>
                 \E m \in DOMAIN q : m < j /\ q[m] = Do("close", x),
           s \in Inspector \cup Direct =>
              /\ \E j \in DOMAIN q : Ends(q[j], s)
              /\ \A i \in DOMAIN p : \A x \in Thing :
                    Enables(p[i], x) => \E j \in DOMAIN q : q[j] = Do("close", x),
           s \in Direct =>
              /\ \A i \in DOMAIN p : \A x \in Thing : Enables(p[i], x) => x = "lambda"
              /\ \A i \in DOMAIN q : q[i] # Do("close", "alarm")
              /\ \E j \in DOMAIN q : q[j] = Do("delete", s)
    PROVE  Orderly(s, p \o q)
<1>. DEFINE r == p \o q
            n == Len(p)
<1>1. /\ r \in Seq(Step)
      /\ \A i \in DOMAIN r :
            \/ i \in DOMAIN p /\ r[i] = p[i]
            \/ i - n \in DOMAIN q /\ r[i] = q[i - n] /\ i \notin DOMAIN p
      /\ \A i \in DOMAIN p : i \in DOMAIN r /\ r[i] = p[i]
      /\ \A i \in DOMAIN q : i + n \in DOMAIN r /\ r[i + n] = q[i] /\ i + n \notin DOMAIN p
  BY Joined
<1>2. /\ n \in Nat /\ DOMAIN p = 1..n /\ DOMAIN q = 1..Len(q) /\ DOMAIN r = 1..Len(r)
      /\ Len(q) \in Nat /\ Len(r) \in Nat
  BY <1>1, InDomain
<1>. HIDE DEF r, n
<1>3. \A i \in DOMAIN p : /\ p[i].do # "close"
                          /\ ~EndsOthers(p[i], s)
                          /\ \A k \in Script : ~Ends(p[i], k)
  BY DEF Ends, EndsOthers, Do
<1>4. \A i \in DOMAIN q : /\ q[i] \notin {Do("read", "clock"), Do("arm", "schedule")}
                          /\ q[i].do \notin {"enable", "call"}
                          /\ \A x \in Thing : ~Enables(q[i], x)
  BY DEF Enables, Do
<1>5. \A i \in DOMAIN p, j \in DOMAIN q : i < j + n
  BY <1>2
<1>6. WellFormed(r)
  <2>. SUFFICES ASSUME NEW i \in DOMAIN r
                PROVE  \/ \E j \in DOMAIN p : r[i] = p[j]
                       \/ \E j \in DOMAIN q : r[i] = q[j]
    BY DEF WellFormed
  <2>. QED
    BY <1>1
<1>7. ArmsOnce(r)
  BY <1>1, <1>4 DEF ArmsOnce
<1>8. ClosesFirst(s, r)
  <2>. SUFFICES ASSUME NEW i \in DOMAIN r, NEW j \in DOMAIN r,
                       i < j, EndsOthers(r[i], s)
                PROVE  r[j].do # "close"
    BY DEF ClosesFirst
  <2>1. i \notin DOMAIN p /\ i - n \in DOMAIN q /\ r[i] = q[i - n]
    BY <1>1, <1>3
  <2>2. j \notin DOMAIN p /\ j - n \in DOMAIN q /\ r[j] = q[j - n] /\ i - n < j - n
    BY <1>1, <1>2, <2>1
  <2>. QED
    BY <2>1, <2>2 DEF ClosesFirst
<1>9. ClosesBetween(s, r)
  <2>. SUFFICES ASSUME NEW i \in DOMAIN r, NEW j \in DOMAIN r, NEW x \in Thing,
                       i < j, Enables(r[i], x), Ends(r[j], s)
                PROVE  \E m \in DOMAIN r : i < m /\ m < j /\ r[m] = Do("close", x)
    BY DEF ClosesBetween
  <2>1. i \in DOMAIN p /\ r[i] = p[i]
    BY <1>1, <1>4
  <2>2. j - n \in DOMAIN q /\ r[j] = q[j - n]
    BY <1>1, <1>3
  <2>3. PICK m \in DOMAIN q : m < j - n /\ q[m] = Do("close", x)
    BY <2>1, <2>2
  <2>4. m + n \in DOMAIN r /\ i < m + n /\ m + n < j /\ r[m + n] = Do("close", x)
    BY <1>1, <1>2, <2>1, <2>3
  <2>. QED
    BY <2>4
<1>10. s \in Inspector \cup Direct => CleansUp(s, r)
  <2>. SUFFICES ASSUME s \in Inspector \cup Direct, NEW i \in DOMAIN r
                PROVE  /\ \A x \in Thing : Enables(r[i], x) =>
                             \E j \in DOMAIN r : i < j /\ r[j] = Do("close", x)
                       /\ r[i] = Do("arm", "schedule") =>
                             \E j \in DOMAIN r : i < j /\ Ends(r[j], s)
    BY DEF CleansUp
  <2>1. ASSUME NEW x \in Thing, Enables(r[i], x)
        PROVE  \E j \in DOMAIN r : i < j /\ r[j] = Do("close", x)
    <3>1. i \in DOMAIN p /\ r[i] = p[i]
      BY <1>1, <1>4, <2>1
    <3>2. PICK j \in DOMAIN q : q[j] = Do("close", x)
      BY <2>1, <3>1
    <3>3. j + n \in DOMAIN r /\ r[j + n] = Do("close", x) /\ i < j + n
      BY <1>1, <1>5, <3>1, <3>2
    <3>. QED
      BY <3>3
  <2>2. ASSUME r[i] = Do("arm", "schedule")
        PROVE  \E j \in DOMAIN r : i < j /\ Ends(r[j], s)
    <3>1. i \in DOMAIN p
      BY <1>1, <1>4, <2>2
    <3>2. PICK j \in DOMAIN q : Ends(q[j], s)
      OBVIOUS
    <3>3. j + n \in DOMAIN r /\ Ends(r[j + n], s) /\ i < j + n
      BY <1>1, <1>5, <3>1, <3>2
    <3>. QED
      BY <3>3
  <2>. QED
    BY <2>1, <2>2
<1>11. s \in Direct => LeavesAlarm(s, r)
  <2>. SUFFICES ASSUME s \in Direct, NEW i \in DOMAIN r
                PROVE  /\ \A x \in Thing : Enables(r[i], x) => x = "lambda"
                       /\ r[i] # Do("close", "alarm")
                       /\ r[i].do \in {"enable", "call"} =>
                             \E j \in DOMAIN r : i < j /\ r[j] = Do("delete", s)
    BY DEF LeavesAlarm
  <2>1. r[i] # Do("close", "alarm")
    <3>1. Do("close", "alarm").do = "close"
      BY DEF Do
    <3>2. CASE i \in DOMAIN p /\ r[i] = p[i]
      BY <1>3, <3>1, <3>2
    <3>3. CASE i - n \in DOMAIN q /\ r[i] = q[i - n]
      BY <3>3
    <3>. QED
      BY <1>1, <3>2, <3>3
  <2>2. \A x \in Thing : Enables(r[i], x) => x = "lambda"
    BY <1>1, <1>4
  <2>3. r[i].do \in {"enable", "call"} =>
           \E j \in DOMAIN r : i < j /\ r[j] = Do("delete", s)
    <3>. SUFFICES ASSUME r[i].do \in {"enable", "call"}
                  PROVE  \E j \in DOMAIN r : i < j /\ r[j] = Do("delete", s)
      OBVIOUS
    <3>1. i \in DOMAIN p
      BY <1>1, <1>4
    <3>2. PICK j \in DOMAIN q : q[j] = Do("delete", s)
      OBVIOUS
    <3>3. j + n \in DOMAIN r /\ r[j + n] = Do("delete", s) /\ i < j + n
      BY <1>1, <1>5, <3>1, <3>2
    <3>. QED
      BY <3>3
  <2>. QED
    BY <2>1, <2>2, <2>3
<1>. QED
  BY <1>6, <1>7, <1>8, <1>9, <1>10, <1>11 DEF Orderly, r
-----------------------------------------------------------------------------
(* The pieces the programs are made of. *)

LEMMA PreflightIs ==
    ASSUME NEW v \in {"check", "precheck"}
    PROVE  /\ Preflight(v) \in Seq(Step)
           /\ \A i \in DOMAIN Preflight(v) : Preflight(v)[i].do = v
<1>1. /\ Preflight(v) \in
            Seq({Do(v, "api"), Do(v, "lambda"), Do(v, "alarm"), Do(v, "schedules")})
      /\ \A i \in DOMAIN Preflight(v) : Preflight(v)[i] \in
            {Do(v, "api"), Do(v, "lambda"), Do(v, "alarm"), Do(v, "schedules")}
  BY DEF Preflight
<1>2. {Do(v, "api"), Do(v, "lambda"), Do(v, "alarm"), Do(v, "schedules")} \subseteq Step
  BY DEF Do, Step, Verb, Target, Thing
<1>3. Preflight(v) \in Seq(Step)
  BY <1>1, <1>2, SeqMonotonic
<1>. QED
  BY <1>1, <1>3 DEF Do

Opening ==
    <<Do("read", "clock"), Do("arm", "schedule"), Do("arm", "alarm"),
      Do("enable", "lambda"), Do("enable", "api"),
      Do("confirm", "api"), Do("confirm", "lambda")>>

LEMMA OpeningIs ==
    /\ Opening \in Seq(Step) /\ WellFormed(Opening) /\ ArmsOnce(Opening)
    /\ ~ArmsNow(Opening)
    /\ \A i \in DOMAIN Opening : Opening[i].do \in {"read", "arm", "enable", "confirm"}
<1>1. /\ DOMAIN Opening = 1..7
      /\ Opening[1] = Do("read", "clock") /\ Opening[2] = Do("arm", "schedule")
      /\ Opening[3] = Do("arm", "alarm") /\ Opening[4] = Do("enable", "lambda")
      /\ Opening[5] = Do("enable", "api") /\ Opening[6] = Do("confirm", "api")
      /\ Opening[7] = Do("confirm", "lambda")
      /\ Opening \in Seq({Opening[1], Opening[2], Opening[3], Opening[4], Opening[5],
                          Opening[6], Opening[7]})
  BY DEF Opening
<1>2. /\ {Opening[1], Opening[2], Opening[3], Opening[4], Opening[5], Opening[6], Opening[7]}
            \subseteq Step
      /\ Opening[1].do = "read" /\ Opening[1].what = "clock"
      /\ Opening[2].do = "arm" /\ Opening[2].what = "schedule"
      /\ Opening[3].do = "arm" /\ Opening[3].what = "alarm"
      /\ Opening[4].do = "enable" /\ Opening[5].do = "enable"
      /\ Opening[6].do = "confirm" /\ Opening[7].do = "confirm"
  BY <1>1 DEF Do, Step, Verb, Target, Thing
<1>3. Opening \in Seq(Step)
  BY <1>1, <1>2, SeqMonotonic
<1>4. \A i \in DOMAIN Opening : i = 1 \/ i = 2 \/ i = 3 \/ i = 4 \/ i = 5 \/ i = 6 \/ i = 7
  BY <1>1
<1>5. \A i \in DOMAIN Opening : Opening[i].do \in {"read", "arm", "enable", "confirm"}
  BY <1>2, <1>4
<1>6. WellFormed(Opening)
  BY <1>2, <1>4 DEF WellFormed
<1>7. \A i \in DOMAIN Opening :
         /\ Opening[i] = Do("arm", "schedule") => i = 2
         /\ Opening[i] = Do("read", "clock") => i = 1
  BY <1>2, <1>4 DEF Do
<1>8. ArmsOnce(Opening)
  BY <1>1, <1>7 DEF ArmsOnce
<1>9. ~ArmsNow(Opening)
  BY <1>1, <1>7 DEF ArmsNow
<1>. QED
  BY <1>3, <1>5, <1>6, <1>8, <1>9

DirectOpening ==
    <<Do("check", "api"), Do("read", "clock"), Do("arm", "schedule"), Do("enable", "lambda")>>

LEMMA DirectOpeningIs ==
    /\ DirectOpening \in Seq(Step) /\ WellFormed(DirectOpening) /\ ArmsOnce(DirectOpening)
    /\ ~ArmsNow(DirectOpening)
    /\ \A i \in DOMAIN DirectOpening :
          DirectOpening[i].do \in {"check", "read", "arm", "enable"}
    /\ \A i \in DOMAIN DirectOpening : \A x \in Thing :
          Enables(DirectOpening[i], x) => x = "lambda"
<1>1. /\ DOMAIN DirectOpening = 1..4
      /\ DirectOpening[1] = Do("check", "api") /\ DirectOpening[2] = Do("read", "clock")
      /\ DirectOpening[3] = Do("arm", "schedule") /\ DirectOpening[4] = Do("enable", "lambda")
      /\ DirectOpening \in
            Seq({DirectOpening[1], DirectOpening[2], DirectOpening[3], DirectOpening[4]})
  BY DEF DirectOpening
<1>2. /\ {DirectOpening[1], DirectOpening[2], DirectOpening[3], DirectOpening[4]} \subseteq Step
      /\ DirectOpening[1].do = "check"
      /\ DirectOpening[2].do = "read" /\ DirectOpening[2].what = "clock"
      /\ DirectOpening[3].do = "arm" /\ DirectOpening[3].what = "schedule"
      /\ DirectOpening[4].do = "enable" /\ DirectOpening[4].what = "lambda"
  BY <1>1 DEF Do, Step, Verb, Target, Thing
<1>3. DirectOpening \in Seq(Step)
  BY <1>1, <1>2, SeqMonotonic
<1>4. \A i \in DOMAIN DirectOpening : i = 1 \/ i = 2 \/ i = 3 \/ i = 4
  BY <1>1
<1>5. \A i \in DOMAIN DirectOpening :
         DirectOpening[i].do \in {"check", "read", "arm", "enable"}
  BY <1>2, <1>4
<1>6. WellFormed(DirectOpening)
  BY <1>2, <1>4 DEF WellFormed
<1>7. \A i \in DOMAIN DirectOpening :
         /\ DirectOpening[i] = Do("arm", "schedule") => i = 3
         /\ DirectOpening[i] = Do("read", "clock") => i = 2
  BY <1>2, <1>4 DEF Do
<1>8. ArmsOnce(DirectOpening)
  BY <1>1, <1>7 DEF ArmsOnce
<1>9. \A i \in DOMAIN DirectOpening : \A x \in Thing :
         Enables(DirectOpening[i], x) => x = "lambda"
  BY <1>2, <1>4 DEF Enables, Thing
<1>10. ~ArmsNow(DirectOpening)
  BY <1>1, <1>7 DEF ArmsNow
<1>. QED
  BY <1>3, <1>5, <1>6, <1>8, <1>9, <1>10

LEMMA ClosingIs ==
    /\ Closing \in Seq(Step) /\ WellFormed(Closing)
    /\ \A i \in DOMAIN Closing : Closing[i].do = "close"
    /\ \A x \in Thing : \E i \in DOMAIN Closing : Closing[i] = Do("close", x)
<1>1. /\ DOMAIN Closing = 1..3
      /\ Closing[1] = Do("close", "api") /\ Closing[2] = Do("close", "lambda")
      /\ Closing[3] = Do("close", "alarm")
      /\ Closing \in Seq({Closing[1], Closing[2], Closing[3]})
  BY DEF Closing
<1>2. /\ {Closing[1], Closing[2], Closing[3]} \subseteq Step
      /\ Closing[1].do = "close" /\ Closing[1].what = "api"
      /\ Closing[2].do = "close" /\ Closing[2].what = "lambda"
      /\ Closing[3].do = "close" /\ Closing[3].what = "alarm"
  BY <1>1 DEF Do, Step, Verb, Target, Thing
<1>3. Closing \in Seq(Step)
  BY <1>1, <1>2, SeqMonotonic
<1>4. \A i \in DOMAIN Closing : i = 1 \/ i = 2 \/ i = 3
  BY <1>1
<1>5. \A i \in DOMAIN Closing : Closing[i].do = "close" /\ Closing[i].what \in Thing
  BY <1>2, <1>4 DEF Thing
<1>6. \A x \in Thing : \E i \in DOMAIN Closing : Closing[i] = Do("close", x)
  BY <1>1 DEF Thing
<1>. QED
  BY <1>3, <1>5, <1>6 DEF WellFormed

LEMMA SingleIs ==
    ASSUME NEW c \in Step
    PROVE  /\ <<c>> \in Seq(Step) /\ DOMAIN <<c>> = {1} /\ <<c>>[1] = c
OBVIOUS

LEMMA FinallyIs ==
    ASSUME NEW s \in Script
    PROVE  /\ Finally(s) \in Seq(Step) /\ DOMAIN Finally(s) = 1..3
           /\ Finally(s)[1] = Do("close", "lambda") /\ Finally(s)[2] = Do("close", "api")
           /\ Finally(s)[3] = Do("delete", s)
           /\ \A i \in DOMAIN Finally(s) :
                 /\ i = 1 \/ i = 2 \/ i = 3
                 /\ Finally(s)[i].do \in {"close", "delete"}
                 /\ Finally(s)[i].do = "close" => Finally(s)[i].what \in Thing \ {"alarm"}
<1>. DEFINE f == Finally(s)
<1>1. /\ DOMAIN f = 1..3
      /\ f[1] = Do("close", "lambda") /\ f[2] = Do("close", "api") /\ f[3] = Do("delete", s)
      /\ f \in Seq({f[1], f[2], f[3]})
  BY DEF Finally
<1>. HIDE DEF f
<1>2. /\ {f[1], f[2], f[3]} \subseteq Step
      /\ f[1].do = "close" /\ f[1].what = "lambda"
      /\ f[2].do = "close" /\ f[2].what = "api"
      /\ f[3].do = "delete"
  BY <1>1 DEF Do, Step, Verb, Target, Thing
<1>3. f \in Seq(Step)
  BY <1>1, <1>2, SeqMonotonic
<1>4. \A i \in DOMAIN f : i = 1 \/ i = 2 \/ i = 3
  BY <1>1
<1>5. \A i \in DOMAIN f : /\ f[i].do \in {"close", "delete"}
                          /\ f[i].do = "close" => f[i].what \in Thing \ {"alarm"}
  BY <1>2, <1>4 DEF Thing
<1>. QED
  BY <1>1, <1>3, <1>4, <1>5 DEF f

-----------------------------------------------------------------------------
(* One piece after another. *)

LEMMA WellFormedJoined ==
    ASSUME NEW p \in Seq(Step), NEW q \in Seq(Step), WellFormed(p), WellFormed(q)
    PROVE  WellFormed(p \o q)
<1>. SUFFICES ASSUME NEW i \in DOMAIN (p \o q)
              PROVE  \/ \E j \in DOMAIN p : (p \o q)[i] = p[j]
                     \/ \E j \in DOMAIN q : (p \o q)[i] = q[j]
  BY DEF WellFormed
<1>. QED
  BY Joined

LEMMA VerbsJoined ==
    ASSUME NEW p \in Seq(Step), NEW q \in Seq(Step), NEW V,
           \A i \in DOMAIN p : p[i].do \in V, \A i \in DOMAIN q : q[i].do \in V
    PROVE  \A i \in DOMAIN (p \o q) : (p \o q)[i].do \in V
BY Joined

LEMMA ArmsOnceJoined ==
    ASSUME NEW p \in Seq(Step), NEW q \in Seq(Step), ArmsOnce(p), ArmsOnce(q),
           \/ \A i \in DOMAIN p : p[i].do \notin {"read", "arm"}
           \/ \A i \in DOMAIN q : q[i].do \notin {"read", "arm"}
    PROVE  ArmsOnce(p \o q)
<1>. DEFINE r == p \o q
            n == Len(p)
<1>1. \A i \in DOMAIN r :
         \/ i \in DOMAIN p /\ r[i] = p[i]
         \/ i - n \in DOMAIN q /\ r[i] = q[i - n] /\ i \notin DOMAIN p
  BY Joined
<1>2. /\ n \in Nat /\ DOMAIN p = 1..n /\ DOMAIN q = 1..Len(q) /\ Len(q) \in Nat
      /\ DOMAIN r = 1..Len(r) /\ Len(r) \in Nat
  BY Joined, InDomain
<1>. HIDE DEF r, n
<1>. SUFFICES ASSUME NEW i \in DOMAIN r, NEW j \in DOMAIN r, i < j,
                     r[i] = Do("arm", "schedule"),
                     r[j] \in {Do("read", "clock"), Do("arm", "schedule")}
              PROVE  FALSE
  BY DEF ArmsOnce, r
<1>3. r[i].do = "arm" /\ r[j].do \in {"read", "arm"}
  BY DEF Do
<1>4. CASE i \in DOMAIN p /\ r[i] = p[i] /\ j \in DOMAIN p /\ r[j] = p[j]
  BY <1>4 DEF ArmsOnce
<1>5. CASE i - n \in DOMAIN q /\ r[i] = q[i - n] /\ j - n \in DOMAIN q /\ r[j] = q[j - n]
  BY <1>2, <1>5 DEF ArmsOnce
<1>6. CASE i \in DOMAIN p /\ r[i] = p[i] /\ j - n \in DOMAIN q /\ r[j] = q[j - n]
  BY <1>3, <1>6
<1>7. CASE i \notin DOMAIN p /\ j \in DOMAIN p
  BY <1>2, <1>7
<1>. QED
  BY <1>1, <1>4, <1>5, <1>6, <1>7

LEMMA ClosesFirstJoined ==
    ASSUME NEW s \in Script, NEW p \in Seq(Step), NEW q \in Seq(Step), ClosesFirst(s, q),
           \A i \in DOMAIN p : ~EndsOthers(p[i], s)
    PROVE  ClosesFirst(s, p \o q)
<1>. DEFINE r == p \o q
            n == Len(p)
<1>1. \A i \in DOMAIN r :
         \/ i \in DOMAIN p /\ r[i] = p[i]
         \/ i - n \in DOMAIN q /\ r[i] = q[i - n] /\ i \notin DOMAIN p
  BY Joined
<1>2. /\ n \in Nat /\ DOMAIN p = 1..n /\ DOMAIN q = 1..Len(q) /\ Len(q) \in Nat
      /\ DOMAIN r = 1..Len(r) /\ Len(r) \in Nat
  BY Joined, InDomain
<1>. HIDE DEF r, n
<1>. SUFFICES ASSUME NEW i \in DOMAIN r, NEW j \in DOMAIN r,
                     i < j, EndsOthers(r[i], s)
              PROVE  r[j].do # "close"
  BY DEF ClosesFirst, r
<1>3. i \notin DOMAIN p /\ i - n \in DOMAIN q /\ r[i] = q[i - n]
  BY <1>1
<1>4. j \notin DOMAIN p /\ j - n \in DOMAIN q /\ r[j] = q[j - n] /\ i - n < j - n
  BY <1>1, <1>2, <1>3
<1>. QED
  BY <1>3, <1>4 DEF ClosesFirst

\* What closes x before it ends anything is no threat, whatever comes after it.
LEMMA ClosedIsNoThreat ==
    ASSUME NEW p \in Seq(Step), NEW q \in Seq(Step), NEW s \in Script, NEW x \in Thing,
           \A i \in DOMAIN p : p[i].do \in {"find", "close"},
           \E i \in DOMAIN p : p[i] = Do("close", x)
    PROVE  ~Threat(p \o q, s, x)
<1>. DEFINE r == p \o q
            n == Len(p)
<1>1. /\ \A i \in DOMAIN r :
            \/ i \in DOMAIN p /\ r[i] = p[i]
            \/ i - n \in DOMAIN q /\ r[i] = q[i - n] /\ i \notin DOMAIN p
      /\ \A i \in DOMAIN p : i \in DOMAIN r /\ r[i] = p[i]
  BY Joined
<1>2. n \in Nat /\ DOMAIN p = 1..n /\ DOMAIN q = 1..Len(q) /\ Len(q) \in Nat
  BY InDomain
<1>. SUFFICES ASSUME NEW i \in DOMAIN r, Ends(r[i], s)
              PROVE  \E j \in DOMAIN r : j < i /\ r[j] = Do("close", x)
  BY DEF Threat
<1>. HIDE DEF r, n
<1>3. \A j \in DOMAIN p : ~Ends(p[j], s)
  BY DEF Ends, Do
<1>4. i - n \in DOMAIN q /\ i \notin DOMAIN p
  BY <1>1, <1>3
<1>5. PICK j \in DOMAIN p : p[j] = Do("close", x)
  OBVIOUS
<1>6. j \in DOMAIN r /\ r[j] = Do("close", x)
  BY <1>1, <1>5
<1>7. i \in DOMAIN r /\ DOMAIN r = 1..Len(r) /\ Len(r) \in Nat
  BY Joined, InDomain DEF r
<1>8. j < i
  BY <1>2, <1>4, <1>5, <1>7
<1>. QED
  BY <1>6, <1>8

LEMMA NoThreatJoined ==
    ASSUME NEW p \in Seq(Step), NEW q \in Seq(Step), NEW s \in Script, NEW x \in Thing,
           ~Threat(p, s, x), ~Threat(q, s, x)
    PROVE  ~Threat(p \o q, s, x)
<1>. DEFINE r == p \o q
            n == Len(p)
<1>1. /\ \A i \in DOMAIN r :
            \/ i \in DOMAIN p /\ r[i] = p[i]
            \/ i - n \in DOMAIN q /\ r[i] = q[i - n] /\ i \notin DOMAIN p
      /\ \A i \in DOMAIN p : i \in DOMAIN r /\ r[i] = p[i]
      /\ \A i \in DOMAIN q : i + n \in DOMAIN r /\ r[i + n] = q[i]
  BY Joined
<1>2. /\ n \in Nat /\ DOMAIN p = 1..n /\ DOMAIN q = 1..Len(q) /\ Len(q) \in Nat
      /\ DOMAIN r = 1..Len(r) /\ Len(r) \in Nat
  BY Joined, InDomain
<1>. HIDE DEF r, n
<1>. SUFFICES ASSUME NEW i \in DOMAIN r, Ends(r[i], s)
              PROVE  \E j \in DOMAIN r : j < i /\ r[j] = Do("close", x)
  BY DEF Threat, r
<1>3. CASE i \in DOMAIN p /\ r[i] = p[i]
  <2>1. PICK j \in DOMAIN p : j < i /\ p[j] = Do("close", x)
    BY <1>3 DEF Threat
  <2>. QED
    BY <1>1, <2>1
<1>4. CASE i - n \in DOMAIN q /\ r[i] = q[i - n]
  <2>1. PICK j \in DOMAIN q : j < i - n /\ q[j] = Do("close", x)
    BY <1>4 DEF Threat
  <2>2. j + n \in DOMAIN r /\ r[j + n] = Do("close", x) /\ j + n < i
    BY <1>1, <1>2, <2>1
  <2>. QED
    BY <2>2
<1>. QED
  BY <1>1, <1>3, <1>4

-----------------------------------------------------------------------------
(* The blocks that close, and the programs. *)

\* What every block that closes is like.
Closes(s, q) ==
    /\ q \in Seq(Step) /\ WellFormed(q) /\ ClosesFirst(s, q)
    /\ \A i \in DOMAIN q : q[i].do \in {"find", "close", "list", "delete"}

LEMMA ClosesJoined ==
    ASSUME NEW s \in Script, NEW p, NEW q, Closes(s, p), Closes(s, q),
           \A i \in DOMAIN p : ~EndsOthers(p[i], s)
    PROVE  Closes(s, p \o q)
<1>. p \in Seq(Step) /\ q \in Seq(Step)
  BY DEF Closes
<1>1. p \o q \in Seq(Step)
  BY Joined
<1>2. WellFormed(p \o q)
  BY WellFormedJoined DEF Closes
<1>3. ClosesFirst(s, p \o q)
  BY ClosesFirstJoined DEF Closes
<1>4. \A i \in DOMAIN (p \o q) : (p \o q)[i].do \in {"find", "close", "list", "delete"}
  BY VerbsJoined DEF Closes
<1>. QED
  BY <1>1, <1>2, <1>3, <1>4 DEF Closes

LEMMA SingleCloses ==
    ASSUME NEW s \in Script, NEW c \in Step, c.do \in {"find", "list", "delete"},
           c.do = "list" => c.what = "schedules"
    PROVE  Closes(s, <<c>>)
BY SingleIs DEF Closes, WellFormed, ClosesFirst

LEMMA CloseScriptIs ==
    ASSUME NEW s \in Script
    PROVE  /\ Closes(s, CloseScript)
           /\ \A k \in Script : \E i \in DOMAIN CloseScript : Ends(CloseScript[i], k)
           /\ \A x \in Thing : \E i \in DOMAIN CloseScript : CloseScript[i] = Do("close", x)
           /\ \A k \in Script, x \in Thing : ~Threat(CloseScript, k, x)
<1>. DEFINE f == <<Do("find", "stack")>>
            l == <<Do("list", "schedules")>>
            p == f \o Closing
<1>1. /\ Do("find", "stack") \in Step /\ Do("find", "stack").do = "find"
      /\ Do("list", "schedules") \in Step /\ Do("list", "schedules").do = "list"
      /\ Do("list", "schedules").what = "schedules"
  BY DEF Do, Step, Verb, Target
<1>2. Closes(s, f) /\ Closes(s, l) /\ DOMAIN f = {1} /\ f[1].do = "find"
  BY <1>1, SingleCloses, SingleIs
<1>3. l \in Seq(Step) /\ DOMAIN l = {1} /\ l[1] = Do("list", "schedules")
  BY <1>1, SingleIs
<1>. HIDE DEF f, l
<1>4. /\ Closes(s, Closing)
      /\ \A i \in DOMAIN Closing : ~EndsOthers(Closing[i], s)
  BY ClosingIs DEF Closes, ClosesFirst, EndsOthers
<1>5. f \in Seq(Step) /\ Closing \in Seq(Step)
  BY <1>2, <1>4 DEF Closes
<1>6. \A i \in DOMAIN f : f[i].do \in {"find", "close"} /\ ~EndsOthers(f[i], s)
  BY <1>2 DEF EndsOthers
<1>7. Closes(s, p)
  BY <1>2, <1>4, <1>6, ClosesJoined
<1>8. \A i \in DOMAIN p : p[i].do \in {"find", "close"}
  BY <1>5, <1>6, ClosingIs, VerbsJoined
<1>9. \A x \in Thing : \E i \in DOMAIN p : p[i] = Do("close", x)
  <2>. SUFFICES ASSUME NEW x \in Thing
                PROVE  \E i \in DOMAIN p : p[i] = Do("close", x)
    OBVIOUS
  <2>1. PICK j \in DOMAIN Closing : Closing[j] = Do("close", x)
    BY ClosingIs
  <2>2. j + Len(f) \in DOMAIN p /\ p[j + Len(f)] = Closing[j]
    BY <1>5, Joined
  <2>. QED
    BY <2>1, <2>2
<1>10. p \in Seq(Step)
  BY <1>7 DEF Closes
<1>. HIDE DEF p
<1>11. CloseScript = p \o l
  BY DEF CloseScript, p, f, l
<1>12. \A i \in DOMAIN p : ~EndsOthers(p[i], s)
  BY <1>8 DEF EndsOthers
<1>13. Closes(s, CloseScript)
  BY <1>2, <1>7, <1>11, <1>12, ClosesJoined
<1>14. \A k \in Script : \E i \in DOMAIN CloseScript : Ends(CloseScript[i], k)
  <2>1. 1 + Len(p) \in DOMAIN CloseScript /\ CloseScript[1 + Len(p)] = Do("list", "schedules")
    BY <1>3, <1>10, <1>11, Joined
  <2>. QED
    BY <2>1 DEF Ends
<1>15. \A x \in Thing : \E i \in DOMAIN CloseScript : CloseScript[i] = Do("close", x)
  BY <1>3, <1>9, <1>10, <1>11, Joined
<1>16. \A k \in Script, x \in Thing : ~Threat(CloseScript, k, x)
  BY <1>3, <1>8, <1>9, <1>10, <1>11, ClosedIsNoThreat
<1>. QED
  BY <1>13, <1>14, <1>15, <1>16

LEMMA CatchIs ==
    ASSUME NEW s \in Script
    PROVE  /\ Closes(s, Catch(s))
           /\ \A i \in DOMAIN Catch(s) : ~EndsOthers(Catch(s)[i], s)
           /\ \A k \in Script, x \in Thing : ~Threat(Catch(s), k, x)
<1>. DEFINE d == <<Do("delete", s)>>
<1>1. Do("delete", s) \in Step /\ Do("delete", s).do = "delete"
  BY DEF Do, Step, Verb, Target
<1>2. Closes(s, d) /\ d \in Seq(Step) /\ DOMAIN d = {1} /\ d[1] = Do("delete", s)
  BY <1>1, SingleCloses, SingleIs
<1>3. Catch(s) = Closing \o d
  BY DEF Catch
<1>. HIDE DEF d
<1>4. /\ Closes(s, Closing)
      /\ \A i \in DOMAIN Closing : ~EndsOthers(Closing[i], s)
  BY ClosingIs DEF Closes, ClosesFirst, EndsOthers
<1>5. Closes(s, Catch(s))
  BY <1>2, <1>3, <1>4, ClosesJoined
<1>6. ~EndsOthers(d[1], s)
  BY <1>2 DEF EndsOthers
<1>7. \A i \in DOMAIN Catch(s) : ~EndsOthers(Catch(s)[i], s)
  BY <1>2, <1>3, <1>4, <1>6, ClosingIs, Joined
<1>8. \A k \in Script, x \in Thing : ~Threat(Catch(s), k, x)
  BY <1>2, <1>3, ClosingIs, ClosedIsNoThreat
<1>. QED
  BY <1>5, <1>7, <1>8

LEMMA FinallyCloses ==
    ASSUME NEW s \in Script
    PROVE  /\ Closes(s, Finally(s))
           /\ \A k \in Script, x \in Thing :
                 Threat(Finally(s), k, x) => k = s /\ x = "alarm"
<1>. DEFINE f == Finally(s)
<1>1. /\ f \in Seq(Step) /\ DOMAIN f = 1..3
      /\ f[1] = Do("close", "lambda") /\ f[2] = Do("close", "api") /\ f[3] = Do("delete", s)
      /\ \A i \in DOMAIN f : /\ i = 1 \/ i = 2 \/ i = 3
                             /\ f[i].do \in {"close", "delete"}
                             /\ f[i].do = "close" => f[i].what \in Thing \ {"alarm"}
  BY FinallyIs
<1>. HIDE DEF f
<1>2. \A i \in DOMAIN f, k \in Script : Ends(f[i], k) => i = 3 /\ k = s
  BY <1>1 DEF Ends, Do
<1>3. \A i \in DOMAIN f : ~EndsOthers(f[i], s)
  BY <1>1 DEF EndsOthers, Do
<1>4. Closes(s, f)
  BY <1>1, <1>3 DEF Closes, WellFormed, ClosesFirst
<1>5. ASSUME NEW k \in Script, NEW x \in Thing, Threat(f, k, x)
      PROVE  k = s /\ x = "alarm"
  BY <1>1, <1>2, <1>5 DEF Threat, Thing
<1>. QED
  BY <1>4, <1>5 DEF f

\* Every script starts orderly.
LEMMA OrderlyProgram ==
    ASSUME NEW s \in Script
    PROVE  Program(s) \in Seq(Step) /\ Orderly(s, Program(s))
<1>. DEFINE c == Preflight("check")
            e == Preflight("precheck")
            Quiet == {"precheck", "check", "read", "arm", "enable", "confirm", "call"}
<1>1. /\ c \in Seq(Step) /\ \A i \in DOMAIN c : c[i].do = "check"
      /\ e \in Seq(Step) /\ \A i \in DOMAIN e : e[i].do = "precheck"
  BY PreflightIs
<1>2. WellFormed(c) /\ ArmsOnce(c) /\ WellFormed(e) /\ ArmsOnce(e)
  BY <1>1 DEF WellFormed, ArmsOnce, Do
<1>. HIDE DEF c, e
<1>3. OpenScript = c \o Opening
  BY DEF OpenScript, Opening, c
<1>4. /\ OpenScript \in Seq(Step) /\ WellFormed(OpenScript) /\ ArmsOnce(OpenScript)
      /\ \A i \in DOMAIN OpenScript :
            OpenScript[i].do \in {"check", "read", "arm", "enable", "confirm"}
  <2>1. OpenScript \in Seq(Step) /\ WellFormed(OpenScript)
    BY <1>1, <1>2, <1>3, OpeningIs, Joined, WellFormedJoined
  <2>2. ArmsOnce(OpenScript)
    BY <1>1, <1>2, <1>3, OpeningIs, ArmsOnceJoined
  <2>3. \A i \in DOMAIN OpenScript :
           OpenScript[i].do \in {"check", "read", "arm", "enable", "confirm"}
    BY <1>1, <1>3, OpeningIs, Joined
  <2>. QED
    BY <2>1, <2>2, <2>3
<1>5. ASSUME NEW w \in {"reads", "writes"}
      PROVE  /\ <<Do("call", w)>> \in Seq(Step) /\ WellFormed(<<Do("call", w)>>)
             /\ ArmsOnce(<<Do("call", w)>>)
             /\ \A i \in DOMAIN <<Do("call", w)>> : <<Do("call", w)>>[i].do = "call"
  <2>1. Do("call", w) \in Step /\ Do("call", w).do = "call"
    BY DEF Do, Step, Verb, Target
  <2>. QED
    BY <2>1, SingleIs DEF WellFormed, ArmsOnce
<1>6. CASE s \in Opener
  <2>1. s \notin Inspector /\ s \notin Direct /\ s \notin Closer
    BY <1>6, WindowAssumption
  <2>2. Program(s) = OpenScript
    BY <1>6, <2>1 DEF Program
  <2>3. \A i \in DOMAIN OpenScript : /\ OpenScript[i].do # "close"
                                          /\ ~EndsOthers(OpenScript[i], s)
                                          /\ ~Ends(OpenScript[i], s)
    BY <1>4 DEF Ends, EndsOthers, Do
  <2>. QED
    BY <1>4, <2>1, <2>2, <2>3 DEF Orderly, ClosesFirst, ClosesBetween
<1>7. CASE s \in Inspector
  <2>. DEFINE a == e \o OpenScript
              b == a \o InspectorCalls
  <2>1. s \notin Opener /\ s \notin Direct /\ s \notin Closer
    BY <1>7, WindowAssumption
  <2>2. Program(s) = b \o CloseScript
    BY <1>7, <2>1 DEF Program, Prechecks, e
  <2>3. /\ a \in Seq(Step) /\ WellFormed(a) /\ ArmsOnce(a)
        /\ \A i \in DOMAIN a : a[i].do \in Quiet
    <3>1. a \in Seq(Step) /\ WellFormed(a)
      BY <1>1, <1>2, <1>4, Joined, WellFormedJoined
    <3>2. ArmsOnce(a)
      BY <1>1, <1>2, <1>4, ArmsOnceJoined
    <3>3. \A i \in DOMAIN a : a[i].do \in Quiet
      BY <1>1, <1>4, Joined
    <3>. QED
      BY <3>1, <3>2, <3>3
  <2>. HIDE DEF a
  <2>4. /\ InspectorCalls \in Seq(Step) /\ WellFormed(InspectorCalls) /\ ArmsOnce(InspectorCalls)
        /\ \A i \in DOMAIN InspectorCalls : InspectorCalls[i].do = "call"
    BY <1>5 DEF InspectorCalls
  <2>5. /\ b \in Seq(Step) /\ WellFormed(b) /\ ArmsOnce(b)
        /\ \A i \in DOMAIN b : b[i].do \in Quiet
    <3>1. b \in Seq(Step) /\ WellFormed(b)
      BY <2>3, <2>4, Joined, WellFormedJoined
    <3>2. ArmsOnce(b)
      BY <2>3, <2>4, ArmsOnceJoined
    <3>3. \A i \in DOMAIN b : b[i].do \in Quiet
      BY <2>3, <2>4, Joined
    <3>. QED
      BY <3>1, <3>2, <3>3
  <2>. HIDE DEF b
  <2>6. CloseScript \in Seq(Step)
    BY CloseScriptIs DEF Closes
  <2>7. \A i \in DOMAIN b : b[i].do \notin {"find", "close", "list", "delete"}
    BY <2>5
  <2>8. WellFormed(CloseScript) /\ ClosesFirst(s, CloseScript)
    BY CloseScriptIs DEF Closes
  <2>9. \A i \in DOMAIN CloseScript : CloseScript[i].do \in {"find", "close", "list", "delete"}
    BY CloseScriptIs DEF Closes
  <2>10. \A i \in DOMAIN b, j \in DOMAIN CloseScript : \A x \in Thing :
            Enables(b[i], x) /\ Ends(CloseScript[j], s) =>
               \E m \in DOMAIN CloseScript : m < j /\ CloseScript[m] = Do("close", x)
    BY CloseScriptIs DEF Threat
  <2>11. \E j \in DOMAIN CloseScript : Ends(CloseScript[j], s)
    BY CloseScriptIs
  <2>12. \A x \in Thing : \E j \in DOMAIN CloseScript : CloseScript[j] = Do("close", x)
    BY CloseScriptIs
  <2>13. Orderly(s, b \o CloseScript)
    BY <2>1, <2>5, <2>6, <2>7, <2>8, <2>9, <2>10, <2>11, <2>12, OrderlyOpening
  <2>. QED
    BY <2>2, <2>5, <2>6, <2>13, Joined
<1>8. CASE s \in Direct
  <2>. DEFINE a == DirectOpening \o DirectReads
              b == a \o DirectWrites
              f == Finally(s)
  <2>1. s \notin Opener /\ s \notin Inspector /\ s \notin Closer
    BY <1>8, WindowAssumption
  <2>2. Program(s) = b \o f
    BY <1>8, <2>1 DEF Program, DirectScript, DirectOpening
  <2>3. /\ DirectReads \in Seq(Step) /\ WellFormed(DirectReads) /\ ArmsOnce(DirectReads)
        /\ \A i \in DOMAIN DirectReads : DirectReads[i].do = "call"
        /\ DirectWrites \in Seq(Step) /\ WellFormed(DirectWrites) /\ ArmsOnce(DirectWrites)
        /\ \A i \in DOMAIN DirectWrites : DirectWrites[i].do = "call"
    BY <1>5 DEF DirectReads, DirectWrites
  <2>4. /\ \A i \in DOMAIN DirectReads : \A x \in Thing : ~Enables(DirectReads[i], x)
        /\ \A i \in DOMAIN DirectWrites : \A x \in Thing : ~Enables(DirectWrites[i], x)
    BY <2>3 DEF Enables
  <2>5. /\ a \in Seq(Step) /\ WellFormed(a) /\ ArmsOnce(a)
        /\ \A i \in DOMAIN a : a[i].do \in Quiet
        /\ \A i \in DOMAIN a : \A x \in Thing : Enables(a[i], x) => x = "lambda"
    <3>1. a \in Seq(Step) /\ WellFormed(a)
      BY <2>3, DirectOpeningIs, Joined, WellFormedJoined
    <3>2. ArmsOnce(a)
      BY <2>3, DirectOpeningIs, ArmsOnceJoined
    <3>3. \A i \in DOMAIN a : a[i].do \in Quiet
      BY <2>3, DirectOpeningIs, Joined
    <3>4. \A i \in DOMAIN a : \A x \in Thing : Enables(a[i], x) => x = "lambda"
      BY <2>3, <2>4, DirectOpeningIs, Joined
    <3>. QED
      BY <3>1, <3>2, <3>3, <3>4
  <2>. HIDE DEF a
  <2>6. /\ b \in Seq(Step) /\ WellFormed(b) /\ ArmsOnce(b)
        /\ \A i \in DOMAIN b : b[i].do \in Quiet
        /\ \A i \in DOMAIN b : \A x \in Thing : Enables(b[i], x) => x = "lambda"
    <3>1. b \in Seq(Step) /\ WellFormed(b)
      BY <2>3, <2>5, Joined, WellFormedJoined
    <3>2. ArmsOnce(b)
      BY <2>3, <2>5, ArmsOnceJoined
    <3>3. \A i \in DOMAIN b : b[i].do \in Quiet
      BY <2>3, <2>5, Joined
    <3>4. \A i \in DOMAIN b : \A x \in Thing : Enables(b[i], x) => x = "lambda"
      BY <2>3, <2>4, <2>5, Joined
    <3>. QED
      BY <3>1, <3>2, <3>3, <3>4
  <2>. HIDE DEF b
  <2>7. /\ f \in Seq(Step) /\ DOMAIN f = 1..3
        /\ f[1] = Do("close", "lambda") /\ f[3] = Do("delete", s)
        /\ \A i \in DOMAIN f : /\ i = 1 \/ i = 2 \/ i = 3
                               /\ f[i].do = "close" => f[i].what \in Thing \ {"alarm"}
    BY FinallyIs
  <2>8. /\ WellFormed(f) /\ ClosesFirst(s, f)
        /\ \A i \in DOMAIN f : f[i].do \in {"find", "close", "list", "delete"}
        /\ \A x \in Thing : Threat(f, s, x) => x = "alarm"
    BY FinallyCloses DEF Closes
  <2>. HIDE DEF f
  <2>9. \A i \in DOMAIN b : b[i].do \notin {"find", "close", "list", "delete"}
    BY <2>6
  <2>10. \A i \in DOMAIN b, j \in DOMAIN f : \A x \in Thing :
            Enables(b[i], x) /\ Ends(f[j], s) =>
               \E m \in DOMAIN f : m < j /\ f[m] = Do("close", x)
    BY <2>6, <2>8 DEF Threat
  <2>11. \E j \in DOMAIN f : f[j] = Do("delete", s)
    BY <2>7
  <2>12. \E j \in DOMAIN f : Ends(f[j], s)
    BY <2>11 DEF Ends
  <2>13. \A i \in DOMAIN b : \A x \in Thing :
            Enables(b[i], x) => \E j \in DOMAIN f : f[j] = Do("close", x)
    BY <2>6, <2>7
  <2>14. \A i \in DOMAIN f : f[i] # Do("close", "alarm")
    BY <2>7 DEF Do
  <2>15. Orderly(s, b \o f)
    BY <2>6, <2>7, <2>8, <2>9, <2>10, <2>11, <2>12, <2>13, <2>14, OrderlyOpening
  <2>. QED
    BY <2>2, <2>6, <2>7, <2>15, Joined
<1>9. CASE s \in Closer
  <2>1. s \notin Opener /\ s \notin Inspector /\ s \notin Direct
    BY <1>9, WindowAssumption
  <2>2. Program(s) = CloseScript
    BY <1>9, <2>1 DEF Program
  <2>3. Closes(s, CloseScript)
    BY CloseScriptIs
  <2>. QED
    BY <2>1, <2>2, <2>3, OrderlyClosing DEF Closes
<1>. QED
  BY <1>6, <1>7, <1>8, <1>9 DEF Script

\* The block that runs after a step failed is orderly, and it ends a schedule
\* unprotected only where the direct validation leaves the alarm.
LEMMA OrderlyOnError ==
    ASSUME NEW s \in Script, NEW c \in Step
    PROVE  /\ OnError(s, c) \in Seq(Step) /\ Orderly(s, OnError(s, c))
           /\ \A i \in DOMAIN OnError(s, c) :
                 OnError(s, c)[i].do \in {"find", "close", "list", "delete"}
           /\ \A k \in Script, x \in Thing : Threat(OnError(s, c), k, x) =>
                 s \in Direct /\ c.do \in {"enable", "call"} /\ k = s /\ x = "alarm"
<1>. DEFINE f == IF s \in Direct /\ c.do \in {"enable", "call"} THEN Finally(s)
                 ELSE IF s \notin Direct /\ c.do \in {"enable", "confirm"} THEN Catch(s)
                 ELSE <<>>
            g == IF s \in Inspector /\ c.do \notin {"precheck", "find"}
                 THEN CloseScript ELSE <<>>
            q == f \o g
<1>1. OnError(s, c) = q
  BY DEF OnError
<1>2. /\ Closes(s, <<>>) /\ \A k \in Script, x \in Thing : ~Threat(<<>>, k, x)
      /\ <<>> \in Seq(Step) /\ DOMAIN <<>> = {}
  BY DEF Closes, WellFormed, ClosesFirst, Threat
<1>3. /\ Closes(s, f)
      /\ \A k \in Script, x \in Thing : Threat(f, k, x) =>
            s \in Direct /\ c.do \in {"enable", "call"} /\ k = s /\ x = "alarm"
  BY <1>2, FinallyCloses, CatchIs
<1>4. Closes(s, g) /\ \A k \in Script, x \in Thing : ~Threat(g, k, x)
  BY <1>2, CloseScriptIs
<1>5. s \in Direct => g = <<>>
  BY WindowAssumption
<1>6. s \notin Direct => \A i \in DOMAIN f : ~EndsOthers(f[i], s)
  BY <1>2, CatchIs
<1>7. s \in Direct => \A i \in DOMAIN f : f[i] # Do("close", "alarm")
  <2>1. \A i \in DOMAIN Finally(s) : Finally(s)[i] # Do("close", "alarm")
    <3>1. \A i \in DOMAIN Finally(s) :
             Finally(s)[i].do = "close" => Finally(s)[i].what # "alarm"
      BY FinallyIs
    <3>2. Do("close", "alarm").do = "close" /\ Do("close", "alarm").what = "alarm"
      BY DEF Do
    <3>. QED
      BY <3>1, <3>2
  <2>. QED
    BY <1>2, <2>1
<1>8. f \in Seq(Step) /\ g \in Seq(Step)
  BY <1>3, <1>4 DEF Closes
<1>. HIDE DEF f, g
<1>9. CASE s \in Direct
  <2>1. q = f
    BY <1>5, <1>8, <1>9, ConcatEmptySeq
  <2>2. Orderly(s, f)
    BY <1>3, <1>7, <1>9, OrderlyClosing DEF Closes
  <2>. QED
    BY <1>1, <1>3, <1>8, <2>1, <2>2 DEF Closes
<1>10. CASE s \notin Direct
  <2>1. Closes(s, q)
    BY <1>3, <1>4, <1>6, <1>10, ClosesJoined
  <2>2. Orderly(s, q)
    BY <1>10, <2>1, OrderlyClosing DEF Closes
  <2>3. \A k \in Script, x \in Thing : ~Threat(q, k, x)
    BY <1>3, <1>4, <1>8, <1>10, NoThreatJoined
  <2>. QED
    BY <1>1, <2>1, <2>2, <2>3 DEF Closes
<1>. QED
  BY <1>9, <1>10

\* The deletions of the schedules that were listed.
Deletes(listed) == [i \in DOMAIN listed |-> Do("delete", listed[i])]

LEMMA OrderlyDeletes ==
    ASSUME NEW s \in Script, NEW S \in SUBSET Script, NEW listed \in SetToSeqs(S)
    PROVE  /\ Deletes(listed) \in Seq(Step) /\ Orderly(s, Deletes(listed))
           /\ \A i \in DOMAIN Deletes(listed) : Deletes(listed)[i].do = "delete"
           /\ \A k \in S :
                 \E i \in DOMAIN Deletes(listed) : Deletes(listed)[i] = Do("delete", k)
<1>. DEFINE n == Cardinality(S)
            q == Deletes(listed)
<1>1. IsFiniteSet(S) /\ n \in Nat
  BY WindowAssumption, FS_Subset, FS_CardinalityType
<1>2. /\ listed \in [1..n -> S]
      /\ \A i, j \in 1..n : i # j => listed[i] # listed[j]
  BY DEF SetToSeqs
<1>3. listed \in Injection(1..n, S)
  BY <1>2 DEF Injection, IsInjective
<1>4. Cardinality(1..n) = n
  BY <1>1, FS_Interval
<1>5. \A k \in S : \E i \in 1..n : listed[i] = k
  BY <1>1, <1>3, <1>4, FS_Injection DEF Surjection
<1>6. DOMAIN q = 1..n /\ \A i \in 1..n : q[i] = Do("delete", listed[i])
  BY <1>2 DEF Deletes
<1>7. \A k \in Script : Do("delete", k) \in Step /\ Do("delete", k).do = "delete"
  BY DEF Do, Step, Verb, Target
<1>8. \A i \in 1..n : q[i] \in Step /\ q[i].do = "delete"
  BY <1>2, <1>6, <1>7
<1>9. q \in Seq(Step)
  <2>1. q = [i \in 1..n |-> q[i]]
    BY <1>2 DEF Deletes
  <2>. HIDE DEF q
  <2>. QED
    BY <1>1, <1>8, <2>1
<1>. HIDE DEF q
<1>10. WellFormed(q) /\ ClosesFirst(s, q)
  BY <1>6, <1>8 DEF WellFormed, ClosesFirst
<1>11. Orderly(s, q)
  <2>1. \A i \in DOMAIN q : q[i] # Do("close", "alarm")
    BY <1>6, <1>8 DEF Do
  <2>. QED
    BY <1>6, <1>8, <1>9, <1>10, <2>1, OrderlyClosing
<1>12. \A k \in S : \E i \in DOMAIN q : q[i] = Do("delete", k)
  BY <1>5, <1>6
<1>. QED
  BY <1>6, <1>8, <1>9, <1>11, <1>12 DEF q

LEMMA OrderlyNothing ==
    ASSUME NEW s \in Script
    PROVE  /\ <<>> \in Seq(Step) /\ Orderly(s, <<>>) /\ DOMAIN <<>> = {}
           /\ \A k \in Script, x \in Thing : ~Threat(<<>>, k, x)
BY DEF Orderly, WellFormed, ArmsOnce, ClosesFirst, ClosesBetween, CleansUp, LeavesAlarm, Threat

-----------------------------------------------------------------------------
(* Threats. *)

\* A step that closes something else makes the rest no worse a threat.
LEMMA ThreatAfter ==
    ASSUME NEW q \in Seq(Step), q # <<>>, NEW s \in Script, NEW x \in Thing,
           Head(q) # Do("close", x), Threat(Tail(q), s, x)
    PROVE  Threat(q, s, x)
<1>1. /\ Head(q) = q[1] /\ 1 \in DOMAIN q
      /\ \A i \in DOMAIN Tail(q) :
            i \in Nat /\ i + 1 \in DOMAIN q /\ Tail(q)[i] = q[i + 1]
      /\ \A i \in DOMAIN q :
            i \in Nat /\ (i # 1 => i - 1 \in DOMAIN Tail(q) /\ Tail(q)[i - 1] = q[i])
  BY AfterHead
<1>2. PICK i \in DOMAIN Tail(q) :
         /\ Ends(Tail(q)[i], s)
         /\ \A j \in DOMAIN Tail(q) : j < i => Tail(q)[j] # Do("close", x)
  BY DEF Threat
<1>3. i + 1 \in DOMAIN q /\ Ends(q[i + 1], s)
  BY <1>1, <1>2
<1>4. ASSUME NEW j \in DOMAIN q, j < i + 1
      PROVE  q[j] # Do("close", x)
  <2>1. CASE j = 1
    BY <1>1, <2>1
  <2>2. CASE j # 1
    <3>1. j - 1 \in DOMAIN Tail(q) /\ Tail(q)[j - 1] = q[j] /\ j - 1 < i
      BY <1>1, <1>4, <2>2
    <3>. QED
      BY <1>2, <3>1
  <2>. QED
    BY <2>1, <2>2
<1>. QED
  BY <1>3, <1>4 DEF Threat

\* A script about to end the schedule of s is a threat to it.
LEMMA ThreatNow ==
    ASSUME NEW q \in Seq(Step), q # <<>>, NEW s \in Script, NEW x \in Thing, Ends(Head(q), s)
    PROVE  Threat(q, s, x)
<1>1. Head(q) = q[1] /\ 1 \in DOMAIN q /\ \A i \in DOMAIN q : i \in Nat /\ (i # 1 => i > 1)
  BY AfterHead
<1>. QED
  BY <1>1 DEF Threat

\* What remains after an error was threatened before it.
LEMMA ThreatOnError ==
    ASSUME NEW k \in Script, NEW q \in Seq(Step), q # <<>>, Orderly(k, q),
           NEW s \in Script, NEW x \in Thing, Threat(OnError(k, Head(q)), s, x)
    PROVE  /\ Threat(q, s, x)
           /\ k \in Direct /\ Head(q).do \in {"enable", "call"} /\ x = "alarm"
<1>1. Head(q) = q[1] /\ 1 \in DOMAIN q /\ Head(q) \in Step
  BY AfterHead
<1>2. k \in Direct /\ Head(q).do \in {"enable", "call"} /\ s = k /\ x = "alarm"
  BY <1>1, OrderlyOnError
<1>3. LeavesAlarm(k, q)
  BY <1>2 DEF Orderly
<1>4. PICK j \in DOMAIN q : q[j] = Do("delete", k)
  BY <1>1, <1>2, <1>3 DEF LeavesAlarm
<1>5. \A i \in DOMAIN q : q[i] # Do("close", "alarm")
  BY <1>3 DEF LeavesAlarm
<1>. QED
  BY <1>2, <1>4, <1>5 DEF Threat, Ends

\* A script that is not the one of s threatens it only after its last closing.
LEMMA ThreatLeavesOpen ==
    ASSUME NEW k \in Script, NEW q \in Seq(Step), Orderly(k, q),
           NEW s \in Script \ {k}, NEW x \in Thing, Threat(q, s, x)
    PROVE  /\ Left(q, "list", "schedules") \/ Left(q, "delete", s)
           /\ ~Left(q, "close", x)
<1>1. PICK i \in DOMAIN q :
         /\ Ends(q[i], s)
         /\ \A j \in DOMAIN q : j < i => q[j] # Do("close", x)
  BY DEF Threat
<1>2. Left(q, "list", "schedules") \/ Left(q, "delete", s)
  BY <1>1, LeftIs DEF Ends
<1>3. ASSUME NEW j \in DOMAIN q, q[j] = Do("close", x)
      PROVE  FALSE
  <2>1. q[j].do = "close" /\ ~Ends(q[j], s)
    BY <1>3 DEF Do, Ends
  <2>2. i \in Nat /\ j \in Nat /\ i # j
    BY <1>1, <2>1, InDomain
  <2>3. i < j
    BY <1>1, <1>3, <2>2
  <2>4. EndsOthers(q[i], k)
    BY <1>1 DEF Ends, EndsOthers, Do
  <2>. QED
    BY <2>1, <2>3, <2>4 DEF Orderly, ClosesFirst
<1>. QED
  BY <1>2, <1>3, LeftIs

\* A script about to turn x on does not end its own schedule with x on.
LEMMA NoThreatToOwn ==
    ASSUME NEW s \in Script, NEW q \in Seq(Step), q # <<>>, Orderly(s, q),
           NEW x \in Thing, Enables(Head(q), x)
    PROVE  ~Threat(Tail(q), s, x)
<1>1. /\ Head(q) = q[1] /\ 1 \in DOMAIN q
      /\ \A i \in DOMAIN Tail(q) :
            i \in Nat /\ i + 1 \in DOMAIN q /\ i + 1 > 1 /\ Tail(q)[i] = q[i + 1]
      /\ \A i \in DOMAIN q :
            i \in Nat /\ (i # 1 => i - 1 \in DOMAIN Tail(q) /\ Tail(q)[i - 1] = q[i])
  BY AfterHead
<1>2. SUFFICES ASSUME NEW i \in DOMAIN Tail(q), Ends(Tail(q)[i], s)
               PROVE  \E j \in DOMAIN Tail(q) : j < i /\ Tail(q)[j] = Do("close", x)
  BY DEF Threat
<1>3. i + 1 \in DOMAIN q /\ 1 < i + 1 /\ Ends(q[i + 1], s) /\ Enables(q[1], x)
  BY <1>1, <1>2
<1>4. PICK m \in DOMAIN q : 1 < m /\ m < i + 1 /\ q[m] = Do("close", x)
  BY <1>1, <1>3 DEF Orderly, ClosesBetween
<1>5. m - 1 \in DOMAIN Tail(q) /\ m - 1 < i /\ Tail(q)[m - 1] = Do("close", x)
  BY <1>1, <1>2, <1>4
<1>. QED
  BY <1>5

-----------------------------------------------------------------------------
(* What a step of a script leaves. *)

ScriptFrame(s) ==
    /\ todo[s] \in Seq(Step) /\ todo[s] # <<>> /\ Head(todo[s]) \in Step
    /\ todo' \in [Script -> Seq(Step)]
    /\ \A k \in Script \ {s} : todo'[k] = todo[k]
    /\ Orderly(s, todo'[s])
    /\ \/ todo'[s] = Tail(todo[s])
       \/ \A i \in DOMAIN todo'[s] : todo'[s][i].do \in {"find", "close", "list", "delete"}
    /\ \A k \in Script, x \in Thing : Threat(todo'[s], k, x) =>
          Threat(todo[s], k, x) \/ (Close(s) /\ x = What(s))
    /\ UNCHANGED <<now, run>>

LEMMA ScriptMoves ==
    ASSUME TypeOK, ScriptInv, NEW s \in Script, ScriptStep(s)
    PROVE  ScriptFrame(s)
<1>1. todo[s] \in Seq(Step) /\ todo[s] # <<>> /\ Orderly(s, todo[s])
  BY DEF TypeOK, ScriptInv, ScriptStep, Check, ReadClock, CreateSchedule, Enable, Confirm,
         Call, Find, Close, ListSchedules, DeleteSchedule, Kill, At
<1>2. Head(todo[s]) \in Step
  BY <1>1, AfterHead
<1>3. ASSUME NEW q \in Seq(Step), todo' = [todo EXCEPT ![s] = q], Orderly(s, q),
             \/ q = Tail(todo[s])
             \/ \A i \in DOMAIN q : q[i].do \in {"find", "close", "list", "delete"},
             \A k \in Script, x \in Thing : Threat(q, k, x) =>
                Threat(todo[s], k, x) \/ (Close(s) /\ x = What(s)),
             UNCHANGED <<now, run>>
      PROVE  ScriptFrame(s)
  <2>1. todo' \in [Script -> Seq(Step)] /\ todo'[s] = q
    BY <1>3 DEF TypeOK
  <2>2. \A k \in Script \ {s} : todo'[k] = todo[k]
    BY <1>3 DEF TypeOK
  <2>. QED
    BY <1>1, <1>2, <1>3, <2>1, <2>2 DEF ScriptFrame
<1>4. /\ Tail(todo[s]) \in Seq(Step) /\ Orderly(s, Tail(todo[s]))
      /\ \A k \in Script, x \in Thing : Threat(Tail(todo[s]), k, x) =>
            Threat(todo[s], k, x) \/ Head(todo[s]) = Do("close", x)
  BY <1>1, AfterHead, OrderlyAfter, ThreatAfter
<1>5. /\ OnError(s, Head(todo[s])) \in Seq(Step) /\ Orderly(s, OnError(s, Head(todo[s])))
      /\ \A i \in DOMAIN OnError(s, Head(todo[s])) :
            OnError(s, Head(todo[s]))[i].do \in {"find", "close", "list", "delete"}
      /\ \A k \in Script, x \in Thing :
            Threat(OnError(s, Head(todo[s])), k, x) => Threat(todo[s], k, x)
  BY <1>1, <1>2, OrderlyOnError, ThreatOnError
<1>6. ASSUME Go(s) \/ GoReporting(s), UNCHANGED <<now, run>>,
             Close(s) \/ ~At(s, {"close"})
      PROVE  ScriptFrame(s)
  <2>1. todo' = [todo EXCEPT ![s] = Tail(todo[s])]
    BY <1>6 DEF Go, GoReporting
  <2>2. \A x : Head(todo[s]) = Do("close", x) => At(s, {"close"}) /\ x = What(s)
    BY <1>1 DEF At, What, Do
  <2>3. \A k \in Script, x \in Thing : Threat(Tail(todo[s]), k, x) =>
           Threat(todo[s], k, x) \/ (Close(s) /\ x = What(s))
    BY <1>4, <1>6, <2>2
  <2>. QED
    BY <1>3, <1>4, <1>6, <2>1, <2>3
<1>7. ASSUME Abort(s), UNCHANGED <<now, run>>
      PROVE  ScriptFrame(s)
  BY <1>3, <1>5, <1>7 DEF Abort
<1>8. CASE Check(s)
  BY <1>6, <1>7, <1>8 DEF Check, At
<1>9. CASE ReadClock(s)
  BY <1>6, <1>9 DEF ReadClock, At
<1>10. CASE CreateSchedule(s)
  BY <1>6, <1>7, <1>10 DEF CreateSchedule, At
<1>11. CASE Enable(s)
  BY <1>6, <1>7, <1>11 DEF Enable, At
<1>12. CASE Confirm(s)
  BY <1>6, <1>7, <1>12 DEF Confirm, At
<1>13. CASE Call(s)
  BY <1>6, <1>7, <1>13 DEF Call, At
<1>14. CASE Find(s)
  BY <1>6, <1>7, <1>14 DEF Find, At
<1>15. CASE Close(s)
  BY <1>6, <1>15 DEF Close
<1>16. CASE ListSchedules(s)
  <2>1. CASE Fails /\ GoReporting(s)
    BY <1>6, <1>16, <2>1 DEF ListSchedules, At
  <2>2. CASE \E listed \in SetToSeqs(Pending) : todo' = [todo EXCEPT ![s] = Deletes(listed)]
    <3>1. PICK listed \in SetToSeqs(Pending) : todo' = [todo EXCEPT ![s] = Deletes(listed)]
      BY <2>2
    <3>2. Pending \in SUBSET Script
      BY DEF Pending
    <3>3. /\ Deletes(listed) \in Seq(Step) /\ Orderly(s, Deletes(listed))
          /\ \A i \in DOMAIN Deletes(listed) : Deletes(listed)[i].do = "delete"
      BY <3>2, OrderlyDeletes
    <3>4. Head(todo[s]) = Do("list", "schedules")
      <4>1. Head(todo[s]).do = "list"
        BY <1>16 DEF ListSchedules, At
      <4>2. Head(todo[s]).what = "schedules"
        BY <1>1, <4>1, AfterHead DEF Orderly, WellFormed
      <4>. QED
        BY <1>2, <4>1, <4>2, StepEquals
    <3>5. \A k \in Script, x \in Thing : Threat(todo[s], k, x)
      BY <1>1, <3>4, ThreatNow DEF Ends
    <3>. QED
      BY <1>3, <1>16, <3>1, <3>3, <3>5 DEF ListSchedules
  <2>. QED
    BY <1>16, <2>1, <2>2 DEF ListSchedules, Deletes
<1>17. CASE DeleteSchedule(s)
  BY <1>6, <1>17 DEF DeleteSchedule, At
<1>18. CASE Kill(s)
  BY <1>3, <1>18, OrderlyNothing DEF Kill
<1>. QED
  BY <1>8, <1>9, <1>10, <1>11, <1>12, <1>13, <1>14, <1>15, <1>16, <1>17, <1>18 DEF ScriptStep

-----------------------------------------------------------------------------
(* Type correctness, the scripts and the shutdown runs. *)

LEMMA TurnOnType ==
    ASSUME TypeOK, NEW s \in Script, NEW x \in Thing, TurnOn(s, x)
    PROVE  /\ up' \in [Thing -> {"off", "on", "unreserved"}]
           /\ \A y \in Thing \ {"lambda"} : up'[y] # "unreserved"
           /\ openSince' \in [Thing -> 0..MaxTime]
           /\ openedBy' \in [Thing -> SUBSET Script]
           /\ missed' \subseteq Thing /\ raced' \subseteq Thing /\ delayed' \subseteq Thing
<1>1. Mode(s, x) \in {"on", "unreserved"} /\ (x # "lambda" => Mode(s, x) = "on")
  BY DEF Mode
<1>2. up' \in [Thing -> {"off", "on", "unreserved"}]
  BY <1>1 DEF TurnOn, TypeOK
<1>3. \A y \in Thing \ {"lambda"} : up'[y] # "unreserved"
  BY <1>1 DEF TurnOn, TypeOK
<1>4. openSince' \in [Thing -> 0..MaxTime]
  BY DEF TurnOn, TypeOK
<1>5. openedBy' \in [Thing -> SUBSET Script]
  BY DEF TurnOn, TypeOK
<1>6. missed' \subseteq Thing /\ raced' \subseteq Thing /\ delayed' \subseteq Thing
  BY DEF TurnOn, TypeOK
<1>. QED
  BY <1>2, <1>3, <1>4, <1>5, <1>6

LEMMA SwitchedOffType ==
    ASSUME TypeOK, NEW x \in Thing, SwitchedOff(x)
    PROVE  /\ up' \in [Thing -> {"off", "on", "unreserved"}]
           /\ \A y \in Thing \ {"lambda"} : up'[y] # "unreserved"
           /\ openSince' \in [Thing -> 0..MaxTime]
           /\ openedBy' \in [Thing -> SUBSET Script]
           /\ missed' \subseteq Thing /\ raced' \subseteq Thing /\ delayed' \subseteq Thing
<1>1. 0 \in 0..MaxTime
  BY WindowAssumption
<1>2. up' \in [Thing -> {"off", "on", "unreserved"}]
  BY DEF SwitchedOff, TypeOK
<1>3. \A y \in Thing \ {"lambda"} : up'[y] # "unreserved"
  BY DEF SwitchedOff, TypeOK
<1>4. openSince' \in [Thing -> 0..MaxTime]
  BY <1>1 DEF SwitchedOff, TypeOK
<1>5. openedBy' \in [Thing -> SUBSET Script]
  BY DEF SwitchedOff, TypeOK
<1>6. missed' \subseteq Thing /\ raced' \subseteq Thing /\ delayed' \subseteq Thing
  BY DEF SwitchedOff, TypeOK
<1>. QED
  BY <1>2, <1>3, <1>4, <1>5, <1>6

LEMMA FaultsType ==
    ASSUME TypeOK, Works \/ Fails
    PROVE  faults' \in 0..MaxFaults
BY WindowAssumption DEF TypeOK, Works, Fails

\* What a closing call of a script leaves of the switches.
LEMMA ClosingType ==
    ASSUME TypeOK, NEW x \in Thing, TurnOff(x) \/ TurnOffFails(x)
    PROVE  /\ up' \in [Thing -> {"off", "on", "unreserved"}]
           /\ \A y \in Thing \ {"lambda"} : up'[y] # "unreserved"
           /\ openSince' \in [Thing -> 0..MaxTime]
           /\ openedBy' \in [Thing -> SUBSET Script]
           /\ missed' \subseteq Thing /\ raced' \subseteq Thing /\ delayed' \subseteq Thing
           /\ faults' \in 0..MaxFaults
<1>1. faults' \in 0..MaxFaults
  BY FaultsType DEF TurnOff, TurnOffFails
<1>2. CASE SwitchedOff(x)
  BY <1>1, <1>2, SwitchedOffType
<1>3. CASE /\ missed' = IF up[x] = "off" THEN missed ELSE missed \cup {x}
           /\ UNCHANGED <<up, openSince, openedBy, raced, delayed>>
  BY <1>1, <1>3 DEF TypeOK
<1>. QED
  BY <1>2, <1>3 DEF TurnOff, TurnOffFails

\* The step at the head of a script that closes names a thing.
LEMMA HeadCloses ==
    ASSUME TypeOK, ScriptInv, NEW s \in Script, At(s, {"close"})
    PROVE  What(s) \in Thing /\ Head(todo[s]) = Do("close", What(s))
<1>1. todo[s] \in Seq(Step) /\ todo[s] # <<>> /\ Head(todo[s]).do = "close"
  BY DEF TypeOK, At
<1>2. Head(todo[s]) = todo[s][1] /\ 1 \in DOMAIN todo[s] /\ Head(todo[s]) \in Step
  BY <1>1, AfterHead
<1>3. What(s) \in Thing
  BY <1>1, <1>2 DEF ScriptInv, Orderly, WellFormed, What
<1>. QED
  BY <1>1, <1>2, <1>3, StepEquals DEF What

Switches ==
    /\ up \in [Thing -> {"off", "on", "unreserved"}]
    /\ \A x \in Thing \ {"lambda"} : up[x] # "unreserved"
    /\ openSince \in [Thing -> 0..MaxTime]
    /\ openedBy \in [Thing -> SUBSET Script]
    /\ missed \subseteq Thing /\ raced \subseteq Thing /\ delayed \subseteq Thing

LEMMA TypeStepScript ==
    ASSUME TypeOK, ScriptInv, ScheduleInv, NEW s \in Script, ScriptStep(s)
    PROVE  TypeOK'
<1>1. ScriptFrame(s)
  BY ScriptMoves
<1>2. todo' \in [Script -> Seq(Step)] /\ UNCHANGED <<now, run>>
  BY <1>1 DEF ScriptFrame
<1>3. failed' \subseteq Script
  BY DEF TypeOK, ScriptStep, Check, ReadClock, CreateSchedule, Enable, Confirm, Call, Find,
         Close, ListSchedules, DeleteSchedule, Kill, Go, GoReporting, Abort, Report
<1>4. ASSUME ~Enable(s), ~Close(s)
      PROVE  UNCHANGED upVars
  BY <1>4 DEF ScriptStep, Check, ReadClock, CreateSchedule, Confirm, Call, Find,
              ListSchedules, DeleteSchedule, Kill
<1>5. Switches' /\ faults' \in 0..MaxFaults
  <2>1. CASE Enable(s)
    <3>1. What(s) \in Thing /\ (Works \/ Fails)
      BY <2>1 DEF Enable
    <3>2. CASE TurnOn(s, What(s))
      BY <3>1, <3>2, FaultsType, TurnOnType DEF Switches
    <3>3. CASE UNCHANGED upVars
      BY <3>1, <3>3, FaultsType DEF Switches, TypeOK, upVars
    <3>. QED
      BY <2>1, <3>2, <3>3 DEF Enable
  <2>2. CASE Close(s)
    BY <2>2, HeadCloses, ClosingType DEF Close, Switches
  <2>3. CASE ~Enable(s) /\ ~Close(s)
    <3>1. UNCHANGED faults \/ Works \/ Fails
      BY <2>3 DEF ScriptStep, Check, ReadClock, CreateSchedule, Confirm, Call, Find,
                  ListSchedules, DeleteSchedule, Kill
    <3>2. faults' \in 0..MaxFaults
      BY <3>1, FaultsType DEF TypeOK
    <3>. QED
      BY <1>4, <2>3, <3>2 DEF Switches, TypeOK, upVars
  <2>. QED
    BY <2>1, <2>2, <2>3
<1>6. /\ closeAt' \in [Script -> 0..MaxTime]
      /\ schedule' \in [Script -> {"none", "pending", "gone"}]
      /\ \A k \in Script : schedule'[k] = "pending" => closeAt'[k] > 0
  <2>1. CASE ReadClock(s)
    <3>1. now + Window \in 1..MaxTime
      BY <2>1, WindowAssumption DEF ReadClock, TypeOK
    <3>2. closeAt' = [closeAt EXCEPT ![s] = now + Window] /\ schedule' = schedule
      BY <2>1 DEF ReadClock
    <3>. QED
      BY <3>1, <3>2 DEF TypeOK
  <2>2. CASE CreateSchedule(s)
    <3>1. closeAt[s] > 0
      <4>1. todo[s] \in Seq(Step) /\ todo[s] # <<>> /\ Head(todo[s]) \in Step
        BY <1>1 DEF ScriptFrame
      <4>2. Head(todo[s]) = Do("arm", "schedule")
        BY <2>2, <4>1, StepEquals DEF CreateSchedule, At, What
      <4>3. /\ Head(todo[s]) = todo[s][1] /\ 1 \in DOMAIN todo[s]
            /\ \A i \in DOMAIN todo[s] : i \in Nat /\ (i # 1 => i > 1)
        BY <4>1, AfterHead
      <4>4. ArmsNow(todo[s])
        BY <4>2, <4>3 DEF ArmsNow
      <4>. QED
        BY <4>4 DEF ScheduleInv
    <3>2. closeAt' = closeAt
      BY <2>2 DEF CreateSchedule
    <3>3. \/ schedule' = schedule
          \/ \E o \in {"none", "pending"} : schedule' = [schedule EXCEPT ![s] = o]
      BY <2>2 DEF CreateSchedule
    <3>4. schedule \in [Script -> {"none", "pending", "gone"}]
      BY DEF TypeOK
    <3>5. schedule' \in [Script -> {"none", "pending", "gone"}]
      BY <3>3, <3>4
    <3>6. \A k \in Script : k # s => schedule'[k] = schedule[k]
      BY <3>3, <3>4
    <3>7. ASSUME NEW k \in Script, schedule'[k] = "pending"
          PROVE  closeAt'[k] > 0
      <4>1. CASE k = s
        BY <3>1, <3>2, <4>1
      <4>2. CASE k # s
        BY <3>2, <3>6, <3>7, <4>2 DEF TypeOK
      <4>. QED
        BY <4>1, <4>2
    <3>. QED
      BY <3>2, <3>5, <3>7 DEF TypeOK
  <2>3. CASE DeleteSchedule(s)
    <3>1. closeAt' = closeAt /\ \/ schedule' = schedule
                                \/ schedule' = [schedule EXCEPT ![What(s)] = "gone"]
      BY <2>3 DEF DeleteSchedule
    <3>2. schedule \in [Script -> {"none", "pending", "gone"}]
      BY DEF TypeOK
    <3>3. schedule' \in [Script -> {"none", "pending", "gone"}]
      BY <3>1, <3>2
    <3>4. \A k \in Script : schedule'[k] = "pending" => schedule[k] = "pending"
      BY <3>1, <3>2
    <3>. QED
      BY <3>1, <3>3, <3>4 DEF TypeOK
  <2>4. CASE ~ReadClock(s) /\ ~CreateSchedule(s) /\ ~DeleteSchedule(s)
    <3>1. closeAt' = closeAt /\ schedule' = schedule
      BY <2>4 DEF ScriptStep, Check, Enable, Confirm, Call, Find, Close, ListSchedules, Kill
    <3>. QED
      BY <3>1 DEF TypeOK
  <2>. QED
    BY <2>1, <2>2, <2>3, <2>4
<1>. QED
  BY <1>2, <1>3, <1>5, <1>6 DEF TypeOK, Switches

-----------------------------------------------------------------------------
(* The AWS side. *)

ShutdownRun == [todo : Seq(Step), failed : BOOLEAN, tries : 0..Retries]

LEMMA OverIs ==
    ASSUME NEW r \in ShutdownRun
    PROVE  /\ Over(r) \in ShutdownRun /\ Over(r).todo = r.todo
           /\ r.failed /\ r.tries > 0 => Over(r).failed /\ Over(r).tries > 0
<1>1. NoRun \in ShutdownRun /\ NoRun.todo = <<>>
  BY WindowAssumption DEF NoRun, ShutdownRun
<1>2. r.tries \in 0..Retries
  BY DEF ShutdownRun
<1>3. CASE r.todo = <<>> /\ (~r.failed \/ r.tries = 0)
  <2>1. Over(r) = NoRun
    BY <1>3 DEF Over
  <2>. QED
    BY <1>1, <1>2, <1>3, <2>1
<1>4. CASE ~(r.todo = <<>> /\ (~r.failed \/ r.tries = 0))
  BY <1>4 DEF Over
<1>. QED
  BY <1>3, <1>4

\* A run that starts, or is repeated, still has everything to close.
Starts(t) ==
    /\ run' \in [Trigger -> ShutdownRun]
    /\ run'[t].todo = Closing
    /\ \A k \in Trigger \ {t} : run'[k] = run[k]

LEMMA RunStarts ==
    ASSUME TypeOK, NEW t \in Trigger, Start(t) \/ Retry(t)
    PROVE  Starts(t)
<1>1. run \in [Trigger -> ShutdownRun]
  BY DEF TypeOK, ShutdownRun
<1>2. ASSUME NEW r \in ShutdownRun, r.todo = Closing, run' = [run EXCEPT ![t] = r]
      PROVE  Starts(t)
  BY <1>1, <1>2 DEF Starts
<1>3. CASE Start(t)
  <2>. DEFINE r == [todo |-> Closing, failed |-> FALSE, tries |-> Retries]
  <2>1. r \in ShutdownRun /\ r.todo = Closing
    BY ClosingIs, WindowAssumption DEF ShutdownRun
  <2>. QED
    BY <1>2, <1>3, <2>1 DEF Start
<1>4. CASE Retry(t)
  <2>. DEFINE r == [todo |-> Closing, failed |-> FALSE, tries |-> run[t].tries - 1]
  <2>1. run[t].tries \in 0..Retries /\ run[t].tries > 0
    BY <1>1, <1>4 DEF Retry, WillRetry, ShutdownRun
  <2>2. run[t].tries - 1 \in 0..Retries
    BY <2>1, WindowAssumption
  <2>3. r \in ShutdownRun /\ r.todo = Closing
    BY <2>2, ClosingIs DEF ShutdownRun
  <2>4. run' = [run EXCEPT ![t] = r]
    BY <1>4 DEF Retry
  <2>. QED
    BY <1>2, <2>3, <2>4
<1>. QED
  BY <1>3, <1>4

\* A run goes on or is cut off.
Handles(t) == ShutdownStep(t) \/ CutOff(t)

OnWatched(x) == up[x] # "off" /\ ~Unwatched(x)

LEMMA ClosedIsOff ==
    ASSUME TypeOK, NEW x \in Thing, TurnOff(x) \/ TurnOffFails(x) \/ SwitchedOff(x)
    PROVE  /\ ~OnWatched(x)'
           /\ \A y \in Thing \ {x} :
                 /\ OnWatched(y)' => OnWatched(y)
                 /\ openSince'[y] = openSince[y]
                 /\ y \in delayed' <=> y \in delayed
           /\ \A y \in Thing, s \in Script : s \in openedBy'[y] => s \in openedBy[y]
<1>1. CASE SwitchedOff(x)
  BY <1>1 DEF SwitchedOff, OnWatched, Unwatched, TypeOK
<1>2. CASE /\ missed' = IF up[x] = "off" THEN missed ELSE missed \cup {x}
           /\ UNCHANGED <<up, openSince, openedBy, raced, delayed>>
  BY <1>2 DEF OnWatched, Unwatched, TypeOK
<1>. QED
  BY <1>1, <1>2 DEF TurnOff, TurnOffFails

\* What a run did not close is given up, or left to its repeat.
LEMMA NotClosedIs ==
    ASSUME TypeOK, NEW t \in Trigger, NEW things \in SUBSET Thing, NotClosed(t, things)
    PROVE  /\ Switches'
           /\ UNCHANGED <<openSince, openedBy>>
           /\ \A y \in Thing : OnWatched(y)' =>
                 /\ OnWatched(y)
                 /\ y \in delayed => y \in delayed'
                 /\ y \in things => y \in delayed' /\ run[t].tries > 0
<1>. DEFINE on == {y \in things : up[y] # "off"}
<1>1. on \subseteq Thing /\ UNCHANGED <<up, openSince, openedBy, raced>>
  BY DEF NotClosed
<1>2. CASE run[t].tries > 0
  <2>1. delayed' = delayed \cup on /\ missed' = missed
    BY <1>2 DEF NotClosed
  <2>2. Switches'
    BY <1>1, <2>1 DEF TypeOK, Switches
  <2>. QED
    BY <1>1, <1>2, <2>1, <2>2 DEF OnWatched, Unwatched
<1>3. CASE ~(run[t].tries > 0)
  <2>1. missed' = missed \cup on /\ delayed' = delayed
    BY <1>3 DEF NotClosed
  <2>2. Switches'
    BY <1>1, <2>1 DEF TypeOK, Switches
  <2>. QED
    BY <1>1, <2>1, <2>2 DEF OnWatched, Unwatched
<1>. QED
  BY <1>2, <1>3

\* What a run leaves on, it still has to close, or its repeat has.
Proceeds(t) ==
    /\ Switches' /\ faults' \in 0..MaxFaults
    /\ run' \in [Trigger -> ShutdownRun]
    /\ \A k \in Trigger \ {t} : run'[k] = run[k]
    /\ WillRetry(t) => WillRetry(t)'
    /\ \A i \in DOMAIN run'[t].todo :
          \E j \in DOMAIN run[t].todo : run'[t].todo[i] = run[t].todo[j]
    /\ \A y \in Thing, s \in Script : s \in openedBy'[y] => s \in openedBy[y]
    /\ \A y \in Thing : OnWatched(y)' =>
          /\ OnWatched(y) /\ openSince'[y] = openSince[y]
          /\ y \in delayed => y \in delayed'
          /\ Left(run[t].todo, "close", y) =>
                Left(run'[t].todo, "close", y) \/ (y \in delayed' /\ WillRetry(t)')

LEMMA StepProceeds ==
    ASSUME TypeOK, RunInv, NEW t \in Trigger, ShutdownStep(t)
    PROVE  Proceeds(t)
<1>1. run \in [Trigger -> ShutdownRun]
  BY DEF TypeOK, ShutdownRun
<1>2. run[t].todo \in Seq(Step) /\ run[t].todo # <<>> /\ run[t].tries \in 0..Retries
  BY <1>1 DEF ShutdownStep, ShutdownRun
<1>. DEFINE x == Head(run[t].todo).what
            q == Tail(run[t].todo)
<1>3. x \in Thing
  BY <1>2, AfterHead DEF RunInv
<1>4. \A y \in Thing \ {x} : Head(run[t].todo) # Do("close", y)
  BY DEF Do
<1>5. /\ q \in Seq(Step) /\ Head(run[t].todo) = run[t].todo[1]
      /\ \A i \in DOMAIN q : i + 1 \in DOMAIN run[t].todo /\ q[i] = run[t].todo[i + 1]
      /\ \A i \in DOMAIN run[t].todo :
            i # 1 => i - 1 \in DOMAIN q /\ q[i - 1] = run[t].todo[i]
  BY <1>2, AfterHead
<1>6. ASSUME NEW y \in Thing \ {x}, Left(run[t].todo, "close", y)
      PROVE  Left(q, "close", y)
  <2>1. PICK i \in DOMAIN run[t].todo : run[t].todo[i] = Do("close", y)
    BY <1>2, <1>6, LeftIs
  <2>2. i - 1 \in DOMAIN q /\ q[i - 1] = Do("close", y)
    BY <1>4, <1>5, <2>1
  <2>. QED
    BY <1>5, <2>2, LeftIs
<1>. DEFINE went == [run[t] EXCEPT !.todo = q]
            fell == [run[t] EXCEPT !.todo = q, !.failed = TRUE]
<1>7. /\ went \in ShutdownRun /\ went.todo = q
      /\ went.failed = run[t].failed /\ went.tries = run[t].tries
      /\ fell \in ShutdownRun /\ fell.todo = q
      /\ fell.failed /\ fell.tries = run[t].tries
  BY <1>1, <1>5 DEF ShutdownRun
<1>8. \/ TurnOff(x) /\ run' = [run EXCEPT ![t] = Over(went)]
      \/ /\ Fails /\ (SwitchedOff(x) \/ NotClosed(t, {x}))
         /\ run' = [run EXCEPT ![t] = Over(fell)]
  BY Zenon DEF ShutdownStep
<1>. HIDE DEF x, q, went, fell
<1>9. ASSUME NEW r \in {went, fell}, run' = [run EXCEPT ![t] = Over(r)]
      PROVE  /\ run' \in [Trigger -> ShutdownRun] /\ run'[t].todo = q
             /\ \A k \in Trigger \ {t} : run'[k] = run[k]
             /\ WillRetry(t) => WillRetry(t)'
             /\ r = fell /\ run[t].tries > 0 => WillRetry(t)'
  <2>1. run'[t] = Over(r) /\ Over(r) \in ShutdownRun /\ Over(r).todo = q
    BY <1>1, <1>7, <1>9, OverIs
  <2>2. r.failed /\ r.tries > 0 => WillRetry(t)'
    BY <1>7, <1>9, <2>1, OverIs DEF WillRetry
  <2>. QED
    BY <1>1, <1>7, <1>9, <2>1, <2>2 DEF WillRetry
<1>10. \A i \in DOMAIN q : \E j \in DOMAIN run[t].todo : q[i] = run[t].todo[j]
  BY <1>5
<1>11. CASE SwitchedOff(x)
  <2>1. Switches' /\ faults' \in 0..MaxFaults
    BY <1>3, <1>8, <1>11, SwitchedOffType, FaultsType DEF TurnOff, Switches
  <2>2. PICK r \in {went, fell} : run' = [run EXCEPT ![t] = Over(r)]
    BY <1>8
  <2>3. /\ run' \in [Trigger -> ShutdownRun] /\ run'[t].todo = q
        /\ \A k \in Trigger \ {t} : run'[k] = run[k]
        /\ WillRetry(t) => WillRetry(t)'
    BY <1>9, <2>2
  <2>4. \A y \in Thing : OnWatched(y)' =>
           /\ y # x /\ OnWatched(y) /\ openSince'[y] = openSince[y]
           /\ y \in delayed => y \in delayed'
    BY <1>3, <1>11, ClosedIsOff
  <2>5. \A y \in Thing, s \in Script : s \in openedBy'[y] => s \in openedBy[y]
    BY <1>3, <1>11, ClosedIsOff
  <2>. QED
    BY <1>6, <1>10, <2>1, <2>3, <2>4, <2>5 DEF Proceeds
<1>12. CASE /\ Fails /\ NotClosed(t, {x})
            /\ run' = [run EXCEPT ![t] = Over(fell)]
  <2>1. {x} \in SUBSET Thing
    BY <1>3
  <2>2. /\ Switches' /\ UNCHANGED <<openSince, openedBy>>
        /\ \A y \in Thing : OnWatched(y)' =>
              /\ OnWatched(y) /\ (y \in delayed => y \in delayed')
              /\ y = x => y \in delayed' /\ run[t].tries > 0
    BY <1>12, <2>1, NotClosedIs
  <2>3. faults' \in 0..MaxFaults
    BY <1>12, FaultsType
  <2>4. /\ run' \in [Trigger -> ShutdownRun] /\ run'[t].todo = q
        /\ \A k \in Trigger \ {t} : run'[k] = run[k]
        /\ WillRetry(t) => WillRetry(t)'
        /\ run[t].tries > 0 => WillRetry(t)'
    BY <1>9, <1>12
  <2>. QED
    BY <1>6, <1>10, <2>2, <2>3, <2>4 DEF Proceeds
<1>. QED
  BY <1>8, <1>11, <1>12 DEF TurnOff

LEMMA CutOffProceeds ==
    ASSUME TypeOK, NEW t \in Trigger, CutOff(t)
    PROVE  Proceeds(t)
<1>. DEFINE things == {x \in Thing : Left(run[t].todo, "close", x)}
            r == [run[t] EXCEPT !.todo = <<>>, !.failed = TRUE]
<1>1. run \in [Trigger -> ShutdownRun]
  BY DEF TypeOK, ShutdownRun
<1>2. r \in ShutdownRun /\ r.todo = <<>> /\ r.failed /\ r.tries = run[t].tries
  BY <1>1, EmptySeq DEF ShutdownRun
<1>3. NotClosed(t, things) /\ things \in SUBSET Thing
  <2>1. things \in SUBSET Thing
    OBVIOUS
  <2>2. NotClosed(t, things)
    BY Zenon DEF CutOff
  <2>. QED
    BY <2>1, <2>2
<1>4. Fails /\ run' = [run EXCEPT ![t] = Over(r)]
  BY DEF CutOff
<1>. HIDE DEF r
<1>5. run'[t] = Over(r) /\ Over(r) \in ShutdownRun /\ Over(r).todo = <<>>
  BY <1>1, <1>2, <1>4, OverIs
<1>6. run[t].tries > 0 => WillRetry(t)'
  BY <1>2, <1>5, OverIs DEF WillRetry
<1>7. /\ Switches' /\ UNCHANGED <<openSince, openedBy>>
      /\ \A y \in Thing : OnWatched(y)' =>
            /\ OnWatched(y) /\ (y \in delayed => y \in delayed')
            /\ y \in things => y \in delayed' /\ run[t].tries > 0
  BY <1>3, NotClosedIs
<1>8. faults' \in 0..MaxFaults
  BY <1>4, FaultsType
<1>9. DOMAIN run'[t].todo = {}
  BY <1>5
<1>10. /\ run' \in [Trigger -> ShutdownRun]
       /\ \A k \in Trigger \ {t} : run'[k] = run[k]
  BY <1>1, <1>4, <1>5
<1>. QED
  BY <1>6, <1>7, <1>8, <1>9, <1>10 DEF Proceeds, WillRetry

LEMMA RunProceeds ==
    ASSUME TypeOK, RunInv, NEW t \in Trigger, Handles(t)
    PROVE  Proceeds(t)
BY StepProceeds, CutOffProceeds DEF Handles

\* Steps that are not of a script leave the scripts alone.
AwsStep == \/ \E s \in Script : Fire(s)
           \/ \E t \in Trigger : Handles(t) \/ Retry(t)
           \/ AlarmFires \/ Tick

LEMMA AwsFrame ==
    ASSUME AwsStep
    PROVE  UNCHANGED <<todo, failed, closeAt>>
BY DEF AwsStep, Handles, Fire, ShutdownStep, CutOff, Retry, AlarmFires, Tick

LEMMA TypeStepAws ==
    ASSUME TypeOK, RunInv, AwsStep
    PROVE  TypeOK'
<1>1. UNCHANGED <<todo, failed, closeAt>>
  BY AwsFrame
<1>2. ASSUME NEW t \in Trigger, Starts(t)
      PROVE  run' \in [Trigger -> [todo : Seq(Step), failed : BOOLEAN, tries : 0..Retries]]
  BY <1>2 DEF Starts, ShutdownRun
<1>3. ASSUME NEW s \in Script, Fire(s)
      PROVE  TypeOK'
  <2>1. s \in Trigger
    BY DEF Trigger
  <2>2. run' \in [Trigger -> [todo : Seq(Step), failed : BOOLEAN, tries : 0..Retries]]
    BY <1>2, <1>3, <2>1, RunStarts DEF Fire
  <2>3. UNCHANGED <<now, upVars, faults>> /\ schedule' = [schedule EXCEPT ![s] = "gone"]
    BY <1>3 DEF Fire
  <2>4. /\ schedule' \in [Script -> {"none", "pending", "gone"}]
        /\ \A k \in Script : schedule'[k] = "pending" => schedule[k] = "pending"
    BY <2>3 DEF TypeOK
  <2>. QED
    BY <1>1, <2>2, <2>3, <2>4 DEF TypeOK, upVars
<1>4. ASSUME NEW t \in Trigger, Handles(t)
      PROVE  TypeOK'
  <2>1. Proceeds(t)
    BY <1>4, RunProceeds
  <2>2. Switches' /\ faults' \in 0..MaxFaults
    BY <2>1 DEF Proceeds
  <2>3. run' \in [Trigger -> [todo : Seq(Step), failed : BOOLEAN, tries : 0..Retries]]
    BY <2>1 DEF Proceeds, ShutdownRun
  <2>4. UNCHANGED <<now, schedule>>
    BY <1>4 DEF Handles, ShutdownStep, CutOff
  <2>. QED
    BY <1>1, <2>2, <2>3, <2>4 DEF TypeOK, Switches
<1>5. ASSUME NEW t \in Trigger, Retry(t)
      PROVE  TypeOK'
  <2>1. run' \in [Trigger -> [todo : Seq(Step), failed : BOOLEAN, tries : 0..Retries]]
    BY <1>2, <1>5, RunStarts
  <2>2. UNCHANGED <<now, upVars, faults, schedule>>
    BY <1>5 DEF Retry
  <2>. QED
    BY <1>1, <2>1, <2>2 DEF TypeOK, upVars
<1>6. CASE AlarmFires
  <2>1. "alarm" \in Trigger
    BY DEF Trigger
  <2>2. run' \in [Trigger -> [todo : Seq(Step), failed : BOOLEAN, tries : 0..Retries]]
    BY <1>2, <1>6, <2>1, RunStarts DEF AlarmFires
  <2>3. UNCHANGED <<now, upVars, faults, schedule>>
    BY <1>6 DEF AlarmFires
  <2>. QED
    BY <1>1, <2>2, <2>3 DEF TypeOK, upVars
<1>7. CASE Tick
  <2>1. now' \in 0..MaxTime
    BY <1>7, WindowAssumption DEF Tick, TypeOK
  <2>2. UNCHANGED <<run, upVars, faults, schedule>>
    BY <1>7 DEF Tick
  <2>. QED
    BY <1>1, <2>1, <2>2 DEF TypeOK, upVars
<1>. QED
  BY <1>3, <1>4, <1>5, <1>6, <1>7 DEF AwsStep

-----------------------------------------------------------------------------
(* The parts that only concern order. *)

LEMMA ScriptStepKeeps ==
    ASSUME TypeOK, ScriptInv, NEW s \in Script, ScriptStep(s)
    PROVE  ScriptInv'
<1>1. \A k \in Script : Orderly(k, todo'[k])
  BY ScriptMoves DEF ScriptFrame, ScriptInv
<1>. QED
  BY <1>1 DEF ScriptInv

LEMMA RunStepKeeps ==
    ASSUME TypeOK, ScriptInv, RunInv, Next
    PROVE  RunInv'
<1>1. run \in [Trigger -> ShutdownRun]
  BY DEF TypeOK, ShutdownRun
<1>2. ASSUME UNCHANGED run
      PROVE  RunInv'
  BY <1>2 DEF RunInv
<1>3. ASSUME NEW t \in Trigger, Starts(t)
      PROVE  RunInv'
  <2>1. \A i \in DOMAIN Closing : Closing[i].do = "close" /\ Closing[i].what \in Thing
    BY ClosingIs DEF WellFormed
  <2>2. \A k \in Trigger : k = t \/ run'[k] = run[k]
    BY <1>3 DEF Starts
  <2>3. run'[t].todo = Closing
    BY <1>3 DEF Starts
  <2>4. \A k \in Trigger : \A i \in DOMAIN run'[k].todo :
           run'[k].todo[i].do = "close" /\ run'[k].todo[i].what \in Thing
    BY <2>1, <2>2, <2>3 DEF RunInv
  <2>. QED
    BY <2>4 DEF RunInv
<1>4. ASSUME NEW t \in Trigger, Handles(t)
      PROVE  RunInv'
  <2>1. Proceeds(t)
    BY <1>4, RunProceeds
  <2>2. \A k \in Trigger : \A i \in DOMAIN run'[k].todo :
           \E j \in DOMAIN run[k].todo : run'[k].todo[i] = run[k].todo[j]
    BY <2>1 DEF Proceeds
  <2>3. \A k \in Trigger : \A i \in DOMAIN run'[k].todo :
           run'[k].todo[i].do = "close" /\ run'[k].todo[i].what \in Thing
    BY <2>2 DEF RunInv
  <2>. QED
    BY <2>3 DEF RunInv
<1>5. ASSUME NEW s \in Script, ScriptStep(s)
      PROVE  UNCHANGED run
  BY <1>5, ScriptMoves DEF ScriptFrame
<1>6. ASSUME NEW s \in Script, Fire(s)
      PROVE  RunInv'
  <2>1. s \in Trigger
    BY DEF Trigger
  <2>. QED
    BY <1>3, <1>6, <2>1, RunStarts DEF Fire
<1>7. CASE AlarmFires
  <2>1. "alarm" \in Trigger
    BY DEF Trigger
  <2>. QED
    BY <1>3, <1>7, <2>1, RunStarts DEF AlarmFires
<1>8. CASE Tick
  BY <1>2, <1>8 DEF Tick
<1>. QED
  BY <1>2, <1>3, <1>4, <1>5, <1>6, <1>7, <1>8, RunStarts DEF Next, Handles

\* What is left after a step arms nothing that was not to be armed before it.
LEMMA ArmsAfter ==
    ASSUME NEW q \in Seq(Step), q # <<>>, NEW r \in Seq(Step),
           \/ r = Tail(q)
           \/ \A i \in DOMAIN r : r[i].do \in {"find", "close", "list", "delete"}
    PROVE  /\ Arms(r) => Arms(q)
           /\ ArmsNow(r) => ArmsNow(q) \/ Head(q) = Do("read", "clock")
           /\ ArmsOnce(q) /\ Head(q) = Do("arm", "schedule") => ~Arms(r)
<1>1. CASE \A i \in DOMAIN r : r[i].do \in {"find", "close", "list", "delete"}
  BY <1>1 DEF Arms, ArmsNow, Do
<1>2. CASE r = Tail(q)
  <2>1. /\ Head(q) = q[1] /\ 1 \in DOMAIN q
        /\ \A i \in DOMAIN r :
              i \in Nat /\ i + 1 \in DOMAIN q /\ i + 1 > 1 /\ r[i] = q[i + 1]
        /\ \A i \in DOMAIN q :
              i \in Nat /\ (i # 1 => i - 1 \in DOMAIN r /\ r[i - 1] = q[i])
    BY <1>2, AfterHead
  <2>2. Arms(r) => Arms(q)
    BY <2>1 DEF Arms
  <2>3. ASSUME ArmsNow(r), Head(q) # Do("read", "clock")
        PROVE  ArmsNow(q)
    <3>1. PICK i \in DOMAIN r : /\ r[i] = Do("arm", "schedule")
                                /\ \A j \in DOMAIN r : j < i => r[j] # Do("read", "clock")
      BY <2>3 DEF ArmsNow
    <3>2. i + 1 \in DOMAIN q /\ q[i + 1] = Do("arm", "schedule")
      BY <2>1, <3>1
    <3>3. ASSUME NEW j \in DOMAIN q, j < i + 1
          PROVE  q[j] # Do("read", "clock")
      <4>1. CASE j = 1
        BY <2>1, <2>3, <4>1
      <4>2. CASE j # 1
        <5>1. j - 1 \in DOMAIN r /\ r[j - 1] = q[j] /\ i \in Nat /\ j \in Nat
          BY <2>1, <4>2
        <5>2. j - 1 < i
          BY <3>3, <5>1
        <5>. QED
          BY <3>1, <5>1, <5>2
      <4>. QED
        BY <4>1, <4>2
    <3>. QED
      BY <3>2, <3>3 DEF ArmsNow
  <2>4. ArmsOnce(q) /\ Head(q) = Do("arm", "schedule") => ~Arms(r)
    BY <2>1 DEF Arms, ArmsOnce
  <2>. QED
    BY <2>2, <2>3, <2>4
<1>. QED
  BY <1>1, <1>2

LEMMA ScheduleStepKeeps ==
    ASSUME TypeOK, ScriptInv, ScheduleInv, NEW s \in Script, ScriptStep(s)
    PROVE  ScheduleInv'
<1>1. ScriptFrame(s)
  BY ScriptMoves
<1>2. /\ todo[s] \in Seq(Step) /\ todo[s] # <<>> /\ Head(todo[s]) \in Step
      /\ todo'[s] \in Seq(Step) /\ now' = now
      /\ \A k \in Script \ {s} : todo'[k] = todo[k]
      /\ Orderly(s, todo[s])
  BY <1>1 DEF ScriptFrame, ScriptInv
<1>3. /\ Arms(todo'[s]) => Arms(todo[s])
      /\ ArmsNow(todo'[s]) => ArmsNow(todo[s]) \/ Head(todo[s]) = Do("read", "clock")
      /\ Head(todo[s]) = Do("arm", "schedule") => ~Arms(todo'[s])
  BY <1>1, <1>2, ArmsAfter DEF ScriptFrame, Orderly
<1>4. /\ now \in Nat /\ closeAt \in [Script -> 0..MaxTime] /\ MaxTime \in Nat
      /\ Window \in Nat \ {0}
  BY WindowAssumption DEF TypeOK
<1>. SUFFICES ASSUME NEW k \in Script
              PROVE  /\ closeAt'[k] <= now + Window
                     /\ Arms(todo'[k]) => schedule'[k] = "none"
                     /\ ArmsNow(todo'[k]) => closeAt'[k] > 0
  BY <1>2 DEF ScheduleInv
<1>5. /\ closeAt[k] <= now + Window
      /\ Arms(todo[k]) => schedule[k] = "none"
      /\ ArmsNow(todo[k]) => closeAt[k] > 0
  BY DEF ScheduleInv
<1>6. CASE ReadClock(s)
  <2>1. closeAt' = [closeAt EXCEPT ![s] = now + Window] /\ schedule' = schedule
    BY <1>6 DEF ReadClock
  <2>2. CASE k = s
    BY <1>3, <1>4, <1>5, <2>1, <2>2
  <2>3. CASE k # s
    BY <1>2, <1>4, <1>5, <2>1, <2>3
  <2>. QED
    BY <2>2, <2>3
<1>7. ASSUME ~ReadClock(s)
      PROVE  /\ closeAt' = closeAt
             /\ Head(todo[s]) # Do("read", "clock") \/ todo'[s] = <<>>
  <2>1. closeAt' = closeAt
    BY <1>7 DEF ScriptStep, Check, CreateSchedule, Enable, Confirm, Call, Find, Close,
                ListSchedules, DeleteSchedule, Kill
  <2>2. Head(todo[s]).do # "read" \/ Kill(s)
    BY <1>7 DEF ScriptStep, Check, CreateSchedule, Enable, Confirm, Call, Find, Close,
                ListSchedules, DeleteSchedule, At
  <2>3. Kill(s) => todo'[s] = <<>>
    BY DEF Kill, TypeOK
  <2>. QED
    BY <2>1, <2>2, <2>3 DEF Do
<1>8. ASSUME ~ReadClock(s)
      PROVE  /\ closeAt'[k] = closeAt[k]
             /\ Arms(todo'[k]) => Arms(todo[k])
             /\ ArmsNow(todo'[k]) => ArmsNow(todo[k])
  <2>1. DOMAIN <<>> = {}
    OBVIOUS
  <2>2. ~Arms(<<>>) /\ ~ArmsNow(<<>>)
    BY <2>1 DEF Arms, ArmsNow
  <2>. QED
    BY <1>2, <1>3, <1>7, <1>8, <2>2
<1>9. CASE CreateSchedule(s)
  <2>1. Head(todo[s]) = Do("arm", "schedule")
    BY <1>2, <1>9, StepEquals DEF CreateSchedule, At, What
  <2>2. ~ReadClock(s)
    BY <2>1 DEF ReadClock, At, Do
  <2>3. \A j \in Script \ {s} : schedule'[j] = schedule[j]
    BY <1>9 DEF CreateSchedule, TypeOK
  <2>. QED
    BY <1>3, <1>5, <1>8, <2>1, <2>2, <2>3
<1>10. CASE DeleteSchedule(s)
  <2>1. ~ReadClock(s)
    BY <1>10 DEF ReadClock, DeleteSchedule, At
  <2>2. schedule'[k] = schedule[k] \/ schedule[k] = "pending"
    BY <1>10 DEF DeleteSchedule, TypeOK, Pending
  <2>. QED
    BY <1>5, <1>8, <2>1, <2>2
<1>11. CASE ~ReadClock(s) /\ ~CreateSchedule(s) /\ ~DeleteSchedule(s)
  <2>1. schedule' = schedule
    BY <1>11 DEF ScriptStep, Check, Enable, Confirm, Call, Find, Close, ListSchedules, Kill
  <2>. QED
    BY <1>5, <1>8, <1>11, <2>1
<1>. QED
  BY <1>6, <1>9, <1>10, <1>11

LEMMA ScheduleAwsKeeps ==
    ASSUME TypeOK, ScheduleInv, AwsStep
    PROVE  ScheduleInv'
<1>1. UNCHANGED <<todo, closeAt>>
  BY AwsFrame
<1>2. now' \in {now, now + 1}
  BY DEF AwsStep, Handles, Fire, ShutdownStep, CutOff, Retry, AlarmFires, Tick
<1>3. now \in Nat /\ closeAt \in [Script -> 0..MaxTime] /\ MaxTime \in Nat /\ Window \in Nat
  BY WindowAssumption DEF TypeOK
<1>4. \A k \in Script : schedule'[k] = schedule[k] \/ schedule[k] = "pending"
  <2>1. ASSUME NEW s \in Script, Fire(s)
        PROVE  \A k \in Script : schedule'[k] = schedule[k] \/ schedule[k] = "pending"
    BY <2>1 DEF Fire, TypeOK
  <2>2. ASSUME ~\E s \in Script : Fire(s)
        PROVE  schedule' = schedule
    BY <2>2 DEF AwsStep, Handles, ShutdownStep, CutOff, Retry, AlarmFires, Tick
  <2>. QED
    BY <2>1, <2>2
<1>5. ASSUME NEW k \in Script
      PROVE  /\ closeAt'[k] <= now' + Window
             /\ Arms(todo'[k]) => schedule'[k] = "none"
             /\ ArmsNow(todo'[k]) => closeAt'[k] > 0
  <2>1. /\ closeAt[k] <= now + Window
        /\ Arms(todo[k]) => schedule[k] = "none"
        /\ ArmsNow(todo[k]) => closeAt[k] > 0
    BY DEF ScheduleInv
  <2>2. closeAt[k] <= now' + Window
    BY <1>2, <1>3, <2>1
  <2>. QED
    BY <1>1, <1>4, <2>1, <2>2
<1>. QED
  BY <1>5 DEF ScheduleInv

-----------------------------------------------------------------------------
(* Nothing loses its last shutdown, and nothing stays on too long. *)

LEMMA StillGuarded ==
    ASSUME NEW x \in Thing, Guarded(x),
           \A k, j \in Script : Threat(todo'[k], j, x) => Threat(todo[k], j, x),
           \A j \in Script :
              schedule[j] = "pending" /\ (\A k \in Script : ~Threat(todo[k], j, x)) =>
              schedule'[j] = "pending" /\ closeAt'[j] = closeAt[j],
           openSince'[x] = openSince[x],
           x \in delayed => x \in delayed',
           \A t \in Trigger : WillRetry(t) => WillRetry(t)',
           \A t \in Trigger : Left(run[t].todo, "close", x) =>
              Left(run'[t].todo, "close", x) \/ (x \in delayed' /\ WillRetry(t)')
    PROVE  Guarded(x)'
<1>1. CASE \E t \in Trigger : Left(run[t].todo, "close", x)
  <2>1. \E t \in Trigger :
           Left(run'[t].todo, "close", x) \/ (x \in delayed' /\ WillRetry(t)')
    BY <1>1
  <2>. QED
    BY <2>1 DEF Guarded
<1>3. CASE x \in delayed /\ \E t \in Trigger : WillRetry(t)
  <2>1. x \in delayed' /\ \E t \in Trigger : WillRetry(t)'
    BY <1>3
  <2>. QED
    BY <2>1 DEF Guarded
<1>2. CASE \E j \in Script : Kept(j, x)
  <2>1. PICK j \in Script : Kept(j, x)
    BY <1>2
  <2>2. schedule'[j] = "pending" /\ closeAt'[j] = closeAt[j]
    BY <2>1 DEF Kept
  <2>3. \A k \in Script : ~Threat(todo'[k], j, x)
    BY <2>1 DEF Kept
  <2>4. Kept(j, x)'
    BY <2>1, <2>2, <2>3 DEF Kept
  <2>. QED
    BY <2>4 DEF Guarded
<1>. QED
  BY <1>1, <1>2, <1>3 DEF Guarded

\* Each script's step keeps what guards a thing it does not touch.
LEMMA ScriptKeepsGuards ==
    ASSUME TypeOK, ScriptInv, ScheduleInv, NEW s \in Script, ScriptStep(s),
           NEW x \in Thing, Guarded(x), openSince'[x] = openSince[x],
           x \in delayed => x \in delayed',
           ~(Close(s) /\ x = What(s))
    PROVE  Guarded(x)'
<1>1. ScriptFrame(s)
  BY ScriptMoves
<1>2. \A k, j \in Script : Threat(todo'[k], j, x) => Threat(todo[k], j, x)
  BY <1>1 DEF ScriptFrame
<1>3. run' = run /\ todo[s] \in Seq(Step) /\ todo[s] # <<>> /\ Head(todo[s]) \in Step
  BY <1>1 DEF ScriptFrame
<1>4. Head(todo[s]) = todo[s][1] /\ 1 \in DOMAIN todo[s]
  BY <1>3, AfterHead
<1>5. \A j \in Script : schedule[j] = "pending" /\ (\A k \in Script : ~Threat(todo[k], j, x)) =>
         schedule'[j] = "pending" /\ closeAt'[j] = closeAt[j]
  <2>1. CASE ReadClock(s)
    <3>1. Head(todo[s]) = Do("read", "clock")
      <4>1. Head(todo[s]).do = "read" /\ Orderly(s, todo[s])
        BY <2>1 DEF ReadClock, At, ScriptInv
      <4>2. Head(todo[s]).what = "clock"
        BY <1>4, <4>1 DEF Orderly, WellFormed
      <4>. QED
        BY <1>3, <4>1, <4>2, StepEquals
    <3>2. schedule[s] = "none"
      BY <1>4, <3>1 DEF ScheduleInv, Arms
    <3>3. schedule' = schedule /\ \A j \in Script \ {s} : closeAt'[j] = closeAt[j]
      BY <2>1 DEF ReadClock, TypeOK
    <3>. QED
      BY <3>2, <3>3
  <2>2. CASE CreateSchedule(s)
    <3>1. Head(todo[s]) = Do("arm", "schedule")
      BY <1>3, <2>2, StepEquals DEF CreateSchedule, At, What
    <3>2. schedule[s] = "none"
      BY <1>4, <3>1 DEF ScheduleInv, Arms
    <3>3. closeAt' = closeAt /\ \A j \in Script \ {s} : schedule'[j] = schedule[j]
      BY <2>2 DEF CreateSchedule, TypeOK
    <3>. QED
      BY <3>2, <3>3
  <2>3. CASE DeleteSchedule(s)
    <3>1. closeAt' = closeAt
          /\ \A j \in Script : j # What(s) => schedule'[j] = schedule[j]
      BY <2>3 DEF DeleteSchedule, TypeOK
    <3>2. ASSUME NEW j \in Script, j = What(s)
          PROVE  Threat(todo[s], j, x)
      <4>1. Head(todo[s]) = Do("delete", j)
        BY <1>3, <2>3, <3>2, StepEquals DEF DeleteSchedule, At, What
      <4>. QED
        BY <1>3, <4>1, ThreatNow DEF Ends
    <3>. QED
      BY <3>1, <3>2
  <2>4. CASE ~ReadClock(s) /\ ~CreateSchedule(s) /\ ~DeleteSchedule(s)
    <3>1. closeAt' = closeAt /\ schedule' = schedule
      BY <2>4 DEF ScriptStep, Check, Enable, Confirm, Call, Find, Close, ListSchedules, Kill
    <3>. QED
      BY <3>1
  <2>. QED
    BY <2>1, <2>2, <2>3, <2>4
<1>6. \A t \in Trigger : WillRetry(t) => WillRetry(t)'
  BY <1>3 DEF WillRetry
<1>. QED
  BY <1>2, <1>3, <1>5, <1>6, StillGuarded

\* What a script turns on in time is guarded by its own schedule.
LEMMA OwnScheduleGuards ==
    ASSUME TypeOK, ScriptInv, ScheduleInv, NEW s \in Script, Enable(s),
           NEW x \in Thing, x = What(s), ~TooLate(s, x), openSince'[x] = now
    PROVE  Guarded(x)'
<1>1. ScriptStep(s) /\ ScriptFrame(s)
  BY ScriptMoves DEF ScriptStep
<1>2. todo[s] \in Seq(Step) /\ todo[s] # <<>> /\ Orderly(s, todo[s])
  BY <1>1 DEF ScriptFrame, ScriptInv
<1>3. Enables(Head(todo[s]), x) /\ Head(todo[s]).do \in {"arm", "enable"}
  BY DEF Enable, At, What, Enables
<1>4. Head(todo[s]) = todo[s][1] /\ 1 \in DOMAIN todo[s]
  BY <1>2, AfterHead
<1>5. UNCHANGED <<closeAt, schedule, now>>
  BY DEF Enable
<1>6. schedule[s] = "pending" /\ closeAt[s] <= now + Window
  BY DEF TooLate, ScheduleInv
<1>7. ~Threat(todo'[s], s, x)
  <2>1. CASE Go(s)
    <3>1. todo'[s] = Tail(todo[s])
      BY <2>1 DEF Go, TypeOK
    <3>. QED
      BY <1>2, <1>3, <3>1, NoThreatToOwn
  <2>2. CASE Abort(s)
    <3>1. todo'[s] = OnError(s, Head(todo[s]))
      BY <2>2 DEF Abort, TypeOK
    <3>2. s \in Direct => x # "alarm"
      BY <1>2, <1>3, <1>4 DEF Orderly, LeavesAlarm
    <3>. QED
      BY <1>2, <3>1, <3>2, ThreatOnError
  <2>. QED
    BY <2>1, <2>2 DEF Enable
<1>8. \A k \in Script \ {s} : ~Threat(todo'[k], s, x)
  <2>. SUFFICES ASSUME NEW k \in Script \ {s}, Threat(todo'[k], s, x)
                PROVE  FALSE
    OBVIOUS
  <2>1. todo'[k] = todo[k] /\ todo[k] \in Seq(Step) /\ Orderly(k, todo[k])
    BY <1>1 DEF ScriptFrame, ScriptInv, TypeOK
  <2>2. /\ Left(todo[k], "list", "schedules") \/ Left(todo[k], "delete", s)
        /\ ~Left(todo[k], "close", x)
    BY <2>1, ThreatLeavesOpen
  <2>. QED
    BY <2>2 DEF TooLate
<1>9. Kept(s, x)'
  BY <1>5, <1>6, <1>7, <1>8 DEF Kept
<1>. QED
  BY <1>9 DEF Guarded

LEMMA TurnOnEffect ==
    ASSUME TypeOK, NEW s \in Script, NEW x \in Thing, TurnOn(s, x)
    PROVE  /\ \A y \in Thing \ {x} :
                 /\ OnWatched(y)' => OnWatched(y)
                 /\ openSince'[y] = openSince[y]
                 /\ y \in delayed' <=> y \in delayed
           /\ OnWatched(x)' =>
                 \/ /\ OnWatched(x) /\ openSince'[x] = openSince[x]
                    /\ x \in delayed => x \in delayed'
                 \/ ~TooLate(s, x) /\ openSince'[x] = now
           /\ \A y \in Thing, k \in Script \ {s} : k \in openedBy'[y] => k \in openedBy[y]
           /\ \A y \in Thing \ {x} : openedBy'[y] = openedBy[y]
<1>1. \A y \in Thing \ {x} : up'[y] = up[y] /\ openSince'[y] = openSince[y]
  BY DEF TurnOn, TypeOK
<1>2. \A y \in Thing \ {x} :
         /\ y \in missed' <=> y \in missed
         /\ y \in raced' <=> y \in raced
         /\ y \in delayed' <=> y \in delayed
  BY DEF TurnOn
<1>3. \A y \in Thing \ {x} : OnWatched(y)' => OnWatched(y)
  BY <1>1, <1>2 DEF OnWatched, Unwatched
<1>4. /\ \A y \in Thing, k \in Script \ {s} : k \in openedBy'[y] => k \in openedBy[y]
      /\ \A y \in Thing \ {x} : openedBy'[y] = openedBy[y]
  BY DEF TurnOn, TypeOK
<1>5. ASSUME OnWatched(x)'
      PROVE  \/ /\ OnWatched(x) /\ openSince'[x] = openSince[x]
                /\ x \in delayed => x \in delayed'
             \/ ~TooLate(s, x) /\ openSince'[x] = now
  <2>1. CASE up[x] = "off" \/ Unwatched(x)
    <3>1. openSince'[x] = now
      BY <2>1 DEF TurnOn, TypeOK
    <3>2. ~TooLate(s, x)
      BY <1>5, <2>1 DEF TurnOn, OnWatched, Unwatched
    <3>. QED
      BY <3>1, <3>2
  <2>2. CASE ~(up[x] = "off" \/ Unwatched(x)) /\ TooLate(s, x)
    BY <2>2 DEF TurnOn, OnWatched
  <2>3. CASE ~(up[x] = "off" \/ Unwatched(x)) /\ ~TooLate(s, x)
    <3>1. x \in delayed => openSince'[x] = now
      BY <2>3 DEF TurnOn, TypeOK
    <3>2. x \notin delayed => openSince'[x] = openSince[x]
      BY <2>3 DEF TurnOn
    <3>. QED
      BY <2>3, <3>1, <3>2 DEF OnWatched
  <2>. QED
    BY <2>1, <2>2, <2>3
<1>. QED
  BY <1>1, <1>2, <1>3, <1>4, <1>5

\* A step of a script closes x, turns it on, or leaves it as it was.
LEMMA ScriptTouches ==
    ASSUME TypeOK, ScriptInv, NEW s \in Script, ScriptStep(s), NEW x \in Thing, OnWatched(x)'
    PROVE  \/ /\ OnWatched(x) /\ openSince'[x] = openSince[x]
              /\ x \in delayed => x \in delayed'
              /\ ~(Close(s) /\ x = What(s))
           \/ Enable(s) /\ x = What(s) /\ ~TooLate(s, x) /\ openSince'[x] = now
<1>1. CASE Close(s)
  <2>1. What(s) \in Thing
    BY <1>1, HeadCloses DEF Close
  <2>2. TurnOff(What(s)) \/ TurnOffFails(What(s))
    BY <1>1 DEF Close
  <2>3. /\ x # What(s) /\ OnWatched(x) /\ openSince'[x] = openSince[x]
        /\ x \in delayed => x \in delayed'
    BY <2>1, <2>2, ClosedIsOff
  <2>. QED
    BY <2>3
<1>2. CASE ~Close(s) /\ UNCHANGED upVars
  <2>1. /\ OnWatched(x) /\ openSince'[x] = openSince[x]
        /\ x \in delayed => x \in delayed'
    BY <1>2 DEF upVars, OnWatched, Unwatched
  <2>. QED
    BY <1>2, <2>1
<1>3. CASE Enable(s) /\ TurnOn(s, What(s))
  <2>1. What(s) \in Thing /\ ~Close(s)
    BY <1>3 DEF Enable, Close, At
  <2>. QED
    BY <1>3, <2>1, TurnOnEffect
<1>4. Close(s) \/ UNCHANGED upVars \/ (Enable(s) /\ TurnOn(s, What(s)))
  BY DEF ScriptStep, Check, ReadClock, CreateSchedule, Enable, Confirm, Call, Find,
         ListSchedules, DeleteSchedule, Kill
<1>. QED
  BY <1>1, <1>2, <1>3, <1>4

LEMMA GapStepScript ==
    ASSUME TypeOK, ScriptInv, ScheduleInv, GapInv, AtMostOneWindowLong,
           NEW s \in Script, ScriptStep(s)
    PROVE  GapInv' /\ AtMostOneWindowLong'
<1>1. now' = now /\ now \in Nat /\ Window \in Nat
  BY ScriptMoves, WindowAssumption DEF ScriptFrame, TypeOK
<1>2. ASSUME NEW x \in Thing, OnWatched(x)'
      PROVE  Guarded(x)' /\ (x \notin delayed' => now' <= openSince'[x] + Window)
  <2>1. CASE /\ OnWatched(x) /\ openSince'[x] = openSince[x]
             /\ x \in delayed => x \in delayed'
             /\ ~(Close(s) /\ x = What(s))
    <3>1. Guarded(x) /\ (x \notin delayed => now <= openSince[x] + Window)
      BY <2>1 DEF GapInv, AtMostOneWindowLong, OnWatched
    <3>. QED
      BY <1>1, <2>1, <3>1, ScriptKeepsGuards
  <2>2. CASE Enable(s) /\ x = What(s) /\ ~TooLate(s, x) /\ openSince'[x] = now
    BY <1>1, <2>2, OwnScheduleGuards
  <2>. QED
    BY <1>2, <2>1, <2>2, ScriptTouches
<1>. QED
  BY <1>2 DEF GapInv, AtMostOneWindowLong, OnWatched

LEMMA GapStepAws ==
    ASSUME TypeOK, RunInv, GapInv, AtMostOneWindowLong, AwsStep
    PROVE  GapInv' /\ AtMostOneWindowLong'
<1>1. UNCHANGED <<todo, closeAt>>
  BY AwsFrame
<1>2. /\ now \in Nat /\ Window \in Nat
      /\ openSince \in [Thing -> 0..MaxTime] /\ closeAt \in [Script -> 0..MaxTime]
  BY WindowAssumption DEF TypeOK
<1>3. ASSUME NEW t \in Trigger, Starts(t), UNCHANGED <<now, upVars>>
      PROVE  GapInv' /\ AtMostOneWindowLong'
  <2>1. run'[t].todo = Closing
    BY <1>3 DEF Starts
  <2>2. \A x \in Thing : Left(run'[t].todo, "close", x)
    BY <2>1, ClosingIs, LeftIs
  <2>3. \A x \in Thing : \E k \in Trigger : Left(run'[k].todo, "close", x)
    BY <2>2
  <2>4. GapInv'
    BY <2>3 DEF GapInv, Guarded
  <2>5. AtMostOneWindowLong'
    BY <1>3 DEF AtMostOneWindowLong, Unwatched, upVars
  <2>. QED
    BY <2>4, <2>5
<1>4. ASSUME NEW s \in Script, Fire(s)
      PROVE  GapInv' /\ AtMostOneWindowLong'
  <2>1. s \in Trigger
    BY DEF Trigger
  <2>. QED
    BY <1>3, <1>4, <2>1, RunStarts DEF Fire
<1>5. ASSUME NEW t \in Trigger, Retry(t)
      PROVE  GapInv' /\ AtMostOneWindowLong'
  BY <1>3, <1>5, RunStarts DEF Retry
<1>6. CASE AlarmFires
  <2>1. "alarm" \in Trigger
    BY DEF Trigger
  <2>. QED
    BY <1>3, <1>6, <2>1, RunStarts DEF AlarmFires
<1>7. ASSUME NEW t \in Trigger, Handles(t)
      PROVE  GapInv' /\ AtMostOneWindowLong'
  <2>1. Proceeds(t)
    BY <1>7, RunProceeds
  <2>2. UNCHANGED <<now, schedule>>
    BY <1>7 DEF Handles, ShutdownStep, CutOff
  <2>3. ASSUME NEW y \in Thing, OnWatched(y)'
        PROVE  Guarded(y)' /\ (y \notin delayed' => now' <= openSince'[y] + Window)
    <3>1. /\ OnWatched(y) /\ openSince'[y] = openSince[y]
          /\ y \in delayed => y \in delayed'
      BY <2>1, <2>3 DEF Proceeds
    <3>2. Guarded(y) /\ (y \notin delayed => now <= openSince[y] + Window)
      BY <3>1 DEF GapInv, AtMostOneWindowLong, OnWatched
    <3>3. \A k \in Trigger : Left(run[k].todo, "close", y) =>
             Left(run'[k].todo, "close", y) \/ (y \in delayed' /\ WillRetry(k)')
      BY <2>1, <2>3 DEF Proceeds
    <3>4. \A k \in Trigger : WillRetry(k) => WillRetry(k)'
      BY <2>1 DEF Proceeds, WillRetry
    <3>. QED
      BY <1>1, <2>2, <3>1, <3>2, <3>3, <3>4, StillGuarded
  <2>. QED
    BY <2>3 DEF GapInv, AtMostOneWindowLong, OnWatched
<1>8. CASE Tick
  <2>1. /\ UNCHANGED <<schedule, run, upVars>> /\ now' = now + 1
        /\ \A s \in Script : schedule[s] = "pending" => now < closeAt[s]
        /\ \A t \in Trigger : run[t].todo = <<>>
    BY <1>8 DEF Tick, Pending
  <2>2. ASSUME NEW x \in Thing, OnWatched(x)'
        PROVE  Guarded(x)' /\ (x \notin delayed' => now' <= openSince'[x] + Window)
    <3>1. OnWatched(x) /\ openSince' = openSince
      BY <2>1, <2>2 DEF OnWatched, Unwatched, upVars
    <3>2. Guarded(x)
      BY <3>1 DEF GapInv, OnWatched
    <3>3. \A t \in Trigger : ~Left(run[t].todo, "close", x)
      BY <2>1 DEF Left, Contains
    <3>4. delayed' = delayed /\ \A t \in Trigger : WillRetry(t) => WillRetry(t)'
      BY <2>1 DEF upVars, WillRetry
    <3>5. ASSUME x \notin delayed
          PROVE  now' <= openSince'[x] + Window
      <4>1. PICK s \in Script : Kept(s, x)
        BY <3>2, <3>3, <3>5 DEF Guarded
      <4>2. now < closeAt[s] /\ closeAt[s] <= openSince[x] + Window
        BY <2>1, <4>1 DEF Kept
      <4>. QED
        BY <1>2, <2>1, <3>1, <4>2
    <3>6. x \notin delayed' => now' <= openSince'[x] + Window
      BY <3>4, <3>5
    <3>7. Guarded(x)'
      BY <1>1, <2>1, <3>1, <3>2, <3>4, StillGuarded
    <3>. QED
      BY <3>6, <3>7
  <2>. QED
    BY <2>2 DEF GapInv, AtMostOneWindowLong, OnWatched
<1>. QED
  BY <1>4, <1>5, <1>6, <1>7, <1>8 DEF AwsStep

-----------------------------------------------------------------------------
(* A validation accounts for what it did. *)

LEMMA StillAccounts ==
    ASSUME NEW s \in Script, Accounts(s), todo'[s] = todo[s],
           s \in failed => s \in failed',
           schedule'[s] = "pending" => schedule[s] = "pending",
           \A x \in Thing : s \in openedBy'[x] => s \in openedBy[x]
    PROVE  Accounts(s)'
<1>. SUFFICES ASSUME s \notin failed'
              PROVE  /\ schedule'[s] = "pending" => \E i \in DOMAIN todo'[s] : Ends(todo'[s][i], s)
                     /\ \A x \in Thing : s \in openedBy'[x] => Left(todo'[s], "close", x)
  BY DEF Accounts
<1>. QED
  BY DEF Accounts

\* The step of a validation itself, when it has nothing to report.
LEMMA StepAccounts ==
    ASSUME NEW s \in Script, Accounts(s), todo[s] \in Seq(Step), todo[s] # <<>>,
           todo'[s] = Tail(todo[s]), failed' = failed,
           \/ schedule'[s] # "pending"
           \/ schedule[s] = "pending" /\ ~Ends(Head(todo[s]), s)
           \/ \E i \in DOMAIN Tail(todo[s]) : Ends(Tail(todo[s])[i], s),
           \A x \in Thing : s \in openedBy'[x] =>
              \/ s \in openedBy[x] /\ Head(todo[s]) # Do("close", x)
              \/ \E i \in DOMAIN Tail(todo[s]) : Tail(todo[s])[i] = Do("close", x)
    PROVE  Accounts(s)'
<1>. DEFINE q == todo[s]
            r == Tail(q)
<1>1. /\ r \in Seq(Step) /\ Head(q) = q[1]
      /\ \A i \in DOMAIN q : i # 1 => i - 1 \in DOMAIN r /\ r[i - 1] = q[i]
  BY AfterHead
<1>. HIDE DEF r
<1>6. \A x \in Thing : Left(r, "close", x) <=> \E i \in DOMAIN r : r[i] = Do("close", x)
  BY <1>1, LeftIs
<1>7. todo'[s] = r
  BY DEF r
<1>2. SUFFICES ASSUME s \notin failed'
               PROVE  /\ schedule'[s] = "pending" => \E i \in DOMAIN r : Ends(r[i], s)
                      /\ \A x \in Thing : s \in openedBy'[x] =>
                            \E i \in DOMAIN r : r[i] = Do("close", x)
  BY <1>6, <1>7 DEF Accounts
<1>3. /\ schedule[s] = "pending" => \E i \in DOMAIN q : Ends(q[i], s)
      /\ \A x \in Thing : s \in openedBy[x] => \E i \in DOMAIN q : q[i] = Do("close", x)
  BY <1>2, LeftIs DEF Accounts
<1>4. schedule'[s] = "pending" => \E i \in DOMAIN r : Ends(r[i], s)
  BY <1>1, <1>3 DEF r
<1>5. \A x \in Thing : s \in openedBy'[x] => \E i \in DOMAIN r : r[i] = Do("close", x)
  BY <1>1, <1>3 DEF r
<1>. QED
  BY <1>4, <1>5

LEMMA SuccessStepOwn ==
    ASSUME TypeOK, ScriptInv, SuccessInv,
           NEW s \in Inspector \cup Direct, ScriptStep(s)
    PROVE  Accounts(s)'
<1>. s \in Script
  BY DEF Script
<1>1. /\ todo[s] \in Seq(Step) /\ todo[s] # <<>> /\ Head(todo[s]) \in Step
      /\ Orderly(s, todo[s]) /\ CleansUp(s, todo[s]) /\ Accounts(s)
  BY ScriptMoves DEF ScriptFrame, ScriptInv, SuccessInv, Orderly
<1>2. /\ Head(todo[s]) = todo[s][1] /\ 1 \in DOMAIN todo[s]
      /\ \A i \in DOMAIN todo[s] :
            i \in Nat /\ (i # 1 => i > 1 /\ i - 1 \in DOMAIN Tail(todo[s])
                                   /\ Tail(todo[s])[i - 1] = todo[s][i])
  BY <1>1, AfterHead
<1>3. ASSUME s \in failed'
      PROVE  Accounts(s)'
  BY <1>3 DEF Accounts
<1>4. ASSUME GoReporting(s) \/ Abort(s) \/ Kill(s)
      PROVE  Accounts(s)'
  BY <1>3, <1>4 DEF GoReporting, Abort, Kill, Report
<1>5. ASSUME Go(s)
      PROVE  todo'[s] = Tail(todo[s]) /\ failed' = failed
  BY <1>5 DEF Go, TypeOK
<1>6. ASSUME Go(s), UNCHANGED <<schedule, upVars>>, ~At(s, {"close", "delete", "list"})
      PROVE  Accounts(s)'
  <2>1. ~Ends(Head(todo[s]), s) /\ \A x : Head(todo[s]) # Do("close", x)
    BY <1>1, <1>6 DEF At, Ends, Do
  <2>. QED
    BY <1>1, <1>5, <1>6, <2>1, StepAccounts DEF upVars, Accounts
<1>7. CASE Check(s) \/ ReadClock(s) \/ Confirm(s) \/ Call(s) \/ Find(s)
  <2>1. Go(s) \/ Abort(s)
    BY <1>7 DEF Check, ReadClock, Confirm, Call, Find
  <2>2. UNCHANGED <<schedule, upVars>> /\ ~At(s, {"close", "delete", "list"})
    BY <1>7 DEF Check, ReadClock, Confirm, Call, Find, At
  <2>. QED
    BY <1>4, <1>6, <2>1, <2>2
<1>8. CASE CreateSchedule(s)
  <2>1. CASE Abort(s)
    BY <1>4, <2>1
  <2>2. CASE Go(s)
    <3>1. Head(todo[s]) = Do("arm", "schedule")
      BY <1>1, <1>8, StepEquals DEF CreateSchedule, At, What
    <3>2. PICK j \in DOMAIN todo[s] : 1 < j /\ Ends(todo[s][j], s)
      BY <1>1, <1>2, <3>1 DEF CleansUp
    <3>3. \E i \in DOMAIN Tail(todo[s]) : Ends(Tail(todo[s])[i], s)
      BY <1>2, <3>2
    <3>4. openedBy' = openedBy /\ \A x : Head(todo[s]) # Do("close", x)
      BY <1>8, <3>1 DEF CreateSchedule, upVars, Do
    <3>. QED
      BY <1>1, <1>5, <2>2, <3>3, <3>4, StepAccounts
  <2>. QED
    BY <1>8, <2>1, <2>2 DEF CreateSchedule
<1>9. CASE Enable(s)
  <2>1. CASE Abort(s)
    BY <1>4, <2>1
  <2>2. CASE Go(s) /\ TurnOn(s, What(s))
    <3>1. /\ What(s) \in Thing /\ Enables(Head(todo[s]), What(s)) /\ schedule' = schedule
          /\ Head(todo[s]).do \in {"arm", "enable"}
      BY <1>9 DEF Enable, At, What, Enables
    <3>2. PICK j \in DOMAIN todo[s] : 1 < j /\ todo[s][j] = Do("close", What(s))
      BY <1>1, <1>2, <3>1 DEF CleansUp
    <3>3. \E i \in DOMAIN Tail(todo[s]) : Tail(todo[s])[i] = Do("close", What(s))
      BY <1>2, <3>2
    <3>4. \A y \in Thing \ {What(s)} : openedBy'[y] = openedBy[y]
      BY <2>2, <3>1, TurnOnEffect
    <3>5. ~Ends(Head(todo[s]), s) /\ \A x : Head(todo[s]) # Do("close", x)
      BY <3>1 DEF Ends, Do
    <3>6. \A x \in Thing : s \in openedBy'[x] =>
             \/ s \in openedBy[x] /\ Head(todo[s]) # Do("close", x)
             \/ \E i \in DOMAIN Tail(todo[s]) : Tail(todo[s])[i] = Do("close", x)
      BY <3>3, <3>4, <3>5
    <3>. QED
      BY <1>1, <1>5, <2>2, <3>1, <3>5, <3>6, StepAccounts
  <2>. QED
    BY <1>9, <2>1, <2>2 DEF Enable
<1>10. CASE Close(s)
  <2>1. CASE GoReporting(s)
    BY <1>4, <2>1
  <2>2. CASE Go(s) /\ TurnOff(What(s))
    <3>1. What(s) \in Thing /\ Head(todo[s]) = Do("close", What(s)) /\ schedule' = schedule
      BY <1>10, HeadCloses DEF Close
    <3>2. openedBy' = [openedBy EXCEPT ![What(s)] = {}]
      BY <2>2 DEF TurnOff, SwitchedOff
    <3>3. \A x \in Thing : s \in openedBy'[x] => s \in openedBy[x] /\ x # What(s)
      BY <3>1, <3>2 DEF TypeOK
    <3>4. ~Ends(Head(todo[s]), s) /\ \A x : x # What(s) => Head(todo[s]) # Do("close", x)
      BY <3>1 DEF Ends, Do
    <3>. QED
      BY <1>1, <1>5, <2>2, <3>1, <3>3, <3>4, StepAccounts
  <2>. QED
    BY <1>10, <2>1, <2>2 DEF Close
<1>11. CASE DeleteSchedule(s)
  <2>1. CASE GoReporting(s)
    BY <1>4, <2>1
  <2>2. CASE /\ What(s) \in Pending /\ Go(s)
             /\ schedule' = [schedule EXCEPT ![What(s)] = "gone"]
    <3>1. Head(todo[s]) = Do("delete", What(s))
      BY <1>1, <1>11, StepEquals DEF DeleteSchedule, At, What
    <3>2. openedBy' = openedBy /\ \A x : Head(todo[s]) # Do("close", x)
      BY <1>11, <3>1 DEF DeleteSchedule, upVars, Do
    <3>3. CASE What(s) = s
      <4>1. schedule'[s] # "pending"
        BY <2>2, <3>3 DEF TypeOK
      <4>. QED
        BY <1>1, <1>5, <2>2, <3>2, <4>1, StepAccounts
    <3>4. CASE What(s) # s
      <4>1. ~Ends(Head(todo[s]), s)
        BY <3>1, <3>4 DEF Ends, Do
      <4>2. schedule'[s] = schedule[s]
        BY <2>2, <3>4 DEF TypeOK
      <4>. QED
        BY <1>1, <1>5, <2>2, <3>2, <4>1, <4>2, StepAccounts
    <3>. QED
      BY <3>3, <3>4
  <2>. QED
    BY <1>11, <2>1, <2>2 DEF DeleteSchedule
<1>12. CASE ListSchedules(s)
  <2>1. CASE GoReporting(s)
    BY <1>4, <2>1
  <2>2. CASE /\ \E listed \in SetToSeqs(Pending) : todo' = [todo EXCEPT ![s] = Deletes(listed)]
             /\ failed' = failed
    <3>1. PICK listed \in SetToSeqs(Pending) : todo' = [todo EXCEPT ![s] = Deletes(listed)]
      BY <2>2
    <3>2. Pending \in SUBSET Script
      BY DEF Pending
    <3>3. todo'[s] = Deletes(listed)
      BY <3>1 DEF TypeOK
    <3>4. schedule[s] = "pending" => \E i \in DOMAIN todo'[s] : Ends(todo'[s][i], s)
      <4>1. \A k \in Pending : \E i \in DOMAIN Deletes(listed) :
               Deletes(listed)[i] = Do("delete", k)
        BY <3>2, OrderlyDeletes
      <4>. QED
        BY <3>3, <4>1 DEF Pending, Ends
    <3>5. ASSUME NEW x \in Thing, s \in openedBy[x], s \notin failed
          PROVE  FALSE
      <4>1. PICK j \in DOMAIN todo[s] : todo[s][j] = Do("close", x)
        BY <1>1, <3>5, LeftIs DEF Accounts
      <4>2. Head(todo[s]).do = "list" /\ todo[s][j].do = "close"
        BY <1>12, <4>1 DEF ListSchedules, At, Do
      <4>3. EndsOthers(Head(todo[s]), s)
        BY <4>2 DEF EndsOthers, Do
      <4>4. j > 1
        BY <1>2, <4>2
      <4>. QED
        BY <1>1, <1>2, <4>2, <4>3, <4>4 DEF Orderly, ClosesFirst
    <3>6. schedule' = schedule /\ openedBy' = openedBy
      BY <1>12 DEF ListSchedules, upVars
    <3>. QED
      BY <2>2, <3>4, <3>5, <3>6 DEF Accounts
  <2>. QED
    BY <1>12, <2>1, <2>2 DEF ListSchedules, Deletes
<1>13. CASE Kill(s)
  BY <1>4, <1>13
<1>. QED
  BY <1>7, <1>8, <1>9, <1>10, <1>11, <1>12, <1>13 DEF ScriptStep

LEMMA SuccessStepScript ==
    ASSUME TypeOK, ScriptInv, SuccessInv, NEW s \in Script, ScriptStep(s)
    PROVE  SuccessInv'
<1>. SUFFICES ASSUME NEW k \in Inspector \cup Direct
              PROVE  Accounts(k)'
  BY DEF SuccessInv
<1>1. CASE k = s
  BY <1>1, SuccessStepOwn
<1>2. CASE k # s
  <2>1. k \in Script /\ Accounts(k)
    BY DEF Script, SuccessInv
  <2>2. todo'[k] = todo[k]
    BY <1>2, <2>1, ScriptMoves DEF ScriptFrame
  <2>3. k \in failed => k \in failed'
    BY DEF ScriptStep, Check, ReadClock, CreateSchedule, Enable, Confirm, Call, Find, Close,
           ListSchedules, DeleteSchedule, Kill, Go, GoReporting, Abort, Report
  <2>4. schedule'[k] = "pending" => schedule[k] = "pending"
    <3>1. CASE CreateSchedule(s) \/ DeleteSchedule(s)
      BY <1>2, <2>1, <3>1 DEF CreateSchedule, DeleteSchedule, TypeOK
    <3>2. CASE ~(CreateSchedule(s) \/ DeleteSchedule(s))
      BY <3>2 DEF ScriptStep, Check, ReadClock, Enable, Confirm, Call, Find, Close,
                  ListSchedules, Kill
    <3>. QED
      BY <3>1, <3>2
  <2>5. \A x \in Thing : k \in openedBy'[x] => k \in openedBy[x]
    <3>1. CASE Close(s)
      BY <2>1, <3>1, HeadCloses, ClosedIsOff DEF Close
    <3>2. CASE Enable(s) /\ TurnOn(s, What(s))
      BY <1>2, <2>1, <3>2, TurnOnEffect DEF Enable
    <3>3. CASE UNCHANGED upVars
      BY <3>3 DEF upVars
    <3>4. Close(s) \/ UNCHANGED upVars \/ (Enable(s) /\ TurnOn(s, What(s)))
      BY DEF ScriptStep, Check, ReadClock, CreateSchedule, Enable, Confirm, Call, Find,
             ListSchedules, DeleteSchedule, Kill
    <3>. QED
      BY <3>1, <3>2, <3>3, <3>4
  <2>. QED
    BY <2>1, <2>2, <2>3, <2>4, <2>5, StillAccounts
<1>. QED
  BY <1>1, <1>2

LEMMA SuccessStepAws ==
    ASSUME TypeOK, RunInv, SuccessInv, AwsStep
    PROVE  SuccessInv'
<1>. SUFFICES ASSUME NEW k \in Inspector \cup Direct
              PROVE  Accounts(k)'
  BY DEF SuccessInv
<1>1. k \in Script /\ Accounts(k)
  BY DEF Script, SuccessInv
<1>2. UNCHANGED <<todo, failed>>
  BY AwsFrame
<1>3. schedule'[k] = "pending" => schedule[k] = "pending"
  BY <1>1 DEF AwsStep, Handles, Fire, ShutdownStep, CutOff, Retry, AlarmFires, Tick, TypeOK
<1>4. \A x \in Thing : k \in openedBy'[x] => k \in openedBy[x]
  <2>1. CASE UNCHANGED upVars
    BY <2>1 DEF upVars
  <2>2. CASE \E t \in Trigger : Handles(t)
    BY <1>1, <2>2, RunProceeds DEF Proceeds
  <2>. QED
    BY <2>1, <2>2 DEF AwsStep, Fire, Retry, AlarmFires, Tick
<1>. QED
  BY <1>1, <1>2, <1>3, <1>4, StillAccounts

-----------------------------------------------------------------------------
(* The invariant. *)

LEMMA UnarmedJoined ==
    ASSUME NEW p \in Seq(Step), NEW q \in Seq(Step), ~ArmsNow(p), ~ArmsNow(q)
    PROVE  ~ArmsNow(p \o q)
<1>. DEFINE r == p \o q
            n == Len(p)
<1>1. /\ \A i \in DOMAIN r :
            \/ i \in DOMAIN p /\ r[i] = p[i]
            \/ i - n \in DOMAIN q /\ r[i] = q[i - n] /\ i \notin DOMAIN p
      /\ \A i \in DOMAIN p : i \in DOMAIN r /\ r[i] = p[i]
      /\ \A i \in DOMAIN q : i + n \in DOMAIN r /\ r[i + n] = q[i]
  BY Joined
<1>2. /\ n \in Nat /\ DOMAIN p = 1..n /\ DOMAIN q = 1..Len(q) /\ Len(q) \in Nat
      /\ DOMAIN r = 1..Len(r) /\ Len(r) \in Nat
  BY Joined, InDomain
<1>. SUFFICES ASSUME NEW i \in DOMAIN r, r[i] = Do("arm", "schedule")
              PROVE  \E j \in DOMAIN r : j < i /\ r[j] = Do("read", "clock")
  BY DEF ArmsNow
<1>. HIDE DEF r, n
<1>3. CASE i \in DOMAIN p /\ r[i] = p[i]
  <2>1. PICK j \in DOMAIN p : j < i /\ p[j] = Do("read", "clock")
    BY <1>3 DEF ArmsNow
  <2>. QED
    BY <1>1, <2>1
<1>4. CASE i - n \in DOMAIN q /\ r[i] = q[i - n]
  <2>1. PICK j \in DOMAIN q : j < i - n /\ q[j] = Do("read", "clock")
    BY <1>4 DEF ArmsNow
  <2>2. j + n \in DOMAIN r /\ r[j + n] = Do("read", "clock") /\ j + n < i
    BY <1>1, <1>2, <2>1
  <2>. QED
    BY <2>2
<1>. QED
  BY <1>1, <1>3, <1>4

\* Every script reads the clock before it creates its schedule.
LEMMA StartsUnarmed ==
    ASSUME NEW s \in Script
    PROVE  ~ArmsNow(Program(s))
<1>. DEFINE c == Preflight("check")
            e == Preflight("precheck")
            f == Finally(s)
<1>1. ASSUME NEW q, \A i \in DOMAIN q : q[i].do # "arm"
      PROVE  ~ArmsNow(q)
  BY <1>1 DEF ArmsNow, Do
<1>2. /\ c \in Seq(Step) /\ ~ArmsNow(c)
      /\ e \in Seq(Step) /\ ~ArmsNow(e)
  BY <1>1, PreflightIs
<1>3. CloseScript \in Seq(Step) /\ ~ArmsNow(CloseScript)
  BY <1>1, CloseScriptIs DEF Closes
<1>4. f \in Seq(Step) /\ ~ArmsNow(f)
  BY <1>1, FinallyIs
<1>5. ASSUME NEW w \in {"reads", "writes"}
      PROVE  <<Do("call", w)>> \in Seq(Step) /\ ~ArmsNow(<<Do("call", w)>>)
  <2>1. Do("call", w) \in Step /\ Do("call", w).do = "call"
    BY DEF Do, Step, Verb, Target
  <2>. QED
    BY <1>1, <2>1, SingleIs
<1>6. /\ InspectorCalls \in Seq(Step) /\ ~ArmsNow(InspectorCalls)
      /\ DirectReads \in Seq(Step) /\ ~ArmsNow(DirectReads)
      /\ DirectWrites \in Seq(Step) /\ ~ArmsNow(DirectWrites)
  BY <1>5 DEF InspectorCalls, DirectReads, DirectWrites
<1>. HIDE DEF c, e, f
<1>7. OpenScript \in Seq(Step) /\ ~ArmsNow(OpenScript)
  <2>1. OpenScript = c \o Opening
    BY DEF OpenScript, Opening, c
  <2>. QED
    BY <1>2, <2>1, OpeningIs, UnarmedJoined, Joined
<1>8. CASE s \in Opener
  <2>1. s \notin Inspector /\ s \notin Direct /\ s \notin Closer
    BY <1>8, WindowAssumption
  <2>. QED
    BY <1>7, <1>8, <2>1 DEF Program
<1>9. CASE s \in Inspector
  <2>1. s \notin Opener /\ s \notin Direct /\ s \notin Closer
    BY <1>9, WindowAssumption
  <2>2. Program(s) = e \o OpenScript \o InspectorCalls \o CloseScript
    BY <1>9, <2>1 DEF Program, Prechecks, e
  <2>3. e \o OpenScript \in Seq(Step) /\ ~ArmsNow(e \o OpenScript)
    BY <1>2, <1>7, UnarmedJoined, Joined
  <2>4. /\ e \o OpenScript \o InspectorCalls \in Seq(Step)
        /\ ~ArmsNow(e \o OpenScript \o InspectorCalls)
    BY <1>6, <2>3, UnarmedJoined, Joined
  <2>. QED
    BY <1>3, <2>2, <2>4, UnarmedJoined
<1>10. CASE s \in Direct
  <2>1. s \notin Opener /\ s \notin Inspector /\ s \notin Closer
    BY <1>10, WindowAssumption
  <2>2. Program(s) = DirectOpening \o DirectReads \o DirectWrites \o f
    BY <1>10, <2>1 DEF Program, DirectScript, DirectOpening, f
  <2>3. DirectOpening \o DirectReads \in Seq(Step) /\ ~ArmsNow(DirectOpening \o DirectReads)
    BY <1>6, DirectOpeningIs, UnarmedJoined, Joined
  <2>4. /\ DirectOpening \o DirectReads \o DirectWrites \in Seq(Step)
        /\ ~ArmsNow(DirectOpening \o DirectReads \o DirectWrites)
    BY <1>6, <2>3, UnarmedJoined, Joined
  <2>. QED
    BY <1>4, <2>2, <2>4, UnarmedJoined
<1>11. CASE s \in Closer
  <2>1. s \notin Opener /\ s \notin Inspector /\ s \notin Direct
    BY <1>11, WindowAssumption
  <2>. QED
    BY <1>3, <1>11, <2>1 DEF Program
<1>. QED
  BY <1>8, <1>9, <1>10, <1>11 DEF Script

LEMMA InvInit ==
    ASSUME Init
    PROVE  Inv
<1>1. \A s \in Script : Program(s) \in Seq(Step) /\ Orderly(s, Program(s))
  BY OrderlyProgram
<1>2. todo = [s \in Script |-> Program(s)]
  BY DEF Init
<1>3. todo \in [Script -> Seq(Step)] /\ ScriptInv
  BY <1>1, <1>2 DEF ScriptInv
<1>4. NoRun \in ShutdownRun /\ NoRun.todo = <<>> /\ DOMAIN NoRun.todo = {}
  BY WindowAssumption DEF NoRun, ShutdownRun
<1>5. run \in [Trigger -> ShutdownRun] /\ RunInv
  BY <1>4 DEF Init, RunInv
<1>6. TypeOK
  BY <1>3, <1>5, WindowAssumption DEF Init, TypeOK, ShutdownRun
<1>7. ScheduleInv
  <2>1. \A s \in Script : ~ArmsNow(todo[s])
    BY <1>2, StartsUnarmed
  <2>. QED
    BY <2>1, WindowAssumption DEF Init, ScheduleInv
<1>8. GapInv /\ AtMostOneWindowLong
  BY DEF Init, GapInv, AtMostOneWindowLong
<1>9. SuccessInv
  BY DEF Init, SuccessInv, Accounts, Script
<1>. QED
  BY <1>3, <1>5, <1>6, <1>7, <1>8, <1>9 DEF Inv

LEMMA InvStep ==
    ASSUME Inv, [Next]_vars
    PROVE  Inv'
<1>1. ASSUME NEW s \in Script, ScriptStep(s)
      PROVE  Inv'
  <2>1. Next
    BY <1>1 DEF Next
  <2>. QED
    BY <1>1, <2>1, TypeStepScript, ScriptStepKeeps, RunStepKeeps, ScheduleStepKeeps,
       GapStepScript, SuccessStepScript DEF Inv
<1>2. CASE AwsStep
  <2>1. Next
    BY <1>2 DEF Next, AwsStep, Handles
  <2>2. ScriptInv'
    BY <1>2, AwsFrame DEF Inv, ScriptInv
  <2>. QED
    BY <1>2, <2>1, <2>2, TypeStepAws, RunStepKeeps, ScheduleAwsKeeps, GapStepAws,
       SuccessStepAws DEF Inv
<1>3. CASE UNCHANGED vars
  BY <1>3 DEF vars, upVars, Inv, TypeOK, ScriptInv, RunInv, ScheduleInv, GapInv, Guarded, Kept,
     WillRetry, Unwatched, AtMostOneWindowLong, SuccessInv, Accounts
<1>. QED
  BY <1>1, <1>2, <1>3 DEF Next, AwsStep, Handles

LEMMA Invariance == Spec => []Inv
BY InvInit, InvStep, PTL DEF Spec

-----------------------------------------------------------------------------
(***************************************************************************)
(* The scripts, the schedules, the switches and the shutdown runs stay     *)
(* well typed; in particular no schedule is created without the deadline   *)
(* that was computed from the clock (ReadClock, CreateSchedule).           *)
(***************************************************************************)
THEOREM TypeCorrect == Spec => []TypeOK
<1>1. Inv => TypeOK
  BY DEF Inv
<1>. QED
  BY <1>1, Invariance, PTL

(***************************************************************************)
(* However many scripts open, validate and close at once, stall, fail or   *)
(* are killed, and however often a shutdown run fails or is cut off, what  *)
(* is on has a shutdown or its repeat still to come, a script's closing    *)
(* call or the last try of a shutdown failed, or it was turned on too late *)
(* (the gaps of TurnOn, TurnOffFails and NotClosed).                       *)
(***************************************************************************)
THEOREM ShutdownToCome == Spec => []OnlyKnownGaps
<1>1. Inv => OnlyKnownGaps
  BY DEF Inv, GapInv, Guarded, Kept, OnlyKnownGaps, ShutdownAhead, Pending
<1>. QED
  BY <1>1, Invariance, PTL

(***************************************************************************)
(* Outside those gaps nothing is on longer than the window, for every      *)
(* length of the window and any number of scripts (Tick, ReadClock).       *)
(***************************************************************************)
THEOREM OneWindowLong == Spec => []AtMostOneWindowLong
<1>1. Inv => AtMostOneWindowLong
  BY DEF Inv
<1>. QED
  BY <1>1, Invariance, PTL

(***************************************************************************)
(* A validation that ends with nothing to report has closed what it turned *)
(* on and removed its schedule (Close, ListSchedules, DeleteSchedule).     *)
(***************************************************************************)
THEOREM SuccessCloses == Spec => []SuccessMeansClosed
<1>1. ASSUME Inv
      PROVE  SuccessMeansClosed
  <2>. SUFFICES ASSUME NEW s \in Inspector \cup Direct, todo[s] = <<>>, s \notin failed
                PROVE  /\ schedule[s] # "pending"
                       /\ \A x \in Thing : s \notin openedBy[x]
    BY DEF SuccessMeansClosed
  <2>1. DOMAIN todo[s] = {} /\ \A x \in Thing : ~Left(todo[s], "close", x)
    BY DEF Left, Contains
  <2>2. Accounts(s)
    BY <1>1 DEF Inv, SuccessInv
  <2>. QED
    BY <2>1, <2>2 DEF Accounts
<1>. QED
  BY <1>1, Invariance, PTL
=============================================================================
