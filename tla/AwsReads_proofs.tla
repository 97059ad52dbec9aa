---------------------------- MODULE AwsReads_proofs ----------------------------
(***************************************************************************)
(* Proofs about the tools that read AWS, for any number of stacks, pages,  *)
(* resources, periods and groups, any caps, and whatever AWS answers.  A   *)
(* list of what was copied is the ascending sequence of a set of           *)
(* positions, so that nothing here needs an induction over an answer.      *)
(***************************************************************************)
EXTENDS AwsReads, FiniteSetTheorems, SequenceTheorems, TLAPS

-----------------------------------------------------------------------------
(* Ascending sequences. *)

Rank(S, i) == Cardinality({j \in S : j < i})

LEMMA RankType ==
    ASSUME NEW S \in SUBSET Nat, IsFiniteSet(S), NEW i \in Nat
    PROVE  /\ IsFiniteSet({j \in S : j < i})
           /\ Rank(S, i) \in Nat /\ Rank(S, i) <= Cardinality(S)
           /\ i \in S => Rank(S, i) \in 0..(Cardinality(S) - 1)
<1>. DEFINE below == {j \in S : j < i}
<1>1. below \in SUBSET S
  OBVIOUS
<1>2. IsFiniteSet(below) /\ Cardinality(below) <= Cardinality(S)
      /\ (Cardinality(S) = Cardinality(below) => S = below)
  BY <1>1, FS_Subset
<1>3. Cardinality(below) \in Nat /\ Cardinality(S) \in Nat
  BY <1>2, FS_CardinalityType
<1>4. i \in S => below # S
  OBVIOUS
<1>. QED
  BY <1>2, <1>3, <1>4 DEF Rank

LEMMA RankGrows ==
    ASSUME NEW S \in SUBSET Nat, IsFiniteSet(S), NEW i \in S, NEW j \in S, i < j
    PROVE  Rank(S, i) < Rank(S, j)
<1>. DEFINE a == {k \in S : k < i}
            b == {k \in S : k < j}
<1>1. IsFiniteSet(a) /\ IsFiniteSet(b)
  BY RankType
<1>2. a \in SUBSET b /\ a # b
  <2>1. i \in Nat /\ j \in Nat
    OBVIOUS
  <2>2. i \in b /\ i \notin a
    BY <2>1
  <2>3. ASSUME NEW k \in a
        PROVE  k \in b
    BY <2>1
  <2>. QED
    BY <2>2, <2>3
<1>3. Cardinality(a) <= Cardinality(b) /\ Cardinality(a) # Cardinality(b)
  BY <1>1, <1>2, FS_Subset
<1>4. Cardinality(a) \in Nat /\ Cardinality(b) \in Nat
  BY <1>1, FS_CardinalityType
<1>. QED
  BY <1>3, <1>4 DEF Rank

LEMMA RankTells ==
    ASSUME NEW S \in SUBSET Nat, IsFiniteSet(S), NEW i \in S, NEW j \in S,
           Rank(S, i) = Rank(S, j)
    PROVE  i = j
<1>1. i \in Nat /\ j \in Nat
  OBVIOUS
<1>2. Rank(S, i) \in Nat /\ Rank(S, j) \in Nat
  BY <1>1, RankType
<1>3. i < j => Rank(S, i) < Rank(S, j)
  BY RankGrows
<1>4. j < i => Rank(S, j) < Rank(S, i)
  BY RankGrows
<1>. QED
  BY <1>1, <1>2, <1>3, <1>4

\* Every rank below the number of elements is taken: there are as many ranks
\* as elements.
LEMMA RankTaken ==
    ASSUME NEW S \in SUBSET Nat, IsFiniteSet(S), NEW k \in 1..Cardinality(S)
    PROVE  \E i \in S : Rank(S, i) = k - 1
<1>. DEFINE n == Cardinality(S)
            f == [i \in S |-> Rank(S, i)]
<1>1. n \in Nat
  BY FS_CardinalityType
<1>2. IsFiniteSet(0..(n - 1)) /\ Cardinality(0..(n - 1)) = n
  <2>. HIDE DEF n
  <2>1. 0 \in Int /\ n - 1 \in Int
    BY <1>1
  <2>2. Cardinality(0..(n - 1)) = IF 0 > n - 1 THEN 0 ELSE n - 1 - 0 + 1
    BY <2>1, FS_Interval
  <2>3. IsFiniteSet(0..(n - 1))
    BY <2>1, FS_Interval
  <2>. QED
    BY <1>1, <2>2, <2>3
<1>3. f \in [S -> 0..(n - 1)]
  BY RankType
<1>4. \A i, j \in S : f[i] = f[j] => i = j
  BY RankTells
<1>5. f \in Injection(S, 0..(n - 1))
  BY <1>3, <1>4 DEF Injection, IsInjective
<1>6. f \in Surjection(S, 0..(n - 1))
  BY <1>2, <1>5, FS_Injection
<1>7. k - 1 \in 0..(n - 1)
  BY <1>1
<1>. QED
  BY <1>6, <1>7 DEF Surjection

LEMMA AscendingIs ==
    ASSUME NEW S \in SUBSET Nat, IsFiniteSet(S)
    PROVE  /\ Ascending(S) \in Seq(S) /\ Len(Ascending(S)) = Cardinality(S)
           /\ Ascending(S) \in Seq(Nat)
           /\ DOMAIN Ascending(S) = 1..Cardinality(S)
           /\ Cardinality(S) \in Nat
           /\ \A k \in 1..Cardinality(S) :
                 Ascending(S)[k] \in S /\ Rank(S, Ascending(S)[k]) = k - 1
<1>1. Cardinality(S) \in Nat
  BY FS_CardinalityType
<1>2. ASSUME NEW k \in 1..Cardinality(S)
      PROVE  Ascending(S)[k] \in S /\ Rank(S, Ascending(S)[k]) = k - 1
  <2>1. Ascending(S)[k] = CHOOSE i \in S : Rank(S, i) = k - 1
    BY DEF Ascending, Rank
  <2>2. \E i \in S : Rank(S, i) = k - 1
    BY RankTaken
  <2>. QED
    BY <2>1, <2>2
<1>3. DOMAIN Ascending(S) = 1..Cardinality(S)
  BY DEF Ascending
<1>4. Ascending(S) \in [1..Cardinality(S) -> S]
  BY <1>2 DEF Ascending
<1>5. Ascending(S) \in Seq(S) /\ Ascending(S) \in Seq(Nat)
  <2>1. Ascending(S) \in [1..Cardinality(S) -> Nat]
    BY <1>4
  <2>. QED
    BY <1>1, <1>4, <2>1, IsASeq
<1>6. Len(Ascending(S)) = Cardinality(S)
  BY <1>1, <1>3, <1>5, LenProperties
<1>. QED
  BY <1>1, <1>2, <1>3, <1>5, <1>6

LEMMA AscendingEmpty ==
    ASSUME NEW S \in SUBSET Nat, IsFiniteSet(S)
    PROVE  Ascending(S) = <<>> <=> S = {}
<1>1. Ascending(S) \in Seq(S) /\ Len(Ascending(S)) = Cardinality(S)
  BY AscendingIs
<1>. QED
  BY <1>1, FS_EmptySet, EmptySeq

\* What is copied next comes last.
LEMMA AscendingNext ==
    ASSUME NEW S \in SUBSET Nat, IsFiniteSet(S), NEW n \in Nat, \A i \in S : i < n
    PROVE  /\ IsFiniteSet(S \cup {n})
           /\ Cardinality(S \cup {n}) = Cardinality(S) + 1
           /\ Ascending(S \cup {n})[Cardinality(S) + 1] = n
           /\ \A k \in 1..Cardinality(S) : Ascending(S \cup {n})[k] = Ascending(S)[k]
<1>. DEFINE T == S \cup {n}
            c == Cardinality(S)
<1>1. IsFiniteSet(T) /\ Cardinality(T) = c + 1 /\ c \in Nat /\ T \in SUBSET Nat
  BY FS_AddElement, FS_CardinalityType
<1>2. ASSUME NEW i \in S
      PROVE  Rank(T, i) = Rank(S, i)
  <2>1. i \in Nat /\ i < n
    OBVIOUS
  <2>2. ~(n < i)
    BY <2>1
  <2>3. {j \in T : j < i} = {j \in S : j < i}
    BY <2>2
  <2>. QED
    BY <2>3 DEF Rank
<1>3. Rank(T, n) = c
  <2>1. ~(n < n)
    OBVIOUS
  <2>2. {j \in T : j < n} = S
    BY <2>1
  <2>. QED
    BY <2>2 DEF Rank
<1>4. ASSUME NEW k \in 1..(c + 1)
      PROVE  Ascending(T)[k] \in T /\ Rank(T, Ascending(T)[k]) = k - 1
  BY <1>1, <1>4, AscendingIs
<1>. HIDE DEF T, c
<1>5. \A i, j \in T : Rank(T, i) = Rank(T, j) => i = j
  BY <1>1, RankTells
<1>6. Ascending(T)[c + 1] = n
  <2>1. /\ Ascending(T)[c + 1] \in T /\ Rank(T, Ascending(T)[c + 1]) = c /\ n \in T
    BY <1>1, <1>4 DEF T
  <2>. QED
    BY <1>3, <1>5, <2>1
<1>7. ASSUME NEW k \in 1..c
      PROVE  Ascending(T)[k] = Ascending(S)[k]
  <2>1. k \in 1..(c + 1)
    BY <1>1, <1>7
  <2>2. Ascending(T)[k] \in T /\ Rank(T, Ascending(T)[k]) = k - 1
    BY <1>4, <2>1
  <2>3. Ascending(S)[k] \in S /\ Rank(S, Ascending(S)[k]) = k - 1
    BY AscendingIs DEF c
  <2>4. Ascending(S)[k] \in T /\ Rank(T, Ascending(S)[k]) = k - 1
    BY <1>2, <2>3 DEF T
  <2>5. Rank(T, Ascending(T)[k]) = Rank(T, Ascending(S)[k])
    BY <2>2, <2>4
  <2>. QED
    BY <1>5, <2>2, <2>4, <2>5
<1>. QED
  BY <1>1, <1>6, <1>7 DEF T, c

-----------------------------------------------------------------------------
(* The inductive invariant. *)

\* A page that was asked for belongs to a stack that is left, or follows a
\* token that was seen; so the page that is asked for next is a new one.
AskedInv ==
    /\ IsFiniteSet(asked) /\ sdk_requests = Cardinality(asked)
    /\ \A a \in asked : a[1] < stack \/ (a[1] = stack /\ a[2] \in seen_tokens \cup {Absent})
    /\ next_token \in seen_tokens \cup {Absent}
    /\ project_pc = "start" => asked = {}
    /\ project_pc = "ask" => <<stack, next_token>> \notin asked

PagesInv ==
    /\ sdk_requests <= stack * MaxPages
    /\ project_pc # "done" => sdk_requests <= (stack - 1) * MaxPages + pages

\* Nothing is missing while the result is complete, and an issue says what is
\* missing when it is not: at once, or at the end of the page that was cut.
CountInv ==
    /\ project_pc # "read" => items = <<>>
    /\ complete => /\ issue_codes = {}
                   /\ Len(resources) + Len(items) = offered
                   /\ ended = IF project_pc = "done" THEN Stack ELSE 1..(stack - 1)
    /\ ~complete => \/ issue_codes # {}
                    \/ project_pc = "read" /\ AtResourceLimit /\ items = <<>>

ProjectInv == ProjectTypeOK /\ AskedInv /\ PagesInv /\ CountInv /\ ListedOnce

\* The positions below n of the periods with readable dates.
Dated(periods, n) == {i \in DOMAIN periods : i < n /\ periods[i].dates}

\* What was copied are the periods with dates, in order.
CopiedInv ==
    /\ Len(sanitized_periods) = Cardinality(Dated(RawPeriods, next))
    /\ \A k \in DOMAIN sanitized_periods :
          sanitized_periods[k].period = Ascending(Dated(RawPeriods, next))[k]

\* While nothing was cut, each was copied whole.
WholeInv ==
    ~clipped =>
        /\ Len(RawPeriods) <= MAX_COST_PERIODS
        /\ \A k \in DOMAIN sanitized_periods :
              sanitized_periods[k].groups =
                 Ascending(Positions(RawPeriods[sanitized_periods[k].period], "valid"))
        /\ cost_pc = "done" => Len(RawPeriods) < next

UnreadInv ==
    cost_pc \in {"asking", "failed"} =>
        /\ next = 1 /\ sanitized_periods = <<>>
        /\ group_count = 0 /\ malformed_count = 0

CostInv == CostTypeOK /\ CopiedInv /\ WholeInv /\ UnreadInv

\* A stack that was left before its end is not among those that ended, and
\* while the result is incomplete an item or the end of a stack is missing.
MissingInv ==
    /\ \A k \in ended : k < stack \/ (k = stack /\ project_pc = "done")
    /\ Len(resources) + Len(items) <= offered
    /\ ~complete => \/ Len(resources) + Len(items) < offered
                    \/ \E k \in Stack \ ended : k < stack \/ project_pc = "done"

\* A full result was filled by the last period that was looked at, and ends
\* the loop unless that was the last of the answer.
FullInv ==
    /\ next <= Len(RawPeriods) + 1
    /\ group_count = MAX_COST_GROUPS =>
          /\ sanitized_periods # <<>>
          /\ sanitized_periods[Len(sanitized_periods)].period = next - 1
          /\ cost_pc = "reading" => Len(RawPeriods) < next
    /\ cost_pc = "done" => \/ next - 1 \in {Len(RawPeriods), MAX_COST_PERIODS}
                           \/ group_count = MAX_COST_GROUPS

\* Nothing was counted as malformed exactly while every period that was
\* looked at is shown whole.
MalformedInv ==
    malformed_count = 0 <=>
        /\ Len(sanitized_periods) = next - 1
        /\ \A k \in DOMAIN sanitized_periods : ShownWhole(sanitized_periods, k)

SoundInv == FullInv /\ MalformedInv

LostAnswers == {i \in DOMAIN answers : answers[i] = Unavailable}

\* The requests of each tool.
SentInv ==
    /\ sent \in Nat
    /\ tool \in {"inventory", "search"} =>
          sent <= Len(answers) /\ Len(answers) <= sent + Cardinality(LostAnswers)
    /\ tool = "project" => sent = sdk_requests
    /\ tool = "cost" => /\ cost_pc = "asking" => sent = 0
                        /\ cost_pc \in {"reading", "done"} => sent = 1
                        /\ cost_pc = "failed" => sent \in 0..1

ListingInv ==
    /\ tool \in {"inventory", "search", "project", "cost"}
    /\ answers \in Seq(Answer \cup {Unavailable}) /\ Len(answers) <= 2
    /\ SentInv
    /\ tool = "search" => Len(answers) <= 1
    /\ tool \in {"project", "cost"} => answers = <<>>

\* An adapter returns when nothing more is read, and what it returns has the
\* properties of the result.
AdaptedType ==
    adapted # None =>
        /\ adapted = [status |-> adapted.status, issues |-> adapted.issues,
                      marked |-> adapted.marked, data |-> adapted.data,
                      sdk_requests |-> adapted.sdk_requests, resources |-> adapted.resources]
        /\ adapted.status \in {"ok", "partial", "error"}
        /\ adapted.issues \in BOOLEAN /\ adapted.marked \in BOOLEAN
        /\ Len(adapted.data) \in Nat
        /\ Len(adapted.data) <= MaxResources + 2 * Limit + MAX_COST_PERIODS
        /\ adapted.sdk_requests \in Nat /\ adapted.resources \in Nat

AdaptedSettled ==
    adapted # None =>
        /\ tool = "project" => project_pc = "done"
        /\ tool = "cost" => cost_pc \in {"done", "failed"}

AdaptedOmitsNothing ==
    adapted # None /\ ~adapted.marked =>
        IF tool = "project" THEN complete
        ELSE (tool = "inventory" /\ ~WithinLimit) \/ adapted.data = Everything

AdaptedTells ==
    adapted # None =>
        /\ adapted.issues <=> adapted.status # "ok"
        /\ adapted.status = "ok" <=> NothingWrong(adapted.data)

AdaptedError ==
    adapted # None /\ adapted.status = "error" =>
        /\ adapted.data = <<>>
        /\ IF tool = "project" THEN resources = <<>> ELSE adapted.marked \/ Everything = <<>>

AdaptedCounts ==
    adapted # None =>
        /\ sent <= adapted.sdk_requests /\ adapted.sdk_requests <= sent + RequestsFailed
        /\ tool = "inventory" => adapted.sdk_requests <= 2
        /\ tool \in {"search", "cost"} => adapted.sdk_requests <= 1
        /\ adapted.resources =
             CASE tool = "project" -> Len(resources)
               [] tool = "cost" -> group_count
               [] OTHER -> Len(adapted.data)

AdaptedInv ==
    AdaptedType /\ AdaptedSettled /\ AdaptedOmitsNothing /\ AdaptedTells
    /\ AdaptedError /\ AdaptedCounts

\* The arguments of a search are refused before anything is sent.
Refused == [status |-> "error", issues |-> TRUE, marked |-> FALSE,
            data |-> None, sdk_requests |-> 0, resources |-> 0]

ResultInv ==
    result # None =>
        \/ adapted # None /\ result = ResultTooLarge
        \/ /\ adapted # None
           /\ result = [adapted EXCEPT !.issues = adapted.status # "ok" /\ adapted.issues]
        \/ adapted = None /\ result = Refused /\ tool = "search" /\ answers = <<>>

\* What is read, and how far.
ReadInv == ProjectInv /\ MissingInv /\ CostInv /\ SoundInv

Inv == ReadInv /\ ListingInv /\ AdaptedInv /\ ResultInv

-----------------------------------------------------------------------------
(* The project inventory: the requests. *)

LEMMA PagesOfAStack ==
    ASSUME NEW s \in Nat, NEW t \in Nat, s <= t
    PROVE  /\ s * MaxPages \in Nat /\ t * MaxPages \in Nat
           /\ s * MaxPages <= t * MaxPages
           /\ (s + 1) * MaxPages = s * MaxPages + MaxPages
<1>1. MaxPages \in Nat
  BY InventoryAssumption
<1>2. \A m \in Nat : /\ s * m \in Nat /\ t * m \in Nat /\ (t - s) * m \in Nat
                     /\ t * m = s * m + (t - s) * m
                     /\ (s + 1) * m = s * m + m
  BY SMT
<1>3. \A a, b, c \in Nat : a = b + c => b <= a
  OBVIOUS
<1>. QED
  BY <1>1, <1>2, <1>3

LEMMA ProjectStarts ==
    ASSUME ProjectInit
    PROVE  ProjectInv
<1>1. StackCount \in Nat \ {0} /\ MaxPages \in Nat \ {0} /\ MaxResources \in Nat \ {0}
  BY InventoryAssumption
<1>2. ProjectTypeOK
  BY <1>1 DEF ProjectInit, ProjectTypeOK, Stack
<1>3. AskedInv
  BY FS_EmptySet DEF ProjectInit, AskedInv
<1>4. PagesInv
  <2>1. 1 * MaxPages \in Nat /\ (1 - 1) * MaxPages = 0
    BY <1>1
  <2>. QED
    BY <2>1 DEF ProjectInit, PagesInv
<1>5. CountInv
  BY DEF ProjectInit, CountInv
<1>6. ListedOnce
  BY <1>1 DEF ProjectInit, ListedOnce
<1>. QED
  BY <1>2, <1>3, <1>4, <1>5, <1>6 DEF ProjectInv

LEMMA LeaveTypes ==
    ASSUME ProjectTypeOK, NEW fine \in BOOLEAN, Leave(fine)
    PROVE  /\ project_pc' \in {"ask", "done"}
           /\ stack' \in Stack
           /\ pages' \in 0..MaxPages
           /\ next_token' \in PageToken \cup {Absent}
           /\ seen_tokens' \subseteq PageToken
           /\ complete' \in BOOLEAN
BY InventoryAssumption DEF ProjectTypeOK, Leave, stackVars, Stack

\* The next stack has not been asked for.
LEMMA LeaveAsked ==
    ASSUME ProjectTypeOK, NEW fine \in BOOLEAN, Leave(fine),
           \A a \in asked' : a[1] < stack \/ (a[1] = stack /\ a[2] \in seen_tokens \cup {Absent}),
           \A a \in asked' : a[1] \in Nat,
           next_token \in seen_tokens \cup {Absent}
    PROVE  /\ \A a \in asked' :
                 a[1] < stack' \/ (a[1] = stack' /\ a[2] \in seen_tokens' \cup {Absent})
           /\ next_token' \in seen_tokens' \cup {Absent}
           /\ project_pc' = "ask" => <<stack', next_token'>> \notin asked'
           /\ project_pc' # "start"
<1>1. stack \in Nat
  BY InventoryAssumption DEF ProjectTypeOK, Stack
<1>2. CASE AtResourceLimit \/ stack = StackCount
  BY <1>2 DEF Leave, stackVars
<1>3. CASE ~(AtResourceLimit \/ stack = StackCount)
  <2>1. stack' = stack + 1 /\ project_pc' = "ask" /\ next_token' = Absent
    BY <1>3 DEF Leave
  <2>2. \A a \in asked' : a[1] < stack + 1
    BY <1>1
  <2>3. \A a \in asked' : a[1] # stack + 1
    BY <1>1, <2>2
  <2>. QED
    BY <2>1, <2>2, <2>3
<1>. QED
  BY <1>2, <1>3

LEMMA LeavePages ==
    ASSUME ProjectTypeOK, NEW fine \in BOOLEAN, Leave(fine),
           sdk_requests' \in Nat, sdk_requests' <= (stack - 1) * MaxPages + MaxPages
    PROVE  PagesInv'
<1>1. stack \in Nat \ {0} /\ MaxPages \in Nat /\ pages \in Nat
  BY InventoryAssumption DEF ProjectTypeOK, Stack
<1>2. (stack - 1) + 1 = stack /\ stack - 1 \in Nat /\ (stack + 1) - 1 = stack
  BY <1>1
<1>3. stack * MaxPages = (stack - 1) * MaxPages + MaxPages
  BY <1>1, <1>2, PagesOfAStack
<1>4. stack * MaxPages \in Nat /\ (stack + 1) * MaxPages = stack * MaxPages + MaxPages
  BY <1>1, PagesOfAStack
<1>5. CASE AtResourceLimit \/ stack = StackCount
  <2>1. stack' = stack /\ project_pc' = "done"
    BY <1>5 DEF Leave, stackVars
  <2>. QED
    BY <1>3, <2>1 DEF PagesInv
<1>6. CASE ~(AtResourceLimit \/ stack = StackCount)
  <2>1. stack' = stack + 1 /\ pages' = 0
    BY <1>6 DEF Leave
  <2>2. (stack' - 1) * MaxPages = stack * MaxPages
    BY <1>2, <2>1
  <2>3. sdk_requests' <= stack * MaxPages
    BY <1>3
  <2>4. stack' * MaxPages = stack * MaxPages + MaxPages
    BY <1>4, <2>1
  <2>5. sdk_requests' <= stack' * MaxPages
    BY <1>1, <1>4, <2>3, <2>4
  <2>6. sdk_requests' <= (stack' - 1) * MaxPages + pages'
    BY <1>4, <2>1, <2>2, <2>3
  <2>. QED
    BY <2>5, <2>6 DEF PagesInv
<1>. QED
  BY <1>5, <1>6

LEMMA StackAsked ==
    ASSUME asked \subseteq Stack \X (PageToken \cup {Absent})
    PROVE  \A a \in asked : a[1] \in Nat
BY DEF Stack

\* A request asks for a page that was not asked for.
LEMMA SendKeeps ==
    ASSUME ProjectTypeOK, AskedInv, PagesInv, SendRequest
    PROVE  /\ asked' \subseteq Stack \X (PageToken \cup {Absent})
           /\ IsFiniteSet(asked') /\ sdk_requests' = Cardinality(asked')
           /\ sdk_requests' \in Nat
           /\ \A a \in asked' :
                 a[1] < stack \/ (a[1] = stack /\ a[2] \in seen_tokens \cup {Absent})
           /\ \A a \in asked' : a[1] \in Nat
           /\ sdk_requests' <= (stack - 1) * MaxPages + (pages + 1)
           /\ sdk_requests' <= (stack - 1) * MaxPages + MaxPages
<1>1. /\ asked' = asked \cup {<<stack, next_token>>} /\ sdk_requests' = sdk_requests + 1
      /\ project_pc = "ask" /\ pages < MaxPages
  BY DEF SendRequest, MayAsk
<1>2. /\ stack \in Stack /\ next_token \in PageToken \cup {Absent}
      /\ asked \subseteq Stack \X (PageToken \cup {Absent})
      /\ sdk_requests \in Nat /\ pages \in Nat /\ stack \in Nat \ {0}
      /\ MaxPages \in Nat
  BY InventoryAssumption DEF ProjectTypeOK, Stack
<1>3. asked' \subseteq Stack \X (PageToken \cup {Absent})
  BY <1>1, <1>2
<1>4. \A a \in asked' : a[1] \in Nat
  BY <1>3 DEF Stack
<1>5. IsFiniteSet(asked') /\ sdk_requests' = Cardinality(asked')
  <2>1. <<stack, next_token>> \notin asked /\ IsFiniteSet(asked) /\ sdk_requests = Cardinality(asked)
    BY <1>1 DEF AskedInv
  <2>. QED
    BY <1>1, <2>1, FS_AddElement
<1>6. ASSUME NEW a \in asked'
      PROVE  a[1] < stack \/ (a[1] = stack /\ a[2] \in seen_tokens \cup {Absent})
  <2>1. CASE a \in asked
    BY <2>1 DEF AskedInv
  <2>2. CASE a = <<stack, next_token>>
    BY <2>2 DEF AskedInv
  <2>. QED
    BY <1>1, <2>1, <2>2
<1>7. /\ sdk_requests' <= (stack - 1) * MaxPages + (pages + 1)
      /\ sdk_requests' <= (stack - 1) * MaxPages + MaxPages
  <2>. DEFINE before == (stack - 1) * MaxPages
  <2>1. stack - 1 \in Nat
    BY <1>2
  <2>2. before \in Nat
    BY <2>1, PagesOfAStack
  <2>3. sdk_requests <= before + pages
    BY <1>1 DEF PagesInv
  <2>. HIDE DEF before
  <2>4. sdk_requests' <= before + (pages + 1) /\ sdk_requests' <= before + MaxPages
    BY <1>1, <1>2, <2>2, <2>3
  <2>. QED
    BY <2>4 DEF before
<1>. QED
  BY <1>1, <1>2, <1>3, <1>4, <1>5, <1>6, <1>7

\* The requests of a step that sends none.
LEMMA NothingSent ==
    ASSUME ProjectTypeOK, PagesInv, AskedInv, UNCHANGED sentVars
    PROVE  /\ sdk_requests' \in Nat /\ offered' \in Nat
           /\ asked' \subseteq Stack \X (PageToken \cup {Absent})
           /\ IsFiniteSet(asked') /\ sdk_requests' = Cardinality(asked')
           /\ \A a \in asked' :
                 a[1] < stack \/ (a[1] = stack /\ a[2] \in seen_tokens \cup {Absent})
           /\ \A a \in asked' : a[1] \in Nat
           /\ project_pc # "done" => sdk_requests' <= (stack - 1) * MaxPages + MaxPages
<1>1. sdk_requests' = sdk_requests /\ offered' = offered /\ asked' = asked
  BY DEF sentVars
<1>2. \A a \in asked : a[1] \in Nat
  BY StackAsked DEF ProjectTypeOK
<1>3. project_pc # "done" => sdk_requests <= (stack - 1) * MaxPages + MaxPages
  <2>. DEFINE before == (stack - 1) * MaxPages
  <2>1. stack - 1 \in Nat /\ pages \in Nat /\ MaxPages \in Nat /\ pages <= MaxPages
        /\ sdk_requests \in Nat
    BY InventoryAssumption DEF ProjectTypeOK, Stack
  <2>2. before \in Nat
    BY <2>1, PagesOfAStack
  <2>3. project_pc # "done" => sdk_requests <= before + pages
    BY DEF PagesInv
  <2>. HIDE DEF before
  <2>4. project_pc # "done" => sdk_requests <= before + MaxPages
    BY <2>1, <2>2, <2>3
  <2>. QED
    BY <2>4 DEF before
<1>. QED
  BY <1>1, <1>2, <1>3 DEF ProjectTypeOK, AskedInv

\* The listing of a stack ends, whatever was sent: the parts of the invariant
\* that tell where it goes on.
LEMMA LeaveKeeps ==
    ASSUME ProjectTypeOK, AskedInv, NEW fine \in BOOLEAN, Leave(fine),
           sdk_requests' \in Nat, sdk_requests' <= (stack - 1) * MaxPages + MaxPages,
           IsFiniteSet(asked'), sdk_requests' = Cardinality(asked'),
           asked' \subseteq Stack \X (PageToken \cup {Absent}),
           \A a \in asked' : a[1] < stack \/ (a[1] = stack /\ a[2] \in seen_tokens \cup {Absent}),
           \A a \in asked' : a[1] \in Nat,
           items' \in Seq(Item), token' \in PageToken \cup {Absent, Invalid},
           resources' \in Seq(Stack \X LogicalId), issue_codes' \subseteq Issues,
           offered' \in Nat, ended' \subseteq Stack
    PROVE  ProjectTypeOK' /\ AskedInv' /\ PagesInv'
<1>1. ProjectTypeOK'
  BY LeaveTypes DEF ProjectTypeOK
<1>2. next_token \in seen_tokens \cup {Absent}
  BY DEF AskedInv
<1>3. AskedInv'
  BY <1>2, LeaveAsked DEF AskedInv
<1>4. PagesInv'
  BY LeavePages
<1>. QED
  BY <1>1, <1>3, <1>4

LEMMA StopCounts ==
    ASSUME items' = <<>>, complete' = FALSE, issue_codes' # {}
    PROVE  CountInv'
BY DEF CountInv

LEMMA SameResources ==
    ASSUME ListedOnce, resources' = resources
    PROVE  ListedOnce'
BY DEF ListedOnce

-----------------------------------------------------------------------------
(* The project inventory: its steps. *)

LEMMA ClientStepKeeps ==
    ASSUME ProjectInv, ClientFails \/ ClientCreated
    PROVE  ProjectInv'
<1>. USE DEF ProjectInv
<1>1. /\ UNCHANGED <<stackVars, pageVars, resources, sentVars, ended>>
      /\ project_pc = "start" /\ project_pc' \in {"ask", "done"}
      /\ \/ issue_codes' = issue_codes /\ complete' = complete
         \/ /\ issue_codes' = issue_codes \cup {"client_unavailable"} /\ complete' = FALSE
            /\ project_pc' = "done"
      /\ project_pc' = "done" => complete' = FALSE
  BY DEF ClientFails, ClientCreated, AddIssue
<1>2. ProjectTypeOK'
  BY <1>1 DEF ProjectTypeOK, stackVars, pageVars, sentVars, Issues
<1>3. AskedInv'
  BY <1>1 DEF AskedInv, stackVars, sentVars
<1>4. PagesInv'
  BY <1>1 DEF PagesInv, stackVars, sentVars
<1>5. CountInv'
  <2>1. CASE complete' = FALSE
    BY <1>1, <2>1, StopCounts DEF CountInv, pageVars
  <2>2. CASE complete' # FALSE
    <3>1. complete /\ complete' = complete /\ issue_codes' = issue_codes /\ project_pc' = "ask"
      BY <1>1, <2>2 DEF ProjectTypeOK
    <3>2. items' = items /\ resources' = resources /\ offered' = offered
          /\ ended' = ended /\ stack' = stack
      BY <1>1 DEF stackVars, pageVars, sentVars
    <3>3. items = <<>> /\ issue_codes = {} /\ Len(resources) + Len(items) = offered
          /\ ended = 1..(stack - 1)
      BY <1>1, <3>1 DEF CountInv
    <3>. QED
      BY <3>1, <3>2, <3>3 DEF CountInv
  <2>. QED
    BY <2>1, <2>2
<1>6. ListedOnce'
  BY <1>1, SameResources
<1>. QED
  BY <1>2, <1>3, <1>4, <1>5, <1>6

\* The listing of a stack is broken off without a request, with an issue.
LEMMA BreakKeeps ==
    ASSUME ProjectInv, project_pc # "done", items = <<>>, Leave(FALSE),
           NEW code \in Issues, AddIssue(code),
           UNCHANGED <<pageVars, resources, sentVars, ended>>
    PROVE  ProjectInv'
<1>. USE DEF ProjectInv
<1>1. /\ sdk_requests' \in Nat /\ offered' \in Nat
      /\ asked' \subseteq Stack \X (PageToken \cup {Absent})
      /\ IsFiniteSet(asked') /\ sdk_requests' = Cardinality(asked')
      /\ \A a \in asked' :
            a[1] < stack \/ (a[1] = stack /\ a[2] \in seen_tokens \cup {Absent})
      /\ \A a \in asked' : a[1] \in Nat
      /\ sdk_requests' <= (stack - 1) * MaxPages + MaxPages
  BY NothingSent
<1>2. /\ items' = items /\ token' = token /\ resources' = resources /\ ended' = ended
      /\ issue_codes' = issue_codes \cup {code} /\ complete' = FALSE
  BY DEF AddIssue, Leave, pageVars
<1>3. /\ items' \in Seq(Item) /\ token' \in PageToken \cup {Absent, Invalid}
      /\ resources' \in Seq(Stack \X LogicalId) /\ issue_codes' \subseteq Issues
      /\ ended' \subseteq Stack
  BY <1>2 DEF ProjectTypeOK
<1>4. ProjectTypeOK' /\ AskedInv' /\ PagesInv'
  BY <1>1, <1>3, LeaveKeeps
<1>5. CountInv'
  BY <1>2, StopCounts
<1>6. ListedOnce'
  BY <1>2, SameResources
<1>. QED
  BY <1>4, <1>5, <1>6

LEMMA BreakStepKeeps ==
    ASSUME ProjectInv, PageLimit \/ ResultFull \/ BadToken
    PROVE  ProjectInv'
<1>1. CASE PageLimit
  <2>1. items = <<>> /\ project_pc # "done"
    BY <1>1 DEF PageLimit, ProjectInv, CountInv
  <2>. QED
    BY <1>1, <2>1, BreakKeeps DEF PageLimit, Issues
<1>2. CASE ResultFull
  BY <1>2, BreakKeeps DEF ResultFull, AtEnd, Issues
<1>3. CASE BadToken
  <2>1. PICK code \in {"invalid_token", "repeated_token"} : AddIssue(code)
    BY <1>3 DEF BadToken
  <2>. QED
    BY <1>3, <2>1, BreakKeeps DEF BadToken, AtEnd, Issues
<1>. QED
  BY <1>1, <1>2, <1>3

LEMMA RequestFailsKeeps ==
    ASSUME ProjectInv, RequestFails
    PROVE  ProjectInv'
<1>. USE DEF ProjectInv
<1>1. PICK code \in {"stack_unavailable", "invalid_response"} : AddIssue(code)
  BY DEF RequestFails
<1>2. SendRequest /\ Leave(FALSE) /\ UNCHANGED <<pageVars, resources, offered, ended>>
  BY DEF RequestFails
<1>3. /\ items' = items /\ items = <<>> /\ token' = token /\ resources' = resources
      /\ ended' = ended /\ offered' = offered
      /\ issue_codes' = issue_codes \cup {code} /\ complete' = FALSE
  BY <1>1, <1>2 DEF AddIssue, Leave, pageVars, SendRequest, MayAsk, CountInv
<1>4. /\ items' \in Seq(Item) /\ token' \in PageToken \cup {Absent, Invalid}
      /\ resources' \in Seq(Stack \X LogicalId) /\ issue_codes' \subseteq Issues
      /\ offered' \in Nat /\ ended' \subseteq Stack
  BY <1>3 DEF ProjectTypeOK, Issues
<1>5. ProjectTypeOK' /\ AskedInv' /\ PagesInv'
  BY <1>2, <1>4, SendKeeps, LeaveKeeps
<1>6. CountInv'
  BY <1>3, StopCounts
<1>7. ListedOnce'
  BY <1>3, SameResources
<1>. QED
  BY <1>5, <1>6, <1>7

LEMMA ReceivePageKeeps ==
    ASSUME ProjectInv, ReceivePage
    PROVE  ProjectInv'
<1>. USE DEF ProjectInv
<1>1. PICK page \in Page : items' = page /\ offered' = offered + Len(page)
  BY DEF ReceivePage
<1>2. /\ SendRequest /\ pages' = pages + 1 /\ project_pc' = "read"
      /\ token' \in PageToken \cup {Absent, Invalid}
      /\ UNCHANGED <<stack, next_token, seen_tokens, resources, issue_codes, complete, ended>>
      /\ project_pc = "ask" /\ pages < MaxPages
  BY DEF ReceivePage, SendRequest, MayAsk
<1>3. page \in Seq(Item) /\ Len(page) \in Nat /\ MaxPages \in Nat
  BY InventoryAssumption
<1>4. /\ asked' \subseteq Stack \X (PageToken \cup {Absent})
      /\ IsFiniteSet(asked') /\ sdk_requests' = Cardinality(asked')
      /\ sdk_requests' \in Nat
      /\ \A a \in asked' :
            a[1] < stack \/ (a[1] = stack /\ a[2] \in seen_tokens \cup {Absent})
      /\ sdk_requests' <= (stack - 1) * MaxPages + (pages + 1)
      /\ sdk_requests' <= (stack - 1) * MaxPages + MaxPages
  BY <1>2, SendKeeps
<1>5. ProjectTypeOK'
  BY <1>1, <1>2, <1>3, <1>4 DEF ProjectTypeOK
<1>6. AskedInv'
  BY <1>2, <1>4 DEF AskedInv
<1>7. PagesInv'
  <2>1. stack \in Nat \ {0} /\ (stack - 1) + 1 = stack /\ stack - 1 \in Nat
    BY InventoryAssumption DEF ProjectTypeOK, Stack
  <2>2. stack * MaxPages = (stack - 1) * MaxPages + MaxPages
    BY <2>1, PagesOfAStack
  <2>. QED
    BY <1>2, <1>4, <2>2 DEF PagesInv
<1>8. CountInv'
  <2>1. complete => Len(resources) = offered
    BY <1>2 DEF CountInv, ProjectTypeOK
  <2>2. complete' => Len(resources') + Len(items') = offered'
    BY <1>1, <1>2, <2>1
  <2>. QED
    BY <1>2, <2>2 DEF CountInv
<1>9. ListedOnce'
  BY <1>2, SameResources
<1>. QED
  BY <1>5, <1>6, <1>7, <1>8, <1>9

\* An item is looked at: nothing is sent, and the stack goes on.
LEMMA ReadingKeeps ==
    ASSUME ProjectInv, project_pc = "read",
           UNCHANGED <<project_pc, stackVars, token, sentVars, ended>>,
           items' \in Seq(Item), resources' \in Seq(Stack \X LogicalId),
           issue_codes' \subseteq Issues, complete' \in BOOLEAN
    PROVE  ProjectTypeOK' /\ AskedInv' /\ PagesInv'
<1>. USE DEF ProjectInv
<1>1. ProjectTypeOK'
  BY DEF ProjectTypeOK, stackVars, sentVars
<1>2. AskedInv'
  BY DEF AskedInv, stackVars, sentVars
<1>3. PagesInv'
  BY DEF PagesInv, stackVars, sentVars
<1>. QED
  BY <1>1, <1>2, <1>3

LEMMA OmitKeeps ==
    ASSUME ProjectInv, OmitMalformed \/ OmitDuplicate
    PROVE  ProjectInv'
<1>. USE DEF ProjectInv
<1>1. PICK code \in {"invalid_resource", "duplicate_resource"} :
         project_pc = "read" /\ items # <<>> /\ Omit(code)
  BY DEF OmitMalformed, OmitDuplicate
<1>2. /\ items' = Tail(items) /\ resources' = resources /\ complete' = FALSE
      /\ issue_codes' = issue_codes \cup {code}
      /\ project_pc = "read" /\ project_pc' = "read"
      /\ UNCHANGED <<project_pc, stackVars, token, sentVars, ended>>
  BY <1>1 DEF Omit, AddIssue
<1>3. /\ items' \in Seq(Item) /\ resources' \in Seq(Stack \X LogicalId)
      /\ issue_codes' \subseteq Issues /\ complete' \in BOOLEAN
  <2>1. items \in Seq(Item) /\ resources \in Seq(Stack \X LogicalId)
        /\ issue_codes \subseteq Issues
    BY DEF ProjectTypeOK
  <2>2. items' \in Seq(Item)
    BY <1>1, <1>2, <2>1
  <2>3. code \in Issues
    BY DEF Issues
  <2>. QED
    BY <1>2, <2>1, <2>2, <2>3
<1>4. ProjectTypeOK' /\ AskedInv' /\ PagesInv'
  BY <1>2, <1>3, ReadingKeeps
<1>5. CountInv'
  BY <1>2 DEF CountInv
<1>6. ListedOnce'
  BY <1>2, SameResources
<1>. QED
  BY <1>4, <1>5, <1>6

LEMMA KeepItemKeeps ==
    ASSUME ProjectInv, Keep
    PROVE  ProjectInv'
<1>. USE DEF ProjectInv
<1>1. /\ project_pc = "read" /\ items # <<>> /\ Head(items) # Malformed
      /\ ~Seen /\ ~AtResourceLimit
      /\ resources' = Append(resources, Key) /\ items' = Tail(items)
      /\ UNCHANGED <<project_pc, stackVars, token, issue_codes, complete, sentVars, ended>>
  BY DEF Keep
<1>2. /\ items \in Seq(Item) /\ resources \in Seq(Stack \X LogicalId) /\ stack \in Stack
      /\ complete \in BOOLEAN /\ issue_codes \subseteq Issues
      /\ MaxResources \in Nat
  BY InventoryAssumption DEF ProjectTypeOK
<1>3. Key \in Stack \X LogicalId
  <2>1. Head(items) \in Item
    BY <1>1, <1>2
  <2>. QED
    BY <1>1, <1>2, <2>1 DEF Key, Item
<1>4. /\ resources' \in Seq(Stack \X LogicalId)
      /\ Len(resources') = Len(resources) + 1 /\ Len(resources) \in Nat
      /\ DOMAIN resources' = 1..(Len(resources) + 1)
      /\ DOMAIN resources = 1..Len(resources)
      /\ \A i \in 1..Len(resources) : resources'[i] = resources[i]
      /\ resources'[Len(resources) + 1] = Key
  BY <1>1, <1>2, <1>3, AppendProperties
<1>5. items' \in Seq(Item) /\ Len(items') = Len(items) - 1 /\ Len(items) \in Nat
  BY <1>1, <1>2
<1>6. ProjectTypeOK' /\ AskedInv' /\ PagesInv'
  BY <1>1, <1>2, <1>4, <1>5, ReadingKeeps
<1>7. CountInv'
  <2>1. /\ project_pc' = "read" /\ complete' = complete /\ issue_codes' = issue_codes
        /\ ended' = ended /\ stack' = stack /\ offered' = offered
    BY <1>1 DEF stackVars, sentVars
  <2>2. complete => /\ issue_codes = {} /\ Len(resources) + Len(items) = offered
                    /\ ended = 1..(stack - 1)
    BY <1>1 DEF CountInv
  <2>3. complete => Len(resources') + Len(items') = offered
    BY <1>4, <1>5, <2>2
  <2>4. ~complete => issue_codes # {}
    BY <1>1 DEF CountInv
  <2>. QED
    BY <1>2, <2>1, <2>2, <2>3, <2>4 DEF CountInv
<1>8. ListedOnce'
  <2>1. Len(resources') <= MaxResources
    BY <1>1, <1>2, <1>4 DEF AtResourceLimit
  <2>2. \A i \in 1..Len(resources) : resources[i] # Key
    BY <1>1, <1>4 DEF Seen
  <2>3. \A i, j \in 1..Len(resources) : resources[i] = resources[j] => i = j
    BY <1>4 DEF ListedOnce
  <2>4. ASSUME NEW i \in DOMAIN resources', NEW j \in DOMAIN resources',
               resources'[i] = resources'[j]
        PROVE  i = j
    <3>1. /\ i \in 1..Len(resources) \/ i = Len(resources) + 1
          /\ j \in 1..Len(resources) \/ j = Len(resources) + 1
      BY <1>4
    <3>. QED
      BY <1>4, <2>2, <2>3, <2>4, <3>1
  <2>. QED
    BY <2>1, <2>4 DEF ListedOnce
<1>. QED
  BY <1>6, <1>7, <1>8

LEMMA StopAtLimitKeeps ==
    ASSUME ProjectInv, StopAtLimit
    PROVE  ProjectInv'
<1>. USE DEF ProjectInv
<1>1. /\ project_pc = "read" /\ project_pc' = "read" /\ AtResourceLimit
      /\ complete' = FALSE /\ items' = <<>>
      /\ resources' = resources /\ issue_codes' = issue_codes
      /\ UNCHANGED <<project_pc, stackVars, token, sentVars, ended>>
  BY DEF StopAtLimit
<1>2. /\ items' \in Seq(Item) /\ resources' \in Seq(Stack \X LogicalId)
      /\ issue_codes' \subseteq Issues /\ complete' \in BOOLEAN
  <2>1. resources \in Seq(Stack \X LogicalId) /\ issue_codes \subseteq Issues
    BY DEF ProjectTypeOK
  <2>2. items' \in Seq(Item)
    BY <1>1
  <2>. QED
    BY <1>1, <2>1, <2>2
<1>3. ProjectTypeOK' /\ AskedInv' /\ PagesInv'
  BY <1>1, <1>2, ReadingKeeps
<1>4. CountInv'
  BY <1>1 DEF CountInv, AtResourceLimit
<1>5. ListedOnce'
  BY <1>1, SameResources
<1>. QED
  BY <1>3, <1>4, <1>5

LEMMA LastPageKeeps ==
    ASSUME ProjectInv, LastPage
    PROVE  ProjectInv'
<1>. USE DEF ProjectInv
<1>1. /\ project_pc = "read" /\ items = <<>> /\ ~AtResourceLimit
      /\ ended' = ended \cup {stack} /\ Leave(TRUE)
      /\ UNCHANGED <<pageVars, resources, issue_codes, sentVars>>
  BY DEF LastPage, AtEnd
<1>2. /\ sdk_requests' \in Nat /\ offered' \in Nat
      /\ asked' \subseteq Stack \X (PageToken \cup {Absent})
      /\ IsFiniteSet(asked') /\ sdk_requests' = Cardinality(asked')
      /\ \A a \in asked' :
            a[1] < stack \/ (a[1] = stack /\ a[2] \in seen_tokens \cup {Absent})
      /\ \A a \in asked' : a[1] \in Nat
      /\ sdk_requests' <= (stack - 1) * MaxPages + MaxPages
  BY <1>1, NothingSent
<1>3. /\ items' = items /\ token' = token /\ resources' = resources
      /\ issue_codes' = issue_codes /\ offered' = offered
  BY <1>1 DEF pageVars, sentVars
<1>4. /\ items' \in Seq(Item) /\ token' \in PageToken \cup {Absent, Invalid}
      /\ resources' \in Seq(Stack \X LogicalId) /\ issue_codes' \subseteq Issues
      /\ ended' \subseteq Stack
  BY <1>1, <1>3 DEF ProjectTypeOK
<1>5. ProjectTypeOK' /\ AskedInv' /\ PagesInv'
  BY <1>1, <1>2, <1>4, LeaveKeeps
<1>6. CountInv'
  <2>1. complete' = complete
    BY <1>1 DEF Leave, ProjectTypeOK
  <2>2. complete => /\ issue_codes = {} /\ Len(resources) + Len(items) = offered
                    /\ ended = 1..(stack - 1)
    BY <1>1 DEF CountInv
  <2>3. stack \in Nat \ {0} /\ stack <= StackCount /\ StackCount \in Nat
    BY InventoryAssumption DEF ProjectTypeOK, Stack
  <2>4. complete => ended' = 1..stack
    <3>1. (1..(stack - 1)) \cup {stack} = 1..stack
      BY <2>3
    <3>. QED
      BY <1>1, <2>2, <3>1
  <2>5. complete => ended' = IF project_pc' = "done" THEN Stack ELSE 1..(stack' - 1)
    <3>1. CASE stack = StackCount
      <4>1. project_pc' = "done"
        BY <1>1, <3>1 DEF Leave
      <4>. QED
        BY <2>4, <3>1, <4>1 DEF Stack
    <3>2. CASE stack # StackCount
      <4>1. project_pc' = "ask" /\ stack' = stack + 1
        BY <1>1, <3>2 DEF Leave
      <4>2. stack' - 1 = stack
        BY <2>3, <4>1
      <4>. QED
        BY <2>4, <4>1, <4>2
    <3>. QED
      BY <3>1, <3>2
  <2>6. ~complete => issue_codes # {}
    BY <1>1 DEF CountInv
  <2>. QED
    BY <1>1, <1>3, <2>1, <2>2, <2>5, <2>6 DEF CountInv
<1>7. ListedOnce'
  BY <1>3, SameResources
<1>. QED
  BY <1>5, <1>6, <1>7

LEMMA FollowTokenKeeps ==
    ASSUME ProjectInv, FollowToken
    PROVE  ProjectInv'
<1>. USE DEF ProjectInv
<1>1. /\ project_pc = "read" /\ items = <<>> /\ ~AtResourceLimit
      /\ token \in PageToken \ seen_tokens
      /\ seen_tokens' = seen_tokens \cup {token} /\ next_token' = token
      /\ project_pc' = "ask"
      /\ UNCHANGED <<stack, pages, pageVars, resources, issue_codes, complete, sentVars, ended>>
  BY DEF FollowToken, AtEnd
<1>2. ProjectTypeOK'
  BY <1>1 DEF ProjectTypeOK, pageVars, sentVars
<1>3. AskedInv'
  <2>1. asked' = asked /\ sdk_requests' = sdk_requests /\ stack' = stack
    BY <1>1 DEF sentVars
  <2>2. <<stack, token>> \notin asked
    <3>1. SUFFICES ASSUME <<stack, token>> \in asked PROVE FALSE
      OBVIOUS
    <3>2. stack < stack \/ token \in seen_tokens \cup {Absent}
      BY <3>1 DEF AskedInv
    <3>3. stack \in Nat
      BY InventoryAssumption DEF ProjectTypeOK, Stack
    <3>. QED
      BY <1>1, <3>2, <3>3, InventoryAssumption
  <2>. QED
    BY <1>1, <2>1, <2>2 DEF AskedInv
<1>4. PagesInv'
  BY <1>1 DEF PagesInv, sentVars
<1>5. CountInv'
  BY <1>1 DEF CountInv, pageVars, sentVars
<1>6. ListedOnce'
  BY <1>1, SameResources
<1>. QED
  BY <1>2, <1>3, <1>4, <1>5, <1>6

LEMMA ProjectSame ==
    ASSUME ProjectInv, UNCHANGED projectVars
    PROVE  ProjectInv'
BY DEF ProjectInv, ProjectTypeOK, AskedInv, PagesInv, CountInv, ListedOnce,
       AtResourceLimit, projectVars, stackVars, pageVars, sentVars

LEMMA ProjectKeeps ==
    ASSUME ProjectInv, ProjectNext
    PROVE  ProjectInv'
BY ClientStepKeeps, BreakStepKeeps, RequestFailsKeeps, ReceivePageKeeps, OmitKeeps,
   KeepItemKeeps, StopAtLimitKeeps, LastPageKeeps, FollowTokenKeeps DEF ProjectNext

\* When it is done, a result that is complete has everything.
LEMMA ProjectDone ==
    ASSUME ProjectInv
    PROVE  /\ RequestsBounded /\ CompleteMeansAll
           /\ project_pc = "done" => (complete <=> issue_codes = {})
<1>1. RequestsBounded
  <2>1. stack \in Nat /\ StackCount \in Nat /\ stack <= StackCount /\ MaxPages \in Nat
    BY InventoryAssumption DEF ProjectInv, ProjectTypeOK, Stack
  <2>2. /\ stack * MaxPages \in Nat /\ StackCount * MaxPages \in Nat
        /\ stack * MaxPages <= StackCount * MaxPages
    BY <2>1, PagesOfAStack
  <2>3. sdk_requests \in Nat /\ sdk_requests <= stack * MaxPages
    BY DEF ProjectInv, ProjectTypeOK, PagesInv
  <2>4. sdk_requests <= StackCount * MaxPages
    BY <2>2, <2>3
  <2>. QED
    BY <2>4 DEF RequestsBounded, ProjectInv, AskedInv
<1>2. CompleteMeansAll
  BY DEF CompleteMeansAll, ProjectInv, CountInv, ProjectTypeOK
<1>3. project_pc = "done" => (complete <=> issue_codes = {})
  BY DEF ProjectInv, CountInv
<1>. QED
  BY <1>1, <1>2, <1>3

-----------------------------------------------------------------------------
(* The project inventory: what is missing while it is incomplete. *)

LEMMA Sizes ==
    ASSUME ProjectTypeOK
    PROVE  /\ resources \in Seq(Stack \X LogicalId) /\ Len(resources) \in Nat
           /\ items \in Seq(Item) /\ Len(items) \in Nat
           /\ offered \in Nat /\ stack \in Stack /\ stack \in Nat
           /\ ended \subseteq Stack
           /\ items # <<>> => Len(Tail(items)) = Len(items) - 1 /\ Len(items) > 0
BY InventoryAssumption DEF ProjectTypeOK, Stack

LEMMA MissingStarts ==
    ASSUME ProjectInit
    PROVE  MissingInv
BY DEF ProjectInit, MissingInv

\* A stack that is left without having ended stays missing.
LEMMA LeaveMisses ==
    ASSUME ProjectTypeOK, MissingInv, project_pc # "done", Leave(FALSE), items = <<>>,
           UNCHANGED <<items, resources, offered, ended>>
    PROVE  MissingInv'
<1>1. /\ stack \in Stack /\ stack \in Nat
      /\ Len(resources) \in Nat /\ Len(items) \in Nat /\ offered \in Nat
  BY Sizes
<1>2. \/ stack' = stack /\ project_pc' = "done"
      \/ stack' = stack + 1 /\ project_pc' = "ask"
  BY DEF Leave, stackVars
<1>3. \A k \in ended : k < stack
  BY DEF MissingInv
<1>4. stack \in Stack \ ended /\ (stack < stack' \/ project_pc' = "done")
  BY <1>1, <1>2, <1>3
<1>5. \A k \in ended : k < stack'
  BY <1>1, <1>2, <1>3, Sizes DEF Stack
<1>6. Len(resources) + Len(items) <= offered
  BY DEF MissingInv
<1>. QED
  BY <1>4, <1>5, <1>6 DEF MissingInv

LEMMA ClientMisses ==
    ASSUME ProjectTypeOK, MissingInv, ClientFails \/ ClientCreated
    PROVE  MissingInv'
<1>1. /\ UNCHANGED <<stack, items, resources, offered, ended>> /\ project_pc = "start"
      /\ \/ project_pc' = "done"
         \/ project_pc' = "ask" /\ complete' = complete
  BY DEF ClientFails, ClientCreated, stackVars, pageVars, sentVars
<1>2. \A k \in ended : k < stack
  BY <1>1 DEF MissingInv
<1>3. stack \in Stack /\ stack \in Nat
  BY Sizes
<1>4. stack \in Stack \ ended
  BY <1>2, <1>3
<1>. QED
  BY <1>1, <1>2, <1>4 DEF MissingInv

\* An item that is left out is missing; one that is kept is not.
LEMMA ItemMisses ==
    ASSUME ProjectTypeOK, MissingInv,
           OmitMalformed \/ OmitDuplicate \/ Keep \/ StopAtLimit
    PROVE  MissingInv'
<1>1. /\ Len(resources) \in Nat /\ Len(items) \in Nat /\ offered \in Nat
      /\ resources \in Seq(Stack \X LogicalId)
  BY Sizes
<1>2. /\ UNCHANGED <<stack, offered, ended, project_pc>> /\ items # <<>>
      /\ \/ resources' = resources /\ items' = Tail(items)
         \/ complete' = complete /\ resources' = Append(resources, Key) /\ items' = Tail(items)
         \/ resources' = resources /\ items' = <<>>
  BY DEF OmitMalformed, OmitDuplicate, Omit, Keep, StopAtLimit, stackVars, sentVars
<1>3. Len(items) > 0 /\ Len(Tail(items)) = Len(items) - 1
  BY <1>2, Sizes
<1>4. Len(Append(resources, Key)) = Len(resources) + 1
  BY <1>1
<1>5. Len(resources) + Len(items) <= offered
  BY DEF MissingInv
<1>6. \/ Len(resources') + Len(items') < offered
      \/ complete' = complete /\ Len(resources') + Len(items') = Len(resources) + Len(items)
  <2>1. CASE resources' = resources /\ items' = Tail(items)
    BY <1>1, <1>3, <1>5, <2>1
  <2>2. CASE complete' = complete /\ resources' = Append(resources, Key) /\ items' = Tail(items)
    <3>1. Len(resources') = Len(resources) + 1 /\ Len(items') = Len(items) - 1
      BY <1>3, <1>4, <2>2
    <3>2. Len(resources') + Len(items') = Len(resources) + Len(items)
      BY <1>1, <3>1
    <3>. QED
      BY <2>2, <3>2, Zenon
  <2>3. CASE resources' = resources /\ items' = <<>>
    <3>1. Len(items') = 0 /\ Len(resources') = Len(resources)
      BY <2>3
    <3>. QED
      BY <1>1, <1>3, <1>5, <3>1
  <2>. QED
    BY <1>2, <2>1, <2>2, <2>3
<1>7. Len(resources') + Len(items') <= offered
  <2>1. Len(items') \in Nat /\ Len(resources') \in Nat
    BY <1>1, <1>2, <1>3, <1>4
  <2>. QED
    BY <1>1, <1>5, <1>6, <2>1
<1>. QED
  BY <1>2, <1>6, <1>7 DEF MissingInv

LEMMA LastPageMisses ==
    ASSUME ProjectTypeOK, MissingInv, LastPage
    PROVE  MissingInv'
<1>1. /\ project_pc = "read" /\ ended' = ended \cup {stack} /\ Leave(TRUE) /\ ~AtResourceLimit
      /\ UNCHANGED <<items, resources, offered>>
  BY DEF LastPage, AtEnd, pageVars, sentVars
<1>2. complete' = complete
  BY <1>1 DEF Leave, ProjectTypeOK
<1>3. \/ stack' = stack /\ project_pc' = "done"
      \/ stack' = stack + 1 /\ project_pc' = "ask"
  BY <1>1 DEF Leave, stackVars
<1>4. stack \in Nat /\ \A k \in ended : k < stack /\ k \in Nat
  BY <1>1, Sizes DEF MissingInv, Stack
<1>5. \A k \in ended' : k < stack' \/ (k = stack' /\ project_pc' = "done")
  BY <1>1, <1>3, <1>4
<1>6. ASSUME NEW k \in Stack \ ended, k < stack
      PROVE  k \in Stack \ ended' /\ k < stack'
  <2>1. k \in Nat /\ k # stack
    BY <1>4, <1>6 DEF Stack
  <2>. QED
    BY <1>1, <1>3, <1>4, <1>6, <2>1
<1>. QED
  BY <1>1, <1>2, <1>5, <1>6 DEF MissingInv

LEMMA MissingKeeps ==
    ASSUME ProjectInv, MissingInv, ProjectNext
    PROVE  MissingInv'
<1>. USE DEF ProjectInv
<1>1. CASE PageLimit \/ ResultFull \/ BadToken
  <2>1. /\ Leave(FALSE) /\ project_pc # "done" /\ items = <<>>
        /\ UNCHANGED <<items, resources, offered, ended>>
    BY <1>1 DEF PageLimit, ResultFull, BadToken, AtEnd, pageVars, sentVars, CountInv
  <2>. QED
    BY <2>1, LeaveMisses
<1>2. CASE RequestFails
  <2>1. /\ Leave(FALSE) /\ project_pc # "done" /\ items = <<>>
        /\ UNCHANGED <<items, resources, offered, ended>>
    BY <1>2 DEF RequestFails, SendRequest, MayAsk, pageVars, CountInv
  <2>. QED
    BY <2>1, LeaveMisses
<1>3. CASE ReceivePage
  <2>1. PICK page \in Page : items' = page /\ offered' = offered + Len(page)
    BY <1>3 DEF ReceivePage
  <2>2. /\ UNCHANGED <<stack, resources, complete, ended>> /\ items = <<>>
        /\ project_pc # "done"
    BY <1>3 DEF ReceivePage, SendRequest, MayAsk, CountInv
  <2>3. Len(page) \in Nat /\ Len(resources) \in Nat /\ offered \in Nat /\ Len(items) = 0
    BY <2>2, InventoryAssumption, Sizes
  <2>. QED
    BY <2>1, <2>2, <2>3 DEF MissingInv
<1>4. CASE FollowToken
  BY <1>4 DEF FollowToken, AtEnd, pageVars, sentVars, MissingInv
<1>. QED
  BY <1>1, <1>2, <1>3, <1>4, ClientMisses, ItemMisses, LastPageMisses DEF ProjectNext

LEMMA MissingSame ==
    ASSUME MissingInv, UNCHANGED projectVars
    PROVE  MissingInv'
BY DEF MissingInv, projectVars, stackVars, pageVars, sentVars

\* An inventory that is done lacks nothing exactly when it is complete.
LEMMA ProjectTells ==
    ASSUME ProjectInv, MissingInv, project_pc = "done"
    PROVE  complete <=> ended = Stack /\ Len(resources) = offered
<1>1. items = <<>> /\ Len(items) = 0
  BY DEF ProjectInv, CountInv
<1>2. Len(resources) \in Nat /\ offered \in Nat
  BY Sizes DEF ProjectInv
<1>3. complete => ended = Stack /\ Len(resources) = offered
  BY <1>1, <1>2 DEF ProjectInv, CountInv
<1>4. ~complete => Len(resources) < offered \/ ended # Stack
  BY <1>1, <1>2 DEF MissingInv
<1>. QED
  BY <1>2, <1>3, <1>4 DEF ProjectInv, ProjectTypeOK

-----------------------------------------------------------------------------
(* The answer of Cost Explorer: positions. *)

LEMMA DatedIs ==
    ASSUME NEW periods \in Seq(Period), NEW n \in Nat \ {0}
    PROVE  /\ Dated(periods, n) \in SUBSET Nat /\ IsFiniteSet(Dated(periods, n))
           /\ Cardinality(Dated(periods, n)) \in Nat
           /\ Cardinality(Dated(periods, n)) <= n - 1
           /\ \A i \in Dated(periods, n) : i \in DOMAIN periods /\ i < n
<1>1. DOMAIN periods = 1..Len(periods) /\ Len(periods) \in Nat
  OBVIOUS
<1>2. \A i \in Dated(periods, n) : i \in DOMAIN periods /\ i < n /\ i \in Nat /\ i \in 1..(n - 1)
  BY <1>1 DEF Dated
<1>3. IsFiniteSet(1..(n - 1)) /\ Cardinality(1..(n - 1)) = n - 1
  <2>1. 1 \in Int /\ n - 1 \in Int
    OBVIOUS
  <2>2. IsFiniteSet(1..(n - 1)) /\ Cardinality(1..(n - 1)) = IF 1 > n - 1 THEN 0 ELSE n - 1 - 1 + 1
    BY <2>1, FS_Interval
  <2>. QED
    BY <2>2
<1>4. Dated(periods, n) \in SUBSET (1..(n - 1))
  BY <1>2
<1>5. IsFiniteSet(Dated(periods, n)) /\ Cardinality(Dated(periods, n)) <= Cardinality(1..(n - 1))
  BY <1>3, <1>4, FS_Subset
<1>6. Cardinality(Dated(periods, n)) \in Nat
  BY <1>5, FS_CardinalityType
<1>. QED
  BY <1>2, <1>3, <1>5, <1>6

LEMMA IntervalCount ==
    ASSUME NEW n \in Nat
    PROVE  IsFiniteSet(1..n) /\ Cardinality(1..n) = n
<1>1. IsFiniteSet(1..n) /\ Cardinality(1..n) = IF 1 > n THEN 0 ELSE n - 1 + 1
  BY FS_Interval
<1>. QED
  BY <1>1

LEMMA PositionsAre ==
    ASSUME NEW p \in Period, NEW g
    PROVE  /\ RawGroups(p) \in Seq(Group)
           /\ Positions(p, g) \in SUBSET (1..Len(RawGroups(p)))
           /\ Positions(p, g) \in SUBSET Nat /\ IsFiniteSet(Positions(p, g))
<1>1. RawGroups(p) \in Seq(Group)
  BY DEF RawGroups, Period
<1>2. DOMAIN RawGroups(p) = 1..Len(RawGroups(p)) /\ Len(RawGroups(p)) \in Nat
  BY <1>1
<1>3. Positions(p, g) \in SUBSET (1..Len(RawGroups(p)))
  BY <1>2 DEF Positions
<1>4. Positions(p, g) \in SUBSET Nat
  BY <1>2, <1>3
<1>5. IsFiniteSet(Positions(p, g))
  BY <1>2, <1>3, IntervalCount, FS_Subset
<1>. QED
  BY <1>1, <1>3, <1>4, <1>5

LEMMA TakenAre ==
    ASSUME NEW p \in Period, NEW g, group_count \in 0..MAX_COST_GROUPS
    PROVE  /\ Remaining \in Nat
           /\ Positions(p, g) \cap Taken \in SUBSET Nat
           /\ IsFiniteSet(Positions(p, g) \cap Taken)
           /\ Cardinality(Positions(p, g) \cap Taken) \in Nat
           /\ Cardinality(Positions(p, g) \cap Taken) <= Remaining
           /\ Len(RawGroups(p)) <= Remaining => Positions(p, g) \cap Taken = Positions(p, g)
<1>1. Remaining \in Nat
  BY ResponseAssumption DEF Remaining
<1>2. IsFiniteSet(Taken) /\ Cardinality(Taken) = Remaining
  BY <1>1, IntervalCount DEF Taken
<1>3. Positions(p, g) \cap Taken \in SUBSET Taken
  OBVIOUS
<1>4. /\ IsFiniteSet(Positions(p, g) \cap Taken)
      /\ Cardinality(Positions(p, g) \cap Taken) <= Remaining
  BY <1>2, <1>3, FS_Subset
<1>5. Cardinality(Positions(p, g) \cap Taken) \in Nat
  BY <1>4, FS_CardinalityType
<1>6. ASSUME Len(RawGroups(p)) <= Remaining
      PROVE  Positions(p, g) \in SUBSET Taken
  <2>1. Len(RawGroups(p)) \in Nat /\ Positions(p, g) \in SUBSET (1..Len(RawGroups(p)))
    BY PositionsAre
  <2>2. 1..Len(RawGroups(p)) \in SUBSET Taken
    BY <1>1, <1>6, <2>1 DEF Taken
  <2>. QED
    BY <2>1, <2>2
<1>7. Positions(p, g) \cap Taken \in SUBSET Nat
  BY PositionsAre
<1>. QED
  BY <1>1, <1>4, <1>5, <1>6, <1>7

\* What is counted as malformed in a period.
LEMMA MalformedTells ==
    ASSUME NEW p \in Period, group_count \in 0..MAX_COST_GROUPS
    PROVE  /\ MalformedIn(p) \in Nat
           /\ MalformedIn(p) = 0 <=> /\ p.total # "invalid" /\ p.groups # NotAList
                                    /\ Positions(p, "invalid") \cap Taken = {}
<1>. DEFINE wrong == Positions(p, "invalid") \cap Taken
            c == Cardinality(wrong)
            t == IF p.total = "invalid" THEN 1 ELSE 0
            g == IF p.groups = NotAList THEN 1 ELSE 0
<1>1. c \in Nat /\ IsFiniteSet(wrong)
  BY TakenAre
<1>2. c = 0 <=> wrong = {}
  BY <1>1, FS_EmptySet
<1>3. MalformedIn(p) = t + g + c
  BY DEF MalformedIn
<1>4. t \in {0, 1} /\ g \in {0, 1} /\ (t = 0 <=> p.total # "invalid") /\ (g = 0 <=> p.groups # NotAList)
  OBVIOUS
<1>. HIDE DEF wrong, c, t, g
<1>5. MalformedIn(p) \in Nat /\ (MalformedIn(p) = 0 <=> t = 0 /\ g = 0 /\ c = 0)
  BY <1>1, <1>3, <1>4
<1>. QED
  BY <1>2, <1>4, <1>5 DEF wrong

-----------------------------------------------------------------------------
(* The answer of Cost Explorer: its steps. *)

LEMMA CostStarts ==
    ASSUME CostInit
    PROVE  CostInv
<1>1. /\ cost_pc = "asking" /\ RawPeriods = <<>> /\ next = 1 /\ sanitized_periods = <<>>
      /\ group_count = 0 /\ malformed_count = 0 /\ clipped = FALSE
      /\ response = [ResultsByTime |-> <<>>, NextPageToken |-> FALSE]
  BY DEF CostInit, NoResponse, RawPeriods
<1>2. CopiedGroups = {}
  BY <1>1 DEF CopiedGroups
<1>3. Cardinality(CopiedGroups) = 0
  BY <1>2, FS_EmptySet
<1>4. CostTypeOK
  <2>1. response \in [ResultsByTime : Seq(Period), NextPageToken : BOOLEAN]
    BY <1>1
  <2>2. /\ next \in 1..MAX_COST_PERIODS + 1
        /\ sanitized_periods \in Seq([period : Nat, groups : Seq(Nat)])
        /\ Len(sanitized_periods) <= MAX_COST_PERIODS
        /\ group_count \in 0..MAX_COST_GROUPS
    BY <1>1, ResponseAssumption
  <2>. QED
    BY <1>1, <1>3, <2>1, <2>2 DEF CostTypeOK
<1>5. CopiedInv
  <2>1. Dated(RawPeriods, next) = {}
    BY <1>1 DEF Dated
  <2>. QED
    BY <1>1, <2>1, FS_EmptySet DEF CopiedInv
<1>6. WholeInv
  BY <1>1, ResponseAssumption DEF WholeInv
<1>7. UnreadInv
  BY <1>1 DEF UnreadInv
<1>. QED
  BY <1>4, <1>5, <1>6, <1>7 DEF CostInv

LEMMA CostSame ==
    ASSUME CostInv, UNCHANGED <<response, next, sanitized_periods, group_count, malformed_count>>,
           cost_pc' \in {"asking", "reading", "done", "failed"}, clipped' \in BOOLEAN
    PROVE  CostTypeOK' /\ CopiedInv'
<1>1. CopiedGroups' = CopiedGroups
  BY DEF CopiedGroups
<1>2. CostTypeOK'
  BY <1>1 DEF CostInv, CostTypeOK
<1>3. CopiedInv'
  BY DEF CostInv, CopiedInv, RawPeriods
<1>. QED
  BY <1>2, <1>3

LEMMA EndKeeps ==
    ASSUME CostInv, QueryFails \/ Finish \/ UNCHANGED costVars
    PROVE  CostInv'
<1>1. /\ UNCHANGED <<response, next, resultVars>>
      /\ cost_pc' \in {"asking", "reading", "done", "failed"} /\ clipped' = clipped
      /\ clipped \in BOOLEAN
  BY DEF QueryFails, Finish, costVars, resultVars, CostInv, CostTypeOK
<1>2. CostTypeOK' /\ CopiedInv'
  BY <1>1, CostSame DEF resultVars
<1>3. WholeInv'
  <2>1. ASSUME Finish, ~clipped
        PROVE  Len(RawPeriods) < next
    <3>1. ~(next <= Len(RawPeriods)) \/ ~(next <= MAX_COST_PERIODS)
      BY <2>1 DEF Finish, ToRead
    <3>2. Len(RawPeriods) <= MAX_COST_PERIODS
      BY <2>1 DEF CostInv, WholeInv
    <3>3. next \in Nat /\ MAX_COST_PERIODS \in Nat /\ Len(RawPeriods) \in Nat
      BY ResponseAssumption DEF CostInv, CostTypeOK, RawPeriods
    <3>. QED
      BY <3>1, <3>2, <3>3
  <2>2. ~clipped /\ cost_pc' = "done" => Len(RawPeriods) < next
    BY <2>1 DEF QueryFails, costVars, CostInv, WholeInv
  <2>3. RawPeriods' = RawPeriods /\ next' = next /\ sanitized_periods' = sanitized_periods
    BY <1>1 DEF RawPeriods, resultVars
  <2>. QED
    BY <1>1, <2>2, <2>3 DEF CostInv, WholeInv
<1>4. UnreadInv'
  BY <1>1 DEF QueryFails, Finish, costVars, resultVars, CostInv, UnreadInv
<1>. QED
  BY <1>2, <1>3, <1>4 DEF CostInv

LEMMA ReceiveKeeps ==
    ASSUME CostInv, Receive
    PROVE  CostInv'
<1>1. /\ cost_pc = "asking" /\ cost_pc' = "reading" /\ response' \in Response
      /\ clipped' = (response'.NextPageToken \/ Len(response'.ResultsByTime) > MAX_COST_PERIODS)
      /\ UNCHANGED <<next, sanitized_periods, group_count, malformed_count>>
  BY DEF Receive
<1>2. /\ next = 1 /\ sanitized_periods = <<>> /\ malformed_count = 0
  BY <1>1 DEF CostInv, UnreadInv
<1>3. response' \in [ResultsByTime : Seq(Period), NextPageToken : BOOLEAN]
  BY <1>1, ResponseAssumption
<1>4. response'.NextPageToken \in BOOLEAN /\ response'.ResultsByTime \in Seq(Period)
  BY <1>3
<1>5. CostTypeOK'
  <2>1. CopiedGroups' = CopiedGroups
    BY <1>1 DEF CopiedGroups
  <2>2. clipped' \in BOOLEAN
    BY <1>1, <1>4
  <2>. QED
    BY <1>1, <1>3, <2>1, <2>2 DEF CostInv, CostTypeOK
<1>6. CopiedInv'
  <2>1. \A i \in DOMAIN RawPeriods' : ~(i < next')
    BY <1>1, <1>2, <1>4 DEF RawPeriods
  <2>2. Dated(RawPeriods', next') = {}
    BY <2>1 DEF Dated
  <2>3. sanitized_periods' = <<>> /\ DOMAIN sanitized_periods' = {} /\ Len(sanitized_periods') = 0
    BY <1>1, <1>2
  <2>4. Cardinality(Dated(RawPeriods', next')) = 0
    BY <2>2, FS_EmptySet
  <2>. QED
    BY <2>3, <2>4 DEF CopiedInv
<1>7. WholeInv'
  <2>2. Len(RawPeriods') \in Nat /\ MAX_COST_PERIODS \in Nat
    BY <1>4, ResponseAssumption DEF RawPeriods
  <2>3. ~clipped' => Len(RawPeriods') <= MAX_COST_PERIODS
    <3>1. RawPeriods' = response'.ResultsByTime
      BY DEF RawPeriods
    <3>2. ~clipped' => ~(Len(response'.ResultsByTime) > MAX_COST_PERIODS)
      BY <1>1, Zenon
    <3>. QED
      BY <2>2, <3>1, <3>2
  <2>. QED
    BY <1>1, <1>2, <2>3 DEF WholeInv
<1>8. UnreadInv'
  BY <1>1 DEF UnreadInv
<1>. QED
  BY <1>5, <1>6, <1>7, <1>8 DEF CostInv

\* The period that is looked at.
LEMMA NextPeriod ==
    ASSUME CostInv, ToRead
    PROVE  /\ next \in DOMAIN RawPeriods /\ RawPeriods \in Seq(Period)
           /\ RawPeriods[next] \in Period /\ next \in Nat \ {0}
           /\ next + 1 \in 1..MAX_COST_PERIODS + 1
           /\ RawPeriods[next].dates \in BOOLEAN
<1>1. RawPeriods \in Seq(Period) /\ next \in Nat \ {0} /\ MAX_COST_PERIODS \in Nat
  BY ResponseAssumption DEF CostInv, CostTypeOK, RawPeriods
<1>2. next \in DOMAIN RawPeriods /\ next + 1 \in 1..MAX_COST_PERIODS + 1
  BY <1>1 DEF ToRead
<1>3. RawPeriods[next] \in Period
  BY <1>1, <1>2
<1>. QED
  BY <1>1, <1>2, <1>3 DEF Period

LEMMA OmitPeriodKeeps ==
    ASSUME CostInv, OmitPeriod
    PROVE  CostInv'
<1>1. /\ cost_pc = "reading" /\ ToRead /\ ~RawPeriods[next].dates
      /\ malformed_count' = malformed_count + 1 /\ next' = next + 1
      /\ UNCHANGED <<cost_pc, response, sanitized_periods, group_count, clipped>>
      /\ RawPeriods' = RawPeriods
  BY DEF OmitPeriod, RawPeriods
<1>2. /\ next \in DOMAIN RawPeriods /\ RawPeriods \in Seq(Period) /\ next \in Nat \ {0}
      /\ next' \in 1..MAX_COST_PERIODS + 1
  BY <1>1, NextPeriod
<1>3. CostTypeOK'
  <2>1. CopiedGroups' = CopiedGroups
    BY <1>1 DEF CopiedGroups
  <2>2. malformed_count' \in Nat /\ malformed_count' # 0
    BY <1>1 DEF CostInv, CostTypeOK
  <2>. QED
    BY <1>1, <1>2, <2>1, <2>2 DEF CostInv, CostTypeOK
<1>4. CopiedInv'
  <2>1. \A i \in DOMAIN RawPeriods : i < next + 1 <=> i < next \/ i = next
    BY <1>2
  <2>2. Dated(RawPeriods, next + 1) = Dated(RawPeriods, next)
    BY <1>1, <2>1 DEF Dated
  <2>3. Dated(RawPeriods', next') = Dated(RawPeriods, next)
    BY <1>1, <2>2
  <2>. QED
    BY <1>1, <2>3 DEF CostInv, CopiedInv
<1>5. WholeInv'
  BY <1>1 DEF CostInv, WholeInv
<1>6. UnreadInv'
  BY <1>1 DEF UnreadInv
<1>. QED
  BY <1>3, <1>4, <1>5, <1>6 DEF CostInv

\* The pairs of a period that is copied and a position in its groups.
LEMMA CopiedMore ==
    ASSUME CostTypeOK, NEW copy \in [period : Nat, groups : Seq(Nat)],
           sanitized_periods' = Append(sanitized_periods, copy),
           Len(copy.groups) <= MAX_COST_GROUPS
    PROVE  Cardinality(CopiedGroups') = Cardinality(CopiedGroups) + Len(copy.groups)
<1>. DEFINE n == Len(sanitized_periods)
            m == Len(copy.groups)
            more == {n + 1} \X (1..m)
            all == (1..n) \X (1..MAX_COST_GROUPS)
<1>1. /\ sanitized_periods \in Seq([period : Nat, groups : Seq(Nat)])
      /\ n \in Nat /\ m \in Nat /\ MAX_COST_GROUPS \in Nat
  BY ResponseAssumption DEF CostTypeOK
<1>2. /\ DOMAIN sanitized_periods = 1..n /\ DOMAIN sanitized_periods' = 1..(n + 1)
      /\ \A k \in 1..n : sanitized_periods'[k] = sanitized_periods[k]
      /\ sanitized_periods'[n + 1] = copy
  BY <1>1, AppendProperties
<1>3. IsFiniteSet(CopiedGroups)
  <2>1. IsFiniteSet(1..n) /\ IsFiniteSet(1..MAX_COST_GROUPS)
    BY <1>1, IntervalCount
  <2>2. IsFiniteSet(all)
    BY <2>1, FS_Product
  <2>3. CopiedGroups \in SUBSET all
    BY <1>2 DEF CopiedGroups
  <2>. QED
    BY <2>2, <2>3, FS_Subset
<1>4. IsFiniteSet(more) /\ Cardinality(more) = m
  <2>1. IsFiniteSet({n + 1}) /\ Cardinality({n + 1}) = 1
    BY FS_Singleton
  <2>2. IsFiniteSet(1..m) /\ Cardinality(1..m) = m
    BY <1>1, IntervalCount
  <2>3. IsFiniteSet(more) /\ Cardinality(more) = 1 * m
    BY <2>1, <2>2, FS_Product
  <2>. QED
    BY <1>1, <2>3
<1>5. CopiedGroups' = CopiedGroups \cup more
  <2>1. CopiedGroups' = {copied \in (1..(n + 1)) \X (1..MAX_COST_GROUPS) :
                            copied[2] <= Len(sanitized_periods'[copied[1]].groups)}
    BY <1>2 DEF CopiedGroups
  <2>2. CopiedGroups = {copied \in (1..n) \X (1..MAX_COST_GROUPS) :
                           copied[2] <= Len(sanitized_periods[copied[1]].groups)}
    BY <1>2 DEF CopiedGroups
  <2>. HIDE DEF n, m
  <2>3. 1..(n + 1) = (1..n) \cup {n + 1} /\ n + 1 \notin 1..n
    BY <1>1
  <2>4. ASSUME NEW k \in 1..(n + 1), NEW j \in 1..MAX_COST_GROUPS
        PROVE  <<k, j>> \in CopiedGroups' <=> <<k, j>> \in CopiedGroups \cup more
    <3>1. <<k, j>> \in CopiedGroups' <=> j <= Len(sanitized_periods'[k].groups)
      BY <2>1, <2>4
    <3>2. CASE k \in 1..n
      <4>1. <<k, j>> \in CopiedGroups <=> j <= Len(sanitized_periods[k].groups)
        BY <2>2, <2>4, <3>2
      <4>2. <<k, j>> \notin more
        BY <2>3, <3>2
      <4>. QED
        BY <1>2, <3>1, <3>2, <4>1, <4>2
    <3>3. CASE k = n + 1
      <4>1. <<k, j>> \notin CopiedGroups
        BY <2>2, <2>3, <3>3
      <4>2. <<k, j>> \in more <=> j \in 1..m
        BY <3>3
      <4>3. j \in 1..m <=> j <= m
        BY <1>1, <2>4
      <4>4. Len(sanitized_periods'[k].groups) = m
        BY <1>2, <3>3 DEF m
      <4>. QED
        BY <3>1, <4>1, <4>2, <4>3, <4>4
    <3>. QED
      BY <2>3, <2>4, <3>2, <3>3
  <2>5. CopiedGroups' \in SUBSET ((1..(n + 1)) \X (1..MAX_COST_GROUPS))
    BY <2>1
  <2>6. more \in SUBSET ((1..(n + 1)) \X (1..MAX_COST_GROUPS))
    <3>1. 1..m \in SUBSET (1..MAX_COST_GROUPS)
      BY <1>1 DEF m
    <3>. QED
      BY <2>3, <3>1
  <2>7. CopiedGroups \in SUBSET ((1..(n + 1)) \X (1..MAX_COST_GROUPS))
    BY <2>2, <2>3
  <2>. QED
    BY <2>4, <2>5, <2>6, <2>7
<1>6. CopiedGroups \cap more = {}
  <2>1. \A copied \in CopiedGroups : copied[1] \in 1..n
    BY <1>2 DEF CopiedGroups
  <2>2. \A copied \in more : copied[1] = n + 1
    OBVIOUS
  <2>3. n + 1 \notin 1..n
    BY <1>1
  <2>. QED
    BY <2>1, <2>2, <2>3
<1>7. Cardinality(CopiedGroups \cap more) = 0
  BY <1>6, FS_EmptySet
<1>8. Cardinality(CopiedGroups \cup more) =
         Cardinality(CopiedGroups) + Cardinality(more) - Cardinality(CopiedGroups \cap more)
  BY <1>3, <1>4, FS_Union
<1>9. Cardinality(CopiedGroups) \in Nat
  BY <1>3, FS_CardinalityType
<1>. HIDE DEF n, m, more, all
<1>10. Cardinality(CopiedGroups') = Cardinality(CopiedGroups) + m
  BY <1>1, <1>4, <1>5, <1>7, <1>8, <1>9
<1>. QED
  BY <1>10 DEF m

\* What a step that copies a period does, with the positions it copies.
LEMMA CopiedIs ==
    ASSUME CostInv, CopyPeriod
    PROVE  LET p == RawPeriods[next]
               taken == Positions(p, "valid") \cap Taken
               copy == [period |-> next, groups |-> Ascending(taken)]
           IN  /\ p \in Period /\ p.dates
               /\ copy \in [period : Nat, groups : Seq(Nat)]
               /\ Len(copy.groups) = Cardinality(taken)
               /\ Len(copy.groups) \in Nat
               /\ Len(copy.groups) <= Remaining
               /\ sanitized_periods' = Append(sanitized_periods, copy)
               /\ group_count' = group_count + Len(copy.groups)
               /\ MalformedIn(p) \in Nat
               /\ malformed_count' = malformed_count + MalformedIn(p)
               /\ next' = next + 1 /\ response' = response /\ RawPeriods' = RawPeriods
               /\ cost_pc' \in {"reading", "done"}
<1>. DEFINE p == RawPeriods[next]
            taken == Positions(p, "valid") \cap Taken
            copy == [period |-> next, groups |-> Ascending(taken)]
<1>1. /\ ToRead /\ p.dates
      /\ sanitized_periods' = Append(sanitized_periods, copy)
      /\ group_count' = group_count + Len(copy.groups)
      /\ malformed_count' = malformed_count + MalformedIn(p)
      /\ next' = next + 1 /\ response' = response
      /\ cost_pc' \in {"reading", "done"}
  BY DEF CopyPeriod
<1>2. p \in Period /\ next \in Nat
  BY <1>1, NextPeriod
<1>3. group_count \in 0..MAX_COST_GROUPS
  BY DEF CostInv, CostTypeOK
<1>4. /\ taken \in SUBSET Nat /\ IsFiniteSet(taken) /\ Cardinality(taken) \in Nat
      /\ Cardinality(taken) <= Remaining
  BY <1>2, <1>3, TakenAre
<1>5. MalformedIn(p) \in Nat
  BY <1>1, <1>2, <1>3, MalformedTells
<1>6. Ascending(taken) \in Seq(Nat) /\ Len(Ascending(taken)) = Cardinality(taken)
  BY <1>4, AscendingIs
<1>7. copy.groups = Ascending(taken) /\ copy \in [period : Nat, groups : Seq(Nat)]
  BY <1>2, <1>6
<1>8. RawPeriods' = RawPeriods
  BY <1>1 DEF RawPeriods
<1>. QED
  BY <1>1, <1>2, <1>4, <1>5, <1>6, <1>7, <1>8

LEMMA CopyTypes ==
    ASSUME CostInv, CopyPeriod
    PROVE  CostTypeOK' /\ CopiedInv'
<1>. DEFINE p == RawPeriods[next]
            taken == Positions(p, "valid") \cap Taken
            copy == [period |-> next, groups |-> Ascending(taken)]
            n == Len(sanitized_periods)
<1>1. /\ p \in Period /\ p.dates
      /\ copy \in [period : Nat, groups : Seq(Nat)]
      /\ Len(copy.groups) \in Nat /\ Len(copy.groups) <= Remaining
      /\ sanitized_periods' = Append(sanitized_periods, copy)
      /\ group_count' = group_count + Len(copy.groups)
      /\ MalformedIn(p) \in Nat
      /\ malformed_count' = malformed_count + MalformedIn(p)
      /\ next' = next + 1 /\ response' = response /\ RawPeriods' = RawPeriods
      /\ cost_pc' \in {"reading", "done"}
  BY CopiedIs
<1>2. /\ next \in DOMAIN RawPeriods /\ RawPeriods \in Seq(Period)
      /\ next \in Nat \ {0} /\ next + 1 \in 1..MAX_COST_PERIODS + 1
  BY NextPeriod DEF CopyPeriod
<1>3. /\ sanitized_periods \in Seq([period : Nat, groups : Seq(Nat)]) /\ n \in Nat
      /\ group_count \in 0..MAX_COST_GROUPS /\ MAX_COST_GROUPS \in Nat
      /\ MAX_COST_PERIODS \in Nat
  BY ResponseAssumption DEF CostInv, CostTypeOK
<1>. HIDE DEF p, copy
<1>4. /\ sanitized_periods' \in Seq([period : Nat, groups : Seq(Nat)])
      /\ Len(sanitized_periods') = n + 1
      /\ DOMAIN sanitized_periods' = 1..(n + 1) /\ DOMAIN sanitized_periods = 1..n
      /\ \A k \in 1..n : sanitized_periods'[k] = sanitized_periods[k]
      /\ sanitized_periods'[n + 1] = copy
  BY <1>1, <1>3, AppendProperties
<1>5. group_count' \in 0..MAX_COST_GROUPS /\ Len(copy.groups) <= MAX_COST_GROUPS
  BY <1>1, <1>3 DEF Remaining
<1>6. group_count' = Cardinality(CopiedGroups')
  <2>1. Cardinality(CopiedGroups') = Cardinality(CopiedGroups) + Len(copy.groups)
    BY <1>1, <1>5, CopiedMore DEF CostInv
  <2>. QED
    BY <1>1, <2>1 DEF CostInv, CostTypeOK
<1>. DEFINE old == Dated(RawPeriods, next)
<1>7. Dated(RawPeriods', next') = old \cup {next}
  <2>1. \A i \in DOMAIN RawPeriods : i < next + 1 <=> i < next \/ i = next
    BY <1>2
  <2>2. RawPeriods[next].dates
    BY <1>1 DEF p
  <2>3. Dated(RawPeriods, next + 1) = old \cup {next}
    BY <1>2, <2>1, <2>2 DEF Dated
  <2>. QED
    BY <1>1, <2>3
<1>8. /\ old \in SUBSET Nat /\ IsFiniteSet(old) /\ \A i \in old : i < next
      /\ Cardinality(old) \in Nat
  BY <1>2, DatedIs
<1>9. /\ Cardinality(old \cup {next}) = Cardinality(old) + 1
      /\ Ascending(old \cup {next})[Cardinality(old) + 1] = next
      /\ \A k \in 1..Cardinality(old) : Ascending(old \cup {next})[k] = Ascending(old)[k]
  BY <1>2, <1>8, AscendingNext
<1>10. n = Cardinality(old) /\ \A k \in 1..n : sanitized_periods[k].period = Ascending(old)[k]
  BY <1>4 DEF CostInv, CopiedInv
<1>. HIDE DEF old, n
<1>11. CopiedInv'
  <2>1. Len(sanitized_periods') = Cardinality(Dated(RawPeriods', next'))
    BY <1>4, <1>7, <1>9, <1>10
  <2>2. ASSUME NEW k \in DOMAIN sanitized_periods'
        PROVE  sanitized_periods'[k].period = Ascending(Dated(RawPeriods', next'))[k]
    <3>1. CASE k \in 1..n
      BY <1>4, <1>7, <1>9, <1>10, <3>1
    <3>2. CASE k = n + 1
      <4>1. copy.period = next
        BY DEF copy
      <4>. QED
        BY <1>4, <1>7, <1>9, <1>10, <3>2, <4>1
    <3>. QED
      BY <1>3, <1>4, <2>2, <3>1, <3>2
  <2>. QED
    BY <2>1, <2>2 DEF CopiedInv
<1>12. Len(sanitized_periods') <= MAX_COST_PERIODS
  <2>1. Cardinality(old) <= next - 1
    BY <1>2, DatedIs DEF old
  <2>. QED
    BY <1>2, <1>3, <1>4, <1>8, <1>10, <2>1
<1>13. CostTypeOK'
  <2>1. clipped' \in BOOLEAN
    BY DEF CopyPeriod, CostInv, CostTypeOK
  <2>2. malformed_count' \in Nat
    BY <1>1 DEF CostInv, CostTypeOK
  <2>3. response' \in [ResultsByTime : Seq(Period), NextPageToken : BOOLEAN]
    BY <1>1 DEF CostInv, CostTypeOK
  <2>. QED
    BY <1>1, <1>2, <1>4, <1>5, <1>6, <1>12, <2>1, <2>2, <2>3 DEF CostTypeOK
<1>. QED
  BY <1>11, <1>13

LEMMA CopyWhole ==
    ASSUME CostInv, CopyPeriod
    PROVE  WholeInv'
<1>. DEFINE p == RawPeriods[next]
            taken == Positions(p, "valid") \cap Taken
            copy == [period |-> next, groups |-> Ascending(taken)]
            n == Len(sanitized_periods)
<1>0. SUFFICES ASSUME ~clipped'
               PROVE  /\ Len(RawPeriods') <= MAX_COST_PERIODS
                      /\ \A k \in DOMAIN sanitized_periods' :
                            sanitized_periods'[k].groups =
                               Ascending(Positions(RawPeriods'[sanitized_periods'[k].period], "valid"))
                      /\ cost_pc' = "done" => Len(RawPeriods') < next'
  BY DEF WholeInv
<1>1. /\ p \in Period /\ p.dates
      /\ sanitized_periods' = Append(sanitized_periods, copy)
      /\ next' = next + 1 /\ response' = response /\ RawPeriods' = RawPeriods
  BY CopiedIs
<1>2. ~clipped /\ Len(RawGroups(p)) <= Remaining /\ cost_pc' # "done"
  <2>1. ~clipped /\ ~(Len(RawGroups(p)) > Remaining) /\ cost_pc' # "done"
    BY <1>0 DEF CopyPeriod, Clips
  <2>2. group_count \in 0..MAX_COST_GROUPS
    BY DEF CostInv, CostTypeOK
  <2>3. Remaining \in Nat
    BY <1>1, <2>2, TakenAre
  <2>4. RawGroups(p) \in Seq(Group)
    BY <1>1, PositionsAre
  <2>. QED
    BY <2>1, <2>3, <2>4
<1>3. /\ next \in DOMAIN RawPeriods /\ RawPeriods \in Seq(Period) /\ next \in Nat \ {0}
  BY NextPeriod DEF CopyPeriod
<1>4. /\ Len(RawPeriods) <= MAX_COST_PERIODS
      /\ \A k \in DOMAIN sanitized_periods :
            sanitized_periods[k].groups =
               Ascending(Positions(RawPeriods[sanitized_periods[k].period], "valid"))
      /\ group_count \in 0..MAX_COST_GROUPS
  BY <1>2 DEF CostInv, WholeInv, CostTypeOK
<1>5. taken = Positions(p, "valid")
  BY <1>1, <1>2, <1>4, TakenAre
<1>6. sanitized_periods \in Seq([period : Nat, groups : Seq(Nat)]) /\ n \in Nat
  BY DEF CostInv, CostTypeOK
<1>7. /\ DOMAIN sanitized_periods' = 1..(n + 1) /\ DOMAIN sanitized_periods = 1..n
      /\ \A k \in 1..n : sanitized_periods'[k] = sanitized_periods[k]
      /\ sanitized_periods'[n + 1] = copy
  BY <1>1, <1>6, AppendProperties
<1>8. copy.groups = Ascending(Positions(RawPeriods[copy.period], "valid"))
  BY <1>5
<1>. HIDE DEF copy, n, taken
<1>9. ASSUME NEW k \in DOMAIN sanitized_periods'
      PROVE  sanitized_periods'[k].groups =
                Ascending(Positions(RawPeriods'[sanitized_periods'[k].period], "valid"))
  <2>1. CASE k \in 1..n
    BY <1>1, <1>4, <1>7, <2>1
  <2>2. CASE k = n + 1
    BY <1>1, <1>7, <1>8, <2>2
  <2>. QED
    BY <1>6, <1>7, <1>9, <2>1, <2>2
<1>. QED
  BY <1>1, <1>2, <1>4, <1>9

LEMMA CostKeeps ==
    ASSUME CostInv, CostNext
    PROVE  CostInv'
<1>1. CASE CopyPeriod
  <2>1. UnreadInv'
    BY <1>1, CopiedIs DEF UnreadInv
  <2>. QED
    BY <1>1, <2>1, CopyTypes, CopyWhole DEF CostInv
<1>. QED
  BY <1>1, EndKeeps, ReceiveKeeps, OmitPeriodKeeps DEF CostNext

\* What is not marked as clipped is the whole answer.
LEMMA CostWhole ==
    ASSUME CostInv, cost_pc = "done", ~clipped
    PROVE  sanitized_periods = AllPeriods
<1>. DEFINE dated == {i \in DOMAIN RawPeriods : RawPeriods[i].dates}
            n == Len(sanitized_periods)
<1>1. /\ Len(RawPeriods) < next
      /\ \A k \in DOMAIN sanitized_periods :
            sanitized_periods[k].groups =
               Ascending(Positions(RawPeriods[sanitized_periods[k].period], "valid"))
  BY DEF CostInv, WholeInv
<1>2. RawPeriods \in Seq(Period) /\ next \in Nat \ {0}
  BY DEF CostInv, CostTypeOK, RawPeriods
<1>3. \A i \in DOMAIN RawPeriods : i < next
  BY <1>1, <1>2
<1>4. Dated(RawPeriods, next) = dated
  BY <1>3 DEF Dated
<1>5. /\ sanitized_periods \in Seq([period : Nat, groups : Seq(Nat)])
      /\ DOMAIN sanitized_periods = 1..n /\ n \in Nat
  BY DEF CostInv, CostTypeOK
<1>6. n = Cardinality(dated) /\ \A k \in 1..n : sanitized_periods[k].period = Ascending(dated)[k]
  BY <1>4, <1>5 DEF CostInv, CopiedInv
<1>7. dated \in SUBSET Nat /\ IsFiniteSet(dated)
  BY <1>2, <1>4, DatedIs
<1>8. ReadablePeriods = Ascending(dated) /\ DOMAIN ReadablePeriods = 1..n
  <2>1. ReadablePeriods = Ascending(dated)
    BY DEF ReadablePeriods
  <2>2. DOMAIN Ascending(dated) = 1..Cardinality(dated)
    BY <1>7, AscendingIs
  <2>. QED
    BY <1>6, <2>1, <2>2
<1>. HIDE DEF dated, n
<1>9. DOMAIN AllPeriods = 1..n
  BY <1>8 DEF AllPeriods
<1>10. ASSUME NEW k \in 1..n
       PROVE  sanitized_periods[k] = AllPeriods[k]
  <2>1. sanitized_periods[k] \in [period : Nat, groups : Seq(Nat)]
    BY <1>5, ElementOfSeq DEF n
  <2>2. sanitized_periods[k] = [period |-> sanitized_periods[k].period,
                                groups |-> sanitized_periods[k].groups]
    BY <2>1
  <2>3. sanitized_periods[k].period = ReadablePeriods[k]
    BY <1>6, <1>8
  <2>4. sanitized_periods[k].groups = Ascending(Positions(RawPeriods[ReadablePeriods[k]], "valid"))
    BY <1>1, <1>5, <2>3
  <2>5. AllPeriods[k] = [period |-> ReadablePeriods[k],
                         groups |-> Ascending(Positions(RawPeriods[ReadablePeriods[k]], "valid"))]
    BY <1>8 DEF AllPeriods
  <2>. QED
    BY <2>2, <2>3, <2>4, <2>5
<1>11. sanitized_periods = AllPeriods
  <2>1. sanitized_periods = [k \in 1..n |-> sanitized_periods[k]]
    BY <1>5
  <2>2. AllPeriods = [k \in 1..n |-> AllPeriods[k]]
    BY <1>9 DEF AllPeriods
  <2>. QED
    BY <1>10, <2>1, <2>2
<1>. QED
  BY <1>11

-----------------------------------------------------------------------------
(* The answer of Cost Explorer: what a count of malformed rows tells. *)

\* No group that is looked at is invalid exactly when those that are copied
\* are the first ones, all of them or as many as there is room for.
LEMMA GroupsShown ==
    ASSUME NEW p \in Period, NEW room \in Nat
    PROVE  LET valid == Positions(p, "valid") \cap (1..room)
               groups == Ascending(valid)
           IN  Positions(p, "invalid") \cap (1..room) = {}
               <=> /\ \A j \in DOMAIN groups : groups[j] = j
                   /\ Len(groups) = Len(RawGroups(p)) \/ Len(groups) = room
<1>. DEFINE all == Len(RawGroups(p))
            valid == Positions(p, "valid") \cap (1..room)
            wrong == Positions(p, "invalid") \cap (1..room)
            groups == Ascending(valid)
            c == Cardinality(valid)
<1>1. RawGroups(p) \in Seq(Group) /\ all \in Nat /\ DOMAIN RawGroups(p) = 1..all
  BY PositionsAre
<1>2. /\ valid \in SUBSET (1..room) /\ valid \in SUBSET (1..all) /\ valid \in SUBSET Nat
      /\ wrong \in SUBSET (1..room) /\ wrong \in SUBSET (1..all)
      /\ valid \cap wrong = {}
      /\ \A j \in 1..all : j <= room => j \in valid \/ j \in wrong
  <2>1. \A j \in 1..all : RawGroups(p)[j] \in Group
    BY <1>1
  <2>. QED
    BY <1>1, <2>1 DEF Positions, Group
<1>3. IsFiniteSet(valid)
  BY <1>2, IntervalCount, FS_Subset
<1>4. /\ DOMAIN groups = 1..c /\ c \in Nat /\ Len(groups) = c
      /\ \A k \in 1..c : groups[k] \in valid /\ Rank(valid, groups[k]) = k - 1
  BY <1>2, <1>3, AscendingIs
<1>5. c <= all /\ c <= room
  BY <1>1, <1>2, IntervalCount, FS_Subset
<1>. HIDE DEF all, valid, wrong, groups, c
<1>6. ASSUME wrong = {}
      PROVE  (\A j \in 1..c : groups[j] = j) /\ (c = all \/ c = room)
  <2>. DEFINE least == IF all <= room THEN all ELSE room
  <2>1. least \in Nat /\ valid = 1..least
    <3>1. least \in Nat /\ least <= all /\ least <= room
          /\ \A j \in Nat : j <= all /\ j <= room => j <= least
      BY <1>1
    <3>2. \A j \in valid : j \in Nat /\ j # 0 /\ j <= all /\ j <= room
      BY <1>1, <1>2
    <3>. HIDE DEF least
    <3>3. \A j \in 1..least : j \in 1..all /\ j <= room
      BY <1>1, <3>1
    <3>4. \A j \in 1..least : j \in valid
      BY <1>2, <1>6, <3>3
    <3>5. \A j \in valid : j \in 1..least
      BY <3>1, <3>2
    <3>. QED
      BY <3>1, <3>4, <3>5
  <2>. HIDE DEF least
  <2>2. c = least
    BY <2>1, IntervalCount DEF c
  <2>3. \A j \in 1..c : groups[j] = j
    <3>1. SUFFICES ASSUME NEW j \in 1..c PROVE groups[j] = j
      OBVIOUS
    <3>2. j \in valid /\ groups[j] \in valid /\ Rank(valid, groups[j]) = j - 1
      BY <1>4, <2>1, <2>2
    <3>3. Rank(valid, j) = j - 1
      <4>1. j - 1 \in Nat /\ j \in Nat /\ j <= least
        BY <1>4, <2>2
      <4>2. \A i \in 1..least : i < j <=> i \in 1..(j - 1)
        BY <2>1, <4>1
      <4>3. 1..(j - 1) \in SUBSET (1..least)
        BY <2>1, <4>1
      <4>4. {i \in valid : i < j} = 1..(j - 1)
        BY <2>1, <4>2, <4>3
      <4>. QED
        BY <4>1, <4>4, IntervalCount DEF Rank
    <3>4. valid \in SUBSET Nat /\ Rank(valid, groups[j]) = Rank(valid, j)
      BY <1>2, <3>2, <3>3
    <3>. QED
      BY <1>3, <3>2, <3>4, RankTells
  <2>. QED
    BY <2>2, <2>3 DEF least
<1>7. ASSUME \A j \in 1..c : groups[j] = j, c = all \/ c = room
      PROVE  wrong = {}
  <2>1. SUFFICES ASSUME NEW j \in wrong PROVE FALSE
    OBVIOUS
  <2>2. j \in 1..c
    BY <1>1, <1>2, <1>7
  <2>3. j \in valid
    BY <1>4, <1>7, <2>2
  <2>. QED
    BY <1>2, <2>3
<1>8. wrong = {} <=> (\A j \in DOMAIN groups : groups[j] = j)
                     /\ (Len(groups) = all \/ Len(groups) = room)
  BY <1>4, <1>6, <1>7
<1>. QED
  BY <1>8 DEF all, valid, wrong, groups

LEMMA CopiedFew ==
    ASSUME CostInv
    PROVE  /\ sanitized_periods \in Seq([period : Nat, groups : Seq(Nat)])
           /\ Len(sanitized_periods) \in Nat
           /\ DOMAIN sanitized_periods = 1..Len(sanitized_periods)
           /\ next \in Nat \ {0} /\ Len(sanitized_periods) <= next - 1
           /\ next <= MAX_COST_PERIODS + 1 /\ MAX_COST_PERIODS \in Nat
           /\ RawPeriods \in Seq(Period) /\ Len(RawPeriods) \in Nat
           /\ group_count \in 0..MAX_COST_GROUPS /\ MAX_COST_GROUPS \in Nat \ {0}
           /\ malformed_count \in Nat
<1>1. next \in Nat \ {0} /\ RawPeriods \in Seq(Period)
  BY ResponseAssumption DEF CostInv, CostTypeOK, RawPeriods
<1>2. Len(sanitized_periods) <= next - 1
  BY <1>1, DatedIs DEF CostInv, CopiedInv
<1>. QED
  BY <1>1, <1>2, ResponseAssumption DEF CostInv, CostTypeOK

LEMMA SoundStarts ==
    ASSUME CostInit
    PROVE  SoundInv
<1>1. /\ RawPeriods = <<>> /\ next = 1 /\ sanitized_periods = <<>> /\ cost_pc = "asking"
      /\ group_count = 0 /\ malformed_count = 0
  BY DEF CostInit, NoResponse, RawPeriods
<1>. QED
  BY <1>1, ResponseAssumption DEF SoundInv, FullInv, MalformedInv

LEMMA ShownSame ==
    ASSUME UNCHANGED <<response, sanitized_periods, group_count>>,
           NEW k \in DOMAIN sanitized_periods
    PROVE  ShownWhole(sanitized_periods, k)' <=> ShownWhole(sanitized_periods, k)
BY DEF ShownWhole, RawPeriods, RawGroups

LEMMA EndSound ==
    ASSUME CostInv, SoundInv, QueryFails \/ Finish \/ UNCHANGED costVars
    PROVE  SoundInv'
<1>1. /\ UNCHANGED <<response, next, sanitized_periods, group_count, malformed_count>>
      /\ RawPeriods' = RawPeriods
      /\ \/ cost_pc = "asking" /\ cost_pc' = "failed"
         \/ cost_pc = "reading" /\ cost_pc' = "done" /\ ~ToRead
         \/ cost_pc' = cost_pc
  BY DEF QueryFails, Finish, costVars, resultVars, RawPeriods
<1>2. FullInv'
  <2>1. ASSUME cost_pc = "reading", ~ToRead
        PROVE  next - 1 \in {Len(RawPeriods), MAX_COST_PERIODS}
    <3>1. /\ next \in Nat /\ Len(RawPeriods) \in Nat /\ MAX_COST_PERIODS \in Nat
          /\ next <= MAX_COST_PERIODS + 1
      BY CopiedFew
    <3>2. next <= Len(RawPeriods) + 1
      BY DEF SoundInv, FullInv
    <3>3. ~(next <= Len(RawPeriods)) \/ ~(next <= MAX_COST_PERIODS)
      BY <2>1 DEF ToRead
    <3>4. next - 1 = Len(RawPeriods) \/ next - 1 = MAX_COST_PERIODS
      BY <3>1, <3>2, <3>3
    <3>. QED
      BY <3>4
  <2>. QED
    BY <1>1, <2>1 DEF SoundInv, FullInv
<1>3. MalformedInv'
  BY <1>1, ShownSame DEF SoundInv, MalformedInv
<1>. QED
  BY <1>2, <1>3 DEF SoundInv

LEMMA ReceiveSound ==
    ASSUME CostInv, Receive
    PROVE  SoundInv'
<1>1. /\ cost_pc' = "reading" /\ next' = 1 /\ sanitized_periods' = <<>>
      /\ group_count' = 0 /\ malformed_count' = 0 /\ RawPeriods' \in Seq(Period)
  BY ResponseAssumption DEF Receive, CostInv, UnreadInv, RawPeriods
<1>. QED
  BY <1>1, ResponseAssumption DEF SoundInv, FullInv, MalformedInv

\* While a period is left to read, the result is not full.
LEMMA RoomLeft ==
    ASSUME CostInv, SoundInv, cost_pc = "reading", ToRead
    PROVE  group_count # MAX_COST_GROUPS /\ next <= Len(RawPeriods)
BY CopiedFew DEF SoundInv, FullInv, ToRead

LEMMA OmitSound ==
    ASSUME CostInv, SoundInv, OmitPeriod
    PROVE  SoundInv'
<1>1. /\ cost_pc = "reading" /\ ToRead /\ cost_pc' = "reading"
      /\ malformed_count' = malformed_count + 1 /\ next' = next + 1
      /\ UNCHANGED <<response, sanitized_periods, group_count>> /\ RawPeriods' = RawPeriods
  BY DEF OmitPeriod, RawPeriods
<1>2. group_count # MAX_COST_GROUPS /\ next <= Len(RawPeriods)
  BY <1>1, RoomLeft
<1>3. Len(sanitized_periods) # next /\ malformed_count + 1 # 0
      /\ next + 1 <= Len(RawPeriods) + 1 /\ (next + 1) - 1 = next
  BY <1>2, CopiedFew
<1>. QED
  BY <1>1, <1>2, <1>3 DEF SoundInv, FullInv, MalformedInv

LEMMA CopySound ==
    ASSUME CostInv, SoundInv, CopyPeriod
    PROVE  SoundInv'
<1>. DEFINE p == RawPeriods[next]
            copied == Ascending(Positions(p, "valid") \cap Taken)
            copy == [period |-> next, groups |-> copied]
<1>0. PICK n \in Nat : n = Len(sanitized_periods)
  BY CopiedFew
<1>1. /\ p \in Period /\ Len(copied) \in Nat
      /\ sanitized_periods' = Append(sanitized_periods, copy)
      /\ copy \in [period : Nat, groups : Seq(Nat)]
      /\ group_count' = group_count + Len(copied)
      /\ MalformedIn(p) \in Nat
      /\ malformed_count' = malformed_count + MalformedIn(p)
      /\ next' = next + 1 /\ RawPeriods' = RawPeriods
  BY CopiedIs
<1>2. /\ sanitized_periods \in Seq([period : Nat, groups : Seq(Nat)])
      /\ DOMAIN sanitized_periods = 1..n
      /\ next \in Nat \ {0} /\ n <= next - 1 /\ Len(RawPeriods) \in Nat
      /\ group_count \in 0..MAX_COST_GROUPS /\ MAX_COST_GROUPS \in Nat \ {0}
      /\ malformed_count \in Nat
  BY <1>0, CopiedFew
<1>3. group_count # MAX_COST_GROUPS /\ next <= Len(RawPeriods)
  BY RoomLeft DEF CopyPeriod
<1>4. /\ cost_pc' = "done" => group_count' >= MAX_COST_GROUPS
      /\ cost_pc' = "reading" =>
            ~(group_count' >= MAX_COST_GROUPS /\ Len(RawPeriods) > Len(sanitized_periods'))
  BY DEF CopyPeriod
<1>5. group_count' \in 0..MAX_COST_GROUPS
  BY CopyTypes DEF CostTypeOK
<1>6. /\ Remaining \in Nat
      /\ group_count' = MAX_COST_GROUPS <=> Len(copied) = Remaining
  BY <1>1, <1>2 DEF Remaining
<1>7. /\ MalformedIn(p) = 0 <=>
            /\ p.total # "invalid" /\ p.groups # NotAList
            /\ Positions(p, "invalid") \cap Taken = {}
      /\ Positions(p, "invalid") \cap Taken = {} <=>
            /\ \A j \in DOMAIN copied : copied[j] = j
            /\ Len(copied) = Len(RawGroups(p)) \/ Len(copied) = Remaining
  BY <1>1, <1>2, <1>6, MalformedTells, GroupsShown DEF Taken
<1>8. copy.period = next /\ copy.groups = copied
  OBVIOUS
<1>. HIDE DEF copied, copy
<1>9. /\ Len(sanitized_periods') = n + 1
      /\ DOMAIN sanitized_periods' = 1..(n + 1)
      /\ \A k \in 1..n : sanitized_periods'[k] = sanitized_periods[k]
      /\ sanitized_periods'[n + 1] = copy
      /\ sanitized_periods' # <<>>
  <2>2. /\ Len(sanitized_periods') = n + 1
        /\ DOMAIN sanitized_periods' = 1..(n + 1)
        /\ \A k \in 1..n : sanitized_periods'[k] = sanitized_periods[k]
        /\ sanitized_periods'[n + 1] = copy
    BY <1>0, <1>1, <1>2, AppendProperties
  <2>3. n + 1 # 0
    OBVIOUS
  <2>. QED
    BY <2>2, <2>3
<1>10. FullInv'
  <2>1. cost_pc' = "reading" /\ group_count' = MAX_COST_GROUPS => Len(RawPeriods) < next + 1
    BY <1>2, <1>4, <1>9
  <2>2. cost_pc' = "done" => group_count' = MAX_COST_GROUPS
    BY <1>2, <1>4, <1>5
  <2>3. sanitized_periods'[Len(sanitized_periods')].period = next' - 1
    BY <1>1, <1>2, <1>8, <1>9
  <2>4. next' <= Len(RawPeriods) + 1
    BY <1>1, <1>2, <1>3
  <2>. QED
    BY <1>1, <1>9, <2>1, <2>2, <2>3, <2>4 DEF FullInv
<1>11. ASSUME NEW k \in 1..n
       PROVE  ShownWhole(sanitized_periods, k)' <=> ShownWhole(sanitized_periods, k)
  <2>1. sanitized_periods'[k] = sanitized_periods[k] /\ k # n + 1
    BY <1>2, <1>9
  <2>. QED
    BY <1>1, <1>3, <1>9, <2>1 DEF ShownWhole, RawGroups
<1>12. n + 1 = next => (ShownWhole(sanitized_periods, n + 1)' <=> MalformedIn(p) = 0)
  <2>1. SUFFICES ASSUME n + 1 = next
                 PROVE  ShownWhole(sanitized_periods, n + 1)' <=> MalformedIn(p) = 0
    OBVIOUS
  <2>2. /\ RawPeriods'[n + 1] = p
        /\ sanitized_periods'[n + 1].period = n + 1 /\ sanitized_periods'[n + 1].groups = copied
        /\ Len(sanitized_periods') = n + 1
    BY <1>1, <1>8, <1>9, <2>1
  <2>. HIDE DEF p
  <2>3. ShownWhole(sanitized_periods, n + 1)' <=>
           /\ p.total # "invalid" /\ p.groups # NotAList
           /\ \A j \in DOMAIN copied : copied[j] = j
           /\ Len(copied) = Len(RawGroups(p)) \/ group_count' = MAX_COST_GROUPS
    BY <2>2 DEF ShownWhole, RawGroups
  <2>. QED
    BY <1>6, <1>7, <2>3
<1>13. MalformedInv'
  <2>1. malformed_count' = 0 <=> malformed_count = 0 /\ MalformedIn(p) = 0
    BY <1>1, <1>2
  <2>2. Len(sanitized_periods') = next' - 1 <=> n = next - 1
    BY <1>1, <1>2, <1>9
  <2>3. malformed_count = 0 <=>
           n = next - 1 /\ \A k \in 1..n : ShownWhole(sanitized_periods, k)
    BY <1>0, <1>2 DEF SoundInv, MalformedInv
  <2>4. (n = next - 1) => n + 1 = next
    BY <1>2
  <2>5. (\A k \in DOMAIN sanitized_periods' : ShownWhole(sanitized_periods, k)')
        <=> /\ \A k \in 1..n : ShownWhole(sanitized_periods, k)'
            /\ ShownWhole(sanitized_periods, n + 1)'
    <3>1. \A k : k \in 1..(n + 1) <=> k \in 1..n \/ k = n + 1
      OBVIOUS
    <3>. QED
      BY <1>9, <3>1
  <2>. QED
    BY <1>11, <1>12, <2>1, <2>2, <2>3, <2>4, <2>5 DEF MalformedInv
<1>. QED
  BY <1>10, <1>13 DEF SoundInv

LEMMA SoundKeeps ==
    ASSUME CostInv, SoundInv, CostNext
    PROVE  SoundInv'
BY EndSound, ReceiveSound, OmitSound, CopySound DEF CostNext

\* Nothing of an answer was counted as malformed exactly when the result is
\* the start of it.
LEMMA CostTells ==
    ASSUME CostInv, SoundInv, cost_pc = "done"
    PROVE  malformed_count = 0 <=> StartOfAnswer(sanitized_periods)
<1>. DEFINE n == Len(sanitized_periods)
            shown == \A k \in DOMAIN sanitized_periods : ShownWhole(sanitized_periods, k)
            full == group_count = MAX_COST_GROUPS
<1>1. malformed_count = 0 <=> n = next - 1 /\ shown
  BY DEF SoundInv, MalformedInv
<1>2. StartOfAnswer(sanitized_periods) <=>
         shown /\ (n \in {Len(RawPeriods), MAX_COST_PERIODS} \/ full)
  BY DEF StartOfAnswer
<1>3. /\ n \in Nat /\ n <= next - 1 /\ next \in Nat \ {0} /\ Len(RawPeriods) \in Nat
      /\ next <= MAX_COST_PERIODS + 1 /\ MAX_COST_PERIODS \in Nat
      /\ next <= Len(RawPeriods) + 1
      /\ next - 1 \in {Len(RawPeriods), MAX_COST_PERIODS} \/ full
  BY CopiedFew DEF SoundInv, FullInv
<1>4. full /\ shown => n = next - 1
  <2>1. SUFFICES ASSUME full, shown PROVE n = next - 1
    OBVIOUS
  <2>2. sanitized_periods # <<>> /\ sanitized_periods[n].period = next - 1
    BY <2>1 DEF SoundInv, FullInv
  <2>3. n \in DOMAIN sanitized_periods
    BY <2>2, CopiedFew, EmptySeq
  <2>4. sanitized_periods[n].period = n
    BY <2>1, <2>3 DEF ShownWhole
  <2>. QED
    BY <2>2, <2>4
<1>. HIDE DEF n, shown, full
<1>5. n \in {Len(RawPeriods), MAX_COST_PERIODS} => n = next - 1
  BY <1>3
<1>. QED
  BY <1>1, <1>2, <1>3, <1>4, <1>5

-----------------------------------------------------------------------------
(* The listings. *)

LEMMA AnswerIs ==
    ASSUME NEW answer \in Answer
    PROVE  /\ answer.items \in Seq(Sanitized) /\ answer.more \in BOOLEAN
           /\ answer # Unavailable
           /\ DOMAIN answer.items = 1..Len(answer.items) /\ Len(answer.items) \in Nat
BY AnswerAssumption

LEMMA ListedAre ==
    ASSUME NEW answer \in Answer
    PROVE  /\ Listed(answer) \in Seq(Nat) /\ Len(Listed(answer)) \in Nat
           /\ Len(Listed(answer)) <= Limit
           /\ Len(answer.items) <= Limit => Listed(answer) = Readable(answer)
           /\ Len(Listed(answer)) = AsManyAsAsked(answer) <=>
                 \A i \in DOMAIN answer.items : i <= Limit => answer.items[i] = "valid"
<1>. DEFINE kept == {i \in DOMAIN answer.items : i <= Limit /\ answer.items[i] = "valid"}
            valid == {i \in DOMAIN answer.items : answer.items[i] = "valid"}
<1>1. DOMAIN answer.items = 1..Len(answer.items) /\ Len(answer.items) \in Nat /\ answer # Unavailable
  BY AnswerIs
<1>2. Limit \in Nat
  BY AnswerAssumption
<1>3. Listed(answer) = Ascending(kept)
  BY <1>1 DEF Listed
<1>4. kept \in SUBSET (1..Limit) /\ kept \in SUBSET Nat
  BY <1>1, <1>2
<1>5. IsFiniteSet(1..Limit) /\ Cardinality(1..Limit) = Limit
  BY <1>2, IntervalCount
<1>6. IsFiniteSet(kept) /\ Cardinality(kept) <= Limit
  BY <1>4, <1>5, FS_Subset
<1>7. Ascending(kept) \in Seq(Nat) /\ Len(Ascending(kept)) = Cardinality(kept)
      /\ Cardinality(kept) \in Nat
  BY <1>4, <1>6, AscendingIs
<1>8. ASSUME Len(answer.items) <= Limit
      PROVE  kept = valid
  <2>1. \A i \in DOMAIN answer.items : i <= Limit
    BY <1>1, <1>2, <1>8
  <2>. QED
    BY <2>1
<1>9. Readable(answer) = Ascending(valid)
  BY <1>1 DEF Readable
<1>10. Cardinality(kept) = AsManyAsAsked(answer) <=>
          \A i \in DOMAIN answer.items : i <= Limit => answer.items[i] = "valid"
  <2>. DEFINE m == AsManyAsAsked(answer)
              all == {i \in DOMAIN answer.items : i <= Limit}
  <2>1. m \in Nat /\ all = 1..m
    <3>1. m \in Nat /\ m <= Len(answer.items) /\ m <= Limit
          /\ \A i \in Nat : i <= Len(answer.items) /\ i <= Limit => i <= m
      BY <1>1, <1>2 DEF AsManyAsAsked
    <3>. HIDE DEF m
    <3>2. \A i \in 1..m : i \in 1..Len(answer.items) /\ i <= Limit
      BY <1>1, <1>2, <3>1
    <3>3. \A i \in 1..Len(answer.items) : i <= Limit => i \in 1..m
      BY <1>1, <1>2, <3>1
    <3>. QED
      BY <1>1, <3>1, <3>2, <3>3
  <2>2. IsFiniteSet(all) /\ Cardinality(all) = m
    BY <2>1, IntervalCount
  <2>3. kept \in SUBSET all
    OBVIOUS
  <2>4. Cardinality(kept) = m <=> kept = all
    BY <2>2, <2>3, FS_Subset
  <2>5. kept = all <=> \A i \in DOMAIN answer.items : i <= Limit => answer.items[i] = "valid"
    OBVIOUS
  <2>. QED
    BY <2>4, <2>5
<1>. HIDE DEF kept, valid
<1>. QED
  BY <1>3, <1>6, <1>7, <1>8, <1>9, <1>10

LEMMA UnavailableIsEmpty ==
    Listed(Unavailable) = <<>> /\ Readable(Unavailable) = <<>>
BY DEF Listed, Readable

-----------------------------------------------------------------------------
(* What the adapters return. *)

\* What AWS answered with is told by variables that a step may leave alone.
LEMMA SameAnswers ==
    ASSUME UNCHANGED <<projectVars, costVars, tool, listingVars>>
    PROVE  /\ Everything' = Everything /\ RequestsFailed' = RequestsFailed
           /\ WithinLimit' <=> WithinLimit
           /\ UNCHANGED <<project_pc, complete, resources, sdk_requests, asked, cost_pc, group_count,
                          tool, answers, sent>>
<1>1. /\ UNCHANGED <<project_pc, complete, resources, sdk_requests, asked, offered, ended>>
      /\ UNCHANGED <<cost_pc, response, group_count>>
      /\ UNCHANGED <<tool, answers, sent>>
  BY DEF projectVars, stackVars, pageVars, sentVars, costVars, resultVars, listingVars
<1>2. AllPeriods' = AllPeriods
  BY <1>1 DEF AllPeriods, ReadablePeriods, RawPeriods
<1>3. Everything' = Everything /\ RequestsFailed' = RequestsFailed
  BY <1>1, <1>2 DEF Everything, RequestsFailed
<1>4. WithinLimit' <=> WithinLimit
  BY <1>1 DEF WithinLimit
<1>. QED
  BY <1>1, <1>3, <1>4

\* And so is what was wrong with it.
LEMMA SameWrong ==
    ASSUME UNCHANGED <<projectVars, costVars, tool, listingVars>>, ListingInv, NEW data
    PROVE  NothingWrong(data)' <=> NothingWrong(data)
<1>1. /\ UNCHANGED <<offered, ended, cost_pc, response, group_count, tool, answers>>
  BY DEF projectVars, stackVars, pageVars, sentVars, costVars, resultVars, listingVars
<1>2. Answered' <=> Answered
  BY <1>1 DEF Answered
<1>3. StartOfAnswer(data)' <=> StartOfAnswer(data)
  BY <1>1 DEF StartOfAnswer, ShownWhole, RawPeriods, RawGroups
<1>4. CASE tool = "inventory"
  BY <1>1, <1>2, <1>4 DEF NothingWrong
<1>5. CASE tool = "search"
  BY <1>1, <1>2, <1>5 DEF NothingWrong
<1>6. CASE tool = "project"
  BY <1>1, <1>6 DEF NothingWrong
<1>7. CASE tool = "cost"
  BY <1>1, <1>3, <1>7 DEF NothingWrong
<1>. QED
  BY <1>4, <1>5, <1>6, <1>7 DEF ListingInv

\* What an adapter may return, of the tool that was called.
Returnable(status, issues, marked, data, count, requests) ==
    /\ status \in {"ok", "partial", "error"} /\ issues \in BOOLEAN /\ marked \in BOOLEAN
    /\ Len(data) \in Nat /\ Len(data) <= MaxResources + 2 * Limit + MAX_COST_PERIODS
    /\ count \in Nat /\ requests \in Nat
    /\ tool = "project" => project_pc = "done"
    /\ tool = "cost" => cost_pc \in {"done", "failed"}
    /\ ~marked => IF tool = "project" THEN complete
                  ELSE (tool = "inventory" /\ ~WithinLimit) \/ data = Everything
    /\ issues <=> status # "ok"
    /\ status = "ok" <=> NothingWrong(data)
    /\ status = "error" =>
          /\ data = <<>>
          /\ IF tool = "project" THEN resources = <<>> ELSE marked \/ Everything = <<>>
    /\ sent <= requests /\ requests <= sent + RequestsFailed
    /\ tool = "inventory" => requests <= 2
    /\ tool \in {"search", "cost"} => requests <= 1
    /\ count = CASE tool = "project" -> Len(resources)
                 [] tool = "cost" -> group_count
                 [] OTHER -> Len(data)

LEMMA NothingRead ==
    ASSUME ReadInv, UNCHANGED <<projectVars, costVars>>
    PROVE  ReadInv'
BY ProjectSame, MissingSame, EndKeeps, EndSound DEF ReadInv

LEMMA ListingSame ==
    ASSUME ListingInv, UNCHANGED <<projectVars, costVars, tool, listingVars>>
    PROVE  ListingInv'
<1>1. UNCHANGED <<tool, answers, sent, sdk_requests, cost_pc>>
  BY DEF projectVars, sentVars, costVars, listingVars
<1>. QED
  BY <1>1 DEF ListingInv, SentInv, LostAnswers

\* What it returns has the properties of the result.
LEMMA AdaptKeeps ==
    ASSUME Inv,
           NEW t, NEW status, NEW issues, NEW marked, NEW data, NEW count, NEW requests,
           Adapt(t, status, issues, marked, data, count, requests),
           Returnable(status, issues, marked, data, count, requests)
    PROVE  Inv'
<1>1. /\ tool = t /\ adapted = None /\ result = None /\ result' = result
      /\ adapted' = [status |-> status, issues |-> issues, marked |-> marked, data |-> data,
                     sdk_requests |-> requests, resources |-> count]
      /\ UNCHANGED <<projectVars, costVars, tool, listingVars>>
  BY DEF Adapt
<1>2. /\ adapted'.status = status /\ adapted'.issues = issues /\ adapted'.marked = marked
      /\ adapted'.data = data /\ adapted'.sdk_requests = requests /\ adapted'.resources = count
  BY <1>1
<1>3. /\ Everything' = Everything /\ RequestsFailed' = RequestsFailed
      /\ (WithinLimit' <=> WithinLimit)
      /\ UNCHANGED <<project_pc, complete, resources, sdk_requests, cost_pc, group_count,
                     tool, answers, sent>>
  BY <1>1, SameAnswers
<1>4. NothingWrong(data)' <=> NothingWrong(data)
  BY <1>1, SameWrong DEF Inv
<1>5. ReadInv'
  BY <1>1, NothingRead DEF Inv
<1>6. ListingInv'
  BY <1>1, ListingSame DEF Inv
<1>7. AdaptedType'
  BY <1>1, <1>2 DEF Returnable, AdaptedType
<1>8. AdaptedSettled'
  BY <1>1, <1>3 DEF Returnable, AdaptedSettled
<1>9. AdaptedOmitsNothing'
  BY <1>1, <1>2, <1>3 DEF Returnable, AdaptedOmitsNothing
<1>10. AdaptedTells'
  BY <1>1, <1>2, <1>4 DEF Returnable, AdaptedTells
<1>11. AdaptedError'
  BY <1>1, <1>2, <1>3 DEF Returnable, AdaptedError
<1>12. AdaptedCounts'
  BY <1>1, <1>2, <1>3 DEF Returnable, AdaptedCounts
<1>13. ResultInv'
  BY <1>1 DEF ResultInv
<1>. QED
  BY <1>5, <1>6, <1>7, <1>8, <1>9, <1>10, <1>11, <1>12, <1>13 DEF Inv, AdaptedInv

LEMMA ProjectEndsKeeps ==
    ASSUME Inv, ProjectEnds
    PROVE  Inv'
<1>. DEFINE fine == complete /\ issue_codes = {}
            status == StatusOf(fine, resources)
            issues == issue_codes # {}
            marked == ~complete
<1>1. project_pc = "done"
      /\ Adapt("project", status, issues, marked, resources, Len(resources), sdk_requests)
  BY DEF ProjectEnds
<1>2. ProjectInv /\ MissingInv /\ ListingInv /\ tool = "project"
  BY <1>1 DEF Inv, ReadInv, Adapt
<1>3. /\ resources \in Seq(Stack \X LogicalId) /\ Len(resources) \in Nat /\ sdk_requests \in Nat
      /\ complete \in BOOLEAN /\ Len(resources) <= MaxResources
  BY <1>2 DEF ProjectInv, ProjectTypeOK, ListedOnce
<1>4. Len(resources) <= MaxResources + 2 * Limit + MAX_COST_PERIODS
  BY <1>3, InventoryAssumption, AnswerAssumption, ResponseAssumption
<1>5. CompleteMeansAll /\ (complete <=> issue_codes = {})
  BY <1>1, <1>2, ProjectDone
<1>6. status \in {"ok", "partial", "error"} /\ (status = "ok" <=> fine)
  BY DEF StatusOf
<1>7. status = "error" => resources = <<>>
  BY DEF StatusOf
<1>8. NothingWrong(resources) <=> complete
  BY <1>1, <1>2, ProjectTells DEF NothingWrong
<1>9. sent <= sdk_requests /\ sdk_requests <= sent + RequestsFailed
  <2>1. sent = sdk_requests
    BY <1>2 DEF ListingInv, SentInv
  <2>2. RequestsFailed = 0
    BY <1>2 DEF RequestsFailed
  <2>. QED
    BY <1>3, <2>1, <2>2
<1>10. /\ issues \in BOOLEAN /\ marked \in BOOLEAN
       /\ issues <=> status # "ok"
       /\ ~marked => complete
       /\ status = "ok" <=> NothingWrong(resources)
  BY <1>5, <1>6, <1>8
<1>. HIDE DEF status, issues, marked
<1>11. Returnable(status, issues, marked, resources, Len(resources), sdk_requests)
  BY <1>1, <1>2, <1>3, <1>4, <1>6, <1>7, <1>9, <1>10 DEF Returnable
<1>. QED
  BY <1>1, <1>11, AdaptKeeps

LEMMA CostEndsKeeps ==
    ASSUME Inv, CostEnds
    PROVE  Inv'
<1>1. CostInv /\ SoundInv /\ ListingInv /\ tool = "cost"
  BY DEF Inv, ReadInv, CostEnds, Adapt
<1>2. /\ cost_pc = "done" => sent = 1 /\ RequestsFailed = 0
      /\ cost_pc = "failed" => sent \in 0..1 /\ RequestsFailed = 1
  BY <1>1 DEF ListingInv, SentInv, RequestsFailed
<1>3. /\ sanitized_periods \in Seq([period : Nat, groups : Seq(Nat)])
      /\ Len(sanitized_periods) \in Nat /\ Len(sanitized_periods) <= MAX_COST_PERIODS
      /\ group_count \in Nat /\ malformed_count \in Nat /\ clipped \in BOOLEAN
  BY <1>1, ResponseAssumption DEF CostInv, CostTypeOK
<1>4. CASE cost_pc = "done"
  <2>. DEFINE fine == malformed_count = 0
              status == StatusOf(fine, sanitized_periods)
              issues == malformed_count # 0
  <2>1. Adapt("cost", status, issues, clipped, sanitized_periods, group_count, 1)
    BY <1>4 DEF CostEnds
  <2>2. Len(sanitized_periods) <= MaxResources + 2 * Limit + MAX_COST_PERIODS
    BY <1>3, InventoryAssumption, AnswerAssumption, ResponseAssumption
  <2>3. status \in {"ok", "partial", "error"} /\ (status = "ok" <=> fine)
    BY DEF StatusOf
  <2>4. status = "error" => sanitized_periods = <<>>
    BY DEF StatusOf
  <2>5. ~clipped => sanitized_periods = Everything
    BY <1>1, <1>4, CostWhole DEF Everything
  <2>6. fine <=> NothingWrong(sanitized_periods)
    BY <1>1, <1>4, CostTells DEF NothingWrong
  <2>7. issues \in BOOLEAN /\ (issues <=> status # "ok")
    BY <2>3
  <2>8. 1 \in Nat /\ sent <= 1 /\ 1 <= sent + RequestsFailed
    BY <1>2, <1>4
  <2>9. status = "ok" <=> NothingWrong(sanitized_periods)
    BY <2>3, <2>6
  <2>10. status = "error" => clipped \/ Everything = <<>>
    BY <1>3, <2>4, <2>5
  <2>. HIDE DEF status, issues
  <2>11. Returnable(status, issues, clipped, sanitized_periods, group_count, 1)
    BY <1>1, <1>3, <1>4, <2>2, <2>3, <2>4, <2>5, <2>7, <2>8, <2>9, <2>10 DEF Returnable
  <2>. QED
    BY <2>1, <2>11, AdaptKeeps
<1>5. CASE cost_pc = "failed"
  <2>1. Adapt("cost", "error", TRUE, FALSE, <<>>, 0, 1)
    BY <1>5 DEF CostEnds
  <2>2. group_count = 0
    BY <1>1, <1>5 DEF CostInv, UnreadInv
  <2>3. Everything = <<>> /\ ~NothingWrong(<<>>)
    BY <1>1, <1>5 DEF Everything, NothingWrong
  <2>4. Len(<<>>) = 0 /\ 0 <= MaxResources + 2 * Limit + MAX_COST_PERIODS
    BY InventoryAssumption, AnswerAssumption, ResponseAssumption
  <2>5. sent <= 1 /\ 1 <= sent + RequestsFailed /\ 0 \in Nat /\ 1 \in Nat
    BY <1>2, <1>5
  <2>6. Returnable("error", TRUE, FALSE, <<>>, 0, 1)
    BY <1>1, <1>5, <2>2, <2>3, <2>4, <2>5 DEF Returnable
  <2>. QED
    BY <2>1, <2>6, AdaptKeeps
<1>. QED
  BY <1>4, <1>5 DEF CostEnds

LEMMA InventoryEndsKeeps ==
    ASSUME Inv, InventoryEnds
    PROVE  Inv'
<1>. DEFINE first == answers[1]
            second == answers[2]
            lost == {i \in 1..2 : answers[i] = Unavailable}
            failed == Cardinality(lost)
            status == CASE failed = 0 -> "ok" [] failed = 1 -> "partial" [] OTHER -> "error"
            issues == failed > 0
            marked == \E i \in 1..2 : answers[i] # Unavailable /\ answers[i].more
            data == Listed(first) \o Listed(second)
            count == Len(Listed(first)) + Len(Listed(second))
<1>1. Len(answers) = 2 /\ Adapt("inventory", status, issues, marked, data, count, 2)
  BY DEF InventoryEnds
<1>2. /\ tool = "inventory" /\ answers \in Seq(Answer \cup {Unavailable})
      /\ sent \in Nat /\ sent <= 2 /\ 2 <= sent + Cardinality(LostAnswers)
      /\ DOMAIN answers = 1..2
  BY <1>1 DEF Adapt, Inv, ListingInv, SentInv
<1>3. first \in Answer \cup {Unavailable} /\ second \in Answer \cup {Unavailable}
  <2>1. 1 \in 1..2 /\ 2 \in 1..2
    OBVIOUS
  <2>. QED
    BY <1>1, <1>2, <2>1, ElementOfSeq
<1>4. Limit \in Nat
  BY AnswerAssumption
<1>5. ASSUME NEW answer \in Answer \cup {Unavailable}
      PROVE  /\ Listed(answer) \in Seq(Nat) /\ Len(Listed(answer)) \in Nat
             /\ Len(Listed(answer)) <= Limit
             /\ (answer = Unavailable \/ Len(answer.items) <= Limit) => Listed(answer) = Readable(answer)
  <2>1. CASE answer = Unavailable
    BY <1>4, <2>1, UnavailableIsEmpty
  <2>2. CASE answer \in Answer
    BY <2>2, ListedAre, AnswerIs
  <2>. QED
    BY <2>1, <2>2
<1>6. data \in Seq(Nat) /\ Len(data) = count /\ count \in Nat /\ count <= 2 * Limit
  <2>1. /\ Listed(first) \in Seq(Nat) /\ Len(Listed(first)) \in Nat /\ Len(Listed(first)) <= Limit
        /\ Listed(second) \in Seq(Nat) /\ Len(Listed(second)) \in Nat /\ Len(Listed(second)) <= Limit
    BY <1>3, <1>5
  <2>2. Len(data) = count
    BY <2>1
  <2>. QED
    BY <1>4, <2>1, <2>2
<1>7. WithinLimit => data = Everything
  <2>1. SUFFICES ASSUME WithinLimit PROVE data = Everything
    OBVIOUS
  <2>2. /\ first = Unavailable \/ Len(first.items) <= Limit
        /\ second = Unavailable \/ Len(second.items) <= Limit
    BY <1>2, <2>1 DEF WithinLimit
  <2>3. Listed(first) = Readable(first) /\ Listed(second) = Readable(second)
    BY <1>3, <1>5, <2>2
  <2>4. Everything = Readable(first) \o Readable(second)
    BY <1>2 DEF Everything
  <2>. QED
    BY <2>3, <2>4
<1>8. /\ failed \in Nat
      /\ failed = 0 <=> first # Unavailable /\ second # Unavailable
      /\ failed # 0 /\ failed # 1 => first = Unavailable /\ second = Unavailable
  <2>1. lost \in SUBSET {1, 2} /\ (1 \in lost <=> first = Unavailable)
        /\ (2 \in lost <=> second = Unavailable)
    OBVIOUS
  <2>. HIDE DEF lost
  <2>2. IsFiniteSet({1}) /\ Cardinality({1}) = 1 /\ IsFiniteSet({2}) /\ Cardinality({2}) = 1
    BY FS_Singleton
  <2>3. IsFiniteSet({1, 2})
    <3>1. IsFiniteSet({1} \cup {2})
      BY <2>2, FS_AddElement
    <3>2. {1} \cup {2} = {1, 2}
      OBVIOUS
    <3>. QED
      BY <3>1, <3>2
  <2>4. IsFiniteSet(lost)
    BY <2>1, <2>3, FS_Subset
  <2>5. failed \in Nat /\ (failed = 0 <=> lost = {})
    BY <2>4, FS_CardinalityType, FS_EmptySet
  <2>6. lost = {} \/ lost = {1} \/ lost = {2} \/ (1 \in lost /\ 2 \in lost)
    BY <2>1
  <2>7. failed # 0 /\ failed # 1 => 1 \in lost /\ 2 \in lost
    BY <2>2, <2>5, <2>6
  <2>8. failed = 0 <=> 1 \notin lost /\ 2 \notin lost
    BY <2>1, <2>5
  <2>. QED
    BY <2>1, <2>5, <2>7, <2>8
<1>9. /\ status \in {"ok", "partial", "error"} /\ (status = "ok" <=> failed = 0)
      /\ status = "error" => failed # 0 /\ failed # 1
  <2>. HIDE DEF failed
  <2>1. CASE failed = 0
    BY <2>1
  <2>2. CASE failed = 1
    BY <2>2
  <2>3. CASE failed # 0 /\ failed # 1
    BY <2>3
  <2>. QED
    BY <2>1, <2>2, <2>3
<1>10. NothingWrong(data) <=> failed = 0
  <2>1. NothingWrong(data) <=> Answered
    BY <1>2 DEF NothingWrong
  <2>2. Answered <=> first # Unavailable /\ second # Unavailable
    BY <1>2 DEF Answered
  <2>. QED
    BY <1>8, <2>1, <2>2
<1>11. issues \in BOOLEAN /\ (issues <=> status # "ok") /\ marked \in BOOLEAN
  <2>1. issues <=> failed # 0
    BY <1>8
  <2>. HIDE DEF failed
  <2>. QED
    BY <1>9, <2>1
<1>12. status = "error" => data = <<>> /\ Everything = <<>>
  <2>1. SUFFICES ASSUME status = "error" PROVE data = <<>> /\ Everything = <<>>
    OBVIOUS
  <2>2. first = Unavailable /\ second = Unavailable
    BY <1>8, <1>9, <2>1
  <2>3. Listed(first) = <<>> /\ Listed(second) = <<>> /\ Readable(first) = <<>> /\ Readable(second) = <<>>
    BY <2>2, UnavailableIsEmpty
  <2>4. Everything = Readable(first) \o Readable(second)
    BY <1>2 DEF Everything
  <2>. QED
    BY <2>3, <2>4
<1>13. Len(data) <= MaxResources + 2 * Limit + MAX_COST_PERIODS /\ Len(data) \in Nat
  BY <1>4, <1>6, InventoryAssumption, ResponseAssumption
<1>. HIDE DEF first, second, lost, failed, status, issues, marked, data, count
<1>14. /\ sent <= 2 /\ 2 <= sent + RequestsFailed /\ 2 \in Nat
       /\ status = "ok" <=> NothingWrong(data)
  <2>1. RequestsFailed = Cardinality(LostAnswers)
    BY <1>2 DEF RequestsFailed, LostAnswers
  <2>. QED
    BY <1>2, <1>9, <1>10, <2>1
<1>15. Returnable(status, issues, marked, data, count, 2)
  BY <1>2, <1>6, <1>7, <1>9, <1>11, <1>12, <1>13, <1>14 DEF Returnable
<1>. QED
  BY <1>1, <1>15, AdaptKeeps

LEMMA SearchEndsKeeps ==
    ASSUME Inv, SearchEnds
    PROVE  Inv'
<1>. DEFINE answer == answers[1]
            data == Listed(answer)
            fine == \A i \in DOMAIN answer.items : i <= Limit => answer.items[i] = "valid"
            status == StatusOf(fine, data)
            issues == ~fine
            marked == SearchTruncated(answer)
<1>1. /\ answers # <<>> /\ answer # Unavailable
      /\ Adapt("search", status, issues, marked, data, Len(data), 1)
  BY DEF SearchEnds
<1>2. /\ tool = "search" /\ answers \in Seq(Answer \cup {Unavailable})
      /\ sent \in Nat /\ sent <= 1 /\ 1 <= sent + RequestsFailed
      /\ Len(answers) = 1 /\ DOMAIN answers = 1..1
  <2>1. /\ tool = "search" /\ answers \in Seq(Answer \cup {Unavailable})
        /\ Len(answers) <= 1 /\ sent \in Nat /\ sent <= Len(answers)
        /\ Len(answers) <= sent + RequestsFailed
    BY <1>1 DEF Adapt, Inv, ListingInv, SentInv, RequestsFailed, LostAnswers
  <2>2. Len(answers) # 0 /\ Len(answers) \in Nat
    BY <1>1, <2>1, EmptySeq
  <2>3. Len(answers) <= 1
    BY <2>1
  <2>4. \A n \in Nat : n <= 1 /\ n # 0 => n = 1
    OBVIOUS
  <2>5. Len(answers) = 1
    BY <2>2, <2>3, <2>4
  <2>6. DOMAIN answers = 1..1
    BY <2>1, <2>5
  <2>. QED
    BY <2>1, <2>5, <2>6
<1>3. answer \in Answer
  <2>1. 1 \in 1..1
    OBVIOUS
  <2>. QED
    BY <1>1, <1>2, <2>1, ElementOfSeq
<1>4. /\ data \in Seq(Nat) /\ Len(data) \in Nat /\ Len(data) <= Limit /\ Limit \in Nat
      /\ Len(answer.items) <= Limit => data = Readable(answer)
  BY <1>3, ListedAre, AnswerAssumption
<1>5. /\ answer.items \in Seq(Sanitized) /\ answer.more \in BOOLEAN
      /\ DOMAIN answer.items = 1..Len(answer.items) /\ Len(answer.items) \in Nat
  BY <1>3, AnswerIs
<1>6. Everything = Readable(answer)
  BY <1>1, <1>2 DEF Everything
<1>7. ~marked => Len(answer.items) <= Limit
  BY <1>4, <1>5 DEF SearchTruncated
<1>8. ~marked => data = Everything
  BY <1>4, <1>6, <1>7
<1>9. fine <=> NothingWrong(data)
  <2>1. fine <=> Len(data) = AsManyAsAsked(answer)
    BY <1>3, ListedAre
  <2>2. NothingWrong(data) <=> answers # <<>> /\ Answered /\ Len(data) = AsManyAsAsked(answer)
    BY <1>2 DEF NothingWrong
  <2>3. Answered
    BY <1>1, <1>2 DEF Answered
  <2>. HIDE DEF fine, data, answer
  <2>. QED
    BY <1>1, <2>1, <2>2, <2>3
<1>10. status \in {"ok", "partial", "error"} /\ (status = "ok" <=> fine)
       /\ (status = "error" => data = <<>>)
  BY DEF StatusOf
<1>11. issues \in BOOLEAN /\ (issues <=> status # "ok") /\ marked \in BOOLEAN
  BY <1>5, <1>10 DEF SearchTruncated
<1>12. Len(data) <= MaxResources + 2 * Limit + MAX_COST_PERIODS
  BY <1>4, InventoryAssumption, ResponseAssumption
<1>13. status = "ok" <=> NothingWrong(data)
  BY <1>9, <1>10
<1>. HIDE DEF answer, fine, status, issues, marked, data
<1>14. sent <= 1 /\ 1 <= sent + RequestsFailed /\ 1 \in Nat
  BY <1>2
<1>15. Returnable(status, issues, marked, data, Len(data), 1)
  BY <1>2, <1>4, <1>8, <1>10, <1>11, <1>12, <1>13, <1>14 DEF Returnable
<1>. QED
  BY <1>1, <1>15, AdaptKeeps

LEMMA SearchFailsKeeps ==
    ASSUME Inv, SearchFails
    PROVE  Inv'
<1>1. PICK requests \in {0, 1} :
         /\ Adapt("search", "error", TRUE, FALSE, <<>>, 0, requests)
         /\ \/ requests = 0 /\ answers = <<>>
            \/ requests = 1 /\ answers = <<Unavailable>>
  BY DEF SearchFails
<1>2. /\ tool = "search" /\ sent \in Nat /\ sent <= Len(answers)
      /\ Len(answers) <= sent + RequestsFailed
  BY <1>1 DEF Adapt, Inv, ListingInv, SentInv, RequestsFailed, LostAnswers
<1>3. /\ Everything = <<>> /\ ~NothingWrong(<<>>)
      /\ sent <= requests /\ requests <= sent + RequestsFailed
  <2>1. CASE answers = <<>> /\ requests = 0
    <3>1. Len(answers) = 0
      BY <2>1
    <3>2. Everything = <<>> /\ ~NothingWrong(<<>>)
      BY <1>2, <2>1 DEF Everything, NothingWrong
    <3>. QED
      BY <1>2, <2>1, <3>1, <3>2
  <2>2. CASE answers = <<Unavailable>> /\ requests = 1
    <3>1. answers # <<>> /\ answers[1] = Unavailable /\ Len(answers) = 1 /\ 1 \in DOMAIN answers
      BY <2>2
    <3>2. Everything = <<>>
      BY <1>2, <3>1, UnavailableIsEmpty DEF Everything
    <3>3. ~NothingWrong(<<>>)
      BY <1>2, <3>1 DEF NothingWrong, Answered
    <3>. QED
      BY <1>2, <2>2, <3>1, <3>2, <3>3
  <2>. QED
    BY <1>1, <2>1, <2>2
<1>4. Len(<<>>) = 0 /\ 0 <= MaxResources + 2 * Limit + MAX_COST_PERIODS
  BY InventoryAssumption, AnswerAssumption, ResponseAssumption
<1>5. requests \in {0, 1} /\ requests \in Nat /\ requests <= 1 /\ 0 \in Nat
  BY <1>1
<1>6. Returnable("error", TRUE, FALSE, <<>>, 0, requests)
  BY <1>2, <1>3, <1>4, <1>5 DEF Returnable
<1>. QED
  BY <1>1, <1>6, AdaptKeeps

-----------------------------------------------------------------------------
(* The other steps, and the theorems. *)

\* Nothing has been returned, and nothing is returned.
LEMMA NothingReturned ==
    ASSUME adapted' = None, result' = None
    PROVE  AdaptedInv' /\ ResultInv'
BY DEF AdaptedInv, AdaptedType, AdaptedSettled, AdaptedOmitsNothing, AdaptedTells,
       AdaptedError, AdaptedCounts, ResultInv

LEMMA Starts ==
    ASSUME Init
    PROVE  Inv
<1>1. ReadInv
  BY ProjectStarts, MissingStarts, CostStarts, SoundStarts DEF Init, ReadInv
<1>2. ListingInv
  <2>1. /\ tool \in {"inventory", "search", "project", "cost"} /\ answers = <<>> /\ sent = 0
    BY DEF Init
  <2>2. answers \in Seq(Answer \cup {Unavailable}) /\ Len(answers) = 0
    BY <2>1
  <2>3. Cardinality(LostAnswers) = 0
    <3>1. LostAnswers = {}
      BY <2>1 DEF LostAnswers
    <3>. QED
      BY <3>1, FS_EmptySet
  <2>4. sdk_requests = 0 /\ cost_pc = "asking"
    BY DEF Init, ProjectInit, CostInit
  <2>. QED
    BY <2>1, <2>2, <2>3, <2>4 DEF ListingInv, SentInv
<1>3. AdaptedInv /\ ResultInv
  BY DEF Init, AdaptedInv, AdaptedType, AdaptedSettled, AdaptedOmitsNothing, AdaptedTells,
         AdaptedError, AdaptedCounts, ResultInv
<1>. QED
  BY <1>1, <1>2, <1>3 DEF Inv

\* The inventory counts the requests that it makes.
LEMMA RequestsMade ==
    ASSUME ProjectTypeOK, ProjectNext
    PROVE  sdk_requests' = IF MayAsk THEN sdk_requests + 1 ELSE sdk_requests
<1>1. CASE RequestFails \/ ReceivePage
  BY <1>1 DEF RequestFails, ReceivePage, SendRequest
<1>2. CASE PageLimit
  <2>1. pages \in Nat /\ MaxPages \in Nat
    BY InventoryAssumption DEF ProjectTypeOK
  <2>2. ~MayAsk
    BY <1>2, <2>1 DEF PageLimit, MayAsk
  <2>. QED
    BY <1>2, <2>2 DEF PageLimit, sentVars
<1>3. CASE ~(RequestFails \/ ReceivePage \/ PageLimit)
  BY <1>3 DEF ProjectNext, ClientFails, ClientCreated, OmitMalformed, OmitDuplicate, Omit, Keep,
              StopAtLimit, ResultFull, LastPage, BadToken, FollowToken, MayAsk, AtEnd, sentVars
<1>. QED
  BY <1>1, <1>2, <1>3

\* An adapter that has returned reads no more, and neither does one that was
\* not called.
LEMMA ReadKeeps ==
    ASSUME Inv, ProjectStep \/ CostStep
    PROVE  Inv'
<1>1. CASE ProjectStep
  <2>1. /\ tool = "project" /\ ProjectNext /\ sent' = IF MayAsk THEN sent + 1 ELSE sent
        /\ UNCHANGED <<costVars, tool, answers, adapted, result>>
    BY <1>1 DEF ProjectStep
  <2>2. project_pc # "done"
    BY <2>1 DEF ProjectNext, ClientFails, ClientCreated, PageLimit, RequestFails, ReceivePage,
                OmitMalformed, OmitDuplicate, Keep, StopAtLimit, ResultFull, LastPage, BadToken,
                FollowToken, SendRequest, MayAsk, AtEnd
  <2>3. adapted = None
    BY <2>1, <2>2 DEF Inv, AdaptedInv, AdaptedSettled
  <2>4. result = None
    BY <2>1, <2>3 DEF Inv, ResultInv
  <2>5. AdaptedInv' /\ ResultInv'
    BY <2>1, <2>3, <2>4, NothingReturned
  <2>6. ListingInv'
    <3>1. sdk_requests' = IF MayAsk THEN sdk_requests + 1 ELSE sdk_requests
      BY <2>1, RequestsMade DEF Inv, ReadInv, ProjectInv
    <3>2. sent = sdk_requests /\ sent \in Nat
      BY <2>1 DEF Inv, ListingInv, SentInv
    <3>3. sent' = sdk_requests' /\ sent' \in Nat
      BY <2>1, <3>1, <3>2
    <3>. QED
      BY <2>1, <3>3 DEF Inv, ListingInv, SentInv
  <2>7. ReadInv'
    BY <2>1, ProjectKeeps, MissingKeeps, EndKeeps, EndSound DEF Inv, ReadInv
  <2>. QED
    BY <2>5, <2>6, <2>7 DEF Inv
<1>2. CASE CostStep
  <2>1. /\ tool = "cost" /\ CostNext
        /\ \/ cost_pc = "asking" /\ sent' = sent + 1
           \/ (cost_pc = "asking" => cost_pc' = "failed") /\ sent' = sent
        /\ UNCHANGED <<projectVars, tool, answers, adapted, result>>
    BY <1>2 DEF CostStep
  <2>2. cost_pc \notin {"done", "failed"}
    BY <2>1 DEF CostNext, QueryFails, Receive, OmitPeriod, CopyPeriod, Finish
  <2>3. adapted = None
    BY <2>1, <2>2 DEF Inv, AdaptedInv, AdaptedSettled
  <2>4. result = None
    BY <2>1, <2>3 DEF Inv, ResultInv
  <2>5. AdaptedInv' /\ ResultInv'
    BY <2>1, <2>3, <2>4, NothingReturned
  <2>6. ListingInv'
    <3>1. \/ cost_pc = "asking" /\ cost_pc' \in {"reading", "failed"}
          \/ cost_pc = "reading" /\ cost_pc' \in {"reading", "done"}
      BY <2>1 DEF CostNext, QueryFails, Receive, OmitPeriod, CopyPeriod, Finish
    <3>2. /\ cost_pc = "asking" => sent = 0
          /\ cost_pc = "reading" => sent = 1
      BY <2>1 DEF Inv, ListingInv, SentInv
    <3>3. /\ sent' \in 0..1 /\ sent' \in Nat
          /\ cost_pc' # "asking"
          /\ cost_pc' \in {"reading", "done"} => sent' = 1
      BY <2>1, <3>1, <3>2
    <3>. QED
      BY <2>1, <3>3 DEF Inv, ListingInv, SentInv
  <2>7. ReadInv'
    BY <2>1, CostKeeps, SoundKeeps, ProjectSame, MissingSame DEF Inv, ReadInv
  <2>. QED
    BY <2>5, <2>6, <2>7 DEF Inv
<1>. QED
  BY <1>1, <1>2

LEMMA AskKeeps ==
    ASSUME Inv, NEW t \in {"inventory", "search"}, NEW n \in 0..1,
           NEW answer \in Answer \cup {Unavailable}, answer = Unavailable \/ n = 1,
           Ask(t, n, answer)
    PROVE  Inv'
<1>1. /\ tool = t /\ adapted = None /\ result = None /\ Len(answers) < ServicesOf(t)
      /\ answers' = Append(answers, answer) /\ sent' = sent + n
      /\ UNCHANGED <<projectVars, costVars, tool, adapted, result>>
  BY DEF Ask, Asking
<1>2. /\ answers \in Seq(Answer \cup {Unavailable}) /\ sent \in Nat
      /\ sent <= Len(answers) /\ Len(answers) <= sent + Cardinality(LostAnswers)
      /\ Len(answers) \in Nat /\ DOMAIN answers = 1..Len(answers)
  BY <1>1 DEF Inv, ListingInv, SentInv
<1>3. /\ answers' \in Seq(Answer \cup {Unavailable}) /\ Len(answers') = Len(answers) + 1
      /\ DOMAIN answers' = 1..(Len(answers) + 1)
      /\ \A i \in 1..Len(answers) : answers'[i] = answers[i]
      /\ answers'[Len(answers) + 1] = answer
  BY <1>1, <1>2, AppendProperties
<1>4. ListingInv'
  <2>. DEFINE last == Len(answers) + 1
  <2>1. IsFiniteSet(LostAnswers) /\ Cardinality(LostAnswers) \in Nat
    <3>1. LostAnswers \in SUBSET (1..Len(answers))
      BY <1>2 DEF LostAnswers
    <3>. QED
      BY <1>2, <3>1, IntervalCount, FS_Subset, FS_CardinalityType
  <2>2. LostAnswers' = IF answer = Unavailable THEN LostAnswers \cup {last} ELSE LostAnswers
    <3>1. /\ \A i : i \in DOMAIN answers' <=> i \in DOMAIN answers \/ i = last
          /\ last \notin DOMAIN answers
      BY <1>2, <1>3
    <3>2. \A i \in DOMAIN answers : answers'[i] = answers[i]
      BY <1>2, <1>3
    <3>3. answers'[last] = answer
      BY <1>3
    <3>. HIDE DEF last
    <3>. QED
      BY <3>1, <3>2, <3>3 DEF LostAnswers
  <2>3. last \notin LostAnswers
    BY <1>2 DEF LostAnswers
  <2>4. Cardinality(LostAnswers') =
           IF answer = Unavailable THEN Cardinality(LostAnswers) + 1 ELSE Cardinality(LostAnswers)
    BY <2>1, <2>2, <2>3, FS_AddElement
  <2>5. SentInv'
    <3>1. answer = Unavailable \/ n = 1
      OBVIOUS
    <3>2. sent' \in Nat /\ sent' <= Len(answers')
      BY <1>1, <1>2, <1>3
    <3>3. Len(answers') <= sent' + Cardinality(LostAnswers')
      BY <1>1, <1>2, <1>3, <2>1, <2>4, <3>1
    <3>. QED
      BY <1>1, <3>2, <3>3 DEF SentInv
  <2>6. Len(answers') <= 2 /\ (t = "search" => Len(answers') <= 1)
    BY <1>1, <1>2, <1>3 DEF ServicesOf
  <2>. QED
    BY <1>1, <1>3, <2>5, <2>6 DEF Inv, ListingInv
<1>5. ReadInv'
  BY <1>1, NothingRead DEF Inv
<1>6. AdaptedInv' /\ ResultInv'
  BY <1>1, NothingReturned
<1>. QED
  BY <1>4, <1>5, <1>6 DEF Inv

LEMMA ListingKeeps ==
    ASSUME Inv, ListingFails \/ ListingAnswered
    PROVE  Inv'
<1>1. CASE ListingFails
  BY <1>1, AskKeeps DEF ListingFails
<1>2. CASE ListingAnswered
  <2>1. 1 \in 0..1
    OBVIOUS
  <2>. QED
    BY <1>2, <2>1, AskKeeps DEF ListingAnswered
<1>. QED
  BY <1>1, <1>2

\* What an adapter returned does not change.
LEMMA AdaptedSame ==
    ASSUME Inv, UNCHANGED <<projectVars, costVars, tool, listingVars, adapted>>
    PROVE  ReadInv' /\ ListingInv' /\ AdaptedInv'
<1>1. /\ Everything' = Everything /\ (WithinLimit' <=> WithinLimit)
      /\ RequestsFailed' = RequestsFailed
      /\ UNCHANGED <<project_pc, complete, resources, sdk_requests, cost_pc, group_count,
                     tool, answers, sent>>
  BY SameAnswers
<1>2. ReadInv'
  BY NothingRead DEF Inv
<1>3. ListingInv'
  BY ListingSame DEF Inv
<1>4. AdaptedType' /\ AdaptedSettled' /\ AdaptedOmitsNothing'
  BY <1>1 DEF Inv, AdaptedInv, AdaptedType, AdaptedSettled, AdaptedOmitsNothing
<1>5. AdaptedTells'
  <2>1. PICK data : data = adapted.data
    OBVIOUS
  <2>2. NothingWrong(data)' <=> NothingWrong(data)
    BY SameWrong DEF Inv
  <2>. QED
    BY <2>1, <2>2 DEF Inv, AdaptedInv, AdaptedTells
<1>6. AdaptedError'
  BY <1>1 DEF Inv, AdaptedInv, AdaptedError
<1>7. AdaptedCounts'
  BY <1>1 DEF Inv, AdaptedInv, AdaptedCounts
<1>. QED
  BY <1>2, <1>3, <1>4, <1>5, <1>6, <1>7 DEF AdaptedInv

LEMMA RefusedKeeps ==
    ASSUME Inv, ArgumentsRefused
    PROVE  Inv'
<1>1. /\ tool = "search" /\ adapted = None /\ Len(answers) < 1 /\ result' = Refused
      /\ UNCHANGED <<projectVars, costVars, tool, listingVars, adapted>>
  BY DEF ArgumentsRefused, Asking, ServicesOf, Refused
<1>2. answers = <<>>
  <2>1. answers \in Seq(Answer \cup {Unavailable})
    BY DEF Inv, ListingInv
  <2>2. Len(answers) \in Nat
    BY <2>1
  <2>3. Len(answers) = 0
    BY <1>1, <2>2
  <2>. QED
    BY <2>1, <2>3, EmptySeq
<1>3. ReadInv' /\ ListingInv' /\ AdaptedInv'
  BY <1>1, AdaptedSame
<1>4. ResultInv'
  <2>1. adapted' = None /\ tool' = "search" /\ answers' = <<>>
    BY <1>1, <1>2 DEF listingVars
  <2>2. Refused' = Refused
    BY DEF Refused
  <2>. QED
    BY <1>1, <2>1, <2>2 DEF ResultInv
<1>. QED
  BY <1>3, <1>4 DEF Inv

LEMMA BoundedKeeps ==
    ASSUME Inv, BoundedResult
    PROVE  Inv'
<1>1. /\ adapted # None
      /\ \/ result' = ResultTooLarge
         \/ result' = [adapted EXCEPT !.issues = adapted.status # "ok" /\ adapted.issues]
      /\ UNCHANGED <<projectVars, costVars, tool, listingVars, adapted>>
  BY DEF BoundedResult
<1>2. ReadInv' /\ ListingInv' /\ AdaptedInv'
  BY <1>1, AdaptedSame
<1>3. ResultTooLarge' = ResultTooLarge
  BY <1>1 DEF ResultTooLarge
<1>4. ResultInv'
  BY <1>1, <1>3 DEF ResultInv
<1>. QED
  BY <1>2, <1>4 DEF Inv

LEMMA Same ==
    ASSUME Inv, UNCHANGED vars
    PROVE  Inv'
<1>1. UNCHANGED <<projectVars, costVars, tool, listingVars, adapted, result>>
  BY DEF vars
<1>2. ReadInv' /\ ListingInv' /\ AdaptedInv'
  BY <1>1, AdaptedSame
<1>3. ResultInv'
  <2>1. ResultTooLarge' = ResultTooLarge
    BY <1>1 DEF ResultTooLarge
  <2>2. answers' = answers /\ tool' = tool /\ adapted' = adapted /\ result' = result
    BY <1>1 DEF listingVars
  <2>3. Refused' = Refused
    BY DEF Refused
  <2>. QED
    BY <2>1, <2>2, <2>3 DEF Inv, ResultInv
<1>. QED
  BY <1>2, <1>3 DEF Inv

LEMMA Keeps ==
    ASSUME Inv, [Next]_vars
    PROVE  Inv'
BY ReadKeeps, ListingKeeps, RefusedKeeps, InventoryEndsKeeps, SearchEndsKeeps, SearchFailsKeeps,
   ProjectEndsKeeps, CostEndsKeeps, BoundedKeeps, Same DEF Next

LEMMA Invariance == Spec => []Inv
<1>1. Init => Inv
  BY Starts
<1>2. Inv /\ [Next]_vars => Inv'
  BY Keeps
<1>. QED
  BY <1>1, <1>2, PTL DEF Spec

\* What a result has of what the adapter returned.
LEMMA ResultIs ==
    ASSUME Inv, result # None
    PROVE  \/ /\ adapted # None
              /\ result.marked = adapted.marked
              /\ result.sdk_requests = adapted.sdk_requests
              /\ result.resources = adapted.resources
              /\ \/ /\ result.status = "error" /\ result.data = None /\ result.issues = TRUE
                 \/ /\ result.status = adapted.status /\ result.data = adapted.data
                    /\ result.issues = (adapted.status # "ok" /\ adapted.issues)
           \/ adapted = None /\ result = Refused /\ tool = "search" /\ answers = <<>>
<1>1. CASE adapted # None
  <2>1. adapted = [status |-> adapted.status, issues |-> adapted.issues,
                   marked |-> adapted.marked, data |-> adapted.data,
                   sdk_requests |-> adapted.sdk_requests, resources |-> adapted.resources]
    BY <1>1 DEF Inv, AdaptedInv, AdaptedType
  <2>2. CASE result = ResultTooLarge
    <3>1. result = [adapted EXCEPT !.status = "error", !.data = None, !.issues = TRUE]
      BY <2>2 DEF ResultTooLarge
    <3>2. result = [status |-> "error", issues |-> TRUE, marked |-> adapted.marked, data |-> None,
                    sdk_requests |-> adapted.sdk_requests, resources |-> adapted.resources]
      BY <2>1, <3>1
    <3>. QED
      BY <1>1, <3>2
  <2>3. CASE result = [adapted EXCEPT !.issues = adapted.status # "ok" /\ adapted.issues]
    <3>1. result = [status |-> adapted.status, issues |-> (adapted.status # "ok" /\ adapted.issues),
                    marked |-> adapted.marked, data |-> adapted.data,
                    sdk_requests |-> adapted.sdk_requests, resources |-> adapted.resources]
      BY <2>1, <2>3
    <3>. QED
      BY <1>1, <3>1
  <2>. QED
    BY <1>1, <2>2, <2>3 DEF Inv, ResultInv
<1>. QED
  BY <1>1 DEF Inv, ResultInv

LEMMA TypesHold ==
    ASSUME Inv
    PROVE  TypeOK
<1>1. ProjectTypeOK /\ CostTypeOK
  BY DEF Inv, ReadInv, ProjectInv, CostInv
<1>2. /\ tool \in {"inventory", "search", "project", "cost"}
      /\ answers \in Seq(Answer \cup {Unavailable}) /\ Len(answers) <= 2
      /\ sent \in Nat
  BY DEF Inv, ListingInv, SentInv
<1>3. ResultOK(adapted)
  BY DEF ResultOK, Inv, AdaptedInv, AdaptedType
<1>4. ResultOK(result)
  <2>1. SUFFICES ASSUME result # None PROVE ResultOK(result)
    BY DEF ResultOK
  <2>2. CASE adapted # None
    <3>1. /\ result.marked = adapted.marked
          /\ result.sdk_requests = adapted.sdk_requests
          /\ result.resources = adapted.resources
          /\ \/ /\ result.status = "error" /\ result.data = None /\ result.issues = TRUE
             \/ /\ result.status = adapted.status /\ result.data = adapted.data
                /\ result.issues = (adapted.status # "ok" /\ adapted.issues)
      BY <2>1, <2>2, ResultIs
    <3>2. /\ adapted.status \in {"ok", "partial", "error"} /\ adapted.marked \in BOOLEAN
          /\ Len(adapted.data) <= MaxResources + 2 * Limit + MAX_COST_PERIODS
          /\ adapted.sdk_requests \in Nat /\ adapted.resources \in Nat
      BY <2>2 DEF Inv, AdaptedInv, AdaptedType
    <3>3. result.issues \in BOOLEAN
      BY <3>1
    <3>. QED
      BY <3>1, <3>2, <3>3 DEF ResultOK
  <2>3. CASE result = Refused
    BY <2>3 DEF ResultOK, Refused
  <2>. QED
    BY <2>1, <2>2, <2>3, ResultIs
<1>. QED
  BY <1>1, <1>2, <1>3, <1>4 DEF TypeOK

(***************************************************************************)
(* The state of a reading tool has its type; the caps on periods, groups   *)
(* and resources are part of it.                                           *)
(***************************************************************************)
THEOREM TypeCorrect == Spec => []TypeOK
<1>1. Inv => TypeOK
  BY TypesHold
<1>. QED
  BY <1>1, Invariance, PTL

(***************************************************************************)
(* However many stacks, pages, periods and groups there are, whatever the  *)
(* caps, and whatever AWS answers: data that is not marked as truncated or *)
(* incomplete holds everything readable that AWS answered with, in order.  *)
(***************************************************************************)
THEOREM OmitsNothing == Spec => []UnmarkedOmitsNothing
<1>1. Inv => UnmarkedOmitsNothing
  <2>1. SUFFICES ASSUME Inv, result # None, result.data # None, ~result.marked
                 PROVE  IF tool = "project"
                          THEN complete /\ CompleteMeansAll /\ ListedOnce
                          ELSE (tool = "inventory" /\ ~WithinLimit) \/ result.data = Everything
    BY DEF UnmarkedOmitsNothing
  <2>2. result # Refused
    BY <2>1 DEF Refused
  <2>3. adapted # None /\ ~adapted.marked /\ result.data = adapted.data
    BY <2>1, <2>2, ResultIs
  <2>4. IF tool = "project" THEN complete
        ELSE (tool = "inventory" /\ ~WithinLimit) \/ adapted.data = Everything
    BY <2>1, <2>3 DEF Inv, AdaptedInv, AdaptedOmitsNothing
  <2>5. CompleteMeansAll /\ ListedOnce
    BY <2>1, ProjectDone DEF Inv, ReadInv, ProjectInv
  <2>. QED
    BY <2>3, <2>4, <2>5
<1>. QED
  BY <1>1, Invariance, PTL

(***************************************************************************)
(* A result, truncated, clipped or incomplete ones included, is "ok"       *)
(* exactly when what was asked for is shown but for what a cap left out,   *)
(* and says what was wrong exactly when it is not.                         *)
(***************************************************************************)
THEOREM TellsWhatWasWrong == Spec => []StatusTells
<1>1. Inv => StatusTells
  <2>1. SUFFICES ASSUME Inv, result # None
                 PROVE  /\ result.issues <=> result.status # "ok"
                        /\ result.data # None =>
                              (result.status = "ok" <=> NothingWrong(result.data))
    BY DEF StatusTells
  <2>2. CASE result = Refused
    BY <2>2 DEF Refused
  <2>3. CASE adapted # None /\ result.data = None /\ result.status = "error" /\ result.issues = TRUE
    BY <2>3
  <2>4. CASE /\ adapted # None /\ result.data = adapted.data
             /\ result.status = adapted.status
             /\ result.issues = (adapted.status # "ok" /\ adapted.issues)
    <3>1. /\ adapted.issues <=> adapted.status # "ok"
          /\ adapted.status = "ok" <=> NothingWrong(adapted.data)
      BY <2>1, <2>4 DEF Inv, AdaptedInv, AdaptedTells
    <3>. QED
      BY <2>4, <3>1
  <2>. QED
    BY <2>1, <2>2, <2>3, <2>4, ResultIs
<1>. QED
  BY <1>1, Invariance, PTL

(***************************************************************************)
(* An error, other than a result that is too large, means that there was   *)
(* nothing to show.                                                        *)
(***************************************************************************)
THEOREM ErrorShowsAll == Spec => []ErrorMeansNothingRead
<1>1. Inv => ErrorMeansNothingRead
  <2>1. SUFFICES ASSUME Inv, result # None, result.data # None, result.status = "error"
                 PROVE  /\ result.data = <<>>
                        /\ IF tool = "project" THEN resources = <<>>
                           ELSE result.marked \/ Everything = <<>>
    BY DEF ErrorMeansNothingRead
  <2>2. result # Refused
    BY <2>1 DEF Refused
  <2>3. /\ adapted # None /\ adapted.status = "error" /\ result.data = adapted.data
        /\ result.marked = adapted.marked
    BY <2>1, <2>2, ResultIs
  <2>4. /\ adapted.data = <<>>
        /\ IF tool = "project" THEN resources = <<>> ELSE adapted.marked \/ Everything = <<>>
    BY <2>1, <2>3 DEF Inv, AdaptedInv, AdaptedError
  <2>. QED
    BY <2>3, <2>4
<1>. QED
  BY <1>1, Invariance, PTL

(***************************************************************************)
(* However AWS answers, the requests that a tool reports are those that it *)
(* made, and one for each that failed before it was made; they stay within *)
(* the bound of the tool, no page is asked for twice, and the resources    *)
(* counted are those that were read.                                       *)
(***************************************************************************)
THEOREM CountsRequests == Spec => []RequestsCounted
<1>1. Inv => RequestsCounted
  <2>1. SUFFICES ASSUME Inv, result # None
                 PROVE  RequestsCounted
    BY DEF RequestsCounted
  <2>2. /\ tool \in {"inventory", "search", "project", "cost"}
        /\ tool = "project" => RequestsBounded /\ sent = Cardinality(asked)
    BY <2>1, ProjectDone DEF Inv, ReadInv, ListingInv, SentInv, RequestsBounded
  <2>3. CASE adapted = None /\ result = Refused /\ tool = "search" /\ answers = <<>>
    <3>1. sent = 0
      BY <2>1, <2>3 DEF Inv, ListingInv, SentInv
    <3>2. result.sdk_requests = 0 /\ result.resources = 0
      BY <2>3 DEF Refused
    <3>3. RequestsFailed = 0
      <4>1. {i \in DOMAIN answers : answers[i] = Unavailable} = {}
        BY <2>3
      <4>. QED
        BY <2>3, <4>1, FS_EmptySet DEF RequestsFailed
    <3>. QED
      BY <2>3, <3>1, <3>2, <3>3 DEF RequestsCounted
  <2>4. CASE /\ adapted # None /\ result.sdk_requests = adapted.sdk_requests
             /\ result.resources = adapted.resources
    <3>1. /\ sent <= adapted.sdk_requests /\ adapted.sdk_requests <= sent + RequestsFailed
          /\ tool = "inventory" => adapted.sdk_requests <= 2
          /\ tool \in {"search", "cost"} => adapted.sdk_requests <= 1
          /\ adapted.resources =
               CASE tool = "project" -> Len(resources)
                 [] tool = "cost" -> group_count
                 [] OTHER -> Len(adapted.data)
      BY <2>1, <2>4 DEF Inv, AdaptedInv, AdaptedCounts
    <3>. QED
      BY <2>2, <2>4, <3>1 DEF RequestsCounted
  <2>. QED
    BY <2>1, <2>3, <2>4, ResultIs
<1>. QED
  BY <1>1, Invariance, PTL
=============================================================================
