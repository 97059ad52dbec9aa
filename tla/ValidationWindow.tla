-------------------------- MODULE ValidationWindow --------------------------
(***************************************************************************)
(* The development window: the PowerShell scripts that open and close the  *)
(* API endpoint and the Lambda concurrency from an operator's machine, and *)
(* the AWS-side shutdown (a one-time schedule, a request alarm, the        *)
(* safety_shutdown function) that must close them when no script does.     *)
(*                                                                         *)
(* Scripts run concurrently, stall for any time and can be killed between  *)
(* any two AWS calls.  A call that fails was applied or was not.  A script *)
(* is the sequence of steps it has left; an error replaces what is left by *)
(* the catch or finally block of the script.  Time is in minutes: a due    *)
(* schedule fires, and a shutdown run ends, within the minute; a run that  *)
(* failed or was cut off is repeated later.                                *)
(***************************************************************************)
EXTENDS Naturals, Sequences, SequencesExt

CONSTANTS Opener,     \* runs of open-dev-window.ps1 by hand
          Inspector,  \* runs of validate-inspector-window.ps1
          Direct,     \* runs of validate-direct-lambda.ps1
          Closer,     \* runs of close-dev-window.ps1 by hand
          Window,     \* WindowMinutes
          Retries,    \* times AWS repeats a shutdown run that failed
          MaxFaults,  \* bound on the AWS calls that fail
          MaxTime     \* bound on the clock

Script == Opener \cup Inspector \cup Direct \cup Closer

\* A shutdown run is named by what invoked it: the schedule of a script, or
\* the request alarm.
Trigger == Script \cup {"alarm"}

Thing == {"api", "lambda", "alarm"}

ASSUME WindowAssumption ==
    /\ Window \in Nat \ {0} /\ MaxTime \in Nat /\ Retries \in Nat
    /\ MaxFaults \in Nat
    /\ "alarm" \notin Script
    /\ IsFiniteSet(Script)
    /\ Opener \cap (Inspector \cup Direct \cup Closer) = {}
    /\ Inspector \cap (Direct \cup Closer) = {} /\ Direct \cap Closer = {}

VARIABLES now,
          todo,       \* the steps each script has left
          closeAt,    \* the deadline each script computed
          schedule,   \* the schedule each script created
          up,         \* the endpoint, the concurrency, the alarm
          run,        \* the shutdown runs
          openSince,  \* when each thing was last turned on
          openedBy,   \* the script that last turned it on
          failed,     \* scripts that were killed or have an error to report
          faults,     \* AWS calls that have failed
          missed,     \* things that are on because a script's closing call or
                      \* the last try of a shutdown failed
          raced,      \* things turned on while nothing was left to close them
          delayed     \* things that are on because a shutdown that is to be
                      \* repeated did not close them

upVars == <<up, openSince, openedBy, missed, raced, delayed>>
vars == <<now, todo, failed, closeAt, schedule, upVars, run, faults>>

-----------------------------------------------------------------------------
(* The scripts. *)

Verb == {"precheck", "check", "read", "arm", "enable", "confirm", "call", "find",
         "close", "list", "delete"}
Target == Thing \cup Script
          \cup {"clock", "schedule", "schedules", "stack", "reads", "writes"}
Step == [do : Verb, what : Target]

Do(verb, what) == [do |-> verb, what |-> what]
Closing == <<Do("close", "api"), Do("close", "lambda"), Do("close", "alarm")>>

Preflight(verb) ==
    <<Do(verb, "api"), Do(verb, "lambda"), Do(verb, "alarm"), Do(verb, "schedules")>>

OpenScript ==
    Preflight("check") \o
    <<Do("read", "clock"), Do("arm", "schedule"), Do("arm", "alarm"),
      Do("enable", "lambda"), Do("enable", "api"),
      Do("confirm", "api"), Do("confirm", "lambda")>>

\* Mutated form: the schedule goes before what it would have closed.
CatchScheduleFirst(s) == <<Do("delete", s)>> \o Closing

Catch(s) == Closing \o <<Do("delete", s)>>

CloseScript == <<Do("find", "stack")>> \o Closing \o <<Do("list", "schedules")>>

\* Mutated form: the schedule goes first.
FinallyScheduleFirst(s) ==
    <<Do("delete", s), Do("close", "lambda"), Do("close", "api")>>

Finally(s) == <<Do("close", "lambda"), Do("close", "api"), Do("delete", s)>>

\* The MCP calls made while the window is open: the direct validation first
\* reads, and then makes the confirmed queries and writes it was asked for.
InspectorCalls == <<Do("call", "reads")>>
DirectReads == <<Do("call", "reads")>>
DirectWrites == <<Do("call", "writes")>>

DirectScript(s) ==
    <<Do("check", "api"), Do("read", "clock"), Do("arm", "schedule"),
      Do("enable", "lambda")>> \o DirectReads \o DirectWrites \o Finally(s)

Prechecks == Preflight("precheck")

Program(s) ==
    CASE s \in Opener    -> OpenScript
      [] s \in Inspector -> Prechecks \o OpenScript \o InspectorCalls \o CloseScript
      [] s \in Direct    -> DirectScript(s)
      [] s \in Closer    -> CloseScript

\* What runs after a step failed: the block that catches it, if there is one,
\* and the finally of the wrapper that called the opener.
OnError(s, step) ==
    (IF s \in Direct /\ step.do \in {"enable", "call"} THEN Finally(s)
     ELSE IF s \notin Direct /\ step.do \in {"enable", "confirm"} THEN Catch(s)
     ELSE <<>>)
    \o (IF s \in Inspector /\ step.do \notin {"precheck", "find"} THEN CloseScript ELSE <<>>)

\* The wrapper and the direct validation leave the concurrency unreserved.
Mode(s, x) ==
    IF x = "lambda" /\ s \in Inspector \cup Direct THEN "unreserved" ELSE "on"

TypeOK ==
    /\ now \in 0..MaxTime
    /\ todo \in [Script -> Seq(Step)]
    /\ closeAt \in [Script -> 0..MaxTime]
    /\ schedule \in [Script -> {"none", "pending", "gone"}]
    /\ up \in [Thing -> {"off", "on", "unreserved"}]
    /\ \A x \in Thing \ {"lambda"} : up[x] # "unreserved"
    /\ openSince \in [Thing -> 0..MaxTime]
    /\ openedBy \in [Thing -> SUBSET Script]
    /\ failed \subseteq Script
    /\ faults \in 0..MaxFaults
    /\ missed \subseteq Thing /\ raced \subseteq Thing /\ delayed \subseteq Thing
    /\ run \in [Trigger -> [todo : Seq(Step), failed : BOOLEAN, tries : 0..Retries]]
    /\ \A s \in Script : schedule[s] = "pending" => closeAt[s] > 0

NoRun == [todo |-> <<>>, failed |-> FALSE, tries |-> 0]

Init ==
    /\ now = 0
    /\ todo = [s \in Script |-> Program(s)]
    /\ closeAt = [s \in Script |-> 0]
    /\ schedule = [s \in Script |-> "none"]
    /\ up = [x \in Thing |-> "off"]
    /\ run = [t \in Trigger |-> NoRun]
    /\ openSince = [x \in Thing |-> 0]
    /\ openedBy = [x \in Thing |-> {}]
    /\ failed = {}
    /\ missed = {} /\ raced = {} /\ delayed = {} /\ faults = 0

-----------------------------------------------------------------------------
(* What a call does to the endpoint, the concurrency or the alarm. *)

Works == UNCHANGED faults
Fails == faults < MaxFaults /\ faults' = faults + 1

Pending == {s \in Script : schedule[s] = "pending"}
Left(steps, verb, what) == Contains(steps, Do(verb, what))
Unwatched(x) == x \in missed \cup raced

\* A script turns x on although its own schedule is gone, or while a script
\* that will remove its schedule has closed x already.
TooLate(s, x) ==
    \/ schedule[s] # "pending"
    \/ \E k \in Script : /\ Left(todo[k], "list", "schedules") \/ Left(todo[k], "delete", s)
                        /\ ~Left(todo[k], "close", x)

TurnOn(s, x) ==
    /\ up' = [up EXCEPT ![x] = Mode(s, x)]
    /\ openedBy' = [openedBy EXCEPT ![x] = {s}]
    /\ openSince' = IF \/ up[x] = "off" \/ Unwatched(x)
                       \/ x \in delayed /\ ~TooLate(s, x)
                    THEN [openSince EXCEPT ![x] = now] ELSE openSince
    /\ IF TooLate(s, x)
         THEN /\ raced' = IF up[x] = "off" THEN raced \cup {x} ELSE raced
              /\ UNCHANGED <<missed, delayed>>
         ELSE /\ raced' = raced \ {x}
              /\ missed' = missed \ {x}
              /\ delayed' = delayed \ {x}

SwitchedOff(x) ==
    /\ up' = [up EXCEPT ![x] = "off"]
    /\ openSince' = [openSince EXCEPT ![x] = 0]
    /\ openedBy' = [openedBy EXCEPT ![x] = {}]
    /\ missed' = missed \ {x}
    /\ raced' = raced \ {x}
    /\ delayed' = delayed \ {x}

TurnOff(x) == Works /\ SwitchedOff(x)

\* A call that reports a failure may still have been applied.
TurnOffFails(x) ==
    /\ Fails
    /\ \/ SwitchedOff(x)
       \/ /\ missed' = IF up[x] = "off" THEN missed ELSE missed \cup {x}
          /\ UNCHANGED <<up, openSince, openedBy, raced, delayed>>

-----------------------------------------------------------------------------
(* Steps of the scripts. *)

At(s, verbs) == todo[s] # <<>> /\ Head(todo[s]).do \in verbs
What(s) == Head(todo[s]).what
Go(s) == todo' = [todo EXCEPT ![s] = Tail(@)] /\ UNCHANGED failed
Report(s) == failed' = failed \cup {s}
GoReporting(s) == todo' = [todo EXCEPT ![s] = Tail(@)] /\ Report(s)
Abort(s) == todo' = [todo EXCEPT ![s] = OnError(s, Head(@))] /\ Report(s)

IsOff(x) == IF x = "schedules" THEN Pending = {} ELSE up[x] = "off"

Check(s) ==
    /\ At(s, {"precheck", "check"})
    /\ \/ IsOff(What(s)) /\ Works /\ Go(s)
       \/ ~IsOff(What(s)) /\ Works /\ Abort(s)
       \/ Fails /\ Abort(s)
    /\ UNCHANGED <<now, closeAt, schedule, upVars, run>>

\* Mutated form: the deadline is not counted from the clock that was read.
ReadClockAhead(s) ==
    /\ At(s, {"read"})
    /\ now + Window < MaxTime
    /\ closeAt' = [closeAt EXCEPT ![s] = now + Window + 1]
    /\ Go(s)
    /\ UNCHANGED <<now, schedule, upVars, run, faults>>

\* Mutated form: the schedule is created with no deadline.
ReadNoClock(s) ==
    /\ At(s, {"read"})
    /\ Go(s)
    /\ UNCHANGED <<now, closeAt, schedule, upVars, run, faults>>

\* MaxTime bounds the deadline.
ReadClock(s) ==
    /\ At(s, {"read"})
    /\ now + Window <= MaxTime
    /\ closeAt' = [closeAt EXCEPT ![s] = now + Window]
    /\ Go(s)
    /\ UNCHANGED <<now, schedule, upVars, run, faults>>

\* AWS may refuse a deadline that has passed.
CreateSchedule(s) ==
    /\ At(s, {"arm"}) /\ What(s) = "schedule"
    /\ \/ Works /\ Go(s) /\ schedule' = [schedule EXCEPT ![s] = "pending"]
       \/ closeAt[s] <= now /\ Works /\ Abort(s) /\ UNCHANGED schedule
       \/ /\ Fails /\ Abort(s)
          /\ \E outcome \in {"none", "pending"} :
                schedule' = [schedule EXCEPT ![s] = outcome]
    /\ UNCHANGED <<now, closeAt, upVars, run>>

\* put-metric-alarm, the concurrency and the endpoint.
Enable(s) ==
    /\ At(s, {"arm", "enable"}) /\ What(s) \in Thing
    /\ \/ Works /\ Go(s) /\ TurnOn(s, What(s))
       \/ Fails /\ Abort(s) /\ (TurnOn(s, What(s)) \/ UNCHANGED upVars)
    /\ UNCHANGED <<now, closeAt, schedule, run>>

\* The open state is read back.
Confirm(s) ==
    /\ At(s, {"confirm"})
    /\ \/ up[What(s)] = Mode(s, What(s)) /\ Works /\ Go(s)
       \/ up[What(s)] # Mode(s, What(s)) /\ Works /\ Abort(s)
       \/ Fails /\ Abort(s)
    /\ UNCHANGED <<now, closeAt, schedule, upVars, run>>

\* A validation calls the function itself, or through the endpoint.
Reachable(s) == up["lambda"] # "off" /\ (s \in Inspector => up["api"] # "off")

\* Any call may fail, or be answered with something else than expected.
Call(s) ==
    /\ At(s, {"call"})
    /\ \/ Reachable(s) /\ Go(s)
       \/ Abort(s)
    /\ UNCHANGED <<now, closeAt, schedule, upVars, run, faults>>

\* close-dev-window.ps1 looks its targets up first, and ends if it cannot.
Find(s) ==
    /\ At(s, {"find"})
    /\ \/ Works /\ Go(s)
       \/ Fails /\ Abort(s)
    /\ UNCHANGED <<now, closeAt, schedule, upVars, run>>

\* Mutated form: a closing call that fails is not reported.
CloseUnreported(s) ==
    /\ At(s, {"close"})
    /\ TurnOff(What(s)) \/ TurnOffFails(What(s))
    /\ Go(s)
    /\ UNCHANGED <<now, closeAt, schedule, run>>

\* A closing call that fails is reported and does not stop the ones after it.
Close(s) ==
    /\ At(s, {"close"})
    /\ \/ TurnOff(What(s)) /\ Go(s)
       \/ TurnOffFails(What(s)) /\ GoReporting(s)
    /\ UNCHANGED <<now, closeAt, schedule, run>>

\* close-dev-window.ps1 removes the schedules it finds, in the order AWS
\* lists them.
ListSchedules(s) ==
    /\ At(s, {"list"})
    /\ \/ \E listed \in SetToSeqs(Pending) :
             /\ todo' = [todo EXCEPT ![s] = [i \in DOMAIN listed |-> Do("delete", listed[i])]]
             /\ Works /\ UNCHANGED failed
       \/ Fails /\ GoReporting(s)
    /\ UNCHANGED <<now, closeAt, schedule, upVars, run>>

\* A schedule that has fired or was removed is not found; an error is reported
\* and does not stop the deletions after it.
DeleteSchedule(s) ==
    /\ At(s, {"delete"})
    /\ LET pending == What(s) \in Pending
           deleted == [schedule EXCEPT ![What(s)] = "gone"]
       IN  \/ pending /\ Works /\ schedule' = deleted /\ Go(s)
           \/ ~pending /\ Works /\ UNCHANGED schedule /\ GoReporting(s)
           \/ pending /\ Fails /\ schedule' \in {schedule, deleted} /\ GoReporting(s)
    /\ UNCHANGED <<now, closeAt, upVars, run>>

\* The process, or the machine it runs on, stops.
Kill(s) ==
    /\ todo[s] # <<>>
    /\ todo' = [todo EXCEPT ![s] = <<>>]
    /\ Report(s)
    /\ UNCHANGED <<now, closeAt, schedule, upVars, run, faults>>

-----------------------------------------------------------------------------
(* The AWS side. *)

Start(t) ==
    run' = [run EXCEPT ![t] = [todo |-> Closing, failed |-> FALSE, tries |-> Retries]]

\* The schedule deletes itself after it has invoked the shutdown function.
Fire(s) ==
    /\ schedule[s] = "pending" /\ closeAt[s] <= now
    /\ Start(s)
    /\ schedule' = [schedule EXCEPT ![s] = "gone"]
    /\ UNCHANGED <<now, todo, failed, closeAt, upVars, faults>>

\* The metric lags: the alarm may go off at any time while it exists.
AlarmFires ==
    /\ up["alarm"] = "on"
    /\ run["alarm"] = NoRun
    /\ Start("alarm")
    /\ UNCHANGED <<now, todo, failed, closeAt, schedule, upVars, faults>>

\* A run that is over and has nothing to repeat is forgotten.
Over(r) == IF r.todo = <<>> /\ (~r.failed \/ r.tries = 0) THEN NoRun ELSE r

\* The run did not close these things: the repeat is still to come, if there
\* is one left.
NotClosed(t, things) ==
    LET on == {x \in things : up[x] # "off"}
    IN  /\ IF run[t].tries > 0
             THEN delayed' = delayed \cup on /\ UNCHANGED missed
             ELSE missed' = missed \cup on /\ UNCHANGED delayed
        /\ UNCHANGED <<up, openSince, openedBy, raced>>

\* close_test_window: an action that fails does not stop the ones after it.
ShutdownStep(t) ==
    /\ run[t].todo # <<>>
    /\ LET x == Head(run[t].todo).what
       IN  \/ /\ TurnOff(x)
              /\ run' = [run EXCEPT ![t] = Over([run[t] EXCEPT !.todo = Tail(@)])]
           \/ /\ Fails
              /\ SwitchedOff(x) \/ NotClosed(t, {x})
              /\ run' = [run EXCEPT ![t] = Over([run[t] EXCEPT !.todo = Tail(@), !.failed = TRUE])]
    /\ UNCHANGED <<now, todo, failed, closeAt, schedule>>

\* The handler raises before its first action, or the function runs into its
\* timeout in one of them: what it had left is not tried.
CutOff(t) ==
    /\ run[t].todo # <<>>
    /\ Fails
    /\ NotClosed(t, {x \in Thing : Left(run[t].todo, "close", x)})
    /\ run' = [run EXCEPT ![t] = Over([run[t] EXCEPT !.todo = <<>>, !.failed = TRUE])]
    /\ UNCHANGED <<now, todo, failed, closeAt, schedule>>

\* A run that raised or was cut off is invoked again, later.
WillRetry(t) == run[t].failed /\ run[t].tries > 0

\* Mutated form: AWS gives up after the first failure.
RetryNever(t) ==
    /\ run[t].todo = <<>> /\ WillRetry(t)
    /\ run' = [run EXCEPT ![t] = NoRun]
    /\ UNCHANGED <<now, todo, failed, closeAt, schedule, upVars, faults>>

Retry(t) ==
    /\ run[t].todo = <<>> /\ WillRetry(t)
    /\ run' = [run EXCEPT ![t] = [todo |-> Closing, failed |-> FALSE, tries |-> @.tries - 1]]
    /\ UNCHANGED <<now, todo, failed, closeAt, schedule, upVars, faults>>

Tick ==
    /\ now < MaxTime
    /\ \A s \in Pending : now < closeAt[s]
    /\ \A t \in Trigger : run[t].todo = <<>>
    /\ now' = now + 1
    /\ UNCHANGED <<todo, failed, closeAt, schedule, upVars, run, faults>>

-----------------------------------------------------------------------------
ScriptStep(s) ==
    \/ Check(s) \/ ReadClock(s) \/ CreateSchedule(s) \/ Enable(s) \/ Confirm(s)
    \/ Call(s) \/ Find(s) \/ Close(s) \/ ListSchedules(s) \/ DeleteSchedule(s) \/ Kill(s)

Next ==
    \/ \E s \in Script : ScriptStep(s) \/ Fire(s)
    \/ \E t \in Trigger : ShutdownStep(t) \/ CutOff(t) \/ Retry(t)
    \/ AlarmFires
    \/ Tick

\* Only AWS and the clock go on for certain; scripts need not.  A shutdown run
\* goes on or is cut off at its timeout.
Fairness ==
    /\ WF_vars(Tick)
    /\ \A s \in Script : WF_vars(Fire(s))
    /\ \A t \in Trigger : WF_vars(ShutdownStep(t) \/ CutOff(t)) /\ WF_vars(Retry(t))

Spec == Init /\ [][Next]_vars /\ Fairness

-----------------------------------------------------------------------------
ShutdownAhead(x) ==
    \/ Pending # {}
    \/ \E t \in Trigger : Left(run[t].todo, "close", x) \/ WillRetry(t)

(***************************************************************************)
(* Nothing that is on, the alarm included, lacks a shutdown still to come, *)
(* unless a script's own closing call failed, or the last try of a         *)
(* shutdown, or a script turned it on too late: after its own schedule had *)
(* fired or been removed, or in the middle of a close that had passed it.  *)
(* No stall, kill, shutdown run cut off half-way or interleaving adds      *)
(* another way.                                                            *)
(***************************************************************************)
OnlyKnownGaps ==
    \A x \in Thing : up[x] # "off" => ShutdownAhead(x) \/ Unwatched(x)

(***************************************************************************)
(* Outside those gaps nothing stays on longer than the window, even when   *)
(* windows overlap or are closed and opened again; what a shutdown run did *)
(* not close stays on until it is repeated.                                *)
(***************************************************************************)
AtMostOneWindowLong ==
    \A x \in Thing : up[x] # "off" /\ ~Unwatched(x) /\ x \notin delayed =>
        now <= openSince[x] + Window

(***************************************************************************)
(* Whatever is turned on is turned off again although no script ever goes  *)
(* on, outside the same gaps: a shutdown run that fails or is cut off is   *)
(* made good by its repeats.                                               *)
(***************************************************************************)
WindowEnds ==
    \A x \in Thing : up[x] # "off" ~> up[x] = "off" \/ Unwatched(x)

(***************************************************************************)
(* A validation that ends without an error to report has left nothing on   *)
(* of what it turned on, and no schedule of its own, whatever other        *)
(* scripts and shutdown runs did to either in between.                     *)
(***************************************************************************)
SuccessMeansClosed ==
    \A s \in Inspector \cup Direct : todo[s] = <<>> /\ s \notin failed =>
        /\ schedule[s] # "pending"
        /\ \A x \in Thing : s \notin openedBy[x]

(***************************************************************************)
(* README.md: "A live validation window is optional, lasts at most five    *)
(* minutes", without the gaps named above.                                 *)
(***************************************************************************)
LastsAtMostAWindow ==
    \A x \in Thing \ {"alarm"} : up[x] # "off" => now <= openSince[x] + Window
=============================================================================
