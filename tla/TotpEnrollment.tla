---------------------------- MODULE TotpEnrollment ----------------------------
(***************************************************************************)
(* One run of enroll-cognito-totp.ps1: the wrapper opens the temporary     *)
(* scope, enroll_cognito_totp.py serves the two pages of the enrollment    *)
(* until it is shut down or interrupted, and the wrapper closes the scope. *)
(*                                                                         *)
(* The helper handles one browser request at a time, and each handler      *)
(* sends Cognito one request after another.  Any of these may be refused,  *)
(* or go unanswered and still take effect later.  A page may not reach the *)
(* browser.  A setup key is an element of Secret, and a code is the key it *)
(* was computed from, or Mistyped.                                         *)
(***************************************************************************)
EXTENDS Naturals

CONSTANTS Secret, OldSecret, Mistyped, None, MAX_VERIFY_ATTEMPTS,
          MaxLate  \* bound: alike requests that are on their way unawaited

ASSUME EnrollmentAssumption ==
    /\ MAX_VERIFY_ATTEMPTS \in Nat \ {0}
    /\ MaxLate \in Nat \ {0}
    /\ OldSecret \notin Secret
    /\ Mistyped \notin Secret \cup {OldSecret}
    /\ None \notin Secret \cup {OldSecret, Mistyped}

VARIABLES
    phase,      \* where the wrapper is
    scope_open, \* the client offers aws.cognito.signin.user.admin
    updating,   \* a stack update the wrapper no longer waits for
    unwinding,  \* an exception or an interrupt goes through the finally block
    step,       \* the Cognito request the handler waits for, or "idle"
    code,       \* of the verification being handled
    verifier, secret_code, verify_attempts, completed,  \* the session
    shown,      \* the key the browser showed, which the authenticator has
    associated, \* Cognito: the key waiting for verification
    active,     \* Cognito: the verified key
    preferred,  \* Cognito: the authenticator is required at login
    issued,     \* Cognito: the keys it has handed out
    late,       \* how many of each request are on their way, awaited by no handler
    verifications \* how many VerifySoftwareToken requests were sent

wrapperVars == <<phase, scope_open, updating, unwinding>>
sessionVars == <<verifier, secret_code, verify_attempts, completed>>
cognitoVars == <<associated, active, preferred, issued>>
helperVars == <<step, code, sessionVars, shown, cognitoVars, late, verifications>>
vars == <<wrapperVars, helperVars>>

Key == Secret \cup {OldSecret}
Code == Key \cup {Mistyped}
Request == [step : {"associate", "verify", "prefer"}, code : Code \cup {None}]

TypeOK ==
    /\ phase \in {"opening", "serving", "stopping", "closing", "checking", "finished",
                  "failed"}
    /\ scope_open \in BOOLEAN /\ updating \in BOOLEAN /\ unwinding \in BOOLEAN
    /\ step \in {"idle", "token", "associate", "verify", "prefer"}
    /\ code \in Code \cup {None}
    /\ verifier \in BOOLEAN /\ completed \in BOOLEAN
    /\ secret_code \in Secret \cup {None}
    /\ verify_attempts \in 0..MAX_VERIFY_ATTEMPTS
    /\ shown \in Secret \cup {None}
    /\ associated \in Secret \cup {None} /\ active \in Key \cup {None}
    /\ preferred \in BOOLEAN /\ issued \subseteq Secret
    /\ late \in [Request -> 0..MaxLate]
    /\ verifications \in 0..MAX_VERIFY_ATTEMPTS

Init ==
    /\ phase = "opening" /\ scope_open = FALSE /\ updating = FALSE /\ unwinding = FALSE
    /\ step = "idle" /\ code = None
    /\ verifier = TRUE /\ secret_code = None
    /\ verify_attempts = 0 /\ completed = FALSE
    /\ shown = None
    /\ associated = None /\ active \in {None, OldSecret}
    /\ preferred = (active # None)
    /\ issued = {}
    /\ late = [r \in Request |-> 0] /\ verifications = 0

-----------------------------------------------------------------------------
(* Cognito. *)

Associate ==
    \E s \in Secret \ issued :
        /\ issued' = issued \cup {s} /\ associated' = s
        /\ UNCHANGED <<active, preferred>>

\* A code is compared with the key that waits for verification; what a
\* repeated verification of the active key answers is not relied on.
Verifies(c) == IF associated # None THEN c = associated ELSE c = active

VerifyKey(c) ==
    /\ Verifies(c)
    /\ active' = c /\ associated' = None
    /\ UNCHANGED <<preferred, issued>>

Prefer ==
    /\ active # None
    /\ preferred' = TRUE
    /\ UNCHANGED <<associated, active, issued>>

Effect(r) ==
    \/ r.step = "associate" /\ Associate
    \/ r.step = "verify" /\ VerifyKey(r.code)
    \/ r.step = "prefer" /\ Prefer

LateEffect ==
    \E r \in Request :
        /\ late[r] > 0 /\ Effect(r)
        /\ late' = [late EXCEPT ![r] = @ - 1]
        /\ UNCHANGED <<wrapperVars, step, code, sessionVars, shown, verifications>>

-----------------------------------------------------------------------------
(* The helper: the callback page. *)

Serving == phase \in {"serving", "stopping"}
MayBegin == secret_code = None

Begin ==
    /\ Serving /\ step = "idle" /\ MayBegin
    /\ step' = "token"
    /\ UNCHANGED <<wrapperVars, code, sessionVars, shown, cognitoVars, late, verifications>>

\* The token endpoint checks the verifier against the authorization's challenge.
TokenAnswered ==
    /\ step = "token" /\ verifier
    /\ step' = "associate"
    /\ UNCHANGED <<wrapperVars, code, sessionVars, shown, cognitoVars, late, verifications>>

\* Mutated form: the verifier outlives the callback.
SetUpKeepingVerifier ==
    /\ secret_code' = associated'
    /\ UNCHANGED <<verifier, verify_attempts, completed>>

SetUp ==
    /\ secret_code' = associated' /\ verifier' = FALSE
    /\ UNCHANGED <<verify_attempts, completed>>

\* The page with the key may or may not reach the browser.
AssociateAnswered ==
    /\ step = "associate"
    /\ Associate /\ SetUp
    /\ shown' \in {associated', shown}
    /\ step' = "idle"
    /\ UNCHANGED <<wrapperVars, code, late, verifications>>

-----------------------------------------------------------------------------
(* The helper: the verification form. *)

\* Mutated form: attempts are not counted.
CountNothing == UNCHANGED verify_attempts

CountAttempt ==
    /\ verify_attempts < MAX_VERIFY_ATTEMPTS
    /\ verify_attempts' = verify_attempts + 1

\* The form is on the page with the key, and its token is void once completed.
SubmitCode ==
    /\ Serving /\ step = "idle"
    /\ shown # None /\ ~completed /\ secret_code # None
    /\ CountAttempt
    /\ code' \in {shown, OldSecret, Mistyped}
    /\ step' = "verify"
    /\ verifications' = verifications + 1
    /\ UNCHANGED <<wrapperVars, verifier, secret_code, completed, shown, cognitoVars, late>>

VerifyAnswered ==
    /\ step = "verify" /\ VerifyKey(code)
    /\ step' = "prefer"
    /\ UNCHANGED <<wrapperVars, code, sessionVars, shown, late, verifications>>

\* The server is shut down only once the last page was sent.
PreferAnswered ==
    /\ step = "prefer" /\ Prefer
    /\ completed' = TRUE /\ secret_code' = None
    /\ step' = "idle" /\ code' = None
    /\ phase' \in {phase, "stopping"}
    /\ UNCHANGED <<scope_open, updating, unwinding, verifier, verify_attempts, shown, late,
                   verifications>>

-----------------------------------------------------------------------------
\* A request is refused, or its answer is unusable: the handler raises.
Refused ==
    /\ step # "idle"
    /\ step' = "idle" /\ code' = None
    /\ UNCHANGED <<wrapperVars, sessionVars, shown, cognitoVars, late, verifications>>

Waiting == [step |-> step, code |-> IF step = "verify" THEN code ELSE None]

LeftOnItsWay ==
    /\ step \in {"associate", "verify", "prefer"}
    /\ late[Waiting] < MaxLate
    /\ late' = [late EXCEPT ![Waiting] = @ + 1]

\* No answer arrives: the handler raises, and the request may still arrive.
Unanswered ==
    /\ LeftOnItsWay
    /\ step' = "idle" /\ code' = None
    /\ UNCHANGED <<wrapperVars, sessionVars, shown, cognitoVars, verifications>>

-----------------------------------------------------------------------------
(* The wrapper. *)

GateOpened ==
    /\ phase = "opening"
    /\ phase' = "serving" /\ scope_open' = TRUE
    /\ UNCHANGED <<updating, unwinding, helperVars>>

\* The deployment fails, or only the wait for it does.
GateNotOpened ==
    /\ phase = "opening"
    /\ phase' = "closing" /\ unwinding' = TRUE
    /\ updating' \in BOOLEAN
    /\ UNCHANGED <<scope_open, helperVars>>

UpdateSettles ==
    /\ updating
    /\ updating' = FALSE /\ scope_open' \in {TRUE, scope_open}
    /\ UNCHANGED <<phase, unwinding, helperVars>>

\* main ends by itself only after the shutdown.
HelperEnds ==
    /\ phase = "stopping" /\ step = "idle"
    /\ phase' = "closing"
    /\ UNCHANGED <<scope_open, updating, unwinding, helperVars>>

\* Mutated form: the scope is closed only when the helper ended well.
InterruptWithoutFinally ==
    /\ Serving
    /\ phase' = "finished" /\ step' = "idle" /\ code' = None
    /\ UNCHANGED <<scope_open, updating, unwinding, sessionVars, shown, cognitoVars, late,
                   verifications>>

\* Ctrl-C ends the helper, which forgets the key, and then the wrapper, after
\* its finally block; a request under way may still arrive.
Interrupt ==
    /\ Serving
    /\ phase' = "closing" /\ unwinding' = TRUE
    /\ step' = "idle" /\ code' = None
    /\ secret_code' = None
    /\ UNCHANGED late \/ LeftOnItsWay
    /\ UNCHANGED <<scope_open, updating, verifier, verify_attempts, completed, shown, cognitoVars,
                   verifications>>

\* The stack takes no second update while one is under way.
GateClosed ==
    /\ phase = "closing" /\ ~updating
    /\ phase' = "checking" /\ scope_open' = FALSE
    /\ UNCHANGED <<updating, unwinding, helperVars>>

GateNotClosed ==
    /\ phase = "closing"
    /\ phase' = "failed"
    /\ UNCHANGED <<scope_open, updating, unwinding, helperVars>>

\* The scopes of the client are read back, if they can be.
ScopeChecked ==
    /\ phase = "checking"
    /\ phase' \in {"failed"} \cup (IF scope_open \/ unwinding THEN {} ELSE {"finished"})
    /\ UNCHANGED <<scope_open, updating, unwinding, helperVars>>

-----------------------------------------------------------------------------
Next ==
    \/ GateOpened \/ GateNotOpened \/ UpdateSettles
    \/ Begin \/ TokenAnswered \/ AssociateAnswered
    \/ SubmitCode \/ VerifyAnswered \/ PreferAnswered
    \/ Refused \/ Unanswered \/ LateEffect
    \/ HelperEnds \/ Interrupt
    \/ GateClosed \/ GateNotClosed \/ ScopeChecked

Spec == Init /\ [][Next]_vars

-----------------------------------------------------------------------------
(***************************************************************************)
(* The session only counts as completed when Cognito holds the very key    *)
(* the browser showed as verified and asks for it at login, whatever was   *)
(* refused, lost or late before.  And then it is over: a callback or a     *)
(* form that arrives before the server is down sets up no new key, and a   *)
(* late request changes neither the verified key nor the preference.       *)
(***************************************************************************)
CompletedMeansEnrolled ==
    [][/\ completed' => active' = shown' /\ preferred'
       /\ completed => completed' /\ UNCHANGED <<secret_code, shown, active>>]_vars

(***************************************************************************)
(* The wrapper says it finished only after an enrollment that was          *)
(* completed, and with the temporary scope closed, and no update under way *)
(* can open it again.                                                      *)
(***************************************************************************)
FinishedMeansClosed == phase = "finished" => completed /\ ~scope_open /\ ~updating
=============================================================================
