------------------------ MODULE TotpEnrollment_proofs ------------------------
(***************************************************************************)
(* Proofs about the enrollment, for any number of setup keys and attempts. *)
(***************************************************************************)
EXTENDS TotpEnrollment, TLAPS

\* The wrapper: the scope was closed after the helper ended, or it unwinds.
WrapperInv ==
    /\ phase = "stopping" => completed
    /\ phase \in {"closing", "checking"} /\ ~unwinding => completed
    /\ phase = "checking" => ~updating
    /\ FinishedMeansClosed

\* As long as the verifier is there nothing was set up or verified, and the
\* requests that may still arrive ask for a key.
BeforeSetUp ==
    /\ step = "associate" => verifier
    /\ verifier =>
          /\ shown = None /\ secret_code = None /\ ~completed
          /\ step \notin {"verify", "prefer"}
          /\ \A r \in Request : late[r] > 0 => r.step = "associate"

\* A verification carries the key that was shown, or no key that was handed out.
CodeInv ==
    /\ step = "verify" => shown # None /\ code \in {shown, OldSecret, Mistyped}
    /\ \A r \in Request : late[r] > 0 /\ r.step = "verify" =>
          shown # None /\ r.code \in {shown, OldSecret, Mistyped}

\* Once a key was shown, a key waits for verification or the shown one has been
\* verified: the old key cannot be verified in between.
KeyInv ==
    /\ shown # None => associated # None \/ active = shown
    /\ step = "prefer" => active = shown

CompletedInv ==
    /\ completed => active = shown /\ preferred /\ secret_code = None
    /\ step \in {"verify", "prefer"} => ~completed
    /\ shown = None => ~completed /\ step \notin {"verify", "prefer"}

Inv ==
    /\ TypeOK /\ verifications = verify_attempts
    /\ WrapperInv /\ BeforeSetUp /\ CodeInv /\ KeyInv /\ CompletedInv

\* What an enrollment that is over leaves alone.
StaysCompleted == completed => completed' /\ UNCHANGED <<secret_code, shown, active>>
-----------------------------------------------------------------------------
(* Cognito. *)

\* After a key was shown only that key can be verified.
LEMMA OnlyShownVerified ==
    ASSUME TypeOK, KeyInv, shown # None,
           NEW c \in {shown, OldSecret, Mistyped}, VerifyKey(c)
    PROVE  /\ active' = shown /\ associated' = None
           /\ UNCHANGED <<preferred, issued>>
<1>1. associated # None => c = associated /\ associated \in Secret
  BY DEF VerifyKey, Verifies, TypeOK
<1>2. associated = None => c = active /\ active = shown
  BY DEF VerifyKey, Verifies, KeyInv
<1>3. c = shown
  BY <1>1, <1>2, EnrollmentAssumption
<1> QED  BY <1>3 DEF VerifyKey

LEMMA AssociateEffect ==
    ASSUME TypeOK, Associate
    PROVE  /\ associated' \in Secret /\ issued' \subseteq Secret
           /\ associated' # None
           /\ UNCHANGED <<active, preferred>>
BY EnrollmentAssumption DEF Associate, TypeOK

\* A request that arrives late: a new key, the shown one verified, or the preference.
LEMMA LateKeeps ==
    ASSUME Inv, LateEffect
    PROVE  Inv' /\ StaysCompleted
<1>1. PICK r \in Request :
         /\ late[r] > 0 /\ Effect(r)
         /\ late' = [late EXCEPT ![r] = @ - 1]
  BY DEF LateEffect
<1>2. UNCHANGED <<wrapperVars, step, code, sessionVars, shown, verifications>>
  BY DEF LateEffect
<1>3. UNCHANGED <<phase, scope_open, updating, unwinding, step, code, verifier, secret_code,
                  verify_attempts, completed, shown, verifications>>
  BY <1>2 DEF wrapperVars, sessionVars
<1>4. /\ associated' \in Secret \cup {None} /\ issued' \subseteq Secret
      /\ active' \in Key \cup {None} /\ preferred' \in BOOLEAN
      /\ shown # None => associated' # None \/ active' = shown
      /\ active = shown /\ shown # None => active' = shown
      /\ preferred => preferred'
  <2>1. CASE r.step = "associate" /\ Associate
    BY <2>1, AssociateEffect DEF Inv, TypeOK, KeyInv
  <2>2. CASE r.step = "verify" /\ VerifyKey(r.code)
    <3>1. shown # None /\ r.code \in {shown, OldSecret, Mistyped}
      BY <1>1, <2>2 DEF Inv, CodeInv
    <3>2. active' = shown /\ associated' = None /\ UNCHANGED <<preferred, issued>>
      BY <2>2, <3>1, OnlyShownVerified DEF Inv
    <3> QED  BY <3>1, <3>2 DEF Inv, TypeOK, Key
  <2>3. CASE r.step = "prefer" /\ Prefer
    BY <2>3 DEF Prefer, Inv, TypeOK, KeyInv
  <2> QED  BY <1>1, <2>1, <2>2, <2>3 DEF Effect
<1>5. /\ late' \in [Request -> 0..MaxLate]
      /\ \A q \in Request : late'[q] > 0 => late[q] > 0
  BY <1>1, EnrollmentAssumption DEF Inv, TypeOK
<1>6. TypeOK'
  BY <1>3, <1>4, <1>5 DEF Inv, TypeOK
<1>7. WrapperInv' /\ BeforeSetUp' /\ CodeInv'
  BY <1>3, <1>5 DEF Inv, WrapperInv, FinishedMeansClosed, BeforeSetUp, CodeInv
<1>8. KeyInv' /\ CompletedInv' /\ StaysCompleted
  BY <1>3, <1>4 DEF Inv, KeyInv, CompletedInv, StaysCompleted
<1> QED  BY <1>3, <1>6, <1>7, <1>8 DEF Inv

-----------------------------------------------------------------------------
(* The helper. *)

LEMMA CallbackKeeps ==
    ASSUME Inv, Begin \/ TokenAnswered \/ AssociateAnswered
    PROVE  Inv' /\ StaysCompleted
<1> USE DEF wrapperVars, sessionVars, cognitoVars
<1>1. ASSUME Begin PROVE Inv' /\ StaysCompleted
  BY <1>1 DEF Begin, Inv, TypeOK, WrapperInv, FinishedMeansClosed, BeforeSetUp, CodeInv, KeyInv,
     CompletedInv, StaysCompleted
<1>2. ASSUME TokenAnswered PROVE Inv' /\ StaysCompleted
  BY <1>2 DEF TokenAnswered, Inv, TypeOK, WrapperInv, FinishedMeansClosed, BeforeSetUp, CodeInv,
     KeyInv,
     CompletedInv, StaysCompleted
<1>3. ASSUME AssociateAnswered PROVE Inv' /\ StaysCompleted
  <2>1. /\ verifier /\ shown = None /\ secret_code = None /\ ~completed
        /\ \A r \in Request : late[r] > 0 => r.step = "associate"
    BY <1>3 DEF AssociateAnswered, Inv, BeforeSetUp
  <2>2. /\ associated' \in Secret /\ issued' \subseteq Secret /\ associated' # None
        /\ UNCHANGED <<active, preferred>>
    BY <1>3, AssociateEffect DEF AssociateAnswered, Inv
  <2>3. /\ secret_code' = associated' /\ verifier' = FALSE /\ shown' \in {associated', shown}
        /\ step' = "idle"
        /\ UNCHANGED <<phase, scope_open, updating, unwinding, verify_attempts, completed,
                       code, late, verifications>>
    BY <1>3 DEF AssociateAnswered, SetUp
  <2> QED
    BY <2>1, <2>2, <2>3 DEF Inv, TypeOK, WrapperInv, FinishedMeansClosed, BeforeSetUp, CodeInv,
       KeyInv, CompletedInv, StaysCompleted
<1> QED  BY <1>1, <1>2, <1>3

LEMMA FormKeeps ==
    ASSUME Inv, SubmitCode \/ VerifyAnswered \/ PreferAnswered
    PROVE  Inv' /\ StaysCompleted
<1> USE DEF wrapperVars, sessionVars, cognitoVars
<1>1. ASSUME SubmitCode PROVE Inv' /\ StaysCompleted
  <2>1. /\ step = "idle" /\ shown # None /\ ~completed /\ secret_code # None
        /\ verify_attempts < MAX_VERIFY_ATTEMPTS /\ verify_attempts' = verify_attempts + 1
        /\ code' \in {shown, OldSecret, Mistyped} /\ step' = "verify"
        /\ verifications' = verifications + 1
        /\ UNCHANGED <<phase, scope_open, updating, unwinding, verifier, secret_code, completed,
                       shown, associated, active, preferred, issued, late>>
    BY <1>1 DEF SubmitCode, CountAttempt
  <2>2. ~verifier
    BY <2>1 DEF Inv, BeforeSetUp
  <2>3. verify_attempts' \in 0..MAX_VERIFY_ATTEMPTS /\ verifications' = verify_attempts'
    BY <2>1, EnrollmentAssumption DEF Inv, TypeOK
  <2>4. code' \in Code
    BY <2>1 DEF Inv, TypeOK, Code, Key
  <2>5. TypeOK'
    BY <2>1, <2>3, <2>4 DEF Inv, TypeOK
  <2> QED
    BY <2>1, <2>2, <2>3, <2>5 DEF Inv, WrapperInv, FinishedMeansClosed, BeforeSetUp, CodeInv,
       KeyInv, CompletedInv, StaysCompleted
<1>2. ASSUME VerifyAnswered PROVE Inv' /\ StaysCompleted
  <2>1. /\ step = "verify" /\ VerifyKey(code) /\ step' = "prefer"
        /\ UNCHANGED <<phase, scope_open, updating, unwinding, code, verifier, secret_code,
                       verify_attempts, completed, shown, late, verifications>>
    BY <1>2 DEF VerifyAnswered
  <2>2. shown # None /\ code \in {shown, OldSecret, Mistyped}
    BY <2>1 DEF Inv, CodeInv
  <2>3. active' = shown /\ associated' = None /\ UNCHANGED <<preferred, issued>>
    BY <2>1, <2>2, OnlyShownVerified DEF Inv
  <2>4. TypeOK'
    BY <2>1, <2>2, <2>3 DEF Inv, TypeOK, Key
  <2>5. ~completed
    BY <2>1 DEF Inv, CompletedInv
  <2> QED
    BY <2>1, <2>2, <2>3, <2>4, <2>5 DEF Inv, WrapperInv, FinishedMeansClosed, BeforeSetUp,
       CodeInv, KeyInv, CompletedInv, StaysCompleted
<1>3. ASSUME PreferAnswered PROVE Inv' /\ StaysCompleted
  <2>1. /\ step = "prefer" /\ preferred' = TRUE /\ UNCHANGED <<associated, active, issued>>
        /\ completed' = TRUE /\ secret_code' = None /\ step' = "idle" /\ code' = None
        /\ phase' \in {phase, "stopping"}
        /\ UNCHANGED <<scope_open, updating, unwinding, verifier, verify_attempts, shown, late,
                       verifications>>
    BY <1>3 DEF PreferAnswered, Prefer
  <2>2. active = shown /\ ~verifier /\ ~completed
    BY <2>1 DEF Inv, KeyInv, BeforeSetUp, CompletedInv
  <2> QED
    BY <2>1, <2>2 DEF Inv, TypeOK, WrapperInv, FinishedMeansClosed, BeforeSetUp, CodeInv, KeyInv,
       CompletedInv, StaysCompleted
<1> QED  BY <1>1, <1>2, <1>3

\* A request that is left to arrive by itself.
LEMMA WaitingIs ==
    ASSUME Inv, step \in {"associate", "verify", "prefer"}
    PROVE  /\ Waiting \in Request
           /\ Waiting.step = step
           /\ step = "verify" => Waiting.code = code
BY DEF Waiting, Request, Inv, TypeOK, Code

LEMMA FailureKeeps ==
    ASSUME Inv, Refused \/ Unanswered \/ Interrupt
    PROVE  Inv' /\ StaysCompleted
<1>1. /\ step' = "idle" /\ code' = None
      /\ secret_code' \in {secret_code, None}
      /\ \/ late' = late
         \/ LeftOnItsWay
      /\ UNCHANGED <<scope_open, updating, verifier, verify_attempts, completed, shown,
                     associated, active, preferred, issued, verifications>>
  BY DEF Refused, Unanswered, Interrupt, wrapperVars, sessionVars, cognitoVars
<1>2. \/ UNCHANGED <<phase, unwinding>>
      \/ phase' = "closing" /\ unwinding' = TRUE
  BY DEF Refused, Unanswered, Interrupt, wrapperVars
<1>3. /\ late' \in [Request -> 0..MaxLate]
      /\ \A r \in Request : late'[r] > 0 => late[r] > 0 \/
            /\ step \in {"associate", "verify", "prefer"}
            /\ r.step = step /\ (step = "verify" => r.code = code)
  BY <1>1, WaitingIs, EnrollmentAssumption DEF LeftOnItsWay, Inv, TypeOK
<1>4. TypeOK'
  <2>1. late' \in [Request -> 0..MaxLate]
    BY <1>3
  <2>2. phase' \in {phase, "closing"} /\ unwinding' \in BOOLEAN
    BY <1>2 DEF Inv, TypeOK
  <2>3. secret_code' \in Secret \cup {None}
    BY <1>1 DEF Inv, TypeOK
  <2>4. /\ step' = "idle" /\ code' = None
        /\ UNCHANGED <<scope_open, updating, verifier, verify_attempts, completed, shown,
                       associated, active, preferred, issued, verifications>>
    BY <1>1
  <2> QED  BY <2>1, <2>2, <2>3, <2>4 DEF Inv, TypeOK
<1>5. WrapperInv'
  BY <1>1, <1>2 DEF Inv, WrapperInv, FinishedMeansClosed
<1>6. BeforeSetUp' /\ CodeInv'
  BY <1>1, <1>3 DEF Inv, BeforeSetUp, CodeInv
<1>7. KeyInv' /\ CompletedInv' /\ StaysCompleted
  BY <1>1 DEF Inv, KeyInv, CompletedInv, StaysCompleted
<1> QED  BY <1>1, <1>4, <1>5, <1>6, <1>7 DEF Inv

-----------------------------------------------------------------------------
(* The wrapper. *)

WrapperStep ==
    \/ GateOpened \/ GateNotOpened \/ UpdateSettles \/ HelperEnds
    \/ GateClosed \/ GateNotClosed \/ ScopeChecked

LEMMA WrapperKeeps ==
    ASSUME Inv, WrapperStep
    PROVE  Inv' /\ StaysCompleted
<1>1. UNCHANGED helperVars
  BY DEF WrapperStep, GateOpened, GateNotOpened, UpdateSettles, HelperEnds, GateClosed,
         GateNotClosed, ScopeChecked
<1>2. UNCHANGED <<step, code, verifier, secret_code, verify_attempts, completed, shown,
                  associated, active, preferred, issued, late, verifications>>
  BY <1>1 DEF helperVars, sessionVars, cognitoVars
<1>3. /\ phase' \in {"opening", "serving", "stopping", "closing", "checking", "finished", "failed"}
      /\ scope_open' \in BOOLEAN /\ updating' \in BOOLEAN /\ unwinding' \in BOOLEAN
  BY DEF WrapperStep, GateOpened, GateNotOpened, UpdateSettles, HelperEnds, GateClosed,
         GateNotClosed, ScopeChecked, Inv, TypeOK
<1>4. WrapperInv'
  <2> USE <1>2 DEF Inv, TypeOK, WrapperInv, FinishedMeansClosed
  <2>1. ASSUME GateOpened PROVE WrapperInv'
    BY <2>1 DEF GateOpened
  <2>2. ASSUME GateNotOpened PROVE WrapperInv'
    BY <2>2 DEF GateNotOpened
  <2>3. ASSUME UpdateSettles PROVE WrapperInv'
    BY <2>3 DEF UpdateSettles
  <2>4. ASSUME HelperEnds PROVE WrapperInv'
    BY <2>4 DEF HelperEnds
  <2>5. ASSUME GateClosed PROVE WrapperInv'
    BY <2>5 DEF GateClosed
  <2>6. ASSUME GateNotClosed PROVE WrapperInv'
    BY <2>6 DEF GateNotClosed
  <2>7. ASSUME ScopeChecked PROVE WrapperInv'
    BY <2>7 DEF ScopeChecked
  <2> QED  BY <2>1, <2>2, <2>3, <2>4, <2>5, <2>6, <2>7 DEF WrapperStep
<1>5. TypeOK'
  BY <1>2, <1>3 DEF Inv, TypeOK
<1>6. BeforeSetUp' /\ CodeInv' /\ KeyInv' /\ CompletedInv' /\ StaysCompleted
  BY <1>2 DEF Inv, BeforeSetUp, CodeInv, KeyInv, CompletedInv, StaysCompleted
<1> QED  BY <1>2, <1>4, <1>5, <1>6 DEF Inv

-----------------------------------------------------------------------------
(* The invariant. *)

LEMMA InitInv ==
    ASSUME Init
    PROVE  Inv
<1>1. TypeOK
  <2>1. preferred \in BOOLEAN
    BY DEF Init
  <2>2. active \in Key \cup {None}
    BY DEF Init, Key
  <2>3. /\ phase = "opening" /\ scope_open = FALSE /\ updating = FALSE /\ unwinding = FALSE
        /\ step = "idle" /\ code = None /\ verifier = TRUE /\ secret_code = None
        /\ verify_attempts = 0 /\ completed = FALSE /\ shown = None /\ associated = None
        /\ issued = {} /\ late = [r \in Request |-> 0] /\ verifications = 0
    BY DEF Init
  <2>4. verify_attempts \in 0..MAX_VERIFY_ATTEMPTS /\ verifications \in 0..MAX_VERIFY_ATTEMPTS
    BY <2>3, EnrollmentAssumption
  <2>5. /\ scope_open \in BOOLEAN /\ updating \in BOOLEAN /\ unwinding \in BOOLEAN
        /\ verifier \in BOOLEAN /\ completed \in BOOLEAN
    BY <2>3
  <2>6. issued \subseteq Secret /\ late \in [Request -> 0..MaxLate]
    BY <2>3, EnrollmentAssumption
  <2> QED  BY <2>1, <2>2, <2>3, <2>4, <2>5, <2>6 DEF TypeOK
<1> QED
  BY <1>1 DEF Init, Inv, WrapperInv, FinishedMeansClosed, BeforeSetUp, CodeInv, KeyInv, CompletedInv

LEMMA StepKeeps ==
    ASSUME Inv, [Next]_vars
    PROVE  Inv' /\ StaysCompleted
<1>1. ASSUME UNCHANGED vars PROVE Inv' /\ StaysCompleted
  BY <1>1 DEF vars, wrapperVars, helperVars, sessionVars, cognitoVars, Inv, TypeOK, WrapperInv,
     FinishedMeansClosed, BeforeSetUp, CodeInv, KeyInv, CompletedInv, StaysCompleted
<1> QED
  BY <1>1, LateKeeps, CallbackKeeps, FormKeeps, FailureKeeps, WrapperKeeps DEF Next, WrapperStep

LEMMA Invariance == Spec => []Inv
BY InitInv, StepKeeps, PTL DEF Spec

-----------------------------------------------------------------------------
(***************************************************************************)
(* The session, Cognito and the wrapper stay well typed; in particular no  *)
(* more codes are sent than MAX_VERIFY_ATTEMPTS.                           *)
(***************************************************************************)
THEOREM TypeCorrect == Spec => []TypeOK
<1>1. Inv => TypeOK
  BY DEF Inv
<1> QED
  BY <1>1, Invariance, PTL

(***************************************************************************)
(* The wrapper finishes only with the enrollment completed, the temporary  *)
(* scope closed and no update left that can open it (GateClosed,           *)
(* ScopeChecked).                                                          *)
(***************************************************************************)
THEOREM FinishedClosed == Spec => []FinishedMeansClosed
<1>1. Inv => FinishedMeansClosed
  BY DEF Inv, WrapperInv
<1> QED
  BY <1>1, Invariance, PTL

(***************************************************************************)
(* A completed session is enrolled with the key that was shown, and no     *)
(* later step of the helper, of Cognito or of a late request undoes that   *)
(* (PreferAnswered, LateEffect).                                           *)
(***************************************************************************)
THEOREM CompletedEnrolled == Spec => CompletedMeansEnrolled
<1>1. ASSUME Inv, Inv', [Next]_vars
      PROVE  [/\ completed' => active' = shown' /\ preferred'
              /\ completed => completed' /\ UNCHANGED <<secret_code, shown, active>>]_vars
  BY <1>1, StepKeeps DEF Inv, CompletedInv, StaysCompleted
<1> QED
  BY <1>1, Invariance, PTL DEF Spec, CompletedMeansEnrolled
=============================================================================
