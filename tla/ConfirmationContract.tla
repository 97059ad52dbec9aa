------------------------ MODULE ConfirmationContract ------------------------
(***************************************************************************)
(* What a confirmation provider promises (core/confirmation.py,            *)
(* ConfirmationProvider: "Issue and atomically consume caller-bound        *)
(* confirmations."), with no clock, no table and no messages.              *)
(*                                                                         *)
(* A binding is what a confirmation authorises: one caller, one action,    *)
(* one payload.  A call presents a token and a binding; it may spend the   *)
(* confirmation of that token, and once it has spent it the call may be    *)
(* told to go ahead.  A call that spends a confirmation and is never told  *)
(* (the answer was lost, the process died) burns it.                       *)
(***************************************************************************)
CONSTANTS Token,      \* the strings that can be presented as a token
          Call,       \* calls of consume
          Binding,    \* what a confirmation may be bound to
          Nothing     \* no binding, no question

VARIABLES issued,     \* what each token was issued for
          asked,      \* what each call presents
          spent,      \* the calls that spent the confirmation they presented
          confirmed   \* the calls that were told to go ahead

contractVars == <<issued, asked, spent, confirmed>>

Question == [token : Token, binding : Binding]

ContractTypeOK ==
    /\ issued \in [Token -> Binding \cup {Nothing}]
    /\ asked \in [Call -> Question \cup {Nothing}]
    /\ spent \subseteq Call
    /\ confirmed \subseteq Call

ContractInit ==
    /\ issued = [t \in Token |-> Nothing]
    /\ asked = [c \in Call |-> Nothing]
    /\ spent = {}
    /\ confirmed = {}

Issue(t, b) ==
    /\ issued[t] = Nothing
    /\ issued' = [issued EXCEPT ![t] = b]
    /\ UNCHANGED <<asked, spent, confirmed>>

Ask(c, q) ==
    /\ asked[c] = Nothing
    /\ asked' = [asked EXCEPT ![c] = q]
    /\ UNCHANGED <<issued, spent, confirmed>>

\* Mutated form: a confirmation that stays live.
MaySpendAgain(c) ==
    /\ asked[c] # Nothing
    /\ issued[asked[c].token] = asked[c].binding

\* The confirmation is live and the call presents exactly what it is bound to.
MaySpend(c) ==
    /\ asked[c] # Nothing
    /\ issued[asked[c].token] = asked[c].binding
    /\ \A d \in spent : asked[d].token # asked[c].token

Spend(c, told) ==
    /\ MaySpend(c)
    /\ spent' = spent \cup {c}
    /\ confirmed' = confirmed \cup told
    /\ UNCHANGED <<issued, asked>>

Confirm(c) ==
    /\ c \in spent \ confirmed
    /\ confirmed' = confirmed \cup {c}
    /\ UNCHANGED <<issued, asked, spent>>

ContractNext ==
    \/ \E t \in Token, b \in Binding : Issue(t, b)
    \/ \E c \in Call, q \in Question : Ask(c, q)
    \/ \E c \in Call : Spend(c, {}) \/ Spend(c, {c}) \/ Confirm(c)

ContractSpec == ContractInit /\ [][ContractNext]_contractVars

-----------------------------------------------------------------------------
(***************************************************************************)
(* Two calls are never both told to go ahead on one token: the at-most-    *)
(* once use both guards promise in their docstrings.                       *)
(***************************************************************************)
AtMostOnePerToken ==
    \A c, d \in confirmed : asked[c].token = asked[d].token => c = d

(***************************************************************************)
(* A call told to go ahead presented exactly the caller, action and        *)
(* payload its token was issued for.                                       *)
(***************************************************************************)
ConfirmedAsIssued ==
    \A c \in confirmed :
        asked[c] # Nothing /\ issued[asked[c].token] = asked[c].binding

(***************************************************************************)
(* Both together: what every implementation of ConfirmationProvider owes   *)
(* the tools that call consume before a write.                             *)
(***************************************************************************)
ContractSafety == AtMostOnePerToken /\ ConfirmedAsIssued
=============================================================================
