---------------------------- MODULE Authorization ----------------------------
(***************************************************************************)
(* Who may call, and as whom: the claims of an access token as the handler *)
(* behind API Gateway reads them (lambda_handler.py), and as the local     *)
(* protected server does (security/authorization.py).                      *)
(*                                                                         *)
(* Signatures are left out: every token here is one its issuer signed.     *)
(***************************************************************************)
EXTENDS FiniteSets

CONSTANTS Issuer, Subject, Scope,
          Provider  \* the authorization servers the endpoint may be set up for

NoSubject == "empty"
Absent == "absent"
NoScopes == {Absent}

\* aud is the endpoint's resource, another one, or a list with the former.
Claims ==
    [iss : Issuer, sub : Subject \cup {NoSubject},
     aud : {"resource", "other", "several"},
     token_use : {"access", "id", Absent},
     scope : (SUBSET Scope) \cup {NoScopes}, scp : (SUBSET Scope) \cup {NoScopes},
     client : BOOLEAN, expired : BOOLEAN]

\* AuthorizationConfig: the resource is the same for all.
AuthorizationConfig == [issuer : Issuer, required_scopes : SUBSET Scope]

ASSUME AuthorizationAssumption ==
    /\ NoSubject \notin Subject
    /\ Absent \notin Scope
    /\ Provider \subseteq AuthorizationConfig

CallerContext == [issuer : Issuer, subject : Subject]

\* CallerContext.fingerprint is a digest of the issuer and the subject.
Caller(issuer, subject) == [issuer |-> issuer, subject |-> subject]

AccessTokenUse(c) == c.token_use \in {"access", Absent}

-----------------------------------------------------------------------------
(* The remote endpoint. *)

\* API Gateway takes one of the route's scopes from either claim.
AuthorizerAccepts(c, config) ==
    /\ c.iss = config.issuer
    /\ c.aud \in {"resource", "several"}
    /\ ~c.expired
    /\ \/ config.required_scopes = {}
       \/ \E s \in config.required_scopes : s \in c.scope \cup c.scp

HandlerScopes(c) == IF c.scope = NoScopes THEN {} ELSE c.scope

\* The conditions of _gateway_caller.
HandlerAccepts(c, config) ==
    /\ c.iss = config.issuer
    /\ c.aud = "resource"
    /\ AccessTokenUse(c)
    /\ c.sub # NoSubject
    /\ config.required_scopes \subseteq HandlerScopes(c)

GatewayCaller(c, config) == Caller(config.issuer, c.sub)

-----------------------------------------------------------------------------
(* The local protected server. *)

\* Mutated form: scp is added to scope.
AllScopes(c) ==
    HandlerScopes(c) \cup (IF c.scp = NoScopes THEN {} ELSE c.scp)

ExtractScopes(c) ==
    CASE c.scope # NoScopes -> c.scope
      [] c.scope = NoScopes /\ c.scp # NoScopes -> c.scp
      [] OTHER -> {}

\* OfflineJwtVerifier.verify_token: jwt.decode, then its own conditions.
VerifyToken(c, config) ==
    /\ c.iss = config.issuer
    /\ c.aud \in {"resource", "several"}
    /\ ~c.expired
    /\ AccessTokenUse(c)
    /\ c.client

\* The SDK asks for every required scope.
ProtectedAppAccepts(c, config) ==
    /\ VerifyToken(c, config)
    /\ config.required_scopes \subseteq ExtractScopes(c)

CallerFromAccessToken(c) == Caller(c.iss, c.sub)
=============================================================================
