------------------------------ MODULE MCGateway ------------------------------
(***************************************************************************)
(* The remote server, for TLC: the two providers the endpoint has had,     *)
(* each with the scope it asks for, and tokens that are good or differ     *)
(* from a good one in at most two claims.                                  *)
(***************************************************************************)
EXTENDS Gateway, TLC

MCProvider == {[issuer |-> "cognito", required_scopes |-> {"use"}],
               [issuer |-> "workos", required_scopes |-> {"openid"}]}

Good == {[iss |-> p.issuer, sub |-> "owner", aud |-> "resource", token_use |-> "access",
          scope |-> p.required_scopes, scp |-> NoScopes, client |-> TRUE, expired |-> FALSE] :
            p \in MCProvider}

Differences(c, d) == {f \in DOMAIN c : c[f] # d[f]}

MCPresented ==
    {c \in Claims : \E g \in Good : Cardinality(Differences(c, g)) <= 2}

Symmetry == Permutations(Event) \cup Permutations(Token)
=============================================================================
