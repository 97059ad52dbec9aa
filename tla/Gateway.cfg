CONSTANTS
    Event = {e1, e2}
    Token = {t1, t2}
    Issuer = {"cognito", "workos"}
    Subject = {"owner"}
    Scope = {"use", "openid"}
    Provider <- MCProvider
    Presented <- MCPresented
    Limit = 1
    MaxDeployments = 2
    Nothing = Nothing
SPECIFICATION Spec
INVARIANTS
    TypeOK
    ActedAsPreviewed
    LimitWhileTableIntact
    PreviewOutlivesItsEvent
    VerifiersAgree
SYMMETRY Symmetry
\* The deployments may be used up.
CHECK_DEADLOCK FALSE
