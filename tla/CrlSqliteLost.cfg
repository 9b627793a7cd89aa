SPECIFICATION Spec
CONSTANTS
    Issuers = {i1}
    Certs = {c1, c2}
    IssuerOf <- OneIssuer
    Reasons = {"unspecified", "superseded"}
    Workers = {w1, w2}
    RowLocks = FALSE
    CrlValidity = 2
    CrlMaxAge = 1
    MaxTime = 2
    None = None
CHECK_DEADLOCK FALSE
INVARIANT CrlComplete
