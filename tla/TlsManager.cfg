SPECIFICATION Spec
CONSTANTS
    i1 = i1
    i2 = i2
    n1 = n1
    Issuers = {i1, i2}
    Names = {n1}
    Fallback = Fallback
    Forbids <- MCForbids
    Loop = Loop
    Requests = {r1}
    CERT_DAYS = 2
    RENEW_BEFORE = 1
    MIN_RENEWAL_GAIN = 1
    IssuerYears <- MCIssuerYears
    MaxTime = 1
    MaxFaults = 1
    None = None
INVARIANTS
    TypeOK
    UpToDate
    BoundIssuerActive
PROPERTY
    NotDowngraded
CHECK_DEADLOCK FALSE
