SPECIFICATION Spec
CONSTANTS
    Orders = {o1}
    Names = {addr, star}
    Wildcards = {star}
    Addresses = {addr}
    Accounts = {a1}
    Workers = {w1, w2}
    OrderLifetime = 2
    AuthzLifetime = 2
    MaxTime = 2
    MaxFaults = 1
SYMMETRY SymmetricWorkers
CHECK_DEADLOCK FALSE
INVARIANTS
    TypeOK
    OneCertificatePerOrder
    CertificateProven
    ProofStands
    CertifiedInTime
    NothingStranded
    AuditMatches
