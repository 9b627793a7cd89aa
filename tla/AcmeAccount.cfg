SPECIFICATION Spec
CONSTANTS
    Keys = {k1, k2}
    Issuers = {i1}
    EabKeys = {e1}
    EabIssuer <- OneDirectory
    Workers = {w1, w2}
    MaxAccounts = 2
    MaxFaults = 1
    None = None
SYMMETRY SymmetricKeys
CHECK_DEADLOCK FALSE
INVARIANTS
    UnboundIsInFlight
    LoggedIsKept
PROPERTIES
    BindingFinal
    DeactivationFinal
