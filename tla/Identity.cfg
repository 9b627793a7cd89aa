SPECIFICATION Spec
CONSTANTS
    MaxUsers = 2
    MaxPersons = 3
    MaxResets = 1
    Tokens = {t1, t2}
    Workers = {w1, w2}
    MaxFaults = 1
    None = None
SYMMETRY SymmetricRequests
CHECK_DEADLOCK FALSE
INVARIANTS
    OwnSession
    CurrentPassword
    SuperadminRemains
PROPERTY SetupOnlyFirst
