SPECIFICATION Spec
CONSTANTS
    Nonces = {n1, n2}
    Workers = {w1, w2}
    NONCE_LIFETIME = 1
    MaxTime = 3
    None = None
INVARIANTS
    TypeOK
    AcceptedOnce
    HandedOutStaysUsable
SYMMETRY Symmetry
CHECK_DEADLOCK FALSE
