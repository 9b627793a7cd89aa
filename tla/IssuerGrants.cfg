SPECIFICATION Spec
CONSTANTS
    MaxUsers = 1
    Tokens = {t1}
    Issuers = {i1, i2}
    Workers = {w1, w2}
    None = None
SYMMETRY SymmetricRequests
CHECK_DEADLOCK FALSE
INVARIANTS
    TypeOK
    NoOrphanGrants
PROPERTY UsedWithGrant
