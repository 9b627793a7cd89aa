SPECIFICATION FairSpec
CONSTANTS
    Orders = {o1}
    Names = {addr}
    Wildcards = {}
    Addresses = {addr}
    Accounts = {a1}
    Workers = {w1, w2}
    OrderLifetime = 1
    AuthzLifetime = 1
    MaxTime = 1
    MaxFaults = 1
CHECK_DEADLOCK FALSE
PROPERTIES
    ImplementsLifecycle
    ChallengeFinal
    ChallengeSettles
    ClaimEnds
