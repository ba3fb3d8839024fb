SPECIFICATION Spec
CONSTANTS
    a1 = a1  a2 = a2  t1 = t1
    Action = {a1}
    Target = {t1}
    TargetOf <- OneTarget
    Executor = {e1, e2}
    Worker = {w1, w2}
    None = None
    TTL = 2
    LockTTL = 1
    MaxRetries = 1
    MaxUndos = 3
    MaxStall = 2
    MaxCrashes = 1
    StoreMayFail = TRUE
INVARIANTS
    TypeOK
    AtMostOneForwardCall
    RolledBackIsLifted
    RecoveryWaitsForExpiry
PROPERTIES
    VerdictsStand
SYMMETRY Twins
CHECK_DEADLOCK FALSE
