SPECIFICATION Spec
CONSTANTS
    a1 = a1  a2 = a2  t1 = t1
    Action = {a1}
    Target = {t1}
    TargetOf <- OneTarget
    Executor = {e1}
    Worker = {w1}
    None = None
    TTL = 2
    LockTTL = 2
    MaxRetries = 1
    MaxUndos = 3
    MaxStall = 1
    MaxCrashes = 1
    StoreMayFail = FALSE
INVARIANTS
    RollbackAttemptsBounded
CHECK_DEADLOCK FALSE
