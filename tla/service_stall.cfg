SPECIFICATION Spec
CONSTANTS
    Worker = {w1, w2}
    Analyst = {a1}
    w1 = w1  w2 = w2  a1 = a1  a2 = a2
    MaxAttempts = 2
    MaxRequests = 2
    MaxFaults = 1
    None = None
INVARIANT LeaseIsExclusive
CHECK_DEADLOCK FALSE
