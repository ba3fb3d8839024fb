SPECIFICATION Spec
CONSTANTS
    MaxAttempts = 2
    MaxPlanning = 1
    MaxPolicies = 2
    MaxCollects = 2
    None = None
INVARIANT UnverifiedStaysPending
CHECK_DEADLOCK FALSE
