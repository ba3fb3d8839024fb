SPECIFICATION PartsSpec
CONSTANTS
    Session = {s1, s2}
    Resource = {r1, r2}
    Duration = {1, 2}
    MaxClock = 4
    MaxToken = 3
    None = None
    Gone = Gone
    \* Two processes ask for one alert, which has an old escalated row.
    Call = {"c1", "c2"}
    Alert = {"alert"}
    Investigation = {"i1", "i2", "old"}
    Legacy = {"old"}
    Migrated = TRUE
    Crashes = TRUE
    \* Two cycles over two documents, with one fault.
    Worker = {"w1", "w2"}
    Last = 2
    DocTime <- TwoTimes
    Key <- TwoKeys
    Severe = {1}
    PageSize = 2
    MaxPages = 1
    Overlap = 1
    Window = 2
    MaxOpen = 2
    NamedAlert = {1}
    MaxFaults = 1
    \* Three triages of one finding and a reviewer; as many references fit as there are alerts.
    Writer = {"w1", "w2", "w3"}
    Reviewer = {"r1"}
    AlertTime = {1, 2}
    RefLimit = 2
    Org = {"org-a"}
    Verdict = {"malicious"}
    \* Two checks, filtered or not, and one record of each kind.
    Checker = {"k1", "k2"}
    AlertRow = {"alert"}
    Finding = {"finding"}
    Analysis = {"analysis"}
    Scope <- Scopes
    Hours = {2}
    MaxTime = 4
    AuditFails = TRUE
    Overlapping = TRUE
INVARIANTS
    TypeOK
    ExclusiveOwnership
    RunningLeaseIsBacked
    OneActivePerAlert
    AlertsAreNewOnce
    FindingIsOfItsAlerts
    NothingSlips
PROPERTIES
    OnlyTheHolderEndsALease
    ImplementsOwnership
    LatecomersDoNoHarm
CHECK_DEADLOCK FALSE
