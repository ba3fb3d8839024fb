SPECIFICATION PartsFairSpec
CONSTANTS
    Worker = {w1, w2}
    Analyst = {a1}
    w1 = w1  w2 = w2  a1 = a1
    MaxAttempts = 2
    MaxRequests = 2
    MaxFaults = 1
    None = None
    Drivers = {"d1", "d2"}
    NoDriver = NoDriver
    Labels = {"node", "nested"}
    Deep = {"nested"}
    Requested = "requested"
    Window = 3
    Page = 2
    MaxEvents = 4
    MaxBeside = 2
    MaxSaves = 2
    Cases = {"case"}
    Alerts = {"alert"}
    CheckpointAge = 1
    CaseAge = 2
    MaxTime = 3
    Turn = {"t1", "t2", "t3"}
    Alert = {"a1"}
    Finding = {"f1"}
    Investigation = {"i1", "i2"}
    Indexed = {"a1"}
    Represents <- Represented
    Message <- Said
    Listing <- Listings
    ListLimit = 4
    Recent = 3
    RefLimit = 3
    Crowd = {"t1", "t2"}
    Address = "ip"
INVARIANTS
    TypeOK
    OnlyALapseSharesTheThread
    NoRestartAfterResponse
    TrailIsWhole
    RetentionSparesTheLive
    ConversationIsWhole
PROPERTIES
    SnapshotNeverGoesBack
    InvestigationIsTakenUp
    MovesAreAccountedFor
CHECK_DEADLOCK FALSE
