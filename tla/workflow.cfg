SPECIFICATION PartsFairSpec
CONSTANTS
    MaxAttempts = 2
    MaxPlanning = 1
    MaxPolicies = 2
    MaxCollects = 2
    None = None
    Undiagnosed = Undiagnosed
    Calls = {"t1", "t2", "t3"}
    Procs = {"p1", "p2"}
    Proc <- ProcOf
    Shared = "shared"
    TokenBudget = 4
    Period = 2
    MaxWait = 1
    Costs = {2, 3, 5}
    Fallback = TRUE
    Flaky = TRUE
    LosesReplies = FALSE
    Core <- CoreTools
    Specialized <- SpecializedTools
    Report = "report"
    SchemaCost <- ToolCosts
    SchemaBudget = 4
    RequestBudget = 13
    SystemCost = 1
    NoticeCost = 2
    Histories <- Talks
    HistoryLimit = 4
    ResultCosts = {1, 2, 4, 5}
    MaxResults = 3
    Invs = {1, 2}
    Contracts = {"ssh", "privilege", "persistence", "vulnerable", "generic"}
    Tops = {"none", "privilege", "persistence", "vulnerable"}
    Agents = {TRUE, FALSE}
    MaxCalls = 4
    Threshold = 75
    Others = 2
    IPs = {"A"}
    Users = {"u", "v"}
    Times = {0, 1}
    Window = 1
    RelatedLimit = 2
    SessionLimit = 2
    ArchiveLimit = 2
    BruteWindow = 1
    BruteFailures = 2
    SprayWindow = 1
    SprayUsers = 2
    SprayFailures = 2
    SuccessWindow = 2
    AdminIPs = {}
    ProtectedIPs = {}
    ProtectedUsers = {}
    Semantic = TRUE
INVARIANTS
    TypeOK
    CompletedMeansContained
    FailedContainmentIsReverted
    AnalysisIsBudgeted
    DiagnosisIsFounded
    ProviderIsPaced
    RequestIsBounded
PROPERTIES
    OnlyApprovedPlansReachWazuh
    DiagnosesStand
    NodesGoOn
CHECK_DEADLOCK FALSE
