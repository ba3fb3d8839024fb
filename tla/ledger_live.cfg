SPECIFICATION MCFairSpec
CONSTANTS
    a1 = a1  t1 = t1
    q1 = q1  q2 = q2  c1 = c1  c2 = c2
    Action = {a1}
    Target = {t1}
    TargetOf <- OneTarget
    Executor = {e1, e2}
    Worker = {w1, w2}
    None = None
    TTL = 2
    LockTTL = 2
    MaxRetries = 1
    MaxUndos = 3
    MaxStall = 1
    MaxCrashes = 1
    StoreMayFail = TRUE
    Ingester = {"cycle"}
    Gone = Gone
    Last = 3
    DocTime <- Times
    Key <- Keys
    Severe = {1, 2}
    PageSize = 2
    MaxPages = 1
    Overlap = 1
    Window = 2
    MaxOpen = 1
    NamedAlert = {}
    MaxFaults = 1
    Turn = {"turn1", "turn2"}
    Call = {c1, c2}
    Query = {q1, q2}
    Tool = {"search_alerts", "get_alert"}
    ToolOf <- OneTool
    Limit = 2
    MaxRounds = 2
    History = FALSE
    Overlapping = FALSE
    ClientFails = FALSE
    MaxTotal = 6
    MaxSize = 3
    PageLimit = 4
    MaxOffset = 8
    MaxChars = 6
    Halvings = 3
INVARIANTS
    LateAndSevereAreTaken
    AnswersAreAccountedFor
PROPERTIES
    EverythingEnds
CHECK_DEADLOCK FALSE
