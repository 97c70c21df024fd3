SPECIFICATION HandlerSpec
CONSTANTS
    Machines = {m1, m2}
    m1 = m1
    m2 = m2
    Apns = {"default", "dun"}
    Cids = {c1, c2}
    c1 = c1
    c2 = c2
    DisconnectReasons = {"CLEAR"}
    FailReasons = {"BARRED"}
    RadioResults = {"active"}
    MaxErrSetChdataCnt = 5
    RadioPrompt = TRUE
    InOrder = TRUE
    ClockSteady = TRUE
    MaxConnectId = 1
    MaxDeferred = 2
    SortApnHolder <- SortDun
    Priority <- MCPriority
    Serves <- MCServes
    DefaultRoles = {"default"}
    MultiDefaultRoles = {"dun"}
    MmsRoles = {}
    SingleConnection = FALSE
    CidReuse = TRUE
    Disturbances = {"modemDrops"}
    Requests <- AllOn
    MaxHostDeaths = 1
INVARIANTS
    OwnerOfEveryCall ConnectFindsInactive MapFollowsCalls LinkFollowsCalls
SYMMETRY AnyCid
