SPECIFICATION HandlerFairSpec
CONSTANTS
    Machines = {m1, m2}
    m1 = m1
    m2 = m2
    Apns = {"default"}
    Cids = {1, 2}
    DisconnectReasons = {"CLEAR", "HANDOVER"}
    FailReasons = {"BARRED"}
    RadioResults = {"active", "error"}
    MaxErrSetChdataCnt = 5
    RadioPrompt = FALSE
    InOrder = TRUE
    ClockSteady = TRUE
    MaxConnectId = 1
    MaxDeferred = 2
    SortApnHolder <- SortOne
    Priority <- MCPriority
    Serves <- MCServes
    DefaultRoles = {"default"}
    MultiDefaultRoles = {}
    MmsRoles = {}
    SingleConnection = FALSE
    CidReuse = TRUE
    Disturbances = {"clearAll", "establishAll", "hostDied", "modemDrops"}
    Requests <- AllRequests
    MaxHostDeaths = 1
PROPERTY HoldersSettle
