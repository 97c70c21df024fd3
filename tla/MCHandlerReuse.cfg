SPECIFICATION HandlerSpec
CONSTANTS
    Machines = {m1, m2}
    m1 = m1
    m2 = m2
    Apns = {"default", "mms"}
    Cids = {1}
    DisconnectReasons = {"CLEAR"}
    FailReasons = {"BARRED"}
    RadioResults = {"active", "error"}
    MaxErrSetChdataCnt = 5
    RadioPrompt = TRUE
    InOrder = TRUE
    ClockSteady = TRUE
    MaxConnectId = 2
    MaxDeferred = 2
    SortApnHolder <- SortMms
    Priority <- MCPriority
    Serves <- MCServes
    DefaultRoles = {"default"}
    MultiDefaultRoles = {}
    MmsRoles = {"mms"}
    SingleConnection = FALSE
    CidReuse = FALSE
    Disturbances = {}
    Requests <- AllRequests
    MaxHostDeaths = 1
INVARIANT InternetIsAnswered
