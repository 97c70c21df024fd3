SPECIFICATION HandlerSpec
CONSTANTS
    Machines = {m1, m2}
    m1 = m1
    m2 = m2
    Apns = {"default", "mms", "supl"}
    Cids = {1}
    DisconnectReasons = {"CLEAR", "CHANGE"}
    FailReasons = {"BARRED"}
    RadioResults = {"active", "error"}
    MaxErrSetChdataCnt = 5
    RadioPrompt = TRUE
    InOrder = TRUE
    ClockSteady = TRUE
    MaxConnectId = 2
    MaxDeferred = 2
    SortApnHolder <- SortSupl
    Priority <- MCPriority
    Serves <- MCServes
    DefaultRoles = {"default"}
    MultiDefaultRoles = {}
    MmsRoles = {"mms"}
    SingleConnection = TRUE
    CidReuse = FALSE
    Disturbances = {"apnChanged"}
    Requests <- AllOn
    MaxHostDeaths = 1
INVARIANTS
    HandlerTypeOK SingleCall RetryIsScheduled
