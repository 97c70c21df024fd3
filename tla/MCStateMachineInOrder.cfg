SPECIFICATION Spec
CONSTANTS
    Machines = {m1}
    Apns = {"default"}
    Cids = {1, 2}
    DisconnectReasons = {"CLEAR", "HANDOVER"}
    FailReasons = {"BARRED"}
    RadioResults = {"active", "rejected", "error", "chdata"}
    MaxErrSetChdataCnt = 2
    RadioPrompt = FALSE
    InOrder = TRUE
    ClockSteady = FALSE
    MaxConnectId = 2
    MaxDeferred = 2
    m1 = m1
INVARIANT ReportsOwnAnswer
PROPERTY ImplementsDataCall
