SPECIFICATION FairSpec
CONSTANTS
    Machines = {m1}
    Apns = {"default"}
    Cids = {1, 2}
    DisconnectReasons = {"CLEAR", "HANDOVER"}
    FailReasons = {"BARRED", "ZERO"}
    RadioResults = {"active", "rejected", "error", "chdata"}
    MaxErrSetChdataCnt = 2
    RadioPrompt = FALSE
    InOrder = FALSE
    ClockSteady = TRUE
    MaxConnectId = 2
    MaxDeferred = 1
    m1 = m1
INVARIANTS
    TypeOK
    ContextOfThisCycle
    DeactivatesOwnContext
    WaitIsTimed
PROPERTY WaitsEnd
