SPECIFICATION FairSpec
CONSTANTS
    RECOVERY_TRIGGER_PACKET = 1
    MaxCalls = 2
    MaxDisturbances = 4
INVARIANTS
    TypeOK
    DetectionIsArmed
    ConnectedIsMonitored
PROPERTY StallIsRecovered
CHECK_DEADLOCK FALSE
