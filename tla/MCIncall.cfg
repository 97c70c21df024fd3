SPECIFICATION FairSpec
CONSTANTS
    Slot = 3
    PrimarySlot = 0
    TstsMode = TRUE
    MaxCallChanges = 4
    MaxDisturbances = 2
INVARIANTS
    TypeOK
    SecondaryIsWatched
    CurrentStateTellsInit
CHECK_DEADLOCK FALSE
PROPERTY DataReturns
