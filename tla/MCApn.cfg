SPECIFICATION FairSpec
CONSTANTS
    SortApnHolder <- DunAndDefault
    Tables <- SomeTables
    Works = {"a"}
    Rejects = TRUE
    MaxCount = 2
    CreateRetries = 1
    FaultSets = {{}, {"mvno", "apns"}}
    MaxEdits = 1
    MaxFaults = 1
INVARIANTS TypeOK ListMatchesTable RotationIsFair
PROPERTIES ChosenFits PreferSettles DefaultConnects
CHECK_DEADLOCK FALSE
