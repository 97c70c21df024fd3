SPECIFICATION Spec
CONSTANTS
    SortApnHolder <- DunAndDefault
    Tables <- ChainTables
    Works = {"a"}
    Rejects = FALSE
    MaxCount = 2
    CreateRetries = 1
    FaultSets = {{}}
    MaxEdits = 0
    MaxFaults = 0
INVARIANT NoSimilarItems
CHECK_DEADLOCK FALSE
