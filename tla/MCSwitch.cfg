SPECIFICATION FairSpec
CONSTANTS
    SortApnHolder <- MCSort
    Policies <- MCPolicies
    Changes <- MCChanges
    MaxChanges = 3
    MaxFaults = 1
INVARIANTS SwitchTypeOK WantedIsUp ForbiddenIsDown CacheFollowsDb
PROPERTY HoldsEnd
CHECK_DEADLOCK FALSE
