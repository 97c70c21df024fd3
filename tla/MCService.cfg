SPECIFICATION Spec
CONSTANTS
    Slots = {0, 1}
    Sims = {1, 2}
    Capability <- MCCapability
    LoadRetryTimes = 2
    BootBudgets <- MCBoot
    RestBudgets <- MCRest
    Apis <- MCApis
    Callers <- MCCallers
INVARIANTS TypeOK SuppliersFollowSims RequestsFollowNet CacheIsCurrent AnswerIsTrue
PROPERTY CardsAreServed
CHECK_DEADLOCK FALSE
