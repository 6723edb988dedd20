SPECIFICATION FairSpec
CONSTANTS
    Groups <- MCGroups
    Stages <- MCStages
    Strict = {"first"}
    Unconditional = {}
    PrefetchFails = TRUE
    Floor <- MCFloor
    Plans <- MCPlans
    Retry = 3
    ResolveCap = 3
    Timeout = 1
    AgeCap = 4
INVARIANTS
    LoopInv
    NeverOversleeps
PROPERTIES
    PollRateBounded
    GroupsServed
