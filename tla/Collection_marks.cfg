SPECIFICATION Spec

INVARIANT
    MarkedAfterSuccess

CONSTANTS
    Items <- MCItems
    Interval = 10
    Retry = 4
    CycleGap = 2
    Sites <- MCMutedSites
