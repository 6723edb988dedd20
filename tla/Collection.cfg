SPECIFICATION Spec

INVARIANTS
    CollectionInv
    FaultTolerated

PROPERTIES
    Paced
    ItemsServed

CONSTANTS
    Items <- MCItems
    Interval = 10
    Retry = 4
    CycleGap = 2
    Sites <- AllSites
