SPECIFICATION Spec

PROPERTY
    StampsHonoured

CONSTANTS
    Items <- MCItems
    Interval = 10
    Retry = 4
    CycleGap = 2
    Sites <- MCPortSites
