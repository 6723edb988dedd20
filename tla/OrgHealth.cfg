SPECIFICATION HealthSpec
CONSTANTS
    Items <- MCItems
    Interval = 10
    Retry = 4
    CycleGap = 2
    Sites <- AllSites
    Domains <- MCDomains
    Global = "global"
    Finally <- MCFinally
    Threshold = 1
    Base = 1
    MaxWait = 2
    FloatLimit = 10
    StreakCap = 2
INVARIANTS
    HealthInv
PROPERTIES
    RetriesSpaced
    Recovers
