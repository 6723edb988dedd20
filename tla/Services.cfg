SPECIFICATION FairServices
CONSTANTS
    Groups <- MCGroups
    Rank <- MCRank
    Priority <- MCPriority
    Gated <- MCGated
    Toggled <- MCToggled
    Floor <- MCFloor
    Cost <- MCCost
    Pins <- MCPins
    MaxStretch = 3
    MaxInterval = 96
    Budgets = {100, 200, 300, 420, 540, 640, 820}
    Mode = "adaptive"
    Scale = 864
    Callers = {c1, c2, c3}
    Keys = {"org"}
    One = 4
    Burst = 8
    Conf = 4
    FloorRate = 1
    Recovery = 1
    Cooldown = 2
    Jitter = 1
    AgeCap = 8
    Alerts = {a1, a2, a3}
    Window = 2
    Skew = 1
    TTL = 4
    MaxEntries = 2
    Jobs = {j1, j2, j3, j4}
    MaxConcurrency = 2
    Collectors = {"clients", "devices"}
    Workers = 1
    n1 = n1
    n2 = n2
    Networks = {n1, n2}
    ClientIds = {client1, client2, client3}
    Movers = {client1, client2}
    PerNetwork = 2
    InAll = 3
    StoreTTL = 1
    Addresses = {"a1", "a2"}
    NameEntries = 1
    NameTTL = 1
    Lookups = 1
    MaxList <- MCMaxList
INVARIANTS
    PrioritiesKept
    FitsOrExhausted
    LimiterInv
    GroupInv
    ClientsInv
    LifecycleInv
PROPERTIES
    BackPressureMonotone
    ResolveReturns
    TokensFlow
    AgainOnlyAfterOthers
    GathersEnd
    LeftOutOnlyWhenFull
    StaleNetworksGo
    ShutdownEnds
CHECK_DEADLOCK FALSE
