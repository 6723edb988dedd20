SPECIFICATION FairSpec
CONSTANTS
    l1 = l1
    l2 = l2
    l3 = l3
    g1 = g1
    h1 = h1
    c1 = c1
    c2 = c2
    c3 = c3
    NoTask = NoTask
    Tasks <- MCTasks
    Collectors = {c1, c2, c3}
    TargetOf <- MCTargetOf
    Forces <- MCForces
    Limit = 2
    MaxRuns = 2
INVARIANTS
    PermitsConserved
    RunsInv
PROPERTIES
    NoStarvation
    ImplementsAdmission
CHECK_DEADLOCK FALSE
