SPECIFICATION ExpirySpec
CONSTANTS
    Groups <- MCGroups
    Series <- MCSeries
    groupOf <- MCGroupOf
    rivals <- MCRivals
    Intervals = {2, 3}
    Multiplier = 2
    Period = 1
    Slack = 1
    Drops = TRUE
    Budget = 2
    AgeCap = 8
    RanCap = 5
    d1 = d1
    n1 = n1
    n2 = n2
    Devices = {}
    Networks = {n1}
    Names = {"core"}
    Changes = 0
INVARIANTS
    RegistrySound
    ReportedStays
PROPERTIES
    ShedSound
