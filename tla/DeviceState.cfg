SPECIFICATION DeviceSpec
CONSTANTS
    Groups = {}
    Series = {}
    groupOf <- MCGroupOf
    rivals <- MCRivals
    Intervals = {1}
    Multiplier = 2
    Period = 1
    Slack = 1
    Drops = TRUE
    Budget = 1
    AgeCap = 4
    RanCap = 3
    d1 = d1
    n1 = n1
    n2 = n2
    Devices = {d1}
    Networks = {n1, n2}
    Names = {"core", "edge"}
    Changes = 2
INVARIANTS
    DeviceInv
PROPERTIES
    WebhookFollowsPoll
    Reconverges
