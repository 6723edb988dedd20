SPECIFICATION FairSpec
CONSTANTS
    Readers = {r1, r2}
    Forcers = {r2}
    Kinds = {"networks", "devices", "availabilities"}
    Networks = "networks"
    FilterOutside = {"devices"}
    FilterInside = {"availabilities"}
    FilterActive = TRUE
    Early <- MCEarly
    Late <- MCLate
    Deadline = 1
    MayCancel = TRUE
    AgeCap = 2
INVARIANTS
    AnswersSound
    SingleFlight
PROPERTIES
    ReadsEnd
