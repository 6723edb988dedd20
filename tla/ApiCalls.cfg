SPECIFICATION FairSpec
CONSTANTS
    Fetches = {f1, f2}
    Workers = {w1, w2}
    Calls = 2
    MaxRetries = 1
    DecoratorRetries = 1
    Deadline = 2
    MaxPause = 1
INVARIANTS
    CallsInv
PROPERTIES
    EveryFetchEnds
