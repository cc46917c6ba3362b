SPECIFICATION FairSpec
CONSTANTS
    w = w
    t = t
    o = o
    r = r
    Ids = {o, r}
    Kind <- MCKind
    MaxSeq = 2
    MaxStops = 1
    MaxFaults = 1
    LateCalls = TRUE
    RepeatCrossing = TRUE
INVARIANTS
    RetiredStopIsCut
PROPERTY
    OwedResolves
CHECK_DEADLOCK FALSE
