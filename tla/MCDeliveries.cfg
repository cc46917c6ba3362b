SPECIFICATION Spec
CONSTANTS
    w = w
    t = t
    o = o
    r = r
    Ids = {w, t, r}
    Kind <- MCKind
    MaxSeq = 2
    MaxStops = 1
    MaxFaults = 2
    LateCalls = FALSE
    RepeatCrossing = FALSE
INVARIANTS
    TypeOK
    OwedHasWake
PROPERTY
    KeepsPromise
CHECK_DEADLOCK FALSE
