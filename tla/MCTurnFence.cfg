SPECIFICATION Spec
CONSTANTS
    t1 = t1
    t2 = t2
    Turns = {t1, t2}
    TurnOf <- Retried
    MaxRuns = 2
    MaxStops = 1
    MaxFaults = 1
INVARIANTS
    TypeOK
    StaysStopped
    LiveIsOpen
    WorkInOrder
CHECK_DEADLOCK FALSE
