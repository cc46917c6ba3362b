SPECIFICATION Spec
CONSTANTS
    t1 = t1
    t2 = t2
    Turns = {t1, t2}
    TurnOf <- SecondRetried
    MaxRuns = 3
    MaxStops = 1
    MaxFaults = 0
INVARIANT
    RetryRuns
CHECK_DEADLOCK FALSE
