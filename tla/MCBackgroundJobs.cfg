SPECIFICATION Spec
CONSTANTS
    a = a
    Jobs = {a}
    Kinds = {"search", "process", "command"}
    Cap = 1
    MaxEpoch = 3
    MaxFaults = 2
INVARIANTS
    TypeOK
    EndsOnce
    HolderSettles
    OneAttempt
    RunningIsCarried
    SettledIsTold
CHECK_DEADLOCK FALSE
