SPECIFICATION Spec
CONSTANTS
    a = a
    Jobs = {a}
    Kinds = {"search", "command"}
    Cap = 1
    MaxEpoch = 2
    MaxFaults = 1
INVARIANTS
    JobOutlivesStop
CHECK_DEADLOCK FALSE
