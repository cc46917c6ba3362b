SPECIFICATION Spec
SYMMETRY ResponseSymmetry
CONSTANTS
    Responses = {r1, r2}
    Turns = {t1}
    TurnOf <- MCTurnOf
    Effects = {"sleep_time"}
    Inline = {}
    Sync = {}
    FollowUps = {}
    Coalesced = {"sleep_time"}
    Position <- MCPosition
    Rosters <- MCRosters
    None = None
    Events = {"refusal", "tool"}
    MaxFaults = 1
    MaxTells = 2
INVARIANTS TypeOK ParkedWaitsOnOwner SettledOwesNothing OneCoalesced ReceiptsKept
CHECK_DEADLOCK FALSE
