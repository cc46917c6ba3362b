SPECIFICATION Spec
SYMMETRY ResponseSymmetry
CONSTANTS
    Responses = {r1, r2}
    Turns = {t1}
    TurnOf <- MCTurnOf
    Effects = {"event_drain", "sleep_time"}
    Inline = {"event_drain"}
    Sync = {}
    FollowUps = {}
    Coalesced = {"sleep_time"}
    Position <- MCPosition
    Rosters <- MCRosters
    None = None
    Events = {}
    MaxFaults = 0
    MaxTells = 2
INVARIANTS WakeCovers AnsweredOnce
CHECK_DEADLOCK FALSE
