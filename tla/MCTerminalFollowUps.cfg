SPECIFICATION Spec
SYMMETRY ResponseSymmetry
CONSTANTS
    Responses = {r1, r2}
    Turns = {t1}
    TurnOf <- MCTurnOf
    Effects = {"task_reminder"}
    Inline = {"task_reminder"}
    Sync = {"task_reminder"}
    FollowUps = {"task_reminder"}
    Coalesced = {}
    Position <- MCPosition
    Rosters <- MCRosters
    None = None
    Events = {"question"}
    MaxFaults = 1
    MaxTells = 2
INVARIANTS WakeCovers ParkedWaitsOnOwner FollowUpOnce
CHECK_DEADLOCK FALSE
