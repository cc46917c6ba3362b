SPECIFICATION FairSpec
CONSTANTS
    Responses = {r1}
    Turns = {t1}
    TurnOf <- MCTurnOf
    Effects = {"task_reminder", "sleep_time"}
    Inline = {"task_reminder"}
    Sync = {"task_reminder"}
    FollowUps = {"task_reminder"}
    Coalesced = {"sleep_time"}
    Position <- MCPosition
    Rosters <- MCRosters
    None = None
    Events = {"question"}
    MaxFaults = 1
    MaxTells = 2
PROPERTIES EffectsFinish ResponsesSettle
CHECK_DEADLOCK FALSE
