SPECIFICATION FairSpec
CONSTANTS
    Pids = {p1, p2}
    Gens = {1, 2}
    Serials = {1, 2, 3}
    NoGen = NoGen
    NoToken = NoToken
    NoRow = NoRow
    MaxDriving = 1
    ProbeFails = FALSE
INVARIANTS TypeOK InteractiveExclusive
PROPERTIES LiveOwnerKeepsRow StaleRowReplaced
