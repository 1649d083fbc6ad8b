SPECIFICATION Spec
CONSTANTS
    Reqs = {r1}
    Accounts = {1, 2, 3}
    Priority <- Mixed
    Sessions = {1}
    RoundRobin = TRUE
    Affinity = FALSE
    MaxBindings = 1
    TTL = 2
    Pause = 2
    Fresh = 2
    Env = {"guard"}
    Results = {"ok"}
    MaxPicks = 2
    MaxTime = 1
INVARIANTS RoundRobinShares
CHECK_DEADLOCK FALSE
