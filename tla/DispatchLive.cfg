SPECIFICATION FairSpec
CONSTANTS
    Reqs = {r1}
    Accounts = {1, 2}
    Priority <- Mixed
    Sessions = {1}
    RoundRobin = TRUE
    Affinity = TRUE
    MaxBindings = 1
    TTL = 2
    Pause = 2
    Fresh = 2
    Env = {"users", "refresh", "cancel", "models", "outage", "guard"}
    Results = {"ok", "auth", "rate", "server", "client"}
    MaxPicks = 3
    MaxTime = 3
INVARIANTS NeverServedWhileShut
PROPERTIES Answered RateLimitRespected
CHECK_DEADLOCK FALSE
