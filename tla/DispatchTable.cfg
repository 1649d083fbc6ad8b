SPECIFICATION Spec
CONSTANTS
    Reqs = {r1, r2}
    Accounts = {1, 2}
    Priority <- Equal
    Sessions = {1, 2, 3}
    RoundRobin = TRUE
    Affinity = TRUE
    MaxBindings = 2
    TTL = 2
    Pause = 1
    Fresh = 4
    Env = {"delete"}
    Results = {"ok"}
    MaxPicks = 3
    MaxTime = 3
SYMMETRY Symmetry
INVARIANTS TypeOK NoRepeat RoundRobinShares OneAccountPerConversation
PROPERTIES LiveBindingsSurvive
CHECK_DEADLOCK FALSE
