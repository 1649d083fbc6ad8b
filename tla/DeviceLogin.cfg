SPECIFICATION Spec
CONSTANTS
    p1 = p1
    p2 = p2
    Procs = {p1, p2}
    MaxSessions = 1
    Lifetime = 3
    Intervals = {1, 2}
    MaxStarts = 3
    MaxTime = 4
SYMMETRY Symmetry
INVARIANTS
    PollHasOwner
    OneAccountPerLogin
    SecretsGo
PROPERTIES
    GitHubNotHurried
CHECK_DEADLOCK FALSE
