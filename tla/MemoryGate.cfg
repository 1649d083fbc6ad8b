SPECIFICATION FairSpec
CONSTANTS
    Procs = {p1, p2, p3}
    Capacity = 5
    Declared = {2, 3, 5}
    MinWeight = 1
    MaxArrivals = 5
INVARIANTS UsedIsHeld WithinBudget NoLostWakeup
PROPERTIES WaitersGetIn
