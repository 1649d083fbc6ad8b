SPECIFICATION FairSpec
CONSTANTS
    Procs = {p1, p2}
    Idents = {i1}
    Controls = {FALSE}
    Marks <- MigratedMarks
    Resets = {0, 2, 3}
    Ops = {"import", "delete", "quota"}
    IOFaults = TRUE
    MaxGen = 2
    MaxVer = 1
    MaxTime = 2
    Nobody = Nobody
INVARIANTS
    FlightHasOwner
    OnlyMappedIsLive
PROPERTIES
    RetiredIsFrozen
    ObjectsLatch
    FlightsLand
CHECK_DEADLOCK FALSE
