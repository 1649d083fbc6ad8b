SPECIFICATION Spec
CONSTANTS
    Procs = {p1}
    Idents = {i1, i2}
    Controls = {TRUE, FALSE}
    Marks <- NoMarks
    Resets = {2, 3}
    Ops = {"import", "update", "delete", "quota", "refresh", "crash"}
    IOFaults = TRUE
    MaxGen = 2
    MaxVer = 1
    MaxTime = 2
    Nobody = Nobody
INVARIANTS
    DiskIsCurrent
    ControlsAreDurable
    BlockIsDurable
PROPERTIES
    CredentialLatch
CHECK_DEADLOCK FALSE
