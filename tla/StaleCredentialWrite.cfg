SPECIFICATION Spec
CONSTANTS
    Procs = {p1, p2}
    Idents = {i1, i2}
    Controls = {FALSE}
    Marks <- NoMarks
    Resets = {}
    Ops = {"import", "refresh"}
    IOFaults = FALSE
    MaxGen = 2
    MaxVer = 1
    MaxTime = 1
    Nobody = Nobody
INVARIANT DiskIsCurrent
CHECK_DEADLOCK FALSE
