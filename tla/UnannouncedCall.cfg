CONSTANTS
    Profiles <- UnannouncedCalls
    Freeform = {}
SPECIFICATION Spec
INVARIANT FinishedCallsArrive
CHECK_DEADLOCK FALSE
