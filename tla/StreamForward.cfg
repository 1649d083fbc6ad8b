SPECIFICATION LiveSpec
CONSTANTS
    s1 = s1
    Streams = {s1}
    Format <- Chat
    MaxFrames = 5
    Room = 2
INVARIANTS
    NoSilentTruncation
    NothingHeld
    QuietAfterClose
PROPERTIES
    CloseReturns
    AbandonedIsReleased
CHECK_DEADLOCK FALSE
