SPECIFICATION Spec
CONSTANTS
    Profiles <- HandledProfiles
    Freeform = {1}
INVARIANTS
    DownstreamIsLegal
    AnswerIsWhole
    EndIsTold
    SameAsWhole
    SuccessIsEarned
    EndRepeatsItems
CHECK_DEADLOCK FALSE
