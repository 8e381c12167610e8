CONSTANTS
    Body = 2
    Expand = 2
    Supplies = {3, 4, 5}
    BadUnits = {0, 2}
    InputLimits = {3, 5}
    OutputLimits = {3, 4, 5}
    CallLimits = {2, 6}
    MaxOffer = 2
SPECIFICATION CodecSpec
INVARIANTS FailsForCause NothingLost FinishedIsWhole
PROPERTY CallsGetOn
CHECK_DEADLOCK FALSE
