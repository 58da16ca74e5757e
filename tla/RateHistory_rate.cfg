CONSTANTS
    None = None
    Slots = 3
    TimersOvertake = TRUE
    MaxSeconds = 6
    MaxResets = 1
    MaxInbox = 2
SPECIFICATION Spec
CONSTRAINT InboxBound
INVARIANTS
    TypeOK
    ReadingsKeepOrder
    NothingFromLater
    RateInv
PROPERTIES
    MeasuredStays
CHECK_DEADLOCK FALSE
