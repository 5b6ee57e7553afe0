SPECIFICATION LiveSpec
CONSTANTS
    Requesters = {r1, r2}
    Blocking = {0, 2}
    LiteBlocking = {7}
    NonBlocking = {5}
    Ignorable = {2, 5}
    EarlyRequests = FALSE
    MaxIndex = 3
INVARIANTS
    ServedOnReturn
PROPERTIES
    WaitersReleased
    StoppersReleased
