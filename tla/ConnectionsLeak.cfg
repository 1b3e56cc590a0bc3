\* Does the write loop end after an error when sends may be dropped?
CONSTANTS
    Clients = {c1}
    MaxSends = 3
    MayDrop = TRUE
SPECIFICATION FairSpec
PROPERTY WriteLoopExitsOnErrors
CHECK_DEADLOCK FALSE
