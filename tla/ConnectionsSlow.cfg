\* Two connections; sends to a slow client may be dropped.
CONSTANTS
    Clients = {c1, c2}
    MaxSends = 2
    MayDrop = TRUE
SPECIFICATION FairSpec
INVARIANTS
    NothingForTheDead
    FailuresAreReported
PROPERTIES
    BrokenConnectionsLeave
CHECK_DEADLOCK FALSE
