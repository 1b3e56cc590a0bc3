\* Two connections; every write loop is back from a write before a send to it
\* times out.
CONSTANTS
    Clients = {c1, c2}
    MaxSends = 2
    MayDrop = FALSE
SPECIFICATION FairSpec
PROPERTIES
    RemovedClientsEnd
    HubReturns
