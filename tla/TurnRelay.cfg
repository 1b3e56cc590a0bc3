\* One TURN goroutine and the hub, two users, ports 1..3; every lookup that
\* fails is repeated at the next tick.
SPECIFICATION FairSpec
CONSTANTS
    Callers = {hub, udp}
    Hub = hub
    Users = {u1, u2}
    PortSpace = 4
    MaxTries = 2
    V4 = {a4}
    V6 = {a6}
    Nil = Nil
    Second = 0
    Minute = 1
    MaxTime = 1
INVARIANTS
    TypeOK
    RelaysStayInRange
PROPERTIES
    AnnouncedAddressesFit
    RelaysEndWithSessions
