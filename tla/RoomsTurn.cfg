\* Three connections, one of them a guest, two rooms, AuthMode "turn".
CONSTANTS
    Clients = {c1, c2, c3}
    LoggedIn = {c1, c2}
    RoomIDs = {r1, r2}
    NoRoom = nobody
    Names = {"n"}
    Modes = {"stun", "turn"}
    AuthMode = "turn"
    TurnExternal = FALSE
    MaxBatches = 3
SPECIFICATION Spec
SYMMETRY Symmetry
INVARIANTS
    TypeOK
    MembershipAgrees
    RoomsAreOwned
    StreamsAreSessions
    CredentialsMatchSessions
    CredentialsNeedLogin
    NeverPanics
    GaugesBalance
PROPERTIES
    OnlyOwnersEvict
    KeepsPromise
CHECK_DEADLOCK FALSE
