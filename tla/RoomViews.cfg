\* Login for everything and a mode the UI never asks for: four connections, one
\* of them a guest, one room, two names.
CONSTANTS
    Clients = {c1, c2, c3, c4}
    LoggedIn = {c1, c2, c3}
    RoomIDs = {r1}
    NoRoom = nobody
    Names = {n1, n2}
    Modes = {"p2p"}
    AuthMode = "all"
    TurnExternal = FALSE
    MaxBatches = 3
SPECIFICATION ViewSpec
SYMMETRY Symmetry
INVARIANTS
    ViewIsCurrent
    SessionsAreTold
    ClosedAreGone
    GuestsStayOut
PROPERTIES
    NothingAfterClose
    RoomComesFirst
CHECK_DEADLOCK FALSE
