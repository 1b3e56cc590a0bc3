\* The empty string is among the room names a client may ask for.
CONSTANTS
    Clients = {c1, c2, c3}
    LoggedIn = {c1, c2}
    RoomIDs = {r1, nobody}
    NoRoom = nobody
    Names = {"n"}
    Modes = {"stun", "turn"}
    AuthMode = "turn"
    TurnExternal = FALSE
    MaxBatches = 3
SPECIFICATION Spec
INVARIANT EveryRoomIsAttended
CHECK_DEADLOCK FALSE
