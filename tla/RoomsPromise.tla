---------------------------- MODULE RoomsPromise ----------------------------
(* The room registry implements the promise of ScreenShare.                 *)
EXTENDS Rooms

Occupied == DOMAIN rooms

Keepers ==
    UNION {Owners(rooms[r]) : r \in {q \in Occupied : rooms[q].closeOnOwnerLeave}}

Sharing == UNION {Streamers(rooms[r]) : r \in Occupied}

Watching == {<<s.host, s.client>> : s \in UNION {rooms[r].sessions : r \in Occupied}}

Promise == INSTANCE ScreenShare WITH
    place    <- connected,
    gone     <- arrived \ DOMAIN connected,
    keepers  <- Keepers,
    sharing  <- Sharing,
    watching <- Watching

\* Seen through this mapping, every handler makes one step of ScreenShare or
\* changes nothing: all sessions of a share start and end with it, also when
\* the address lookup fails half-way, and a room ends as its creator chose.
KeepsPromise == Promise!Spec
=============================================================================
