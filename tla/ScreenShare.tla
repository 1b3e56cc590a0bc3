---------------------------- MODULE ScreenShare ----------------------------
(***************************************************************************)
(* What screego promises its users, without sessions, messages, owners'    *)
(* records or credentials: a visitor enters at most one room, and watches  *)
(* everybody who shares a screen there, from the moment both are there and *)
(* one shares until one of them leaves or the sharing stops.  RoomsPromise *)
(* shows that the room registry implements this.                           *)
(***************************************************************************)
CONSTANTS Clients, RoomIDs, NoRoom

VARIABLES
    place,    \* the visitors, each with its room or NoRoom
    gone,     \* the visitors that have left
    keepers,  \* visitors whose leaving ends their room
    sharing,  \* visitors that share their screen
    watching  \* pairs <<sharer, viewer>>

promised == <<place, gone, keepers, sharing, watching>>

Members(r) == {c \in DOMAIN place : place[c] = r}

Move(c, r) == place' = [x \in DOMAIN place \cup {c} |-> IF x = c THEN r ELSE place[x]]

Arrive(c) ==
    /\ c \notin DOMAIN place \cup gone
    /\ Move(c, NoRoom)
    /\ UNCHANGED <<gone, keepers, sharing, watching>>

\* Only who opens a room can be its keeper.
Enter(c, r, keeps) ==
    /\ c \in DOMAIN place
    /\ place[c] = NoRoom
    /\ keeps => Members(r) = {}
    /\ Move(c, r)
    /\ keepers' = IF keeps THEN keepers \cup {c} ELSE keepers
    /\ watching' = watching \cup ((sharing \cap Members(r)) \X {c})
    /\ UNCHANGED <<gone, sharing>>

Share(c) ==
    /\ c \in DOMAIN place
    /\ place[c] # NoRoom
    /\ sharing' = sharing \cup {c}
    /\ watching' = watching \cup ({c} \X (Members(place[c]) \ {c}))
    /\ UNCHANGED <<place, gone, keepers>>

Stop(c) ==
    /\ c \in DOMAIN place
    /\ place[c] # NoRoom
    /\ sharing' = sharing \ {c}
    /\ watching' = {p \in watching : p[1] # c}
    /\ UNCHANGED <<place, gone, keepers>>

Leave(c) ==
    /\ c \in DOMAIN place
    /\ LET out == IF c \in keepers THEN Members(place[c]) ELSE {c}
       IN  /\ place' = [x \in DOMAIN place \ out |-> place[x]]
           /\ gone' = gone \cup out
           /\ keepers' = keepers \ out
           /\ sharing' = sharing \ out
           /\ watching' = {p \in watching : p[1] \notin out /\ p[2] \notin out}

Init ==
    /\ place = << >>
    /\ gone = {}
    /\ keepers = {}
    /\ sharing = {}
    /\ watching = {}

Next ==
    \E c \in Clients :
        \/ Arrive(c)
        \/ \E r \in RoomIDs, keeps \in BOOLEAN : Enter(c, r, keeps)
        \/ Share(c)
        \/ Stop(c)
        \/ Leave(c)

Spec == Init /\ [][Next]_promised
=============================================================================
