------------------------------ MODULE MCRooms ------------------------------
(* Rooms on small sets: which permutations of the names are symmetries.     *)
EXTENDS RoomsPromise, TLC

\* Connections are alike if they agree on being logged in; room names are.
Symmetry ==
    {p \in Permutations(Clients) : {p[c] : c \in LoggedIn} = LoggedIn}
        \cup Permutations(RoomIDs)
=============================================================================
