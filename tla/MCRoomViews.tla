---------------------------- MODULE MCRoomViews ----------------------------
(* RoomViews on small sets: which permutations of the names are symmetries. *)
EXTENDS RoomViews, TLC

\* Connections are alike if they agree on being logged in; user names are.
Symmetry ==
    {p \in Permutations(Clients) : {p[c] : c \in LoggedIn} = LoggedIn}
        \cup Permutations(Names)
=============================================================================
