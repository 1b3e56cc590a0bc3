----------------------------- MODULE RoomViews -----------------------------
(***************************************************************************)
(* What the clients can know of the rooms.  The messages of a handler are  *)
(* the only thing a browser sees of the registry; this module adds to Rooms *)
(* what each client can conclude from the messages sent to it so far, as   *)
(* history variables: they read outbox' and never constrain a step.        *)
(* Messages that are sent and then lost (the write loop of a client does   *)
(* not take them within two seconds) are a matter of module Connections.   *)
(***************************************************************************)
EXTENDS Rooms

VARIABLES
    view,   \* the last room message to a client; NoView before the first
    told,   \* the sessions announced to a client and not ended for it
    closed  \* the clients that were sent CloseWriter

views == <<view, told, closed>>

NoView == [room |-> NoRoom, users |-> << >>]

Mail(box, c, type) ==
    {m \in UNION {box[i] : i \in DOMAIN box} : m.to = c /\ m.type = type}

LastRoomMessage(box, c) ==
    LET carries(i) == \E m \in box[i] : m.to = c /\ m.type = "room"
        last == CHOOSE i \in DOMAIN box :
                    carries(i) /\ \A j \in DOMAIN box : carries(j) => j <= i
    IN  CHOOSE m \in box[last] : m.to = c /\ m.type = "room"

Look(c) ==
    IF Mail(outbox', c, "room") = {}
    THEN view[c]
    ELSE LET m == LastRoomMessage(outbox', c)
         IN  [room |-> m.room, users |-> m.users]

Sids(box, c, type) == {m.sid : m \in Mail(box, c, type)}

Sharing(users, c) == c \in DOMAIN users /\ users[c].streaming

\* A client closes the sessions it hosts itself when it stops sharing
\* (stopShare, ui/src/useRoom.ts:364-368).
Listen(c) ==
    {s \in (told[c] \cup Sids(outbox', c, "hostsession")
                    \cup Sids(outbox', c, "clientsession"))
               \ Sids(outbox', c, "endshare") :
        s.host = c => Sharing(Look(c).users, c)}

\* (What a closed client once knew is forgotten, to have fewer states.)
Observe ==
    /\ closed' = closed \cup {c \in Clients : Mail(outbox', c, "closewriter") # {}}
    /\ view' = [c \in Clients |-> IF c \in closed' THEN NoView ELSE Look(c)]
    /\ told' = [c \in Clients |-> IF c \in closed' THEN {} ELSE Listen(c)]

ViewInit ==
    /\ Init
    /\ view = [c \in Clients |-> NoView]
    /\ told = [c \in Clients |-> {}]
    /\ closed = {}

ViewNext == Next /\ Observe

ViewSpec == ViewInit /\ [][ViewNext]_<<vars, views>>

-----------------------------------------------------------------------------
(* Properties *)

\* Every member of a room has been sent the room as it is: whatever changes
\* who is in it, who shares or what they are called is broadcast before the
\* next message is handled.  A client outside has seen no room.
ViewIsCurrent ==
    \A c \in DOMAIN connected :
        view[c] = IF connected[c] = NoRoom
                  THEN NoView
                  ELSE [room |-> connected[c], users |-> Room(c).users]

\* A client knows exactly the live sessions it is an end of: each was
\* announced to both its ends, and its end to the one that did not cause it.
SessionsAreTold ==
    \A c \in DOMAIN connected :
        told[c] = IF connected[c] = NoRoom THEN {} ELSE SessionsWith(Room(c), c)

\* A client is sent CloseWriter exactly if it has lost its place in
\* Rooms.connected: nobody is dropped without its write loop being told, and
\* nobody is told who still counts as connected.
ClosedAreGone == closed = arrived \ DOMAIN connected

\* CloseWriter is the last thing a client is sent, and it is sent once.
NothingAfterClose ==
    [][\A i \in DOMAIN outbox' : \A m \in outbox'[i] :
          /\ m.to \notin closed
          /\ \A j \in 1..i-1 :
                [to |-> m.to, type |-> "closewriter"] \notin outbox'[j]]_<<vars, views>>

\* The first message a client gets is a room (or the end of its connection):
\* the UI gives up on anything else (ui/src/useRoom.ts:184-196).
RoomComesFirst ==
    [][\A c \in Clients : \A i \in DOMAIN outbox' : \A m \in outbox'[i] :
          (m.to = c /\ view[c] = NoView /\ m.type \notin {"room", "closewriter"})
              => \E j \in 1..i-1 : \E n \in outbox'[j] :
                    n.to = c /\ n.type = "room"]_<<vars, views>>
=============================================================================
