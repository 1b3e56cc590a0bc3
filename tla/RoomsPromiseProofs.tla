------------------------- MODULE RoomsPromiseProofs -------------------------
(***************************************************************************)
(* The room registry implements ScreenShare.  In a sound registry what     *)
(* ScreenShare speaks of is decided by Rooms.connected and by the record   *)
(* each user has in its room (Viewed).  So it is enough to know, of every  *)
(* handler, whose place changes and whose record does (Kept).              *)
(***************************************************************************)
EXTENDS RoomsProofs, RoomsPromise

-----------------------------------------------------------------------------
(* What ScreenShare sees of a hub state *)

KeepersOf(h) ==
    UNION {Owners(h.rooms[r]) :
              r \in {q \in DOMAIN h.rooms : h.rooms[q].closeOnOwnerLeave}}

SharingOf(h) == UNION {Streamers(h.rooms[r]) : r \in DOMAIN h.rooms}

WatchingOf(h) ==
    {<<s.host, s.client>> : s \in UNION {h.rooms[r].sessions : r \in DOMAIN h.rooms}}

\* The same, user by user.
InRoom(h, u) == u \in DOMAIN h.connected /\ h.connected[u] # NoRoom

RoomOf(h, u) == h.rooms[h.connected[u]]

Keeps(h, u) ==
    InRoom(h, u) /\ RoomOf(h, u).users[u].owner /\ RoomOf(h, u).closeOnOwnerLeave

Shares(h, u) == InRoom(h, u) /\ RoomOf(h, u).users[u].streaming

Views(h, u, v) ==
    Shares(h, u) /\ u # v /\ v \in DOMAIN h.connected /\ h.connected[v] = h.connected[u]

Viewed(h) ==
    /\ KeepersOf(h) = {u \in Clients : Keeps(h, u)}
    /\ SharingOf(h) = {u \in Clients : Shares(h, u)}
    /\ WatchingOf(h) = {p \in Clients \X Clients : Views(h, p[1], p[2])}

\* A client that is in a room is one of its users, and only there.
LEMMA PlacedInside ==
    ASSUME NoRoom \notin RoomIDs, NEW h, Typed(h), Placed(h)
    PROVE  /\ DOMAIN h.connected \subseteq Clients
           /\ DOMAIN h.rooms \subseteq RoomIDs
           /\ \A u \in Clients : InRoom(h, u) =>
                 /\ h.connected[u] \in DOMAIN h.rooms
                 /\ u \in DOMAIN RoomOf(h, u).users
           /\ \A r \in DOMAIN h.rooms : \A u \in DOMAIN h.rooms[r].users :
                 u \in Clients /\ InRoom(h, u) /\ h.connected[u] = r
<1>1. /\ DOMAIN h.connected \subseteq Clients
      /\ DOMAIN h.rooms \subseteq RoomIDs
      /\ \A u \in DOMAIN h.connected : h.connected[u] \in RoomIDs \cup {NoRoom}
  BY DEF Typed, IsMap
<1>2. \A r \in DOMAIN h.rooms : DOMAIN h.rooms[r].users \subseteq Clients
  BY RoomFields DEF IsMap
<1>3. \A u \in Clients, r \in RoomIDs :
         Inside(h, r, u) <=> (u \in DOMAIN h.connected /\ h.connected[u] = r)
  BY DEF Placed
<1>4. \A u \in Clients : InRoom(h, u) =>
         /\ h.connected[u] \in DOMAIN h.rooms
         /\ u \in DOMAIN RoomOf(h, u).users
  BY <1>1, <1>3 DEF Inside, InRoom, RoomOf
<1>5. ASSUME NEW r \in DOMAIN h.rooms, NEW u \in DOMAIN h.rooms[r].users
      PROVE  u \in Clients /\ InRoom(h, u) /\ h.connected[u] = r
  BY <1>1, <1>2, <1>3 DEF Inside, InRoom
<1>6. QED
  BY <1>1, <1>4, <1>5

\* In a sound registry the sessions are those of the users who share with the
\* others of their room, so the whole view depends on places and users only.
LEMMA SoundViewed ==
    ASSUME NoRoom \notin RoomIDs, NEW h, Typed(h), Sound(h)
    PROVE  Viewed(h)
<1>1. /\ \A u \in Clients : InRoom(h, u) =>
            h.connected[u] \in DOMAIN h.rooms /\ u \in DOMAIN RoomOf(h, u).users
      /\ \A r \in DOMAIN h.rooms : \A u \in DOMAIN h.rooms[r].users :
            u \in Clients /\ InRoom(h, u) /\ h.connected[u] = r
      /\ DOMAIN h.connected \subseteq Clients
  BY PlacedInside DEF Sound
<1>2. KeepersOf(h) = {u \in Clients : Keeps(h, u)}
  <2>1. ASSUME NEW u \in KeepersOf(h)
        PROVE  u \in Clients /\ Keeps(h, u)
    <3>1. PICK r \in DOMAIN h.rooms :
             h.rooms[r].closeOnOwnerLeave /\ u \in Owners(h.rooms[r])
      BY DEF KeepersOf
    <3>2. QED BY <1>1, <3>1 DEF Owners, Keeps, RoomOf
  <2>2. ASSUME NEW u \in Clients, Keeps(h, u)
        PROVE  u \in KeepersOf(h)
    BY <1>1, <2>2 DEF Keeps, RoomOf, KeepersOf, Owners
  <2>3. QED BY <2>1, <2>2
<1>3. SharingOf(h) = {u \in Clients : Shares(h, u)}
  <2>1. ASSUME NEW u \in SharingOf(h)
        PROVE  u \in Clients /\ Shares(h, u)
    <3>1. PICK r \in DOMAIN h.rooms : u \in Streamers(h.rooms[r])
      BY DEF SharingOf
    <3>2. QED BY <1>1, <3>1 DEF Streamers, Shares, RoomOf
  <2>2. ASSUME NEW u \in Clients, Shares(h, u)
        PROVE  u \in SharingOf(h)
    BY <1>1, <2>2 DEF Shares, RoomOf, SharingOf, Streamers
  <2>3. QED BY <2>1, <2>2
<1>4. WatchingOf(h) = {p \in Clients \X Clients : Views(h, p[1], p[2])}
  <2>1. ASSUME NEW r \in DOMAIN h.rooms, NEW s \in h.rooms[r].sessions
        PROVE  /\ <<s.host, s.client>> \in Clients \X Clients
               /\ Views(h, s.host, s.client)
    <3>1. s.host \in Clients /\ s.client \in Clients
      BY RoomFields DEF Session
    <3>2. Streams(h.rooms[r], s.host, s.client)
      BY <3>1 DEF Sound, StreamedRoom, Watches
    <3>3. QED BY <1>1, <3>1, <3>2 DEF Streams, Views, Shares, RoomOf, InRoom
  <2>2. ASSUME NEW u \in Clients, NEW v \in Clients, Views(h, u, v)
        PROVE  <<u, v>> \in WatchingOf(h)
    <3> DEFINE r == h.connected[u]
    <3>1. r \in DOMAIN h.rooms /\ u \in DOMAIN h.rooms[r].users
          /\ h.rooms[r].users[u].streaming
      BY <1>1, <2>2 DEF Views, Shares, RoomOf
    <3>2. InRoom(h, v) /\ h.connected[v] = r /\ u # v
      BY <2>2 DEF Views, Shares, InRoom
    <3>3. v \in DOMAIN h.rooms[r].users
      BY <1>1, <3>2 DEF RoomOf
    <3> HIDE DEF r
    <3>4. Streams(h.rooms[r], u, v)
      BY <3>1, <3>2, <3>3 DEF Streams
    <3>5. PICK s \in h.rooms[r].sessions : s.host = u /\ s.client = v
      BY <3>1, <3>4 DEF Sound, StreamedRoom, Watches
    <3>6. QED BY <3>1, <3>5 DEF WatchingOf
  <2>3. ASSUME NEW p \in WatchingOf(h)
        PROVE  p \in Clients \X Clients /\ Views(h, p[1], p[2])
    <3>1. PICK r \in DOMAIN h.rooms : \E s \in h.rooms[r].sessions : p = <<s.host, s.client>>
      BY DEF WatchingOf
    <3>2. PICK s \in h.rooms[r].sessions : p = <<s.host, s.client>>
      BY <3>1
    <3>3. p[1] = s.host /\ p[2] = s.client
      BY <3>2
    <3>4. QED BY <2>1, <3>2, <3>3
  <2>4. ASSUME NEW p \in Clients \X Clients, Views(h, p[1], p[2])
        PROVE  p \in WatchingOf(h)
    <3>1. p = <<p[1], p[2]>> /\ p[1] \in Clients /\ p[2] \in Clients
      OBVIOUS
    <3>2. <<p[1], p[2]>> \in WatchingOf(h)
      BY <2>2, <2>4, <3>1
    <3>3. QED BY <3>1, <3>2
  <2>5. QED BY <2>3, <2>4
<1>5. QED
  BY <1>2, <1>3, <1>4 DEF Viewed

-----------------------------------------------------------------------------
(* The five steps of ScreenShare *)

\* u is where it was, and its record says of it what it said.
Kept(h, k, u) ==
    /\ u \in DOMAIN h.connected
    /\ u \in DOMAIN k.connected
    /\ k.connected[u] = h.connected[u]
    /\ InRoom(h, u) =>
          /\ RoomOf(k, u).closeOnOwnerLeave = RoomOf(h, u).closeOnOwnerLeave
          /\ RoomOf(k, u).users[u].owner = RoomOf(h, u).users[u].owner
          /\ RoomOf(k, u).users[u].streaming = RoomOf(h, u).users[u].streaming

\* A step from the variables to the sound hub state k.
Handled(k) ==
    /\ TypeOK
    /\ Sound(hub)
    /\ Typed(k)
    /\ Sound(k)
    /\ Become(k)

\* The view before and after a handler.
LEMMA HandledView ==
    ASSUME NoRoom \notin RoomIDs, NEW k, Handled(k)
    PROVE  /\ Keepers = {u \in Clients : Keeps(hub, u)}
           /\ Sharing = {u \in Clients : Shares(hub, u)}
           /\ Watching = {p \in Clients \X Clients : Views(hub, p[1], p[2])}
           /\ Keepers' = {u \in Clients : Keeps(k, u)}
           /\ Sharing' = {u \in Clients : Shares(k, u)}
           /\ Watching' = {p \in Clients \X Clients : Views(k, p[1], p[2])}
           /\ hub.connected = connected /\ hub.rooms = rooms
           /\ connected' = k.connected
           /\ DOMAIN connected \subseteq Clients /\ DOMAIN connected \subseteq arrived
<1>1. Viewed(hub)
  BY HubTyped, SoundViewed DEF Handled
<1>2. Viewed(k)
  BY SoundViewed DEF Handled
<1>3. hub.connected = connected /\ hub.rooms = rooms
  BY DEF hub
<1>4. Keepers = KeepersOf(hub) /\ Sharing = SharingOf(hub) /\ Watching = WatchingOf(hub)
  BY <1>3 DEF Keepers, Sharing, Watching, Occupied, KeepersOf, SharingOf, WatchingOf
<1>5. rooms' = k.rooms /\ connected' = k.connected
  BY DEF Handled, Become
<1>6. /\ Keepers' = KeepersOf(k)
      /\ Sharing' = SharingOf(k)
      /\ Watching' = WatchingOf(k)
  BY <1>5 DEF Keepers, Sharing, Watching, Occupied, KeepersOf, SharingOf, WatchingOf
<1>7. DOMAIN connected \subseteq Clients /\ DOMAIN connected \subseteq arrived
  BY DEF Handled, TypeOK, IsMap
<1>8. QED
  BY <1>1, <1>2, <1>3, <1>4, <1>5, <1>6, <1>7 DEF Viewed

\* Who is kept is what it was.
LEMMA KeptAlike ==
    ASSUME NEW h, NEW k, NEW u, Kept(h, k, u)
    PROVE  /\ InRoom(k, u) <=> InRoom(h, u)
           /\ Keeps(k, u) <=> Keeps(h, u)
           /\ Shares(k, u) <=> Shares(h, u)
BY DEF Kept, InRoom, Keeps, Shares

\* Nobody's place or record changes: a handler that ScreenShare does not see.
LEMMA SameView ==
    ASSUME NoRoom \notin RoomIDs, NEW k, Handled(k), UNCHANGED arrived,
           k.connected = connected,
           \A u \in DOMAIN connected : Kept(hub, k, u)
    PROVE  UNCHANGED Promise!promised
<1>1. /\ Keepers = {u \in Clients : Keeps(hub, u)}
      /\ Sharing = {u \in Clients : Shares(hub, u)}
      /\ Watching = {p \in Clients \X Clients : Views(hub, p[1], p[2])}
      /\ Keepers' = {u \in Clients : Keeps(k, u)}
      /\ Sharing' = {u \in Clients : Shares(k, u)}
      /\ Watching' = {p \in Clients \X Clients : Views(k, p[1], p[2])}
      /\ hub.connected = connected
      /\ connected' = k.connected
  BY HandledView
<1>2. \A u \in Clients : /\ Keeps(k, u) <=> Keeps(hub, u)
                         /\ Shares(k, u) <=> Shares(hub, u)
  <2> SUFFICES ASSUME NEW u \in Clients
               PROVE  (Keeps(k, u) <=> Keeps(hub, u)) /\ (Shares(k, u) <=> Shares(hub, u))
    OBVIOUS
  <2>1. CASE u \in DOMAIN connected
    BY <2>1, KeptAlike
  <2>2. CASE u \notin DOMAIN connected
    BY <1>1, <2>2 DEF Keeps, Shares, InRoom
  <2>3. QED BY <2>1, <2>2
<1>3. \A u, v \in Clients : Views(k, u, v) <=> Views(hub, u, v)
  BY <1>1, <1>2 DEF Views
<1>4. Keepers' = Keepers /\ Sharing' = Sharing
  BY <1>1, <1>2
<1>5. Watching' = Watching
  BY <1>1, <1>3
<1>6. connected' = connected /\ (arrived \ DOMAIN connected)' = arrived \ DOMAIN connected
  BY <1>1
<1>7. QED
  BY <1>4, <1>5, <1>6 DEF Promise!promised

\* c leaves, with its room if it keeps it.
LEMMA LeaveView ==
    ASSUME NoRoom \notin RoomIDs, NEW k, Handled(k), UNCHANGED arrived,
           NEW c \in Clients, c \in DOMAIN connected, NEW out,
           out = IF Keeps(hub, c)
                 THEN {u \in DOMAIN connected : connected[u] = connected[c]}
                 ELSE {c},
           k.connected = Drop(connected, out),
           \A u \in DOMAIN connected \ out : Kept(hub, k, u)
    PROVE  Promise!Leave(c)
<1>1. /\ Keepers = {u \in Clients : Keeps(hub, u)}
      /\ Sharing = {u \in Clients : Shares(hub, u)}
      /\ Watching = {p \in Clients \X Clients : Views(hub, p[1], p[2])}
      /\ Keepers' = {u \in Clients : Keeps(k, u)}
      /\ Sharing' = {u \in Clients : Shares(k, u)}
      /\ Watching' = {p \in Clients \X Clients : Views(k, p[1], p[2])}
      /\ hub.connected = connected
      /\ connected' = k.connected
      /\ DOMAIN connected \subseteq Clients /\ DOMAIN connected \subseteq arrived
  BY HandledView
<1>2. Promise!Members(connected[c]) = {u \in DOMAIN connected : connected[u] = connected[c]}
  BY DEF Promise!Members
<1>3. out = IF c \in Keepers THEN Promise!Members(connected[c]) ELSE {c}
  BY <1>1, <1>2
<1>4. connected' = [x \in DOMAIN connected \ out |-> connected[x]]
  BY <1>1 DEF Drop
<1>5. out \subseteq DOMAIN connected
  OBVIOUS
<1> HIDE DEF Handled
<1>6. (arrived \ DOMAIN connected)' = (arrived \ DOMAIN connected) \cup out
  BY <1>1, <1>4, <1>5
<1>7. \A u \in Clients : /\ Keeps(k, u) <=> Keeps(hub, u) /\ u \notin out
                         /\ Shares(k, u) <=> Shares(hub, u) /\ u \notin out
  <2> SUFFICES ASSUME NEW u \in Clients
               PROVE  /\ Keeps(k, u) <=> Keeps(hub, u) /\ u \notin out
                      /\ Shares(k, u) <=> Shares(hub, u) /\ u \notin out
    OBVIOUS
  <2>1. CASE u \in DOMAIN connected \ out
    BY <2>1, KeptAlike
  <2>2. CASE u \notin DOMAIN connected \ out
    BY <1>1, <1>4, <1>5, <2>2 DEF Keeps, Shares, InRoom
  <2>3. QED BY <2>1, <2>2
<1>8. \A u, v \in Clients : Views(k, u, v) <=>
                               Views(hub, u, v) /\ u \notin out /\ v \notin out
  <2>1. \A u \in Clients : Shares(hub, u) => u \in DOMAIN connected
    BY <1>1 DEF Shares, InRoom
  <2>2. \A u, v \in Clients :
           Views(hub, u, v) <=> /\ Shares(hub, u) /\ u # v
                                /\ v \in DOMAIN connected
                                /\ connected[v] = connected[u]
    BY <1>1 DEF Views
  <2>3. \A u, v \in Clients :
           Views(k, u, v) <=> /\ Shares(k, u) /\ u # v
                              /\ v \in DOMAIN connected'
                              /\ connected'[v] = connected'[u]
    BY <1>1 DEF Views
  <2>4. QED BY <1>4, <1>7, <2>1, <2>2, <2>3
<1>9. Keepers' = Keepers \ out /\ Sharing' = Sharing \ out
  BY <1>1, <1>7
<1>10. Watching' = {p \in Watching : p[1] \notin out /\ p[2] \notin out}
  BY <1>1, <1>8
<1>11. QED
  BY <1>3, <1>4, <1>6, <1>9, <1>10 DEF Promise!Leave

\* A new connection.
LEMMA ArriveView ==
    ASSUME NoRoom \notin RoomIDs, NEW k, Handled(k), NEW c \in Clients,
           c \notin arrived, arrived' = arrived \cup {c},
           k.connected = Put(connected, c, NoRoom),
           \A u \in DOMAIN connected : Kept(hub, k, u)
    PROVE  Promise!Arrive(c)
<1>1. /\ Keepers = {u \in Clients : Keeps(hub, u)}
      /\ Sharing = {u \in Clients : Shares(hub, u)}
      /\ Watching = {p \in Clients \X Clients : Views(hub, p[1], p[2])}
      /\ Keepers' = {u \in Clients : Keeps(k, u)}
      /\ Sharing' = {u \in Clients : Shares(k, u)}
      /\ Watching' = {p \in Clients \X Clients : Views(k, p[1], p[2])}
      /\ hub.connected = connected
      /\ connected' = k.connected
      /\ DOMAIN connected \subseteq arrived
  BY HandledView
<1>2. c \notin DOMAIN connected \cup (arrived \ DOMAIN connected)
  BY <1>1
<1>3. connected' = [x \in DOMAIN connected \cup {c} |->
                       IF x = c THEN NoRoom ELSE connected[x]]
  BY <1>1 DEF Put
<1>4. (arrived \ DOMAIN connected)' = arrived \ DOMAIN connected
  BY <1>2, <1>3
<1>5. \A u \in Clients : /\ Keeps(k, u) <=> Keeps(hub, u)
                         /\ Shares(k, u) <=> Shares(hub, u)
  <2> SUFFICES ASSUME NEW u \in Clients
               PROVE  (Keeps(k, u) <=> Keeps(hub, u)) /\ (Shares(k, u) <=> Shares(hub, u))
    OBVIOUS
  <2>1. CASE u \in DOMAIN connected
    BY <2>1, KeptAlike
  <2>2. CASE u \notin DOMAIN connected
    BY <1>1, <1>3, <2>2 DEF Keeps, Shares, InRoom
  <2>3. QED BY <2>1, <2>2
<1>6. \A u, v \in Clients : Views(k, u, v) <=> Views(hub, u, v)
  <2>1. \A u \in Clients : Shares(hub, u) => u \in DOMAIN connected /\ connected[u] # NoRoom
    BY <1>1 DEF Shares, InRoom
  <2>2. \A u, v \in Clients :
           Views(hub, u, v) <=> /\ Shares(hub, u) /\ u # v
                                /\ v \in DOMAIN connected
                                /\ connected[v] = connected[u]
    BY <1>1 DEF Views
  <2>3. \A u, v \in Clients :
           Views(k, u, v) <=> /\ Shares(k, u) /\ u # v
                              /\ v \in DOMAIN connected'
                              /\ connected'[v] = connected'[u]
    BY <1>1 DEF Views
  <2>4. QED BY <1>2, <1>3, <1>5, <2>1, <2>2, <2>3
<1>7. Keepers' = Keepers /\ Sharing' = Sharing
  BY <1>1, <1>5
<1>8. Watching' = Watching
  BY <1>1, <1>6
<1>9. QED
  BY <1>2, <1>3, <1>4, <1>7, <1>8 DEF Promise!Arrive, Promise!Move

\* c, in no room so far, becomes a user of room r, its keeper or not.
LEMMA EnterView ==
    ASSUME NoRoom \notin RoomIDs, NEW k, Handled(k), UNCHANGED arrived,
           NEW c \in Clients, c \in DOMAIN connected, connected[c] = NoRoom,
           NEW r \in RoomIDs, NEW keeps \in BOOLEAN,
           k.connected = Put(connected, c, r),
           \A u \in DOMAIN connected \ {c} : Kept(hub, k, u),
           keeps => \A u \in DOMAIN connected : connected[u] # r,
           Keeps(k, c) <=> keeps, ~Shares(k, c)
    PROVE  Promise!Enter(c, r, keeps)
<1>1. /\ Keepers = {u \in Clients : Keeps(hub, u)}
      /\ Sharing = {u \in Clients : Shares(hub, u)}
      /\ Watching = {p \in Clients \X Clients : Views(hub, p[1], p[2])}
      /\ Keepers' = {u \in Clients : Keeps(k, u)}
      /\ Sharing' = {u \in Clients : Shares(k, u)}
      /\ Watching' = {p \in Clients \X Clients : Views(k, p[1], p[2])}
      /\ hub.connected = connected
      /\ connected' = k.connected
      /\ DOMAIN connected \subseteq Clients
  BY HandledView
<1>2. connected' = [x \in DOMAIN connected \cup {c} |->
                       IF x = c THEN r ELSE connected[x]]
  BY <1>1 DEF Put
<1>3. Promise!Members(r) = {u \in DOMAIN connected : connected[u] = r}
  BY DEF Promise!Members
<1>4. keeps => Promise!Members(r) = {}
  BY <1>3
<1>5. ~Keeps(hub, c) /\ ~Shares(hub, c)
  BY <1>1 DEF Keeps, Shares, InRoom
<1>6. \A u \in Clients : /\ Keeps(k, u) <=> Keeps(hub, u) \/ (u = c /\ keeps)
                         /\ Shares(k, u) <=> Shares(hub, u)
  <2> SUFFICES ASSUME NEW u \in Clients
               PROVE  /\ Keeps(k, u) <=> Keeps(hub, u) \/ (u = c /\ keeps)
                      /\ Shares(k, u) <=> Shares(hub, u)
    OBVIOUS
  <2>1. CASE u \in DOMAIN connected \ {c}
    BY <2>1, KeptAlike
  <2>2. CASE u = c
    BY <1>5, <2>2
  <2>3. CASE u \notin DOMAIN connected /\ u # c
    BY <1>1, <1>2, <2>3 DEF Keeps, Shares, InRoom
  <2>4. QED BY <2>1, <2>2, <2>3
<1>7. \A u, v \in Clients :
         Views(k, u, v) <=>
            Views(hub, u, v) \/ (v = c /\ u \in Sharing \cap Promise!Members(r))
  <2>1. \A u \in Clients : Shares(hub, u) => u \in DOMAIN connected /\ connected[u] # NoRoom
    BY <1>1 DEF Shares, InRoom
  <2>2. \A u, v \in Clients :
           Views(hub, u, v) <=> /\ Shares(hub, u) /\ u # v
                                /\ v \in DOMAIN connected
                                /\ connected[v] = connected[u]
    BY <1>1 DEF Views
  <2>3. \A u, v \in Clients :
           Views(k, u, v) <=> /\ Shares(k, u) /\ u # v
                              /\ v \in DOMAIN connected'
                              /\ connected'[v] = connected'[u]
    BY <1>1 DEF Views
  <2>4. \A u \in Clients : u \in Sharing \cap Promise!Members(r) <=>
                              Shares(hub, u) /\ connected[u] = r /\ u # c
    BY <1>1, <1>3, <1>5, <2>1
  <2> SUFFICES ASSUME NEW u \in Clients, NEW v \in Clients
               PROVE  Views(k, u, v) <=>
                         Views(hub, u, v) \/ (v = c /\ u \in Sharing \cap Promise!Members(r))
    OBVIOUS
  <2>5. CASE v = c
    <3>1. ~Views(hub, u, c)
      BY <2>1, <2>2
    <3>2. Views(k, u, c) <=> Shares(hub, u) /\ u # c /\ connected[u] = r
      BY <1>2, <1>6, <2>1, <2>3
    <3>3. QED BY <2>4, <2>5, <3>1, <3>2
  <2>6. CASE v # c
    <3>1. Views(k, u, v) <=> Views(hub, u, v)
      BY <1>2, <1>5, <1>6, <2>1, <2>2, <2>3, <2>6
    <3>2. QED BY <2>6, <3>1
  <2>7. QED BY <2>5, <2>6
<1>8. /\ Keepers' = IF keeps THEN Keepers \cup {c} ELSE Keepers
      /\ Sharing' = Sharing
  BY <1>1, <1>6
<1>9. Watching' = Watching \cup ((Sharing \cap Promise!Members(r)) \X {c})
  <2> DEFINE new == (Sharing \cap Promise!Members(r)) \X {c}
  <2>1. Sharing \cap Promise!Members(r) \subseteq Clients
    BY <1>1
  <2>2. \A p : p \in new <=> p \in Clients \X Clients /\ p[2] = c
                                /\ p[1] \in Sharing \cap Promise!Members(r)
    BY <2>1
  <2>3. \A p \in Clients \X Clients :
           Views(k, p[1], p[2]) <=> Views(hub, p[1], p[2]) \/ p \in new
    BY <1>7, <2>2
  <2> HIDE DEF new
  <2>4. Watching' = Watching \cup new
    BY <1>1, <2>2, <2>3
  <2>5. QED BY <2>4 DEF new
<1>10. (arrived \ DOMAIN connected)' = arrived \ DOMAIN connected
  BY <1>2
<1>11. QED
  BY <1>2, <1>4, <1>8, <1>9, <1>10 DEF Promise!Enter, Promise!Move

\* c starts or stops sharing in its room.
LEMMA ShareView ==
    ASSUME NoRoom \notin RoomIDs, NEW k, Handled(k), UNCHANGED arrived,
           NEW c \in Clients, c \in DOMAIN connected, connected[c] # NoRoom,
           k.connected = connected,
           \A u \in DOMAIN connected \ {c} : Kept(hub, k, u),
           Keeps(k, c) <=> Keeps(hub, c)
    PROVE  /\ Shares(k, c) => Promise!Share(c)
           /\ ~Shares(k, c) => Promise!Stop(c)
<1>1. /\ Keepers = {u \in Clients : Keeps(hub, u)}
      /\ Sharing = {u \in Clients : Shares(hub, u)}
      /\ Watching = {p \in Clients \X Clients : Views(hub, p[1], p[2])}
      /\ Keepers' = {u \in Clients : Keeps(k, u)}
      /\ Sharing' = {u \in Clients : Shares(k, u)}
      /\ Watching' = {p \in Clients \X Clients : Views(k, p[1], p[2])}
      /\ hub.connected = connected
      /\ connected' = connected
      /\ DOMAIN connected \subseteq Clients
  BY HandledView
<1>2. Promise!Members(connected[c]) = {u \in DOMAIN connected : connected[u] = connected[c]}
  BY DEF Promise!Members
<1>3. \A u \in Clients \ {c} : /\ Keeps(k, u) <=> Keeps(hub, u)
                               /\ Shares(k, u) <=> Shares(hub, u)
  <2> SUFFICES ASSUME NEW u \in Clients \ {c}
               PROVE  (Keeps(k, u) <=> Keeps(hub, u)) /\ (Shares(k, u) <=> Shares(hub, u))
    OBVIOUS
  <2>1. CASE u \in DOMAIN connected
    BY <2>1, KeptAlike
  <2>2. CASE u \notin DOMAIN connected
    BY <1>1, <2>2 DEF Keeps, Shares, InRoom
  <2>3. QED BY <2>1, <2>2
<1>4. Keepers' = Keepers /\ (arrived \ DOMAIN connected)' = arrived \ DOMAIN connected
  BY <1>1, <1>3
<1>5. /\ \A u, v \in Clients : u # c => (Views(k, u, v) <=> Views(hub, u, v))
      /\ \A v \in Clients : Views(k, c, v) <=>
            Shares(k, c) /\ v \in Promise!Members(connected[c]) \ {c}
      /\ \A v \in Clients : Views(hub, c, v) =>
            v \in Promise!Members(connected[c]) \ {c}
  BY <1>1, <1>2, <1>3 DEF Views
<1>6. ASSUME Shares(k, c)
      PROVE  Promise!Share(c)
  <2> DEFINE new == {c} \X (Promise!Members(connected[c]) \ {c})
  <2>1. Sharing' = Sharing \cup {c}
    BY <1>1, <1>3, <1>6
  <2>2. \A p : p \in new <=> p \in Clients \X Clients /\ p[1] = c
                                /\ p[2] \in Promise!Members(connected[c]) \ {c}
    BY <1>1, <1>2
  <2>3. Watching' = Watching \cup new
    BY <1>1, <1>5, <1>6, <2>2
  <2>4. QED
    BY <1>1, <1>4, <2>1, <2>3 DEF Promise!Share
<1>7. ASSUME ~Shares(k, c)
      PROVE  Promise!Stop(c)
  <2>1. Sharing' = Sharing \ {c}
    BY <1>1, <1>3, <1>7
  <2>2. Watching' = {p \in Watching : p[1] # c}
    BY <1>1, <1>5, <1>7
  <2>3. QED
    BY <1>1, <1>4, <2>1, <2>2 DEF Promise!Stop
<1>8. QED
  BY <1>6, <1>7

-----------------------------------------------------------------------------
(* Whose place and record the functions of the handlers keep *)

\* Kept twice is kept.
LEMMA KeptTwice ==
    ASSUME NEW h, NEW k, NEW l, NEW u, Kept(h, k, u), Kept(k, l, u)
    PROVE  Kept(h, l, u)
BY DEF Kept, InRoom

\* What is sent and counted concerns no user.
LEMMA AlikeKept ==
    ASSUME NEW h, NEW k, Alike(h, k), NEW u \in DOMAIN h.connected
    PROVE  Kept(h, k, u)
BY DEF Alike, Kept, RoomOf

\* Nor do the sessions of a room.
LEMMA SessionsKept ==
    ASSUME NoRoom \notin RoomIDs, NEW h, Typed(h), Placed(h),
           NEW r \in DOMAIN h.rooms, NEW X \in SUBSET Session,
           NEW k, k.connected = h.connected, k.rooms = WithSessions(h.rooms, r, X),
           NEW u \in DOMAIN h.connected
    PROVE  Kept(h, k, u)
<1>1. IsMap(h.rooms, RoomIDs, RoomRecord)
  BY DEF Typed
<1>2. /\ k.rooms[r].users = h.rooms[r].users
      /\ k.rooms[r].closeOnOwnerLeave = h.rooms[r].closeOnOwnerLeave
      /\ \A q \in DOMAIN h.rooms : q # r => k.rooms[q] = h.rooms[q]
  BY <1>1, WithSessionsMap
<1>3. InRoom(h, u) => h.connected[u] \in DOMAIN h.rooms
  BY PlacedInside
<1>4. QED
  BY <1>2, <1>3 DEF Kept, RoomOf

\* Who becomes a user of r, or another user of r than before, is the only one
\* concerned.
LEMMA PutKept ==
    ASSUME NoRoom \notin RoomIDs, NEW h, Typed(h), Placed(h),
           NEW r \in DOMAIN h.rooms, NEW c \in Clients, NEW user \in User, NEW k,
           k.connected \in {h.connected, Put(h.connected, c, r)},
           k.rooms = WithUsers(h.rooms, r, Put(h.rooms[r].users, c, user))
    PROVE  /\ \A u \in DOMAIN h.connected \ {c} : Kept(h, k, u)
           /\ k.rooms[r].users[c] = user
           /\ k.rooms[r].closeOnOwnerLeave = h.rooms[r].closeOnOwnerLeave
<1>1. /\ k.rooms[r].closeOnOwnerLeave = h.rooms[r].closeOnOwnerLeave
      /\ k.rooms[r].users[c] = user
      /\ \A u \in DOMAIN h.rooms[r].users : u # c =>
            k.rooms[r].users[u] = h.rooms[r].users[u]
      /\ \A q \in DOMAIN h.rooms : q # r => k.rooms[q] = h.rooms[q]
  BY PutRoom
<1>2. \A u \in DOMAIN h.connected : InRoom(h, u) =>
         h.connected[u] \in DOMAIN h.rooms /\ u \in DOMAIN h.rooms[h.connected[u]].users
  BY PlacedInside DEF RoomOf
<1>3. ASSUME NEW u \in DOMAIN h.connected \ {c}
      PROVE  Kept(h, k, u)
  <2>1. u \in DOMAIN k.connected /\ k.connected[u] = h.connected[u]
    BY DEF Put
  <2>2. ASSUME InRoom(h, u)
        PROVE  /\ RoomOf(k, u).closeOnOwnerLeave = RoomOf(h, u).closeOnOwnerLeave
               /\ RoomOf(k, u).users[u] = RoomOf(h, u).users[u]
    BY <1>1, <1>2, <2>1, <2>2 DEF RoomOf
  <2>3. QED BY <2>1, <2>2 DEF Kept
<1>4. QED
  BY <1>1, <1>3

\* When c departs, those who stay are not concerned; who goes with it are the
\* users of a room it keeps.
LEMMA DepartKept ==
    ASSUME NoRoom \notin RoomIDs, NEW h, Typed(h), Placed(h), NEW c \in Clients,
           c \in DOMAIN h.connected, NEW k, Departed(h, c, k)
    PROVE  LET out == IF Keeps(h, c)
                      THEN {u \in DOMAIN h.connected : h.connected[u] = h.connected[c]}
                      ELSE {c}
           IN  /\ k.connected = Drop(h.connected, out)
               /\ \A u \in DOMAIN h.connected \ out : Kept(h, k, u)
<1> DEFINE r   == h.connected[c]
           out == IF Keeps(h, c)
                  THEN {u \in DOMAIN h.connected : h.connected[u] = h.connected[c]}
                  ELSE {c}
<1>1. /\ DOMAIN h.connected \subseteq Clients
      /\ \A u \in Clients : InRoom(h, u) =>
            h.connected[u] \in DOMAIN h.rooms /\ u \in DOMAIN h.rooms[h.connected[u]].users
      /\ \A q \in DOMAIN h.rooms : \A u \in DOMAIN h.rooms[q].users :
            u \in Clients /\ InRoom(h, u) /\ h.connected[u] = q
  <2>1. \A u \in Clients : InRoom(h, u) =>
           h.connected[u] \in DOMAIN h.rooms /\ u \in DOMAIN RoomOf(h, u).users
    BY PlacedInside
  <2>2. QED BY <2>1, PlacedInside DEF RoomOf
<1>2. CASE r = NoRoom
  <2>1. out = {c}
    BY <1>2 DEF Keeps, InRoom
  <2>2. k.connected = Drop(h.connected, {c}) /\ k.rooms = h.rooms
    BY <1>2 DEF Departed
  <2>3. \A u \in DOMAIN h.connected \ {c} : Kept(h, k, u)
    BY <2>2 DEF Kept, Drop, RoomOf
  <2>4. QED BY <2>1, <2>2, <2>3
<1>3. CASE r # NoRoom
  <2>1. Inside(h, r, c) /\ InRoom(h, c) /\ r \in DOMAIN h.rooms
    BY <1>1, <1>3 DEF Inside, InRoom
  <2>2. Keeps(h, c) <=> h.rooms[r].users[c].owner /\ h.rooms[r].closeOnOwnerLeave
    BY <2>1 DEF Keeps, RoomOf
  <2>3. CASE ClosesFor(h, r, c)
    <3>1. /\ k.connected = Drop(Drop(h.connected, {c}), DOMAIN h.rooms[r].users \ {c})
          /\ \A q \in DOMAIN h.rooms : q # r => k.rooms[q] = h.rooms[q]
      BY <1>3, <2>1, <2>3 DEF Departed
    <3>2. \A u \in DOMAIN h.connected :
             h.connected[u] = r <=> u \in DOMAIN h.rooms[r].users
      BY <1>1, <1>3, <2>1 DEF InRoom
    <3>3. DOMAIN h.rooms[r].users \subseteq DOMAIN h.connected
      BY <1>1, <2>1 DEF InRoom
    <3>4. out = DOMAIN h.rooms[r].users
      BY <2>1, <2>2, <2>3, <3>2, <3>3 DEF ClosesFor, Inside
    <3> HIDE DEF out
    <3>5. k.connected = [u \in DOMAIN h.connected \ out |-> h.connected[u]]
      BY <2>1, <3>1, <3>4 DEF Drop, Inside
    <3>6. ASSUME NEW u \in DOMAIN h.connected \ out
          PROVE  Kept(h, k, u)
      <4>1. h.connected[u] # r
        BY <3>2, <3>4
      <4>2. InRoom(h, u) => RoomOf(k, u) = RoomOf(h, u)
        BY <1>1, <3>1, <3>5, <4>1 DEF RoomOf
      <4>3. QED BY <3>5, <4>2 DEF Kept
    <3>7. QED BY <3>5, <3>6 DEF Drop, out
  <2>4. CASE ~ClosesFor(h, r, c)
    <3>1. k.connected = Drop(h.connected, {c}) /\ k.rooms = Without(h, r, c)
      BY <1>3, <2>1, <2>4 DEF Departed
    <3>2. out = {c}
      BY <2>2, <2>4 DEF ClosesFor
    <3> HIDE DEF out
    <3>3. /\ \A q \in DOMAIN h.rooms : q # r => k.rooms[q] = h.rooms[q]
          /\ k.rooms[r].closeOnOwnerLeave = h.rooms[r].closeOnOwnerLeave
          /\ \A u \in DOMAIN h.rooms[r].users \ {c} :
                k.rooms[r].users[u] = h.rooms[r].users[u]
      BY <2>1, <3>1, WithoutRoom
    <3>4. ASSUME NEW u \in DOMAIN h.connected \ {c}
          PROVE  Kept(h, k, u)
      <4>1. u \in DOMAIN k.connected /\ k.connected[u] = h.connected[u]
        BY <3>1 DEF Drop
      <4>2. ASSUME InRoom(h, u)
            PROVE  /\ RoomOf(k, u).closeOnOwnerLeave = RoomOf(h, u).closeOnOwnerLeave
                   /\ RoomOf(k, u).users[u] = RoomOf(h, u).users[u]
        BY <1>1, <3>3, <4>1, <4>2 DEF RoomOf
      <4>3. QED BY <4>1, <4>2 DEF Kept
    <3>5. QED BY <3>1, <3>2, <3>4 DEF out
  <2>5. QED BY <2>3, <2>4
<1>4. QED BY <1>2, <1>3

-----------------------------------------------------------------------------
(* The handlers, as steps of ScreenShare *)

\* A client that is disconnected leaves.
LEMMA DisconnectSeen ==
    ASSUME NoRoom \notin RoomIDs, TypeOK, Sound(hub), UNCHANGED arrived,
           NEW c \in Clients, c \in DOMAIN connected, Become(Disconnect(hub, c))
    PROVE  Promise!Leave(c)
<1> DEFINE k   == Disconnect(hub, c)
           out == IF Keeps(hub, c)
                  THEN {u \in DOMAIN connected : connected[u] = connected[c]}
                  ELSE {c}
<1>1. Typed(hub) /\ hub.connected = connected
  BY HubTyped DEF hub
<1>2. Typed(k) /\ Departed(hub, c, k)
  BY <1>1, DisconnectTyped
<1>3. Sound(k)
  BY <1>1, SoundIsSoundBut, DisconnectSound
<1>4. Become(k)
  OBVIOUS
<1> HIDE DEF k
<1>5. /\ k.connected = Drop(connected, out)
      /\ \A u \in DOMAIN connected \ out : Kept(hub, k, u)
  <2>1. Placed(hub)
    BY DEF Sound
  <2>2. QED BY <1>1, <1>2, <2>1, DepartKept
<1>6. Handled(k)
  BY <1>2, <1>3, <1>4 DEF Handled
<1> HIDE DEF out
<1>7. out = IF Keeps(hub, c)
            THEN {u \in DOMAIN connected : connected[u] = connected[c]}
            ELSE {c}
  BY DEF out
<1>8. QED
  BY <1>5, <1>6, <1>7, LeaveView

\* Joining a room is entering it as a viewer; one whose join fails half-way
\* has not been there.
LEMMA JoinSeen ==
    ASSUME NoRoom \notin RoomIDs, TypeOK, Sound(hub), NEW c \in Clients, NEW r,
           Join(c, r)
    PROVE  Promise!Leave(c) \/ (r \in RoomIDs /\ Promise!Enter(c, r, FALSE))
<1>1. Typed(hub) /\ hub.connected = connected /\ hub.rooms = rooms /\ Placed(hub)
  BY HubTyped DEF hub, Sound
<1>2. c \in DOMAIN connected /\ UNCHANGED arrived
  BY DEF Join, Accepts
<1>3. CASE Become(Disconnect(hub, c))
  BY <1>2, <1>3, DisconnectSeen
<1>4. ASSUME NEW name \in Names, MayJoin(c, r)
      PROVE  LET entered == Enter(hub, c, r, name, FALSE)
                 pairs   == (Streamers(entered.rooms[r]) \ {c}) \X {c}
             IN  /\ Become(Disconnect(entered, c)) => Promise!Leave(c)
                 /\ Become(NewSessions(entered, r, pairs)) =>
                       r \in RoomIDs /\ Promise!Enter(c, r, FALSE)
  <2> DEFINE user    == NewUser(name, FALSE)
             entered == Enter(hub, c, r, name, FALSE)
             pairs   == (Streamers(entered.rooms[r]) \ {c}) \X {c}
             left    == Disconnect(entered, c)
             joined  == NewSessions(entered, r, pairs)
  <2>1. r \in DOMAIN hub.rooms /\ connected[c] = NoRoom /\ r \in RoomIDs
    BY <1>1, <1>4, RoomFields DEF MayJoin
  <2>2. user \in User /\ user.owner = FALSE /\ user.streaming = FALSE
    BY DEF User, NewUser
  <2>3. /\ Typed(entered)
        /\ entered.connected = Put(connected, c, r)
        /\ entered.rooms = WithUsers(hub.rooms, r, Put(hub.rooms[r].users, c, user))
    BY <1>1, <2>1, EnterTyped
  <2>4. SoundBut(entered, c) /\ Sound(joined)
    BY <1>1, <1>2, <2>1, JoinSound
  <2> HIDE DEF entered, user
  <2>5. Placed(entered)
    BY <2>4 DEF SoundBut
  <2>6. /\ c \in DOMAIN entered.connected
        /\ entered.connected[c] = r
        /\ DOMAIN entered.connected = DOMAIN connected
        /\ r \in DOMAIN entered.rooms
    BY <1>2, <2>1, <2>3 DEF Put, WithUsers
  <2>7. /\ \A u \in DOMAIN connected \ {c} : Kept(hub, entered, u)
        /\ entered.rooms[r].users[c] = user
    <3>1. /\ entered.connected \in {hub.connected, Put(hub.connected, c, r)}
          /\ entered.rooms = WithUsers(hub.rooms, r, Put(hub.rooms[r].users, c, user))
      BY <1>1, <2>3
    <3>2. QED BY <1>1, <2>1, <2>2, <3>1, PutKept
  <2>8. ~Keeps(entered, c) /\ ~Shares(entered, c)
    BY <2>2, <2>6, <2>7 DEF Keeps, Shares, RoomOf
  <2>9. Become(left) => Promise!Leave(c)
    <3> SUFFICES ASSUME Become(left) PROVE Promise!Leave(c)
      OBVIOUS
    <3>1. Typed(left) /\ Departed(entered, c, left)
      BY <2>3, <2>6, DisconnectTyped
    <3>2. Sound(left)
      BY <2>3, <2>4, <2>6, DisconnectSound
    <3> HIDE DEF left
    <3>3. /\ left.connected = Drop(entered.connected, {c})
          /\ \A u \in DOMAIN entered.connected \ {c} : Kept(entered, left, u)
      BY <2>3, <2>5, <2>6, <2>8, <3>1, DepartKept
    <3>4. left.connected = Drop(connected, {c})
      BY <2>3, <2>6, <3>3 DEF Drop, Put
    <3>5. \A u \in DOMAIN connected \ {c} : Kept(hub, left, u)
      BY <2>6, <2>7, <3>3, KeptTwice
    <3>6. ~Keeps(hub, c)
      BY <1>1, <2>1 DEF Keeps, InRoom
    <3>7. Handled(left)
      BY <3>1, <3>2 DEF Handled
    <3>8. QED
      BY <1>2, <3>4, <3>5, <3>6, <3>7, LeaveView
  <2>10. Become(joined) => Promise!Enter(c, r, FALSE)
    <3> SUFFICES ASSUME Become(joined) PROVE Promise!Enter(c, r, FALSE)
      OBVIOUS
    <3>1. Streamers(entered.rooms[r]) \subseteq Clients
      BY <2>3, <2>6, RoomFields DEF Streamers, IsMap
    <3>2. pairs \in SUBSET (Clients \X Clients)
      BY <3>1
    <3> DEFINE X == entered.rooms[r].sessions \cup Made(entered, pairs)
    <3> HIDE DEF pairs
    <3>3. /\ Typed(joined)
          /\ joined.connected = entered.connected
          /\ joined.rooms = WithSessions(entered.rooms, r, X)
      BY <2>3, <2>6, <3>2, NewSessionsTyped
    <3>4. X \in SUBSET Session
      BY <2>3, <2>6, <3>2, MadeTyped, RoomFields
    <3> HIDE DEF joined, X
    <3>5. \A u \in DOMAIN entered.connected : Kept(entered, joined, u)
      BY <2>3, <2>5, <2>6, <3>3, <3>4, SessionsKept
    <3>6. \A u \in DOMAIN connected \ {c} : Kept(hub, joined, u)
      BY <2>6, <2>7, <3>5, KeptTwice
    <3>7. ~Keeps(joined, c) /\ ~Shares(joined, c)
      BY <2>6, <2>8, <3>5, KeptAlike
    <3>8. Handled(joined)
      BY <2>4, <3>3 DEF Handled, joined
    <3>9. joined.connected = Put(connected, c, r)
      BY <2>3, <3>3
    <3>10. FALSE \in BOOLEAN
      OBVIOUS
    <3>11. QED
      BY <1>2, <2>1, <3>6, <3>7, <3>8, <3>9, <3>10, EnterView
  <2>11. QED
    BY <2>1, <2>9, <2>10 DEF entered
<1>5. QED
  BY <1>3, <1>4 DEF Join

\* Creating a room is entering it, as its keeper if the room is to close with
\* its owner.
LEMMA CreateSeen ==
    ASSUME NoRoom \notin RoomIDs, TypeOK, Sound(hub), NEW c \in Clients,
           NEW r \in RoomIDs, NEW mode \in Modes, NEW close \in BOOLEAN,
           NEW joinIfExist \in BOOLEAN, Create(c, r, mode, close, joinIfExist)
    PROVE  Promise!Leave(c) \/ \E keeps \in BOOLEAN : Promise!Enter(c, r, keeps)
<1>1. Typed(hub) /\ hub.connected = connected /\ hub.rooms = rooms /\ Placed(hub)
  BY HubTyped DEF hub, Sound
<1>2. c \in DOMAIN connected /\ UNCHANGED arrived
  BY DEF Create, Accepts
<1>3. CASE Join(c, r)
  BY <1>3, JoinSeen
<1>4. CASE Become(Disconnect(hub, c))
  BY <1>2, <1>4, DisconnectSeen
<1>5. ASSUME NEW name \in Names, MayOpen(c, r, mode),
             Become(Enter(OpenRoom(hub, r, mode, close), c, r, name, TRUE))
      PROVE  Promise!Enter(c, r, close)
  <2> DEFINE room   == EmptyRoom(mode, close)
             opened == OpenRoom(hub, r, mode, close)
             user   == NewUser(name, TRUE)
             k      == Enter(opened, c, r, name, TRUE)
  <2>1. connected[c] = NoRoom /\ r \notin DOMAIN hub.rooms
    BY <1>1, <1>5 DEF MayOpen
  <2>2. user \in User /\ user.owner = TRUE /\ user.streaming = FALSE
    BY DEF User, NewUser
  <2>3. Sound(k) /\ Become(k)
    BY <1>1, <1>2, <1>5, <2>1, CreateSound
  <2>4. /\ Typed(opened)
        /\ opened.connected = connected
        /\ opened.rooms = Put(hub.rooms, r, room)
    BY <1>1, OpenRoomTyped
  <2>5. room.closeOnOwnerLeave = close /\ DOMAIN room.users = {}
    BY DEF EmptyRoom, NoUsers
  <2> HIDE DEF opened, room
  <2>6. /\ r \in DOMAIN opened.rooms
        /\ opened.rooms[r] = room
        /\ \A q \in DOMAIN hub.rooms : opened.rooms[q] = hub.rooms[q]
    BY <2>1, <2>4 DEF Put
  <2>7. /\ Typed(k)
        /\ k.connected = Put(opened.connected, c, r)
        /\ k.rooms = WithUsers(opened.rooms, r, Put(opened.rooms[r].users, c, user))
        /\ k.panicked = opened.panicked
    BY <2>4, <2>6, EnterTyped
  <2> HIDE DEF k, user
  <2>8. \A u \in DOMAIN connected : InRoom(hub, u) => connected[u] \in DOMAIN hub.rooms
    <3>1. \A u \in Clients : InRoom(hub, u) => hub.connected[u] \in DOMAIN hub.rooms
      BY <1>1, PlacedInside
    <3>2. DOMAIN hub.connected \subseteq Clients
      BY <1>1, PlacedInside
    <3>3. QED BY <1>1, <3>1, <3>2
  <2>9. \A u \in DOMAIN connected : Kept(hub, opened, u)
    BY <1>1, <2>4, <2>6, <2>8 DEF Kept, RoomOf
  <2>10. Placed(opened)
    <3>1. \A q \in RoomIDs, d \in Clients : Inside(opened, q, d) <=> Inside(hub, q, d)
      BY <2>1, <2>4, <2>5, <2>6 DEF Inside, Put
    <3>2. QED BY <1>1, <2>4, <3>1 DEF Placed
  <2>11. /\ \A u \in DOMAIN opened.connected \ {c} : Kept(opened, k, u)
         /\ k.rooms[r].users[c] = user
         /\ k.rooms[r].closeOnOwnerLeave = close
    <3>1. /\ k.connected \in {opened.connected, Put(opened.connected, c, r)}
          /\ k.rooms = WithUsers(opened.rooms, r, Put(opened.rooms[r].users, c, user))
      BY <2>7
    <3>2. QED BY <2>2, <2>4, <2>5, <2>6, <2>10, <3>1, PutKept
  <2>12. \A u \in DOMAIN connected \ {c} : Kept(hub, k, u)
    BY <2>4, <2>9, <2>11, KeptTwice
  <2>13. c \in DOMAIN k.connected /\ k.connected[c] = r /\ r # NoRoom
    BY <2>7 DEF Put
  <2>14. (Keeps(k, c) <=> close) /\ ~Shares(k, c)
    BY <2>2, <2>11, <2>13 DEF Keeps, Shares, InRoom, RoomOf
  <2>15. \A u \in DOMAIN connected : connected[u] # r
    BY <1>1, <2>1, <2>8 DEF InRoom
  <2>16. Handled(k)
    BY <2>3, <2>7 DEF Handled
  <2>17. k.connected = Put(connected, c, r)
    BY <2>4, <2>7
  <2>18. QED
    BY <1>2, <2>1, <2>12, <2>14, <2>15, <2>16, <2>17, EnterView
<1>6. QED
  BY <1>3, <1>4, <1>5 DEF Create

\* Who starts to share is seen by the whole room at once; who cannot, leaves.
LEMMA StartShareSeen ==
    ASSUME NoRoom \notin RoomIDs, TypeOK, Sound(hub), NEW c \in Clients,
           StartShare(c)
    PROVE  Promise!Leave(c) \/ Promise!Share(c)
<1>1. Typed(hub) /\ hub.connected = connected /\ hub.rooms = rooms /\ Placed(hub)
  BY HubTyped DEF hub, Sound
<1>2. c \in DOMAIN connected /\ UNCHANGED arrived
  BY DEF StartShare, Accepts
<1>3. CASE Become(Disconnect(hub, c))
  BY <1>2, <1>3, DisconnectSeen
<1>4. CASE HasRoom(c)
  <2> DEFINE r      == connected[c]
             user   == Streaming(hub.rooms[r].users[c], TRUE)
             shared == SetStreaming(hub, r, c, TRUE)
             pairs  == {c} \X Others(Room(c), c)
             left   == Disconnect(shared, c)
             made   == NewSessions(shared, r, pairs)
             told   == NotifyInfoChanged(made, r)
  <2>1. Inside(hub, r, c) /\ r \in DOMAIN hub.rooms /\ r # NoRoom
    BY <1>2, <1>4, HasRoomInside DEF HasRoom
  <2>2. c \in DOMAIN hub.rooms[r].users /\ Room(c) = hub.rooms[r]
    BY <1>1, <2>1 DEF Inside, Room
  <2>3. Become(Disconnect(hub, c)) \/ Become(left) \/ Become(told)
    BY <2>2 DEF StartShare, Deref
  <2>4. DOMAIN Room(c).users \subseteq Clients
    BY <1>1, <2>1, <2>2, RoomFields DEF IsMap
  <2> HIDE DEF r
  <2>5. SoundBut(shared, c) /\ Sound(made)
    BY <1>1, <2>1, <2>2, ShareSound
  <2>6. hub.rooms[r].users[c] \in User
    BY <1>1, <2>1, <2>2, RoomFields DEF IsMap
  <2>7. /\ user \in User
        /\ user.owner = hub.rooms[r].users[c].owner
        /\ user.streaming = TRUE
    BY <2>6 DEF User, Streaming
  <2>8. /\ Typed(shared)
        /\ shared.connected = connected
        /\ shared.rooms = WithUsers(hub.rooms, r, Put(hub.rooms[r].users, c, user))
    <3>1. Typed(hub) /\ c \in DOMAIN hub.rooms[r].users /\ r \in DOMAIN hub.rooms
      BY <1>1, <2>1, <2>2
    <3>2. QED BY <1>1, <3>1, SetStreamingTyped
  <2>9. pairs \in SUBSET (Clients \X Clients)
    BY <2>4 DEF Others
  <2> HIDE DEF shared, user, pairs
  <2>10. Placed(shared)
    BY <2>5 DEF SoundBut
  <2>11. /\ \A u \in DOMAIN connected \ {c} : Kept(hub, shared, u)
         /\ shared.rooms[r].users[c] = user
         /\ shared.rooms[r].closeOnOwnerLeave = hub.rooms[r].closeOnOwnerLeave
    <3>1. /\ shared.connected \in {hub.connected, Put(hub.connected, c, r)}
          /\ shared.rooms = WithUsers(hub.rooms, r, Put(hub.rooms[r].users, c, user))
      BY <1>1, <2>8
    <3>2. QED BY <1>1, <2>1, <2>7, <3>1, PutKept
  <2>12. (Keeps(shared, c) <=> Keeps(hub, c)) /\ Shares(shared, c)
    BY <1>1, <1>2, <2>1, <2>7, <2>8, <2>11 DEF Keeps, Shares, InRoom, RoomOf, r
  <2>13. r \in DOMAIN shared.rooms
    BY <2>1, <2>8 DEF WithUsers
  <2>14. Become(left) => Promise!Leave(c)
    <3> SUFFICES ASSUME Become(left) PROVE Promise!Leave(c)
      OBVIOUS
    <3> DEFINE out == IF Keeps(hub, c)
                      THEN {u \in DOMAIN connected : connected[u] = connected[c]}
                      ELSE {c}
    <3>1. Typed(left) /\ Departed(shared, c, left)
      BY <1>2, <2>8, DisconnectTyped
    <3>2. Sound(left)
      BY <1>2, <2>5, <2>8, DisconnectSound
    <3>3. Handled(left)
      BY <3>1, <3>2 DEF Handled
    <3> HIDE DEF left
    <3>4. /\ left.connected = Drop(connected, out)
          /\ \A u \in DOMAIN connected \ out : Kept(shared, left, u)
      BY <1>2, <2>8, <2>10, <2>12, <3>1, DepartKept
    <3>5. c \in out
      BY <1>2
    <3> HIDE DEF out
    <3>6. \A u \in DOMAIN connected \ out : Kept(hub, left, u)
      BY <2>11, <3>4, <3>5, KeptTwice
    <3>7. out = IF Keeps(hub, c)
                THEN {u \in DOMAIN connected : connected[u] = connected[c]}
                ELSE {c}
      BY DEF out
    <3>8. QED
      BY <1>2, <3>3, <3>4, <3>6, <3>7, LeaveView
  <2>15. Become(told) => Promise!Share(c)
    <3> SUFFICES ASSUME Become(told) PROVE Promise!Share(c)
      OBVIOUS
    <3> DEFINE X == shared.rooms[r].sessions \cup Made(shared, pairs)
    <3>1. /\ Typed(made)
          /\ made.connected = shared.connected
          /\ made.rooms = WithSessions(shared.rooms, r, X)
      BY <2>8, <2>9, <2>13, NewSessionsTyped
    <3>2. X \in SUBSET Session
      BY <2>8, <2>9, <2>13, MadeTyped, RoomFields
    <3> HIDE DEF made, X
    <3>3. \A u \in DOMAIN connected : Kept(shared, made, u)
      BY <2>8, <2>10, <2>13, <3>1, <3>2, SessionsKept
    <3>4. r \in DOMAIN made.rooms
      BY <2>13, <3>1 DEF WithSessions
    <3>5. Typed(told) /\ Alike(made, told)
      BY <3>1, <3>4, NotifyTyped
    <3>6. Sound(told)
      BY <2>5, <3>5, AlikeSound
    <3>7. Handled(told)
      BY <3>5, <3>6 DEF Handled
    <3> HIDE DEF told
    <3>8. told.connected = connected
      BY <2>8, <3>1, <3>5 DEF Alike
    <3>9. \A u \in DOMAIN connected : Kept(made, told, u)
      BY <2>8, <3>1, <3>5, AlikeKept
    <3>10. \A u \in DOMAIN connected : Kept(shared, told, u)
      BY <3>3, <3>9, KeptTwice
    <3>11. \A u \in DOMAIN connected \ {c} : Kept(hub, told, u)
      BY <2>11, <3>10, KeptTwice
    <3>12. (Keeps(told, c) <=> Keeps(hub, c)) /\ Shares(told, c)
      BY <1>2, <2>12, <3>10, KeptAlike
    <3>13. QED
      BY <1>2, <2>1, <3>7, <3>8, <3>11, <3>12, ShareView DEF r
  <2>16. QED
    BY <1>3, <2>3, <2>14, <2>15
<1>5. QED
  BY <1>3, <1>4 DEF StartShare

\* Who stops sharing is seen by nobody any more.
LEMMA StopShareSeen ==
    ASSUME NoRoom \notin RoomIDs, TypeOK, Sound(hub), NEW c \in Clients,
           StopShare(c)
    PROVE  Promise!Leave(c) \/ Promise!Stop(c)
<1>1. Typed(hub) /\ hub.connected = connected /\ hub.rooms = rooms /\ Placed(hub)
  BY HubTyped DEF hub, Sound
<1>2. c \in DOMAIN connected /\ UNCHANGED arrived
  BY DEF StopShare, Accepts
<1>3. CASE Become(Disconnect(hub, c))
  BY <1>2, <1>3, DisconnectSeen
<1>4. CASE HasRoom(c) /\ ~Become(Disconnect(hub, c))
  <2> DEFINE r     == connected[c]
             user  == Streaming(hub.rooms[r].users[c], FALSE)
             quiet == SetStreaming(hub, r, c, FALSE)
             shut  == CloseHostSessions(quiet, r, c)
             told  == NotifyInfoChanged(shut, r)
  <2>1. Inside(hub, r, c) /\ r \in DOMAIN hub.rooms /\ r # NoRoom
    BY <1>2, <1>4, HasRoomInside DEF HasRoom
  <2>2. c \in DOMAIN hub.rooms[r].users
    BY <2>1 DEF Inside
  <2>3. Become(told) /\ told = StopSharing(hub, r, c)
    BY <1>4, <2>2 DEF StopShare, Deref, StopSharing
  <2> HIDE DEF r
  <2>4. hub.rooms[r].users[c] \in User
    BY <1>1, <2>1, <2>2, RoomFields DEF IsMap
  <2>5. /\ user \in User
        /\ user.owner = hub.rooms[r].users[c].owner
        /\ user.streaming = FALSE
    BY <2>4 DEF User, Streaming
  <2>6. /\ Typed(quiet)
        /\ quiet.connected = connected
        /\ quiet.rooms = WithUsers(hub.rooms, r, Put(hub.rooms[r].users, c, user))
        /\ quiet.panicked = hub.panicked
    <3>1. Typed(hub) /\ c \in DOMAIN hub.rooms[r].users /\ r \in DOMAIN hub.rooms
      BY <1>1, <2>1, <2>2
    <3>2. QED BY <1>1, <3>1, SetStreamingTyped
  <2> HIDE DEF quiet, user
  <2>7. SoundBut(quiet, c) /\ Sound(told)
    <3>1. Sound(told)
      BY <1>1, <2>1, <2>3, StopSound
    <3>2. SoundBut(quiet, c)
      BY <1>1, <2>1, <2>5, <2>6, UserSound
    <3>3. QED BY <3>1, <3>2
  <2>8. Placed(quiet)
    BY <2>7 DEF SoundBut
  <2>9. /\ \A u \in DOMAIN connected \ {c} : Kept(hub, quiet, u)
        /\ quiet.rooms[r].users[c] = user
        /\ quiet.rooms[r].closeOnOwnerLeave = hub.rooms[r].closeOnOwnerLeave
    <3>1. /\ quiet.connected \in {hub.connected, Put(hub.connected, c, r)}
          /\ quiet.rooms = WithUsers(hub.rooms, r, Put(hub.rooms[r].users, c, user))
      BY <1>1, <2>6
    <3>2. QED BY <1>1, <2>1, <2>5, <3>1, PutKept
  <2>10. (Keeps(quiet, c) <=> Keeps(hub, c)) /\ ~Shares(quiet, c)
    BY <1>1, <1>2, <2>1, <2>5, <2>6, <2>9 DEF Keeps, Shares, InRoom, RoomOf, r
  <2>11. r \in DOMAIN quiet.rooms
    BY <2>1, <2>6 DEF WithUsers
  <2> DEFINE X == quiet.rooms[r].sessions \ HostedBy(quiet.rooms[r], c)
  <2>12. /\ Typed(shut)
         /\ shut.connected = quiet.connected
         /\ shut.rooms = WithSessions(quiet.rooms, r, X)
    BY <2>6, <2>11, CloseHostTyped
  <2>13. X \in SUBSET Session
    BY <2>6, <2>11, RoomFields
  <2> HIDE DEF shut, X
  <2>14. \A u \in DOMAIN connected : Kept(quiet, shut, u)
    BY <2>6, <2>8, <2>11, <2>12, <2>13, SessionsKept
  <2>15. r \in DOMAIN shut.rooms
    BY <2>11, <2>12 DEF WithSessions
  <2>16. Typed(told) /\ Alike(shut, told)
    BY <2>12, <2>15, NotifyTyped
  <2>17. Handled(told)
    BY <2>3, <2>7, <2>16 DEF Handled
  <2> HIDE DEF told
  <2>18. told.connected = connected
    BY <2>6, <2>12, <2>16 DEF Alike
  <2>19. \A u \in DOMAIN connected : Kept(shut, told, u)
    BY <2>6, <2>12, <2>16, AlikeKept
  <2>20. \A u \in DOMAIN connected : Kept(quiet, told, u)
    BY <2>14, <2>19, KeptTwice
  <2>21. \A u \in DOMAIN connected \ {c} : Kept(hub, told, u)
    BY <2>9, <2>20, KeptTwice
  <2>22. (Keeps(told, c) <=> Keeps(hub, c)) /\ ~Shares(told, c)
    BY <1>2, <2>10, <2>20, KeptAlike
  <2>23. QED
    BY <1>2, <2>1, <2>17, <2>18, <2>21, <2>22, ShareView DEF r
<1>5. QED
  BY <1>3, <1>4 DEF StopShare

\* Another name is no concern of ScreenShare.
LEMMA NameSeen ==
    ASSUME NoRoom \notin RoomIDs, TypeOK, Sound(hub), NEW c \in Clients, Name(c)
    PROVE  Promise!Leave(c) \/ UNCHANGED Promise!promised
<1>1. Typed(hub) /\ hub.connected = connected /\ hub.rooms = rooms /\ Placed(hub)
  BY HubTyped DEF hub, Sound
<1>2. c \in DOMAIN connected /\ UNCHANGED arrived
  BY DEF Name, Accepts
<1>3. CASE Become(Disconnect(hub, c))
  BY <1>2, <1>3, DisconnectSeen
<1>4. ASSUME HasRoom(c), NEW name \in Names,
             Become(Deref(hub, connected[c], c,
                 NotifyInfoChanged(
                    [hub EXCEPT !.rooms[connected[c]].users[c].name = name],
                    connected[c])))
      PROVE  UNCHANGED Promise!promised
  <2> DEFINE r     == connected[c]
             old   == hub.rooms[r].users[c]
             user  == [hub.rooms[r].users[c] EXCEPT !.name = name]
             named == [hub EXCEPT !.rooms[r].users[c] = user]
             told  == NotifyInfoChanged(named, r)
  <2>1. Inside(hub, r, c) /\ r \in DOMAIN hub.rooms /\ r # NoRoom
    BY <1>2, <1>4, HasRoomInside DEF HasRoom
  <2>2. c \in DOMAIN hub.rooms[r].users
    BY <2>1 DEF Inside
  <2>3. Become(told)
    BY <1>4, <2>2 DEF Deref
  <2> HIDE DEF r
  <2>4. old \in User
    BY <1>1, <2>1, <2>2, RoomFields DEF IsMap
  <2>5. user \in User /\ user.owner = old.owner /\ user.streaming = old.streaming
    BY <2>4 DEF User
  <2> HIDE DEF user
  <2>6. /\ Typed(named)
        /\ named.connected = hub.connected
        /\ named.rooms = WithUsers(hub.rooms, r, Put(hub.rooms[r].users, c, user))
        /\ named.panicked = hub.panicked
    BY ONLY <1>1, <2>1, <2>2, <2>5, UserTyped DEF named
  <2> HIDE DEF named
  <2>7. Sound(named)
    BY <1>1, <2>1, <2>5, <2>6, UserSound
  <2>8. r \in DOMAIN named.rooms
    BY <2>1, <2>6 DEF WithUsers
  <2>9. Typed(told) /\ Alike(named, told)
    BY <2>6, <2>8, NotifyTyped
  <2> HIDE DEF told
  <2>10. Handled(told)
    BY <2>3, <2>7, <2>9, AlikeSound DEF Handled
  <2>11. /\ \A u \in DOMAIN connected \ {c} : Kept(hub, named, u)
         /\ named.rooms[r].users[c] = user
         /\ named.rooms[r].closeOnOwnerLeave = hub.rooms[r].closeOnOwnerLeave
    <3>1. /\ named.connected \in {hub.connected, Put(hub.connected, c, r)}
          /\ named.rooms = WithUsers(hub.rooms, r, Put(hub.rooms[r].users, c, user))
      BY <2>6
    <3>2. QED BY <1>1, <2>1, <2>5, <3>1, PutKept
  <2>12. Kept(hub, named, c)
    BY <1>1, <1>2, <2>5, <2>6, <2>11 DEF Kept, RoomOf, r
  <2>13. \A u \in DOMAIN connected : Kept(named, told, u)
    BY <1>1, <2>6, <2>9, AlikeKept
  <2>14. \A u \in DOMAIN connected : Kept(hub, told, u)
    BY <2>11, <2>12, <2>13, KeptTwice
  <2>15. told.connected = connected
    BY <1>1, <2>6, <2>9 DEF Alike
  <2>16. QED
    BY <1>2, <2>10, <2>14, <2>15, SameView
<1>5. QED
  BY <1>3, <1>4 DEF Name

\* Nor is what the peers of a session tell each other.
LEMMA RelaySeen ==
    ASSUME NoRoom \notin RoomIDs, TypeOK, Sound(hub), NEW c \in Clients,
           NEW role \in {"host", "client"}, NEW s \in KnownSessions,
           Relay(c, role, s)
    PROVE  Promise!Leave(c) \/ UNCHANGED Promise!promised
<1> DEFINE to  == IF role = "host" THEN s.client ELSE s.host
           msg == [to |-> to, type |-> "relay", sid |-> s]
           k   == Send(hub, {msg})
<1>1. Typed(hub) /\ hub.connected = connected /\ hub.rooms = rooms
  BY HubTyped DEF hub
<1>2. c \in DOMAIN connected /\ UNCHANGED arrived
  BY DEF Relay, Accepts
<1>3. CASE Become(Disconnect(hub, c))
  BY <1>2, <1>3, DisconnectSeen
<1>4. CASE Become(hub) \/ Become(k) \/ Become([hub EXCEPT !.panicked = TRUE])
  <2> DEFINE p == [hub EXCEPT !.panicked = TRUE]
  <2>1. /\ hub.connected = connected /\ hub.rooms = rooms
        /\ k.connected = connected /\ k.rooms = rooms
        /\ p.connected = connected /\ p.rooms = rooms
    BY DEF hub, Send
  <2> HIDE DEF k, p
  <2>2. connected' = connected /\ rooms' = rooms
    BY <1>4, <2>1 DEF Become, p
  <2>3. Keepers' = Keepers /\ Sharing' = Sharing /\ Watching' = Watching
    BY <2>2 DEF Keepers, Sharing, Watching, Occupied
  <2>4. QED
    BY <1>2, <2>2, <2>3 DEF Promise!promised
<1>5. QED
  BY <1>3, <1>4 DEF Relay, Deref

\* A new connection arrives.
LEMMA ConnectedSeen ==
    ASSUME NoRoom \notin RoomIDs, TypeOK, Sound(hub), NEW c \in Clients, Connected(c)
    PROVE  Promise!Arrive(c)
<1> DEFINE k == [hub EXCEPT !.connected = Put(@, c, NoRoom)]
<1>1. /\ k.connected = Put(connected, c, NoRoom)
      /\ k.rooms = rooms
      /\ k.lookup = lookup /\ k.batch = batch /\ k.gauges = gauges
      /\ k.panicked = panicked /\ k.out = << >>
      /\ DOMAIN k = DOMAIN hub
  BY DEF hub
<1>2. Become(k) /\ c \notin arrived /\ arrived' = arrived \cup {c}
  BY DEF Connected
<1>3. Typed(hub) /\ hub.connected = connected /\ hub.rooms = rooms
  BY HubTyped DEF hub
<1> HIDE DEF k
<1>4. IsMap(k.connected, Clients, RoomIDs \cup {NoRoom})
  <2>1. IsMap(connected, Clients, RoomIDs \cup {NoRoom})
    BY <1>3 DEF Typed
  <2> DEFINE S == RoomIDs \cup {NoRoom}
  <2>2. NoRoom \in S
    OBVIOUS
  <2> HIDE DEF S
  <2>3. IsMap(Put(connected, c, NoRoom), Clients, S)
    BY <2>1, <2>2, PutMap DEF S
  <2>4. QED BY <1>1, <2>3 DEF S
<1>5. Typed(k)
  BY <1>1, <1>3, <1>4 DEF Typed, hub
<1>6. Sound(k)
  <2>1. c \notin DOMAIN connected /\ Placed(hub)
    BY <1>2 DEF TypeOK, Sound
  <2>2. \A d \in Clients, q \in RoomIDs : Inside(k, q, d) <=> Inside(hub, q, d)
    BY <1>1, <1>3 DEF Inside
  <2>3. Placed(k)
    BY <1>1, <1>3, <2>1, <2>2 DEF Placed, Put
  <2>4. QED BY <1>1, <1>3, <2>3 DEF Sound, hub
<1>7. Handled(k)
  BY <1>2, <1>5, <1>6 DEF Handled
<1>8. \A u \in DOMAIN connected : Kept(hub, k, u)
  <2>1. c \notin DOMAIN connected
    BY <1>2 DEF TypeOK
  <2>2. QED BY <1>1, <1>3, <2>1 DEF Kept, RoomOf, Put
<1>9. QED
  BY <1>1, <1>2, <1>7, <1>8, ArriveView

\* The room registry does what ScreenShare promises, for any number of clients
\* and rooms: each handler is one step of it or none.
THEOREM PromiseHolds ==
    ASSUME NoRoom \notin RoomIDs
    PROVE  Spec => KeepsPromise
<1>1. Init => Promise!Init
  <2> SUFFICES ASSUME Init PROVE Promise!Init
    OBVIOUS
  <2>1. connected = << >> /\ rooms = << >> /\ arrived = {}
    BY DEF Init
  <2>2. DOMAIN rooms = {}
    BY <2>1
  <2>3. Keepers = {} /\ Sharing = {} /\ Watching = {}
    BY <2>2 DEF Keepers, Sharing, Watching, Occupied
  <2>4. QED
    BY <2>1, <2>3 DEF Promise!Init
<1>2. TypeOK /\ Sound(hub) /\ [Next]_vars => [Promise!Next]_(Promise!promised)
  <2> SUFFICES ASSUME TypeOK, Sound(hub), [Next]_vars
               PROVE  Promise!Next \/ UNCHANGED Promise!promised
    OBVIOUS
  <2>1. CASE UNCHANGED vars
    BY <2>1 DEF vars, Promise!promised, Keepers, Sharing, Watching, Occupied
  <2>2. ASSUME NEW c \in Clients, Connected(c)
        PROVE  Promise!Next
    BY <2>2, ConnectedSeen DEF Promise!Next
  <2>3. ASSUME NEW c \in Clients, NEW r \in RoomIDs, NEW mode \in Modes,
               NEW close \in BOOLEAN, NEW joinIfExist \in BOOLEAN,
               Create(c, r, mode, close, joinIfExist)
        PROVE  Promise!Next
    BY <2>3, CreateSeen DEF Promise!Next
  <2>4. ASSUME NEW c \in Clients, NEW r \in RoomIDs, Join(c, r)
        PROVE  Promise!Next
    BY <2>4, JoinSeen DEF Promise!Next
  <2>5. ASSUME NEW c \in Clients, StartShare(c)
        PROVE  Promise!Next
    BY <2>5, StartShareSeen DEF Promise!Next
  <2>6. ASSUME NEW c \in Clients, StopShare(c)
        PROVE  Promise!Next
    BY <2>6, StopShareSeen DEF Promise!Next
  <2>7. ASSUME NEW c \in Clients, Name(c)
        PROVE  Promise!Next \/ UNCHANGED Promise!promised
    BY <2>7, NameSeen DEF Promise!Next
  <2>8. ASSUME NEW c \in Clients, NEW role \in {"host", "client"},
               NEW s \in KnownSessions, Relay(c, role, s)
        PROVE  Promise!Next \/ UNCHANGED Promise!promised
    BY <2>8, RelaySeen DEF Promise!Next
  <2>9. ASSUME NEW c \in Clients, Disconnected(c)
        PROVE  Promise!Next
    BY <2>9, DisconnectSeen DEF Promise!Next, Disconnected, Accepts
  <2>10. QED
    BY <2>1, <2>2, <2>3, <2>4, <2>5, <2>6, <2>7, <2>8, <2>9 DEF Next
<1>3. QED
  BY <1>1, <1>2, TypeCorrect, RegistrySound, PTL
     DEF Spec, KeepsPromise, Promise!Spec
=============================================================================
