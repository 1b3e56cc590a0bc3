---------------------------- MODULE RoomsAccess -----------------------------
(***************************************************************************)
(* Who gets in, and who is thrown out: which handlers take the connection  *)
(* of more than one client, which TURN credentials are accepted, who can   *)
(* come to be in a room or to have a credential, and who is counted.       *)
(***************************************************************************)
EXTENDS RoomsProofs, FiniteSetTheorems

-----------------------------------------------------------------------------
(* Who is thrown out *)

Cut(k) == DOMAIN connected \ DOMAIN k.connected

\* What OnlyOwnersEvict says of the clients that are gone in k.
OwnersCut(k) ==
    \A c, d \in Cut(k) :
        c # d => /\ connected[c] = connected[d]
                 /\ Room(c).closeOnOwnerLeave
                 /\ Owners(Room(c)) \subseteq Cut(k)

\* OwnersCut of the hub state a handler ends in is EvictedByOwner.
LEMMA BecomeCut ==
    ASSUME NEW k, OwnersCut(k), Become(k)
    PROVE  EvictedByOwner
BY DEF Become, OwnersCut, Cut, EvictedByOwner

\* A step that takes nobody's connection.
LEMMA NobodyCut ==
    ASSUME NEW k, Become(k), DOMAIN connected \subseteq DOMAIN k.connected
    PROVE  EvictedByOwner
BY DEF Become, EvictedByOwner

\* A client whose room stays open leaves alone.
LEMMA LeavesAlone ==
    ASSUME NEW h, NEW c, NEW k, Departed(h, c, k),
           DOMAIN h.connected = DOMAIN connected,
           ~ClosesFor(h, h.connected[c], c)
    PROVE  OwnersCut(k)
<1>1. k.connected = Drop(h.connected, {c})
  BY DEF Departed
<1>2. Cut(k) \subseteq {c}
  BY <1>1 DEF Cut, Drop
<1>3. QED
  BY <1>2 DEF OwnersCut

\* When c leaves a hub state whose rooms have the users and the owners that
\* they had when the handler started.
LEMMA LeavesWithOwner ==
    ASSUME NoRoom \notin RoomIDs, TypeOK, Sound(hub),
           NEW c \in Clients, c \in DOMAIN connected,
           NEW h, NEW k, Departed(h, c, k), h.connected = connected,
           connected[c] # NoRoom =>
              LET r == connected[c]
              IN  /\ DOMAIN h.rooms[r].users = DOMAIN rooms[r].users
                  /\ h.rooms[r].closeOnOwnerLeave = rooms[r].closeOnOwnerLeave
                  /\ \A u \in DOMAIN rooms[r].users :
                        h.rooms[r].users[u].owner = rooms[r].users[u].owner
    PROVE  OwnersCut(k)
<1> DEFINE r == connected[c]
           members == DOMAIN rooms[r].users
<1>1. CASE ~ClosesFor(h, r, c)
  BY <1>1, LeavesAlone
<1>2. CASE ~(r # NoRoom /\ Inside(h, r, c))
  <2>1. k.connected = Drop(connected, {c})
    BY <1>2 DEF Departed
  <2>2. Cut(k) \subseteq {c}
    BY <2>1 DEF Cut, Drop
  <2>3. QED BY <2>2 DEF OwnersCut
<1>3. CASE ClosesFor(h, r, c) /\ r # NoRoom /\ Inside(h, r, c)
  <2>1. k.connected = Drop(Drop(connected, {c}), DOMAIN h.rooms[r].users \ {c})
    BY <1>3 DEF Departed
  <2>2. r \in RoomIDs /\ Placed(hub) /\ DOMAIN connected \subseteq Clients
    BY <1>3 DEF TypeOK, IsMap, Sound
  <2>3. hub.connected = connected /\ hub.rooms = rooms
    BY DEF hub
  <2>4. Inside(hub, r, c)
    BY <2>2, <2>3 DEF Placed
  <2>5. r \in DOMAIN rooms /\ c \in members
    BY <2>3, <2>4 DEF Inside
  <2>6. members \subseteq Clients
    BY <2>3, <2>5, HubTyped, RoomFields DEF IsMap
  <2>7. \A d \in Clients : d \in members <=> (d \in DOMAIN connected /\ connected[d] = r)
    BY <2>2, <2>3, <2>5 DEF Placed, Inside
  <2>8. Cut(k) = members
    BY <1>3, <2>1, <2>5, <2>6, <2>7 DEF Cut, Drop
  <2>9. (\E d \in members : d # c) => rooms[r].closeOnOwnerLeave
    BY <1>3, <2>5 DEF ClosesFor
  <2>10. Owners(rooms[r]) \subseteq members
    BY DEF Owners
  <2>11. QED
    BY <2>6, <2>7, <2>8, <2>9, <2>10 DEF OwnersCut, Room
<1>4. QED
  BY <1>1, <1>2, <1>3

\* A client that is disconnected takes others along as an owner only.
LEMMA DisconnectCut ==
    ASSUME NoRoom \notin RoomIDs, TypeOK, Sound(hub), NEW c \in Clients,
           c \in DOMAIN connected
    PROVE  OwnersCut(Disconnect(hub, c))
<1>1. Typed(hub) /\ hub.connected = connected /\ hub.rooms = rooms
  BY HubTyped DEF hub
<1>2. Departed(hub, c, Disconnect(hub, c))
  BY <1>1, DisconnectTyped
<1>3. QED
  BY <1>1, <1>2, LeavesWithOwner
\* Join: a client that cannot stay takes nobody along, for it owns nothing.
LEMMA JoinStepCut ==
    ASSUME NoRoom \notin RoomIDs, TypeOK, Sound(hub), NEW c \in Clients, NEW r,
           Join(c, r)
    PROVE  EvictedByOwner
<1>1. Typed(hub) /\ hub.connected = connected /\ hub.rooms = rooms
  BY HubTyped DEF hub
<1>2. c \in DOMAIN connected
  BY DEF Join, Accepts
<1>3. CASE Become(Disconnect(hub, c))
  BY <1>2, <1>3, DisconnectCut, BecomeCut
<1>4. ASSUME NEW name \in Names, MayJoin(c, r)
      PROVE  LET entered == Enter(hub, c, r, name, FALSE)
                 pairs   == (Streamers(entered.rooms[r]) \ {c}) \X {c}
             IN  Become(Disconnect(entered, c)) \/ Become(NewSessions(entered, r, pairs))
                    => EvictedByOwner
  <2> DEFINE user    == NewUser(name, FALSE)
             entered == Enter(hub, c, r, name, FALSE)
             pairs   == (Streamers(entered.rooms[r]) \ {c}) \X {c}
             left    == Disconnect(entered, c)
             joined  == NewSessions(entered, r, pairs)
  <2>1. r \in DOMAIN hub.rooms /\ connected[c] = NoRoom
    BY <1>1, <1>4 DEF MayJoin
  <2>2. user \in User /\ user.owner = FALSE
    BY DEF User, NewUser
  <2>3. /\ Typed(entered)
        /\ entered.connected = Put(connected, c, r)
        /\ entered.rooms = WithUsers(hub.rooms, r, Put(hub.rooms[r].users, c, user))
    BY <1>1, <2>1, EnterTyped
  <2> HIDE DEF entered, user
  <2>4. /\ DOMAIN entered.connected = DOMAIN connected
        /\ c \in DOMAIN entered.connected
        /\ entered.connected[c] = r
        /\ r \in DOMAIN entered.rooms
    BY <1>2, <2>1, <2>3 DEF Put, WithUsers
  <2>5. /\ DOMAIN entered.rooms[r].users = DOMAIN hub.rooms[r].users \cup {c}
        /\ entered.rooms[r].users[c] = user
    <3>1. entered.rooms = WithUsers(hub.rooms, r, Put(hub.rooms[r].users, c, user))
      BY <2>3
    <3>2. QED BY <1>1, <2>1, <2>2, <3>1, PutRoom
  <2>6. c \notin DOMAIN hub.rooms[r].users /\ DOMAIN hub.rooms[r].users # {}
    <3>1. r \in RoomIDs
      BY <1>1, <2>1, RoomFields
    <3>2. ~Inside(hub, r, c)
      BY <1>1, <2>1, <3>1 DEF Sound, Placed
    <3>3. QED BY <2>1, <3>2 DEF Inside, Sound, OwnedRoom
  <2>7. ~ClosesFor(entered, r, c)
    BY <2>2, <2>5, <2>6 DEF ClosesFor
  <2>8. Departed(entered, c, left)
    BY <2>3, <2>4, DisconnectTyped
  <2>9. Streamers(entered.rooms[r]) \subseteq Clients
    BY <2>3, <2>4, RoomFields DEF Streamers, IsMap
  <2>10. pairs \in SUBSET (Clients \X Clients)
    BY <2>9
  <2> HIDE DEF pairs
  <2>11. joined.connected = entered.connected
    BY <2>3, <2>4, <2>10, NewSessionsTyped
  <2> HIDE DEF left, joined
  <2>12. OwnersCut(left)
    BY <2>4, <2>7, <2>8, LeavesAlone
  <2>13. Become(left) => EvictedByOwner
    BY <2>12, BecomeCut
  <2>14. Become(joined) => EvictedByOwner
    BY <2>4, <2>11, NobodyCut
  <2>15. QED
    BY <2>13, <2>14 DEF left, joined, pairs, entered
<1>5. QED
  BY <1>3, <1>4 DEF Join

\* Create disconnects its sender at most.
LEMMA CreateStepCut ==
    ASSUME NoRoom \notin RoomIDs, TypeOK, Sound(hub), NEW c \in Clients,
           NEW r \in RoomIDs, NEW mode \in Modes, NEW close \in BOOLEAN,
           NEW joinIfExist \in BOOLEAN, Create(c, r, mode, close, joinIfExist)
    PROVE  EvictedByOwner
<1>1. Typed(hub) /\ hub.connected = connected
  BY HubTyped DEF hub
<1>2. c \in DOMAIN connected
  BY DEF Create, Accepts
<1>3. CASE Join(c, r)
  BY <1>3, JoinStepCut
<1>4. CASE Become(Disconnect(hub, c))
  BY <1>2, <1>4, DisconnectCut, BecomeCut
<1>5. ASSUME NEW name \in Names,
             Become(Enter(OpenRoom(hub, r, mode, close), c, r, name, TRUE))
      PROVE  EvictedByOwner
  <2> DEFINE opened  == OpenRoom(hub, r, mode, close)
             entered == Enter(opened, c, r, name, TRUE)
  <2>1. /\ Typed(opened)
        /\ opened.connected = connected
        /\ opened.rooms = Put(hub.rooms, r, EmptyRoom(mode, close))
    BY <1>1, OpenRoomTyped
  <2>2. Become(entered)
    BY <1>5
  <2> HIDE DEF opened
  <2>3. r \in DOMAIN opened.rooms
    BY <2>1 DEF Put
  <2>4. entered.connected = Put(opened.connected, c, r)
    BY <2>1, <2>3, EnterTyped
  <2> HIDE DEF entered
  <2>5. DOMAIN connected \subseteq DOMAIN entered.connected
    BY <2>1, <2>4 DEF Put
  <2>6. QED
    BY <2>2, <2>5, NobodyCut
<1>6. QED
  BY <1>3, <1>4, <1>5 DEF Create

\* StartShare: the owner may be thrown out when the address lookup fails.
LEMMA StartShareStepCut ==
    ASSUME NoRoom \notin RoomIDs, TypeOK, Sound(hub), NEW c \in Clients,
           StartShare(c)
    PROVE  EvictedByOwner
<1>1. Typed(hub) /\ hub.connected = connected /\ hub.rooms = rooms
  BY HubTyped DEF hub
<1>2. c \in DOMAIN connected
  BY DEF StartShare, Accepts
<1>3. CASE Become(Disconnect(hub, c))
  BY <1>2, <1>3, DisconnectCut, BecomeCut
<1>4. CASE HasRoom(c)
  <2> DEFINE r      == connected[c]
             user   == Streaming(hub.rooms[r].users[c], TRUE)
             shared == SetStreaming(hub, r, c, TRUE)
             pairs  == {c} \X Others(Room(c), c)
             left   == Disconnect(shared, c)
             made   == NewSessions(shared, r, pairs)
             told   == NotifyInfoChanged(made, r)
  <2>1. Inside(hub, r, c) /\ r \in DOMAIN hub.rooms
    BY <1>2, <1>4, HasRoomInside
  <2>2. c \in DOMAIN hub.rooms[r].users /\ Room(c) = hub.rooms[r]
    BY <1>1, <2>1 DEF Inside, Room
  <2>3. /\ Become(Disconnect(hub, c)) \/ Become(left) \/ Become(told)
    BY <2>2 DEF StartShare, Deref
  <2> HIDE DEF r
  <2>4. hub.rooms[r].users[c] \in User
    BY <1>1, <2>1, <2>2, RoomFields DEF IsMap
  <2>5. user \in User /\ user.owner = hub.rooms[r].users[c].owner
    BY <2>4 DEF User, Streaming
  <2>6. /\ Typed(shared)
        /\ shared.connected = hub.connected
        /\ shared.rooms = WithUsers(hub.rooms, r, Put(hub.rooms[r].users, c, user))
    <3>1. Typed(hub) /\ c \in DOMAIN hub.rooms[r].users /\ r \in DOMAIN hub.rooms
      BY <1>1, <2>1, <2>2
    <3>2. QED BY <3>1, SetStreamingTyped
  <2>7. pairs \in SUBSET (Clients \X Clients)
    <3>1. DOMAIN Room(c).users \subseteq Clients
      BY <1>1, <2>1, <2>2, RoomFields DEF IsMap
    <3>2. QED BY <3>1 DEF Others
  <2> HIDE DEF shared, pairs, user
  <2>8. /\ shared.rooms[r].closeOnOwnerLeave = hub.rooms[r].closeOnOwnerLeave
        /\ DOMAIN shared.rooms[r].users = DOMAIN hub.rooms[r].users \cup {c}
        /\ shared.rooms[r].users[c] = user
        /\ \A u \in DOMAIN hub.rooms[r].users : u # c =>
              shared.rooms[r].users[u] = hub.rooms[r].users[u]
    <3>1. shared.rooms = WithUsers(hub.rooms, r, Put(hub.rooms[r].users, c, user))
      BY <2>6
    <3>2. QED BY <1>1, <2>1, <2>5, <3>1, PutRoom
  <2>9. /\ DOMAIN shared.rooms[r].users = DOMAIN rooms[r].users
        /\ shared.rooms[r].closeOnOwnerLeave = rooms[r].closeOnOwnerLeave
        /\ \A u \in DOMAIN rooms[r].users :
              shared.rooms[r].users[u].owner = rooms[r].users[u].owner
    BY <1>1, <2>2, <2>5, <2>8
  <2>10. Departed(shared, c, left)
    BY <1>1, <1>2, <2>6, DisconnectTyped
  <2> HIDE DEF left
  <2>11. OwnersCut(left)
    <3>1. shared.connected = connected
      BY <1>1, <2>6
    <3>2. QED BY <1>2, <2>9, <2>10, <3>1, LeavesWithOwner DEF r
  <2>12. r \in DOMAIN shared.rooms
    BY <2>1, <2>6 DEF WithUsers
  <2>13. /\ Typed(made)
         /\ made.connected = shared.connected
         /\ made.rooms = WithSessions(shared.rooms, r,
                            shared.rooms[r].sessions \cup Made(shared, pairs))
    BY <2>6, <2>7, <2>12, NewSessionsTyped
  <2> HIDE DEF made
  <2>14. r \in DOMAIN made.rooms
    BY <2>12, <2>13 DEF WithSessions
  <2>15. Alike(made, told)
    BY <2>13, <2>14, NotifyTyped
  <2> HIDE DEF told
  <2>16. Become(told) => EvictedByOwner
    BY <1>1, <2>6, <2>13, <2>15, NobodyCut DEF Alike
  <2>17. Become(left) => EvictedByOwner
    BY <2>11, BecomeCut
  <2>18. QED
    BY <1>3, <2>3, <2>16, <2>17
<1>5. QED
  BY <1>3, <1>4 DEF StartShare

\* The handlers that disconnect nobody but their sender.
LEMMA OtherStepCut ==
    ASSUME NoRoom \notin RoomIDs, TypeOK, Sound(hub), NEW c \in Clients,
           \/ Connected(c) \/ StopShare(c) \/ Name(c) \/ Disconnected(c)
           \/ \E role \in {"host", "client"}, s \in KnownSessions : Relay(c, role, s)
    PROVE  EvictedByOwner
<1>1. Typed(hub) /\ hub.connected = connected /\ hub.rooms = rooms
  BY HubTyped DEF hub
<1>2. CASE Connected(c)
  <2> DEFINE k == [hub EXCEPT !.connected = Put(@, c, NoRoom)]
  <2>1. k.connected = Put(connected, c, NoRoom) /\ Become(k)
    BY <1>2 DEF Connected, hub
  <2> HIDE DEF k
  <2>2. QED BY <2>1, NobodyCut DEF Put
<1>3. CASE c \in DOMAIN connected /\ Become(Disconnect(hub, c))
  BY <1>3, DisconnectCut, BecomeCut
<1>4. CASE c \in DOMAIN connected /\ HasRoom(c) /\ StopShare(c)
                /\ ~Become(Disconnect(hub, c))
  <2> DEFINE r     == connected[c]
             quiet == SetStreaming(hub, r, c, FALSE)
             shut  == CloseHostSessions(quiet, r, c)
             told  == NotifyInfoChanged(shut, r)
  <2>1. r \in DOMAIN hub.rooms /\ c \in DOMAIN hub.rooms[r].users
    BY <1>4, HasRoomInside DEF Inside
  <2>2. Become(told)
    BY <1>4, <2>1 DEF StopShare, Deref, StopSharing
  <2> HIDE DEF r
  <2>3. /\ Typed(quiet)
        /\ quiet.connected = hub.connected
        /\ quiet.rooms = WithUsers(hub.rooms, r, Put(hub.rooms[r].users, c,
                           Streaming(hub.rooms[r].users[c], FALSE)))
    BY <1>1, <2>1, SetStreamingTyped
  <2> HIDE DEF quiet
  <2>4. r \in DOMAIN quiet.rooms
    BY <2>1, <2>3 DEF WithUsers
  <2>5. /\ Typed(shut)
        /\ shut.connected = quiet.connected
        /\ shut.rooms = WithSessions(quiet.rooms, r,
              quiet.rooms[r].sessions \ HostedBy(quiet.rooms[r], c))
    BY <2>3, <2>4, CloseHostTyped
  <2> HIDE DEF shut
  <2>6. r \in DOMAIN shut.rooms
    BY <2>4, <2>5 DEF WithSessions
  <2>7. Alike(shut, told)
    BY <2>5, <2>6, NotifyTyped
  <2> HIDE DEF told
  <2>8. QED
    BY <1>1, <2>2, <2>3, <2>5, <2>7, NobodyCut DEF Alike
<1>5. ASSUME c \in DOMAIN connected, HasRoom(c), NEW name \in Names,
             Become(Deref(hub, connected[c], c,
                 NotifyInfoChanged(
                    [hub EXCEPT !.rooms[connected[c]].users[c].name = name],
                    connected[c])))
      PROVE  EvictedByOwner
  <2> DEFINE r     == connected[c]
             user  == [hub.rooms[r].users[c] EXCEPT !.name = name]
             named == [hub EXCEPT !.rooms[r].users[c] = user]
             told  == NotifyInfoChanged(named, r)
  <2>1. r \in DOMAIN hub.rooms /\ c \in DOMAIN hub.rooms[r].users
    BY <1>5, HasRoomInside DEF Inside
  <2>2. Become(told)
    BY <1>5, <2>1 DEF Deref
  <2> HIDE DEF r
  <2>3. hub.rooms[r].users[c] \in User
    BY <1>1, <2>1, RoomFields DEF IsMap
  <2>4. user \in User
    BY <2>3 DEF User
  <2> HIDE DEF user
  <2>5. /\ Typed(named)
        /\ named.connected = hub.connected
        /\ named.rooms = WithUsers(hub.rooms, r, Put(hub.rooms[r].users, c, user))
    BY <1>1, <2>1, <2>4, UserTyped
  <2> HIDE DEF named
  <2>6. r \in DOMAIN named.rooms
    BY <2>1, <2>5 DEF WithUsers
  <2>7. Alike(named, told)
    BY <2>5, <2>6, NotifyTyped
  <2> HIDE DEF told
  <2>8. QED
    BY <1>1, <2>2, <2>5, <2>7, NobodyCut DEF Alike
<1>6. ASSUME NEW role \in {"host", "client"}, NEW s \in KnownSessions,
             Relay(c, role, s), ~Become(Disconnect(hub, c))
      PROVE  EvictedByOwner
  <2> DEFINE to  == IF role = "host" THEN s.client ELSE s.host
             msg == [to |-> to, type |-> "relay", sid |-> s]
             k   == Send(hub, {msg})
             p   == [hub EXCEPT !.panicked = TRUE]
  <2>1. k.connected = connected /\ p.connected = connected
    BY <1>1 DEF Send, hub
  <2>2. Become(hub) \/ Become(k) \/ Become(p)
    BY <1>6 DEF Relay, Deref
  <2> HIDE DEF k, p
  <2>3. QED
    BY <1>1, <2>1, <2>2, NobodyCut
<1>7. QED
  BY <1>2, <1>3, <1>4, <1>5, <1>6
     DEF StopShare, Name, Disconnected, Accepts, Relay

\* A client loses its connection through another's departure only when that
\* other owns their room and the room closes with its owner.
THEOREM EvictionHolds ==
    ASSUME NoRoom \notin RoomIDs
    PROVE  Spec => OnlyOwnersEvict
<1>1. TypeOK /\ Sound(hub) /\ [Next]_vars => [EvictedByOwner]_vars
  <2> SUFFICES ASSUME TypeOK, Sound(hub), NEW c \in Clients,
                      \/ Connected(c) \/ StopShare(c) \/ Name(c) \/ Disconnected(c)
                      \/ \E role \in {"host", "client"}, s \in KnownSessions :
                            Relay(c, role, s)
                      \/ \E r \in RoomIDs : Join(c, r)
                      \/ \E r \in RoomIDs, mode \in Modes, close, joinIfExist \in BOOLEAN :
                            Create(c, r, mode, close, joinIfExist)
                      \/ StartShare(c)
               PROVE  EvictedByOwner
    BY DEF Next
  <2>1. ASSUME NEW r \in RoomIDs, Join(c, r)
        PROVE  EvictedByOwner
    BY <2>1, JoinStepCut
  <2>2. ASSUME NEW r \in RoomIDs, NEW mode \in Modes, NEW close \in BOOLEAN,
               NEW joinIfExist \in BOOLEAN, Create(c, r, mode, close, joinIfExist)
        PROVE  EvictedByOwner
    BY <2>2, CreateStepCut
  <2>3. CASE StartShare(c)
    BY <2>3, StartShareStepCut
  <2>4. QED
    BY <2>1, <2>2, <2>3, OtherStepCut
<1>2. QED
  BY <1>1, TypeCorrect, RegistrySound, PTL DEF Spec, OnlyOwnersEvict

-----------------------------------------------------------------------------
(* What each function of the code does to the credentials *)

\* Most functions do nothing to them.
LEMMA LookupKept ==
    ASSUME NEW h, Typed(h), NEW r, NEW c
    PROVE  /\ \A msgs : Send(h, msgs).lookup = h.lookup
           /\ NotifyInfoChanged(h, r).lookup = h.lookup
           /\ \A made : AddSessions(h, r, made).lookup = h.lookup
           /\ RemoveUser(h, r, c).lookup = h.lookup
           /\ \A members : Evict(h, members).lookup = h.lookup
           /\ \A mode, close : OpenRoom(h, r, mode, close).lookup = h.lookup
<1>1. \A msgs : Send(h, msgs).lookup = h.lookup
  BY DEF Typed, Send
<1>2. NotifyInfoChanged(h, r).lookup = h.lookup
  BY <1>1 DEF NotifyInfoChanged
<1>3. \A made : AddSessions(h, r, made).lookup = h.lookup
  BY DEF Typed, AddSessions
<1>4. RemoveUser(h, r, c).lookup = h.lookup
  BY DEF Typed, RemoveUser
<1>5. \A members : Evict(h, members).lookup = h.lookup
  BY DEF Typed, Evict, Send
<1>6. \A mode, close : OpenRoom(h, r, mode, close).lookup = h.lookup
  BY DEF Typed, OpenRoom
<1>7. QED
  BY <1>1, <1>2, <1>3, <1>4, <1>5, <1>6

\* closeSession revokes the credentials of what it closes ...
LEMMA LookupClosed ==
    ASSUME NEW h, Typed(h), NEW r, NEW gone
    PROVE  CloseSessions(h, r, gone).lookup =
              IF TurnExternal THEN h.lookup
              ELSE h.lookup \ CredentialsOf(h.rooms[r], gone)
<1> DEFINE k == [h EXCEPT !.rooms[r].sessions = @ \ gone,
                          !.gauges.sessions = @ - Cardinality(gone)]
<1>1. DOMAIN k = DOMAIN h /\ k.lookup = h.lookup
  BY DEF Typed
<1>2. CloseSessions(h, r, gone) = Disallow(k, CredentialsOf(h.rooms[r], gone))
  BY DEF CloseSessions
<1> HIDE DEF k
<1>3. QED
  BY <1>1, <1>2 DEF Typed, Disallow

\* ... and newSession enters those of what it makes.
LEMMA LookupMade ==
    ASSUME NEW h, Typed(h), NEW r, NEW pairs
    PROVE  NewSessions(h, r, pairs).lookup =
              h.lookup \cup CredentialsOf(h.rooms[r], Made(h, pairs))
<1> DEFINE made  == Made(h, pairs)
           creds == CredentialsOf(h.rooms[r], made)
           added == AddSessions(h, r, made)
           allowed == Allow(added, creds)
<1>1. NewSessions(h, r, pairs) = Send(allowed, SessionNotices(made))
  BY DEF NewSessions
<1> HIDE DEF made, creds
<1>2. DOMAIN added = DOMAIN h /\ added.lookup = h.lookup
  BY DEF Typed, AddSessions
<1> HIDE DEF added
<1>3. DOMAIN allowed = DOMAIN h /\ allowed.lookup = h.lookup \cup creds
  BY <1>2 DEF Typed, Allow
<1> HIDE DEF allowed
<1>4. Send(allowed, SessionNotices(made)).lookup = allowed.lookup
  BY <1>3 DEF Typed, Send
<1>5. QED
  BY <1>1, <1>3, <1>4 DEF made, creds

-----------------------------------------------------------------------------
(* Credentials and sessions.  That no two rooms share a session is what      *)
(* makes it safe to revoke the credentials of one room's sessions.           *)

InUse(h, cred) ==
    \E r \in DOMAIN h.rooms : cred \in CredentialsOf(h.rooms[r], h.rooms[r].sessions)

Covered(h) ==
    /\ \A q, r \in DOMAIN h.rooms : q # r => h.rooms[q].sessions \cap h.rooms[r].sessions = {}
    /\ \A cred : InUse(h, cred) => cred \in h.lookup
    /\ ~TurnExternal => \A cred \in h.lookup : InUse(h, cred)

\* k has the rooms of h with other users, and the same credentials.
SameSessions(h, k) ==
    /\ k.lookup = h.lookup
    /\ DOMAIN k.rooms = DOMAIN h.rooms
    /\ \A r \in DOMAIN h.rooms :
          k.rooms[r].mode = h.rooms[r].mode /\ k.rooms[r].sessions = h.rooms[r].sessions

\* Other users do not matter to the credentials.
LEMMA SameCovered ==
    ASSUME NEW h, NEW k, Covered(h), SameSessions(h, k)
    PROVE  Covered(k)
<1>1. \A cred : InUse(k, cred) <=> InUse(h, cred)
  BY DEF SameSessions, InUse, CredentialsOf
<1>2. QED
  BY <1>1 DEF Covered, SameSessions

\* The credentials of sessions that end are those of no other session.
LEMMA ClosedCovered ==
    ASSUME NEW h, Typed(h), Covered(h), NEW r \in DOMAIN h.rooms,
           NEW gone \in SUBSET h.rooms[r].sessions
    PROVE  Covered(CloseSessions(h, r, gone))
<1> DEFINE k == CloseSessions(h, r, gone)
           room == h.rooms[r]
           X == room.sessions \ gone
<1>1. /\ k.rooms = WithSessions(h.rooms, r, X)
      /\ k.lookup = IF TurnExternal THEN h.lookup
                    ELSE h.lookup \ CredentialsOf(room, gone)
  <2>1. k.rooms = WithSessions(h.rooms, r, X)
    BY CloseSessionsTyped
  <2>2. k.lookup = IF TurnExternal THEN h.lookup
                   ELSE h.lookup \ CredentialsOf(room, gone)
    BY LookupClosed, Zenon
  <2>3. QED BY <2>1, <2>2
<1>2. /\ DOMAIN k.rooms = DOMAIN h.rooms
      /\ k.rooms[r].sessions = X
      /\ k.rooms[r].mode = room.mode
      /\ \A q \in DOMAIN h.rooms : q # r => k.rooms[q] = h.rooms[q]
  <2>1. IsMap(h.rooms, RoomIDs, RoomRecord) /\ X \in SUBSET Session
    BY RoomFields DEF Typed
  <2>2. QED BY <1>1, <2>1, WithSessionsMap
<1> HIDE DEF k
<1>3. \A cred : cred \in CredentialsOf(k.rooms[r], X)
                   <=> cred \in CredentialsOf(room, room.sessions) /\ cred \notin CredentialsOf(room, gone)
  BY <1>2 DEF CredentialsOf
<1>4. \A q \in DOMAIN h.rooms : \A cred :
         q # r /\ cred \in CredentialsOf(h.rooms[q], h.rooms[q].sessions)
            => cred \notin CredentialsOf(room, gone)
  BY DEF Covered, CredentialsOf
<1>5. \A cred : InUse(k, cred) <=> InUse(h, cred) /\ cred \notin CredentialsOf(room, gone)
  BY <1>2, <1>3, <1>4 DEF InUse
<1>6. \A p, q \in DOMAIN k.rooms :
         p # q => k.rooms[p].sessions \cap k.rooms[q].sessions = {}
  BY <1>2 DEF Covered
<1>7. QED
  BY <1>1, <1>5, <1>6 DEF Covered, k

\* New sessions are new to every room, and have their credentials.
LEMMA MadeCovered ==
    ASSUME NEW h, Typed(h), Covered(h), NEW r \in DOMAIN h.rooms,
           NEW pairs \in SUBSET (Clients \X Clients)
    PROVE  Covered(NewSessions(h, r, pairs))
<1> DEFINE k == NewSessions(h, r, pairs)
           made == Made(h, pairs)
           room == h.rooms[r]
           X == room.sessions \cup made
<1>1. /\ k.rooms = WithSessions(h.rooms, r, X)
      /\ k.lookup = h.lookup \cup CredentialsOf(room, made)
  BY NewSessionsTyped, LookupMade
<1>2. made \in SUBSET Session /\ \A s \in made : s.batch = h.batch
  BY MadeTyped
<1> HIDE DEF made
<1>3. /\ DOMAIN k.rooms = DOMAIN h.rooms
      /\ k.rooms[r].sessions = X
      /\ k.rooms[r].mode = room.mode
      /\ \A q \in DOMAIN h.rooms : q # r => k.rooms[q] = h.rooms[q]
  <2>1. IsMap(h.rooms, RoomIDs, RoomRecord) /\ X \in SUBSET Session
    BY <1>2, RoomFields DEF Typed
  <2>2. QED BY <1>1, <2>1, WithSessionsMap
<1> HIDE DEF k
<1>4. \A q \in DOMAIN h.rooms : h.rooms[q].sessions \cap made = {}
  <2> SUFFICES ASSUME NEW q \in DOMAIN h.rooms, NEW s \in h.rooms[q].sessions, s \in made
               PROVE  FALSE
    OBVIOUS
  <2>1. s.batch < h.batch /\ h.batch \in Nat
    BY DEF Typed
  <2>2. QED BY <1>2, <2>1
<1>5. \A cred : cred \in CredentialsOf(k.rooms[r], X)
                   <=> cred \in CredentialsOf(room, room.sessions) \/ cred \in CredentialsOf(room, made)
  BY <1>3 DEF CredentialsOf
<1>6. \A cred : InUse(k, cred) <=> InUse(h, cred) \/ cred \in CredentialsOf(room, made)
  BY <1>3, <1>5 DEF InUse
<1>7. \A p, q \in DOMAIN k.rooms :
         p # q => k.rooms[p].sessions \cap k.rooms[q].sessions = {}
  BY <1>3, <1>4 DEF Covered
<1>8. QED
  BY <1>1, <1>6, <1>7 DEF Covered, k

-----------------------------------------------------------------------------
(* The functions of leaving *)

\* Whatever is sent, the registry and the credentials stay as they are.
LEMMA SentCovered ==
    ASSUME NEW h, Typed(h), Covered(h), NEW msgs \in SUBSET Message
    PROVE  Covered(Send(h, msgs))
<1>1. Alike(h, Send(h, msgs)) /\ Send(h, msgs).lookup = h.lookup
  BY SendTyped, LookupKept
<1>2. SameSessions(h, Send(h, msgs))
  BY <1>1 DEF Alike, SameSessions
<1>3. QED BY <1>2, SameCovered

\* Nor does telling a room of its users.
LEMMA NotifiedCovered ==
    ASSUME NEW h, Typed(h), Covered(h), NEW r \in DOMAIN h.rooms
    PROVE  Covered(NotifyInfoChanged(h, r))
<1>1. Alike(h, NotifyInfoChanged(h, r)) /\ NotifyInfoChanged(h, r).lookup = h.lookup
  BY NotifyTyped, LookupKept
<1>2. SameSessions(h, NotifyInfoChanged(h, r))
  BY <1>1 DEF Alike, SameSessions
<1>3. QED BY <1>2, SameCovered

\* The sessions of c end, those with it or those it hosts.
LEMMA EndedCovered ==
    ASSUME NEW h, Typed(h), Covered(h), NEW r \in DOMAIN h.rooms, NEW c
    PROVE  Covered(CloseUserSessions(h, r, c)) /\ Covered(CloseHostSessions(h, r, c))
<1>1. ASSUME NEW gone \in SUBSET h.rooms[r].sessions
      PROVE  Covered(CloseSessions(Send(h, EndShares(h, r, gone, c)), r, gone))
  <2> DEFINE told == Send(h, EndShares(h, r, gone, c))
  <2>1. EndShares(h, r, gone, c) \in SUBSET Message
    BY EndSharesTyped, RoomFields
  <2>2. Typed(told) /\ Alike(h, told) /\ Covered(told)
    BY <2>1, SendTyped, SentCovered
  <2> HIDE DEF told
  <2>3. r \in DOMAIN told.rooms /\ gone \in SUBSET told.rooms[r].sessions
    BY <2>2 DEF Alike
  <2>4. Covered(CloseSessions(told, r, gone))
    BY <2>2, <2>3, ClosedCovered
  <2>5. QED BY <2>4 DEF told
<1>2. /\ SessionsWith(h.rooms[r], c) \in SUBSET h.rooms[r].sessions
      /\ HostedBy(h.rooms[r], c) \in SUBSET h.rooms[r].sessions
  BY DEF SessionsWith, HostedBy
<1>3. QED
  BY <1>1, <1>2 DEF CloseUserSessions, CloseHostSessions

\* closeRoom ends the sessions of the room before it takes the room out.
LEMMA RoomClosedCovered ==
    ASSUME NEW h, Typed(h), Covered(h), NEW r \in DOMAIN h.rooms
    PROVE  Covered(CloseRoom(h, r))
<1> DEFINE members == DOMAIN h.rooms[r].users
           evicted == Evict(h, members)
           X == h.rooms[r].sessions
           ended == CloseSessions(evicted, r, X)
           k == CloseRoom(h, r)
<1>1. k = [ended EXCEPT !.rooms = Drop(@, {r}), !.gauges.rooms = @ - 1]
  BY DEF CloseRoom
<1>2. members \in SUBSET Clients
  BY RoomFields DEF IsMap
<1> HIDE DEF members
<1>3. Typed(evicted) /\ evicted.rooms = h.rooms /\ evicted.lookup = h.lookup
  BY <1>2, EvictTyped, LookupKept
<1> HIDE DEF evicted
<1>4. Covered(evicted)
  BY <1>3, SameCovered DEF SameSessions
<1>5. X \in SUBSET evicted.rooms[r].sessions /\ r \in DOMAIN evicted.rooms
  BY <1>3
<1> HIDE DEF X
<1>6. Covered(ended) /\ Typed(ended)
  BY <1>3, <1>4, <1>5, ClosedCovered, CloseSessionsTyped
<1>7. ended.rooms[r].sessions = {}
  <2>1. ended.rooms = WithSessions(evicted.rooms, r, evicted.rooms[r].sessions \ X)
    BY <1>3, <1>5, CloseSessionsTyped
  <2>2. evicted.rooms[r].sessions \ X = {}
    BY <1>3 DEF X
  <2>3. IsMap(evicted.rooms, RoomIDs, RoomRecord)
    BY <1>3 DEF Typed
  <2>4. QED
    BY <1>5, <2>1, <2>2, <2>3, WithSessionsMap
<1> HIDE DEF ended
<1>8. k.lookup = ended.lookup /\ k.rooms = Drop(ended.rooms, {r})
  BY <1>1, <1>6 DEF Typed
<1> HIDE DEF k
<1>9. /\ DOMAIN k.rooms = DOMAIN ended.rooms \ {r}
      /\ \A q \in DOMAIN k.rooms : k.rooms[q] = ended.rooms[q]
  BY <1>8 DEF Drop
<1>10. \A cred : cred \notin CredentialsOf(ended.rooms[r], ended.rooms[r].sessions)
  BY <1>7 DEF CredentialsOf
<1>11. \A cred : InUse(k, cred) <=> InUse(ended, cred)
  BY <1>9, <1>10 DEF InUse
<1>12. QED
  BY <1>6, <1>8, <1>9, <1>11 DEF Covered, k

\* removeUserFromRoom ends sessions first, whatever becomes of the room.
LEMMA RemovedCovered ==
    ASSUME NEW h, Typed(h), Covered(h), NEW r, NEW c
    PROVE  Covered(RemoveUserFromRoom(h, r, c))
<1>1. CASE ~Inside(h, r, c)
  BY <1>1 DEF Inside, RemoveUserFromRoom
<1>2. CASE Inside(h, r, c)
  <2> DEFINE quiet == CloseUserSessions(h, r, c)
             left  == RemoveUser(quiet, r, c)
  <2>1. r \in DOMAIN h.rooms /\ c \in DOMAIN h.rooms[r].users
    BY <1>2 DEF Inside
  <2>2. Typed(quiet) /\ Covered(quiet)
    BY <2>1, CloseUserTyped, EndedCovered
  <2>3. Typed(left) /\ r \in DOMAIN left.rooms
    BY <1>2, <2>1, LeftTyped
  <2>4. r \in DOMAIN quiet.rooms
    <3>1. quiet.rooms = WithSessions(h.rooms, r,
              h.rooms[r].sessions \ SessionsWith(h.rooms[r], c))
      BY <2>1, CloseUserTyped
    <3> HIDE DEF quiet
    <3>2. QED BY <2>1, <3>1 DEF WithSessions
  <2> HIDE DEF quiet
  <2>5. SameSessions(quiet, left)
    <3> DEFINE U == Drop(quiet.rooms[r].users, {c})
    <3>1. left.rooms = WithUsers(quiet.rooms, r, U)
      BY <2>2, <2>4, RemoveUserTyped
    <3>2. left.lookup = quiet.lookup
      BY <2>2, LookupKept
    <3>3. IsMap(U, Clients, User)
      BY <2>2, <2>4, RoomFields, DropMap
    <3>4. IsMap(quiet.rooms, RoomIDs, RoomRecord)
      BY <2>2 DEF Typed
    <3> HIDE DEF left, U
    <3>5. /\ DOMAIN left.rooms = DOMAIN quiet.rooms
          /\ left.rooms[r].sessions = quiet.rooms[r].sessions
          /\ left.rooms[r].mode = quiet.rooms[r].mode
          /\ \A q \in DOMAIN quiet.rooms : q # r => left.rooms[q] = quiet.rooms[q]
      BY <2>4, <3>1, <3>3, <3>4, WithUsersMap
    <3>6. QED
      BY <3>2, <3>5 DEF SameSessions
  <2>6. Covered(left)
    BY <2>2, <2>5, SameCovered
  <2>7. RemoveUserFromRoom(h, r, c) = IF Closes(h.rooms[r], left.rooms[r], c)
                                      THEN CloseRoom(left, r)
                                      ELSE NotifyInfoChanged(left, r)
    BY <2>1 DEF RemoveUserFromRoom, quiet
  <2> HIDE DEF left
  <2>8. QED
    BY <2>3, <2>6, <2>7, RoomClosedCovered, NotifiedCovered
<1>3. QED BY <1>1, <1>2

\* A disconnect leaves neither a credential nor a session behind.
LEMMA DisconnectCovered ==
    ASSUME NEW h, Typed(h), Covered(h), NEW c \in Clients, c \in DOMAIN h.connected
    PROVE  Covered(Disconnect(h, c))
<1> DEFINE r    == h.connected[c]
           cut  == [h EXCEPT !.connected = Drop(@, {c})]
           gone == Send(cut, CloseWriters({c}))
<1>1. Disconnect(h, c) = IF r = NoRoom THEN gone ELSE RemoveUserFromRoom(gone, r, c)
  BY DEF Disconnect
<1>2. /\ DOMAIN cut = DOMAIN h
      /\ cut.connected = Drop(h.connected, {c})
      /\ cut.rooms = h.rooms /\ cut.panicked = h.panicked /\ cut.lookup = h.lookup
      /\ cut.out = h.out /\ cut.batch = h.batch /\ cut.gauges = h.gauges
  BY DEF Typed
<1>3. IsMap(cut.connected, Clients, RoomIDs \cup {NoRoom})
  BY <1>2, DropMap DEF Typed
<1> HIDE DEF cut, r
<1>4. Typed(cut)
  BY <1>2, <1>3 DEF Typed
<1>5. Covered(cut)
  BY <1>2, SameCovered DEF SameSessions
<1>6. Typed(gone) /\ Covered(gone)
  BY <1>4, <1>5, CloseWritersTyped, SendTyped, SentCovered
<1> HIDE DEF gone
<1>7. QED
  BY <1>1, <1>6, RemovedCovered

-----------------------------------------------------------------------------
(* The handlers *)

\* The hub state a handler ends in becomes the variables.
LEMMA BecomeCovered ==
    ASSUME NEW k, Covered(k), Become(k)
    PROVE  Covered(hub)'
<1>1. (hub.rooms)' = k.rooms /\ (hub.lookup)' = k.lookup
  BY DEF Become, hub
<1>2. QED
  BY <1>1 DEF Covered, InUse

\* Other users in a room do not change its sessions.
LEMMA UsersCovered ==
    ASSUME NEW h, Typed(h), Covered(h), NEW r \in DOMAIN h.rooms, NEW U,
           IsMap(U, Clients, User), NEW k, k.rooms = WithUsers(h.rooms, r, U),
           k.lookup = h.lookup
    PROVE  Covered(k)
<1>1. IsMap(h.rooms, RoomIDs, RoomRecord)
  BY DEF Typed
<1>2. /\ DOMAIN k.rooms = DOMAIN h.rooms
      /\ k.rooms[r].sessions = h.rooms[r].sessions
      /\ k.rooms[r].mode = h.rooms[r].mode
      /\ \A q \in DOMAIN h.rooms : q # r => k.rooms[q] = h.rooms[q]
  BY <1>1, WithUsersMap
<1>3. QED
  BY <1>2, SameCovered DEF SameSessions

\* ... such as one more user, or one that has changed.
LEMMA PutCovered ==
    ASSUME NEW h, Typed(h), Covered(h), NEW r \in DOMAIN h.rooms, NEW c \in Clients,
           NEW user \in User, NEW k, k.lookup = h.lookup,
           k.rooms = WithUsers(h.rooms, r, Put(h.rooms[r].users, c, user))
    PROVE  Covered(k)
<1> DEFINE U == Put(h.rooms[r].users, c, user)
<1>1. IsMap(h.rooms[r].users, Clients, User)
  BY RoomFields
<1>2. IsMap(U, Clients, User)
  BY <1>1, PutMap
<1> HIDE DEF U
<1>3. k.rooms = WithUsers(h.rooms, r, U)
  BY DEF U
<1>4. QED
  BY <1>2, <1>3, UsersCovered

\* A user who enters has no session yet.
LEMMA EnterCovered ==
    ASSUME NEW h, Typed(h), Covered(h), NEW r \in DOMAIN h.rooms, NEW c \in Clients,
           NEW name \in Names, NEW owner \in BOOLEAN
    PROVE  Covered(Enter(h, c, r, name, owner))
<1> DEFINE k == Enter(h, c, r, name, owner)
           user == NewUser(name, owner)
<1>1. k.rooms = WithUsers(h.rooms, r, Put(h.rooms[r].users, c, user))
  BY EnterTyped
<1>2. k.lookup = h.lookup
  BY DEF Typed, Enter, NotifyInfoChanged, Send
<1>3. user \in User
  BY DEF User, NewUser
<1> HIDE DEF k, user
<1>4. Covered(k)
  BY <1>1, <1>2, <1>3, PutCovered
<1>5. QED BY <1>4 DEF k

\* The user c of r shares, or does not, if it is there.
LEMMA ShareCovered ==
    ASSUME NEW h, Typed(h), Covered(h), NEW r \in DOMAIN h.rooms,
           NEW c \in DOMAIN h.rooms[r].users, NEW on \in BOOLEAN
    PROVE  Covered(SetStreaming(h, r, c, on))
<1> DEFINE k == SetStreaming(h, r, c, on)
           user == Streaming(h.rooms[r].users[c], on)
<1>1. k.rooms = WithUsers(h.rooms, r, Put(h.rooms[r].users, c, user))
  BY SetStreamingTyped
<1>2. k.lookup = h.lookup
  BY DEF Typed, SetStreaming
<1>3. c \in Clients /\ h.rooms[r].users[c] \in User
  BY RoomFields DEF IsMap
<1>4. user \in User
  BY <1>3 DEF User, Streaming
<1> HIDE DEF k, user
<1>5. Covered(k)
  BY <1>1, <1>2, <1>3, <1>4, PutCovered
<1>6. QED BY <1>5 DEF k

\* A panic leaves the registry as it is.
LEMMA PanicCovered ==
    ASSUME NEW h, Typed(h), Covered(h)
    PROVE  Covered([h EXCEPT !.panicked = TRUE])
<1> DEFINE k == [h EXCEPT !.panicked = TRUE]
<1>1. k.rooms = h.rooms /\ k.lookup = h.lookup
  BY DEF Typed
<1> HIDE DEF k
<1>2. Covered(k)
  BY <1>1, SameCovered DEF SameSessions
<1>3. QED BY <1>2 DEF k

\* Join makes sessions after it has entered the user, or takes it out again.
LEMMA JoinStepCovered ==
    ASSUME TypeOK, Covered(hub), NEW c \in Clients, NEW r, Join(c, r)
    PROVE  Covered(hub)'
<1>1. Typed(hub) /\ hub.connected = connected /\ hub.rooms = rooms
  BY HubTyped DEF hub
<1>2. c \in DOMAIN hub.connected
  BY <1>1 DEF Join, Accepts
<1>3. CASE Become(Disconnect(hub, c))
  BY <1>1, <1>2, <1>3, DisconnectCovered, BecomeCovered
<1>4. ASSUME NEW name \in Names, MayJoin(c, r)
      PROVE  LET entered == Enter(hub, c, r, name, FALSE)
                 pairs   == (Streamers(entered.rooms[r]) \ {c}) \X {c}
             IN  /\ Covered(Disconnect(entered, c))
                 /\ Covered(NewSessions(entered, r, pairs))
  <2> DEFINE user    == NewUser(name, FALSE)
             entered == Enter(hub, c, r, name, FALSE)
             pairs   == (Streamers(entered.rooms[r]) \ {c}) \X {c}
  <2>1. r \in DOMAIN hub.rooms
    BY <1>1, <1>4 DEF MayJoin
  <2>2. /\ Typed(entered)
        /\ entered.connected = Put(hub.connected, c, r)
        /\ entered.rooms = WithUsers(hub.rooms, r, Put(hub.rooms[r].users, c, user))
    BY <1>1, <2>1, EnterTyped
  <2>3. Covered(entered)
    BY <1>1, <2>1, EnterCovered
  <2> HIDE DEF entered, user
  <2>4. c \in DOMAIN entered.connected /\ r \in DOMAIN entered.rooms
    BY <2>1, <2>2 DEF Put, WithUsers
  <2>5. Streamers(entered.rooms[r]) \subseteq Clients
    BY <2>2, <2>4, RoomFields DEF Streamers, IsMap
  <2>6. pairs \in SUBSET (Clients \X Clients)
    BY <2>5
  <2> HIDE DEF pairs
  <2>7. Covered(Disconnect(entered, c)) /\ Covered(NewSessions(entered, r, pairs))
    BY <2>2, <2>3, <2>4, <2>6, DisconnectCovered, MadeCovered
  <2>8. QED BY <2>7 DEF pairs, entered
<1>5. QED
  BY <1>3, <1>4, BecomeCovered DEF Join

\* A room is opened without sessions.
LEMMA CreateStepCovered ==
    ASSUME TypeOK, Covered(hub), NEW c \in Clients, NEW r \in RoomIDs,
           NEW mode \in Modes, NEW close \in BOOLEAN, NEW joinIfExist \in BOOLEAN,
           Create(c, r, mode, close, joinIfExist)
    PROVE  Covered(hub)'
<1>1. Typed(hub) /\ hub.connected = connected /\ hub.rooms = rooms
  BY HubTyped DEF hub
<1>2. c \in DOMAIN hub.connected
  BY <1>1 DEF Create, Accepts
<1>3. CASE Join(c, r)
  BY <1>3, JoinStepCovered
<1>4. CASE Become(Disconnect(hub, c))
  BY <1>1, <1>2, <1>4, DisconnectCovered, BecomeCovered
<1>5. ASSUME NEW name \in Names, MayOpen(c, r, mode),
             Become(Enter(OpenRoom(hub, r, mode, close), c, r, name, TRUE))
      PROVE  Covered(hub)'
  <2> DEFINE opened == OpenRoom(hub, r, mode, close)
             room   == EmptyRoom(mode, close)
  <2>1. Typed(opened) /\ opened.rooms = Put(hub.rooms, r, room)
    BY <1>1, OpenRoomTyped
  <2>2. opened.lookup = hub.lookup
    BY <1>1, LookupKept
  <2>3. room.sessions = {}
    BY DEF EmptyRoom
  <2>4. r \notin DOMAIN hub.rooms
    BY <1>1, <1>5 DEF MayOpen
  <2>5. Become(Enter(opened, c, r, name, TRUE))
    BY <1>5
  <2> HIDE DEF opened, room
  <2>6. /\ DOMAIN opened.rooms = DOMAIN hub.rooms \cup {r}
        /\ opened.rooms[r] = room
        /\ \A q \in DOMAIN hub.rooms : opened.rooms[q] = hub.rooms[q]
    BY <2>1, <2>4 DEF Put
  <2>7. \A cred : cred \notin CredentialsOf(room, room.sessions)
    BY <2>3 DEF CredentialsOf
  <2>8. \A cred : InUse(opened, cred) <=> InUse(hub, cred)
    BY <2>4, <2>6, <2>7 DEF InUse
  <2>9. \A p, q \in DOMAIN opened.rooms :
           p # q => opened.rooms[p].sessions \cap opened.rooms[q].sessions = {}
    BY <2>3, <2>6 DEF Covered
  <2>10. Covered(opened)
    BY <2>2, <2>8, <2>9 DEF Covered
  <2>11. Covered(Enter(opened, c, r, name, TRUE))
    BY <2>1, <2>6, <2>10, EnterCovered
  <2>12. QED
    BY <2>5, <2>11, BecomeCovered
<1>6. QED
  BY <1>3, <1>4, <1>5 DEF Create

\* StartShare makes sessions in a room, or disconnects.
LEMMA StartShareStepCovered ==
    ASSUME TypeOK, Covered(hub), NEW c \in Clients, StartShare(c)
    PROVE  Covered(hub)'
<1>1. Typed(hub) /\ hub.connected = connected /\ hub.rooms = rooms
  BY HubTyped DEF hub
<1>2. c \in DOMAIN hub.connected
  BY <1>1 DEF StartShare, Accepts
<1>3. CASE Become(Disconnect(hub, c))
  BY <1>1, <1>2, <1>3, DisconnectCovered, BecomeCovered
<1>4. CASE HasRoom(c)
  <2> DEFINE r      == connected[c]
             shared == Deref(hub, r, c, SetStreaming(hub, r, c, TRUE))
             pairs  == {c} \X Others(Room(c), c)
             left   == Disconnect(shared, c)
             made   == NewSessions(shared, r, pairs)
             told   == NotifyInfoChanged(made, r)
  <2>1. Become(Disconnect(hub, c)) \/ Become(left) \/ Become(told)
    BY DEF StartShare
  <2>2. r \in DOMAIN hub.rooms
    BY <1>1, <1>4 DEF HasRoom
  <2>3. Room(c) = hub.rooms[r]
    BY <1>1 DEF Room
  <2> HIDE DEF r
  <2>4. /\ Typed(shared) /\ Covered(shared)
        /\ shared.connected = hub.connected
        /\ DOMAIN shared.rooms = DOMAIN hub.rooms
    <3>1. CASE c \in DOMAIN hub.rooms[r].users
      <4> DEFINE k == SetStreaming(hub, r, c, TRUE)
      <4>1. shared = k
        BY <3>1 DEF Deref
      <4>2. /\ Typed(k)
            /\ k.connected = hub.connected
            /\ k.rooms = WithUsers(hub.rooms, r, Put(hub.rooms[r].users, c,
                            Streaming(hub.rooms[r].users[c], TRUE)))
        BY <1>1, <2>2, <3>1, SetStreamingTyped
      <4>3. Covered(k)
        BY <1>1, <2>2, <3>1, ShareCovered
      <4> HIDE DEF k
      <4>4. QED
        BY <4>1, <4>2, <4>3 DEF WithUsers
    <3>2. CASE c \notin DOMAIN hub.rooms[r].users
      <4>1. shared = [hub EXCEPT !.panicked = TRUE]
        BY <3>2 DEF Deref
      <4>2. Covered([hub EXCEPT !.panicked = TRUE])
        BY <1>1, PanicCovered
      <4>3. QED
        BY <1>1, <4>1, <4>2, PanicTyped
    <3>3. QED BY <3>1, <3>2
  <2>5. pairs \in SUBSET (Clients \X Clients)
    <3>1. DOMAIN Room(c).users \subseteq Clients
      BY <1>1, <2>2, <2>3, RoomFields DEF IsMap
    <3>2. QED BY <3>1 DEF Others
  <2>6. r \in DOMAIN shared.rooms /\ c \in DOMAIN shared.connected
    BY <1>2, <2>2, <2>4
  <2> HIDE DEF shared, pairs
  <2>7. Covered(left)
    BY <1>2, <2>4, <2>6, DisconnectCovered
  <2>8. Covered(made) /\ Typed(made) /\ r \in DOMAIN made.rooms
    <3>1. Covered(made)
      BY <2>4, <2>5, <2>6, MadeCovered
    <3>2. /\ Typed(made)
          /\ made.connected = shared.connected
          /\ made.rooms = WithSessions(shared.rooms, r,
                             shared.rooms[r].sessions \cup Made(shared, pairs))
      BY <2>4, <2>5, <2>6, NewSessionsTyped
    <3> HIDE DEF made
    <3>3. QED BY <2>6, <3>1, <3>2 DEF WithSessions
  <2> HIDE DEF left, made
  <2>9. Covered(told)
    BY <2>8, NotifiedCovered
  <2> HIDE DEF told
  <2>10. QED
    BY <1>3, <2>1, <2>7, <2>9, BecomeCovered
<1>5. QED
  BY <1>3, <1>4 DEF StartShare

\* StopShare ends the sessions the client hosts.
LEMMA StopShareStepCovered ==
    ASSUME TypeOK, Covered(hub), NEW c \in Clients, StopShare(c)
    PROVE  Covered(hub)'
<1>1. Typed(hub) /\ hub.connected = connected /\ hub.rooms = rooms
  BY HubTyped DEF hub
<1>2. c \in DOMAIN hub.connected
  BY <1>1 DEF StopShare, Accepts
<1>3. CASE Become(Disconnect(hub, c))
  BY <1>1, <1>2, <1>3, DisconnectCovered, BecomeCovered
<1>4. CASE HasRoom(c) /\ Become(Deref(hub, connected[c], c, StopSharing(hub, connected[c], c)))
  <2> DEFINE r     == connected[c]
             quiet == SetStreaming(hub, r, c, FALSE)
             shut  == CloseHostSessions(quiet, r, c)
             told  == NotifyInfoChanged(shut, r)
  <2>1. r \in DOMAIN hub.rooms
    BY <1>1, <1>4 DEF HasRoom
  <2>2. Become(Deref(hub, r, c, told))
    BY <1>4 DEF StopSharing
  <2> HIDE DEF r
  <2>3. CASE c \in DOMAIN hub.rooms[r].users
    <3>1. /\ Typed(quiet)
          /\ quiet.rooms = WithUsers(hub.rooms, r, Put(hub.rooms[r].users, c,
                             Streaming(hub.rooms[r].users[c], FALSE)))
      BY <1>1, <2>1, <2>3, SetStreamingTyped
    <3>2. Deref(hub, r, c, told) = told
      BY <2>3 DEF Deref
    <3>3. Covered(quiet)
      BY <1>1, <2>1, <2>3, ShareCovered
    <3> HIDE DEF quiet
    <3>4. r \in DOMAIN quiet.rooms
      BY <2>1, <3>1 DEF WithUsers
    <3>5. /\ Typed(shut)
          /\ shut.rooms = WithSessions(quiet.rooms, r,
                quiet.rooms[r].sessions \ HostedBy(quiet.rooms[r], c))
      BY <3>1, <3>4, CloseHostTyped
    <3>6. Covered(shut)
      BY <3>1, <3>3, <3>4, EndedCovered
    <3> HIDE DEF shut
    <3>7. r \in DOMAIN shut.rooms
      BY <3>4, <3>5 DEF WithSessions
    <3>8. Covered(told)
      BY <3>5, <3>6, <3>7, NotifiedCovered
    <3> HIDE DEF told
    <3>9. QED
      BY <2>2, <3>2, <3>8, BecomeCovered
  <2>4. CASE c \notin DOMAIN hub.rooms[r].users
    <3>1. Deref(hub, r, c, told) = [hub EXCEPT !.panicked = TRUE]
      BY <2>4 DEF Deref
    <3>2. QED
      BY <1>1, <2>2, <3>1, PanicCovered, BecomeCovered
  <2>5. QED BY <2>3, <2>4
<1>5. QED
  BY <1>3, <1>4 DEF StopShare

\* Name changes a user only.
LEMMA NameStepCovered ==
    ASSUME TypeOK, Covered(hub), NEW c \in Clients, Name(c)
    PROVE  Covered(hub)'
<1>1. Typed(hub) /\ hub.connected = connected /\ hub.rooms = rooms
  BY HubTyped DEF hub
<1>2. c \in DOMAIN hub.connected
  BY <1>1 DEF Name, Accepts
<1>3. CASE Become(Disconnect(hub, c))
  BY <1>1, <1>2, <1>3, DisconnectCovered, BecomeCovered
<1>4. ASSUME HasRoom(c), NEW name \in Names,
             Become(Deref(hub, connected[c], c,
                 NotifyInfoChanged(
                    [hub EXCEPT !.rooms[connected[c]].users[c].name = name],
                    connected[c])))
      PROVE  Covered(hub)'
  <2> DEFINE r     == connected[c]
             user  == [hub.rooms[r].users[c] EXCEPT !.name = name]
             named == [hub EXCEPT !.rooms[r].users[c] = user]
             told  == NotifyInfoChanged(named, r)
  <2>1. r \in DOMAIN hub.rooms
    BY <1>1, <1>4 DEF HasRoom
  <2>2. Become(Deref(hub, r, c, told))
    BY <1>4
  <2> HIDE DEF r
  <2>3. CASE c \in DOMAIN hub.rooms[r].users
    <3>1. hub.rooms[r].users[c] \in User
      BY <1>1, <2>1, <2>3, RoomFields DEF IsMap
    <3>2. user \in User
      BY <3>1 DEF User
    <3>3. Deref(hub, r, c, told) = told
      BY <2>3 DEF Deref
    <3> HIDE DEF user
    <3>4. /\ Typed(named)
          /\ named.rooms = WithUsers(hub.rooms, r, Put(hub.rooms[r].users, c, user))
      BY <1>1, <2>1, <2>3, <3>2, UserTyped
    <3>5. named.lookup = hub.lookup
      BY <1>1 DEF Typed
    <3> HIDE DEF named
    <3>6. r \in DOMAIN named.rooms
      BY <2>1, <3>4 DEF WithUsers
    <3>7. Covered(named)
      BY <1>1, <2>1, <3>2, <3>4, <3>5, PutCovered
    <3>8. Covered(told)
      BY <3>4, <3>6, <3>7, NotifiedCovered
    <3> HIDE DEF told
    <3>9. QED
      BY <2>2, <3>3, <3>8, BecomeCovered
  <2>4. CASE c \notin DOMAIN hub.rooms[r].users
    <3>1. Deref(hub, r, c, told) = [hub EXCEPT !.panicked = TRUE]
      BY <2>4 DEF Deref
    <3>2. QED
      BY <1>1, <2>2, <3>1, PanicCovered, BecomeCovered
  <2>5. QED BY <2>3, <2>4
<1>5. QED
  BY <1>3, <1>4 DEF Name

\* The relays send, disconnect, or do nothing.
LEMMA RelayStepCovered ==
    ASSUME TypeOK, Covered(hub), NEW c \in Clients, NEW role,
           NEW s \in KnownSessions, Relay(c, role, s)
    PROVE  Covered(hub)'
<1> DEFINE r   == connected[c]
           to  == IF role = "host" THEN s.client ELSE s.host
           msg == [to |-> to, type |-> "relay", sid |-> s]
           k   == Send(hub, {msg})
           p   == [hub EXCEPT !.panicked = TRUE]
<1>1. Typed(hub) /\ hub.connected = connected /\ hub.rooms = rooms
  BY HubTyped DEF hub
<1>2. c \in DOMAIN hub.connected
  BY <1>1 DEF Relay, Accepts
<1>3. s \in Session
  BY <1>1, RoomFields DEF KnownSessions
<1>4. {msg} \in SUBSET Message
  BY <1>3 DEF Message, Session
<1>5. Covered(k) /\ Covered(p)
  <2>1. Covered(k)
    <3> HIDE DEF msg
    <3>1. QED BY <1>1, <1>4, SentCovered
  <2>2. Covered(p)
    BY <1>1, PanicCovered
  <2>3. QED BY <2>1, <2>2
<1>6. Deref(hub, r, to, k) = k \/ Deref(hub, r, to, k) = p
  BY DEF Deref
<1>7. \/ Become(Disconnect(hub, c))
      \/ Become(hub)
      \/ Become(Deref(hub, r, to, k))
  BY DEF Relay
<1> HIDE DEF k, p
<1>8. CASE Become(Disconnect(hub, c))
  BY <1>1, <1>2, <1>8, DisconnectCovered, BecomeCovered
<1>9. CASE Become(hub)
  BY <1>9, BecomeCovered
<1>10. CASE Become(k) \/ Become(p)
  BY <1>5, <1>10, BecomeCovered
<1>11. QED
  BY <1>6, <1>7, <1>8, <1>9, <1>10

\* A new connection has neither sessions nor credentials.
LEMMA ConnectedStepCovered ==
    ASSUME TypeOK, Covered(hub), NEW c \in Clients, Connected(c)
    PROVE  Covered(hub)'
<1> DEFINE k == [hub EXCEPT !.connected = Put(@, c, NoRoom)]
<1>1. k.rooms = hub.rooms /\ k.lookup = hub.lookup
  BY DEF hub
<1>2. Become(k)
  BY DEF Connected
<1> HIDE DEF k
<1>3. Covered(k)
  BY <1>1, SameCovered DEF SameSessions
<1>4. QED BY <1>2, <1>3, BecomeCovered

-----------------------------------------------------------------------------
\* The credentials that the TURN server accepts are those of the live sessions
\* of turn rooms, whatever the handlers do and in whatever order; an external
\* server accepts at least these.
THEOREM CredentialsHold == Spec => []CredentialsMatchSessions
<1>1. Init => Covered(hub)
  BY DEF Init, hub, Covered, InUse
<1>2. TypeOK /\ Covered(hub) /\ [Next]_vars => Covered(hub)'
  <2> SUFFICES ASSUME TypeOK, Covered(hub), [Next]_vars
               PROVE  Covered(hub)'
    OBVIOUS
  <2>1. CASE UNCHANGED vars
    BY <2>1 DEF vars, hub, Covered, InUse
  <2>2. ASSUME NEW c \in Clients, Connected(c)
        PROVE  Covered(hub)'
    BY <2>2, ConnectedStepCovered
  <2>3. ASSUME NEW c \in Clients, NEW r \in RoomIDs, NEW mode \in Modes,
               NEW close \in BOOLEAN, NEW joinIfExist \in BOOLEAN,
               Create(c, r, mode, close, joinIfExist)
        PROVE  Covered(hub)'
    BY <2>3, CreateStepCovered
  <2>4. ASSUME NEW c \in Clients, NEW r \in RoomIDs, Join(c, r)
        PROVE  Covered(hub)'
    BY <2>4, JoinStepCovered
  <2>5. ASSUME NEW c \in Clients, StartShare(c)
        PROVE  Covered(hub)'
    BY <2>5, StartShareStepCovered
  <2>6. ASSUME NEW c \in Clients, StopShare(c)
        PROVE  Covered(hub)'
    BY <2>6, StopShareStepCovered
  <2>7. ASSUME NEW c \in Clients, Name(c)
        PROVE  Covered(hub)'
    BY <2>7, NameStepCovered
  <2>8. ASSUME NEW c \in Clients, NEW role \in {"host", "client"},
               NEW s \in KnownSessions, Relay(c, role, s)
        PROVE  Covered(hub)'
    BY <2>8, RelayStepCovered
  <2>9. ASSUME NEW c \in Clients, Disconnected(c)
        PROVE  Covered(hub)'
    <3>1. Typed(hub) /\ c \in DOMAIN hub.connected
      BY <2>9, HubTyped DEF Disconnected, Accepts, hub
    <3>2. Covered(Disconnect(hub, c))
      BY <3>1, DisconnectCovered
    <3>3. QED BY <2>9, <3>2, BecomeCovered DEF Disconnected
  <2>10. QED
    BY <2>1, <2>2, <2>3, <2>4, <2>5, <2>6, <2>7, <2>8, <2>9 DEF Next
<1>3. Covered(hub) => CredentialsMatchSessions
  <2>1. hub.rooms = rooms /\ hub.lookup = lookup
    BY DEF hub
  <2>2. QED
    BY <2>1 DEF Covered, InUse, CredentialsMatchSessions
<1>4. QED
  BY <1>1, <1>2, <1>3, TypeCorrect, PTL DEF Spec
-----------------------------------------------------------------------------
(* Everyone in a room has passed the check of its mode, and so have both     *)
(* ends of every credential.                                               *)

AdmittedTo(room) == \A u \in DOMAIN room.users : CheckAuth(room.mode, u)

Cleared(cred) == CheckAuth("turn", cred[1].host) /\ CheckAuth("turn", cred[1].client)

Admitted(h) ==
    /\ \A r \in DOMAIN h.rooms : AdmittedTo(h.rooms[r])
    /\ \A cred \in h.lookup : Cleared(cred)

\* k has nothing that h has not: no room, no user and no credential.
NoMore(h, k) ==
    /\ k.lookup \subseteq h.lookup
    /\ DOMAIN k.rooms \subseteq DOMAIN h.rooms
    /\ \A r \in DOMAIN k.rooms :
          /\ k.rooms[r].mode = h.rooms[r].mode
          /\ DOMAIN k.rooms[r].users \subseteq DOMAIN h.rooms[r].users

\* Taking away leaves nobody in a room who may not be there.
LEMMA NoMoreAdmitted ==
    ASSUME NEW h, NEW k, Admitted(h), NoMore(h, k)
    PROVE  Admitted(k)
BY DEF Admitted, AdmittedTo, NoMore

\* Taking away twice is taking away.
LEMMA NoMoreTwice ==
    ASSUME NEW h, NEW k, NEW g, NoMore(h, k), NoMore(k, g)
    PROVE  NoMore(h, g)
BY DEF NoMore

\* A function that leaves the rooms and the credentials alone.
LEMMA SameRoomsNoMore ==
    ASSUME NEW h, NEW k, k.rooms = h.rooms, k.lookup = h.lookup
    PROVE  NoMore(h, k)
BY DEF NoMore

-----------------------------------------------------------------------------
(* What the functions of the code take away *)

\* Whatever is sent leaves the registry alone.
LEMMA SentNoMore ==
    ASSUME NEW h, Typed(h), NEW msgs \in SUBSET Message
    PROVE  NoMore(h, Send(h, msgs))
<1>1. Alike(h, Send(h, msgs)) /\ Send(h, msgs).lookup = h.lookup
  BY SendTyped, LookupKept
<1>2. QED BY <1>1, SameRoomsNoMore DEF Alike

\* Nor does telling a room of its users change it.
LEMMA NotifiedNoMore ==
    ASSUME NEW h, Typed(h), NEW r \in DOMAIN h.rooms
    PROVE  NoMore(h, NotifyInfoChanged(h, r))
<1>1. Alike(h, NotifyInfoChanged(h, r)) /\ NotifyInfoChanged(h, r).lookup = h.lookup
  BY NotifyTyped, LookupKept
<1>2. QED BY <1>1, SameRoomsNoMore DEF Alike

\* closeSession takes sessions and credentials.
LEMMA ClosedNoMore ==
    ASSUME NEW h, Typed(h), NEW r \in DOMAIN h.rooms, NEW gone
    PROVE  NoMore(h, CloseSessions(h, r, gone))
<1> DEFINE k == CloseSessions(h, r, gone)
           X == h.rooms[r].sessions \ gone
<1>1. k.lookup \subseteq h.lookup
  <2>1. k.lookup = IF TurnExternal THEN h.lookup
                   ELSE h.lookup \ CredentialsOf(h.rooms[r], gone)
    BY LookupClosed, Zenon
  <2> HIDE DEF k
  <2>2. QED BY <2>1
<1>2. k.rooms = WithSessions(h.rooms, r, X)
  <2>1. /\ Typed(k)
        /\ k.connected = h.connected
        /\ k.rooms = WithSessions(h.rooms, r, X)
        /\ k.panicked = h.panicked
    BY CloseSessionsTyped, Zenon
  <2>2. QED BY <2>1, Zenon
<1>3. IsMap(h.rooms, RoomIDs, RoomRecord) /\ X \in SUBSET Session
  BY RoomFields DEF Typed
<1> HIDE DEF k, X
<1>4. /\ DOMAIN k.rooms = DOMAIN h.rooms
      /\ k.rooms[r].users = h.rooms[r].users
      /\ k.rooms[r].mode = h.rooms[r].mode
      /\ \A q \in DOMAIN h.rooms : q # r => k.rooms[q] = h.rooms[q]
  BY <1>2, <1>3, WithSessionsMap
<1>5. NoMore(h, k)
  BY <1>1, <1>4 DEF NoMore
<1>6. QED BY <1>5 DEF k

\* The sessions of c end, those with it or those it hosts.
LEMMA EndedNoMore ==
    ASSUME NEW h, Typed(h), NEW r \in DOMAIN h.rooms, NEW c
    PROVE  NoMore(h, CloseUserSessions(h, r, c)) /\ NoMore(h, CloseHostSessions(h, r, c))
<1>1. ASSUME NEW gone \in SUBSET h.rooms[r].sessions
      PROVE  NoMore(h, CloseSessions(Send(h, EndShares(h, r, gone, c)), r, gone))
  <2> DEFINE told == Send(h, EndShares(h, r, gone, c))
  <2>1. EndShares(h, r, gone, c) \in SUBSET Message
    BY EndSharesTyped, RoomFields
  <2>2. Typed(told) /\ Alike(h, told) /\ NoMore(h, told)
    BY <2>1, SendTyped, SentNoMore
  <2> HIDE DEF told
  <2>3. NoMore(told, CloseSessions(told, r, gone))
    BY <2>2, ClosedNoMore DEF Alike
  <2>4. NoMore(h, CloseSessions(told, r, gone))
    BY <2>2, <2>3, NoMoreTwice
  <2>5. QED BY <2>4 DEF told
<1>2. /\ SessionsWith(h.rooms[r], c) \in SUBSET h.rooms[r].sessions
      /\ HostedBy(h.rooms[r], c) \in SUBSET h.rooms[r].sessions
  BY DEF SessionsWith, HostedBy
<1>3. QED
  BY <1>1, <1>2 DEF CloseUserSessions, CloseHostSessions

\* closeRoom takes the room out, with all that it has.
LEMMA RoomClosedNoMore ==
    ASSUME NEW h, Typed(h), NEW r \in DOMAIN h.rooms
    PROVE  NoMore(h, CloseRoom(h, r))
<1> DEFINE members == DOMAIN h.rooms[r].users
           evicted == Evict(h, members)
           ended == CloseSessions(evicted, r, h.rooms[r].sessions)
           k == CloseRoom(h, r)
<1>1. k = [ended EXCEPT !.rooms = Drop(@, {r}), !.gauges.rooms = @ - 1]
  BY DEF CloseRoom
<1>2. members \in SUBSET Clients
  BY RoomFields DEF IsMap
<1> HIDE DEF members
<1>3. Typed(evicted) /\ evicted.rooms = h.rooms /\ evicted.lookup = h.lookup
  BY <1>2, EvictTyped, LookupKept
<1> HIDE DEF evicted
<1>4. Typed(ended) /\ NoMore(evicted, ended)
  BY <1>3, ClosedNoMore, CloseSessionsTyped
<1> HIDE DEF ended
<1>5. k.lookup = ended.lookup
  BY <1>1, <1>4 DEF Typed
<1>6. /\ DOMAIN k.rooms = DOMAIN h.rooms \ {r}
      /\ \A q \in DOMAIN k.rooms : k.rooms[q] = h.rooms[q]
  BY CloseRoomTyped
<1> HIDE DEF k
<1>7. NoMore(h, k)
  BY <1>3, <1>4, <1>5, <1>6 DEF NoMore
<1>8. QED BY <1>7 DEF k

\* removeUserFromRoom takes the user, and perhaps the room.
LEMMA RemovedNoMore ==
    ASSUME NEW h, Typed(h), NEW r, NEW c
    PROVE  NoMore(h, RemoveUserFromRoom(h, r, c))
<1>1. CASE ~Inside(h, r, c)
  <2>1. RemoveUserFromRoom(h, r, c) = h
    BY <1>1 DEF Inside, RemoveUserFromRoom
  <2>2. QED BY <2>1, SameRoomsNoMore
<1>2. CASE Inside(h, r, c)
  <2> DEFINE quiet == CloseUserSessions(h, r, c)
             left  == RemoveUser(quiet, r, c)
  <2>1. r \in DOMAIN h.rooms /\ c \in DOMAIN h.rooms[r].users
    BY <1>2 DEF Inside
  <2>2. Typed(quiet) /\ NoMore(h, quiet)
    BY <2>1, CloseUserTyped, EndedNoMore
  <2>3. RemoveUserFromRoom(h, r, c) = IF Closes(h.rooms[r], left.rooms[r], c)
                                      THEN CloseRoom(left, r)
                                      ELSE NotifyInfoChanged(left, r)
    BY <2>1 DEF RemoveUserFromRoom, quiet
  <2>4. Typed(left) /\ r \in DOMAIN left.rooms
    BY <1>2, <2>1, LeftTyped
  <2>5. r \in DOMAIN quiet.rooms
    <3>1. quiet.rooms = WithSessions(h.rooms, r,
              h.rooms[r].sessions \ SessionsWith(h.rooms[r], c))
      BY <2>1, CloseUserTyped
    <3> HIDE DEF quiet
    <3>2. QED BY <2>1, <3>1 DEF WithSessions
  <2> HIDE DEF quiet
  <2>6. NoMore(quiet, left)
    <3> DEFINE U == Drop(quiet.rooms[r].users, {c})
    <3>1. left.rooms = WithUsers(quiet.rooms, r, U)
      BY <2>2, <2>5, RemoveUserTyped
    <3>2. left.lookup = quiet.lookup
      BY <2>2, LookupKept
    <3>3. IsMap(U, Clients, User)
      BY <2>2, <2>5, RoomFields, DropMap
    <3>4. IsMap(quiet.rooms, RoomIDs, RoomRecord)
      BY <2>2 DEF Typed
    <3>5. DOMAIN U \subseteq DOMAIN quiet.rooms[r].users
      BY DEF Drop
    <3> HIDE DEF left, U
    <3>6. /\ DOMAIN left.rooms = DOMAIN quiet.rooms
          /\ left.rooms[r].users = U
          /\ left.rooms[r].mode = quiet.rooms[r].mode
          /\ \A q \in DOMAIN quiet.rooms : q # r => left.rooms[q] = quiet.rooms[q]
      BY <2>5, <3>1, <3>3, <3>4, WithUsersMap
    <3>7. QED
      BY <3>2, <3>5, <3>6 DEF NoMore
  <2>7. NoMore(h, left)
    BY <2>2, <2>6, NoMoreTwice
  <2> HIDE DEF left
  <2>8. NoMore(left, RemoveUserFromRoom(h, r, c))
    BY <2>3, <2>4, RoomClosedNoMore, NotifiedNoMore
  <2>9. QED
    BY <2>7, <2>8, NoMoreTwice
<1>3. QED BY <1>1, <1>2

\* A disconnect takes a client out.
LEMMA DisconnectNoMore ==
    ASSUME NEW h, Typed(h), NEW c \in Clients, c \in DOMAIN h.connected
    PROVE  NoMore(h, Disconnect(h, c))
<1> DEFINE r    == h.connected[c]
           cut  == [h EXCEPT !.connected = Drop(@, {c})]
           gone == Send(cut, CloseWriters({c}))
<1>1. Disconnect(h, c) = IF r = NoRoom THEN gone ELSE RemoveUserFromRoom(gone, r, c)
  BY DEF Disconnect
<1>2. /\ DOMAIN cut = DOMAIN h
      /\ cut.connected = Drop(h.connected, {c})
      /\ cut.rooms = h.rooms /\ cut.panicked = h.panicked /\ cut.lookup = h.lookup
      /\ cut.out = h.out /\ cut.batch = h.batch /\ cut.gauges = h.gauges
  BY DEF Typed
<1>3. IsMap(cut.connected, Clients, RoomIDs \cup {NoRoom})
  BY <1>2, DropMap DEF Typed
<1> HIDE DEF cut, r
<1>4. Typed(cut)
  BY <1>2, <1>3 DEF Typed
<1>5. Typed(gone) /\ Alike(cut, gone) /\ gone.lookup = cut.lookup
  BY <1>4, CloseWritersTyped, SendTyped, LookupKept
<1> HIDE DEF gone
<1>6. NoMore(h, gone)
  BY <1>2, <1>5, SameRoomsNoMore DEF Alike
<1>7. NoMore(gone, RemoveUserFromRoom(gone, r, c))
  BY <1>5, RemovedNoMore
<1>8. NoMore(h, RemoveUserFromRoom(gone, r, c))
  BY <1>6, <1>7, NoMoreTwice
<1>9. QED
  BY <1>1, <1>6, <1>8

-----------------------------------------------------------------------------
(* What the functions of the code add *)

\* Only who passes the check enters.
LEMMA EnterAdmitted ==
    ASSUME NEW h, Typed(h), Admitted(h), NEW r \in DOMAIN h.rooms, NEW c \in Clients,
           CheckAuth(h.rooms[r].mode, c), NEW name \in Names, NEW owner \in BOOLEAN
    PROVE  Admitted(Enter(h, c, r, name, owner))
<1> DEFINE k == Enter(h, c, r, name, owner)
           user == NewUser(name, owner)
           U == Put(h.rooms[r].users, c, user)
<1>1. k.rooms = WithUsers(h.rooms, r, U)
  BY EnterTyped
<1>2. k.lookup = h.lookup
  BY DEF Typed, Enter, NotifyInfoChanged, Send
<1>3. user \in User
  BY DEF User, NewUser
<1>4. IsMap(h.rooms, RoomIDs, RoomRecord) /\ IsMap(h.rooms[r].users, Clients, User)
  BY RoomFields DEF Typed
<1> HIDE DEF k, user
<1>5. IsMap(U, Clients, User) /\ DOMAIN U = DOMAIN h.rooms[r].users \cup {c}
  BY <1>3, <1>4, PutMap DEF Put
<1> HIDE DEF U
<1>6. /\ DOMAIN k.rooms = DOMAIN h.rooms
      /\ k.rooms[r].users = U
      /\ k.rooms[r].mode = h.rooms[r].mode
      /\ \A q \in DOMAIN h.rooms : q # r => k.rooms[q] = h.rooms[q]
  BY <1>1, <1>4, <1>5, WithUsersMap
<1>7. AdmittedTo(k.rooms[r])
  BY <1>5, <1>6 DEF Admitted, AdmittedTo
<1>8. Admitted(k)
  BY <1>2, <1>6, <1>7 DEF Admitted
<1>9. QED BY <1>8 DEF k

\* The credentials of a session are for two users of its room.
LEMMA MadeAdmitted ==
    ASSUME NEW h, Typed(h), Admitted(h), NEW r \in DOMAIN h.rooms,
           NEW pairs \in SUBSET ((DOMAIN h.rooms[r].users) \X (DOMAIN h.rooms[r].users))
    PROVE  Admitted(NewSessions(h, r, pairs))
<1> DEFINE k == NewSessions(h, r, pairs)
           made == Made(h, pairs)
           room == h.rooms[r]
           X == room.sessions \cup made
<1>1. pairs \in SUBSET (Clients \X Clients)
  BY RoomFields DEF IsMap
<1>2. k.rooms = WithSessions(h.rooms, r, X)
  BY <1>1, NewSessionsTyped
<1>3. k.lookup = h.lookup \cup CredentialsOf(room, made)
  BY LookupMade
<1>4. made \in SUBSET Session /\ \A s \in made : <<s.host, s.client>> \in pairs
  BY <1>1, MadeTyped
<1> HIDE DEF made
<1>5. IsMap(h.rooms, RoomIDs, RoomRecord) /\ X \in SUBSET Session
  BY <1>4, RoomFields DEF Typed
<1> HIDE DEF k, X
<1>6. /\ DOMAIN k.rooms = DOMAIN h.rooms
      /\ k.rooms[r].users = room.users
      /\ k.rooms[r].mode = room.mode
      /\ \A q \in DOMAIN h.rooms : q # r => k.rooms[q] = h.rooms[q]
  BY <1>2, <1>5, WithSessionsMap
<1>7. ASSUME NEW cred \in CredentialsOf(room, made)
      PROVE  Cleared(cred)
  <2>1. room.mode = "turn" /\ cred[1] \in made
    BY <1>7 DEF CredentialsOf
  <2>2. cred[1].host \in DOMAIN room.users /\ cred[1].client \in DOMAIN room.users
    BY <1>4, <2>1
  <2>3. AdmittedTo(room)
    BY DEF Admitted
  <2> HIDE DEF room
  <2>4. QED
    BY <2>1, <2>2, <2>3 DEF AdmittedTo, Cleared
<1>8. \A q \in DOMAIN k.rooms : AdmittedTo(k.rooms[q])
  BY <1>6 DEF Admitted, AdmittedTo
<1>9. Admitted(k)
  BY <1>3, <1>7, <1>8 DEF Admitted
<1>10. QED BY <1>9 DEF k

\* Users that have changed are the users that there were.
LEMMA ChangedAdmitted ==
    ASSUME NEW h, Typed(h), Admitted(h), NEW r \in DOMAIN h.rooms,
           NEW c \in DOMAIN h.rooms[r].users, NEW user \in User, NEW k,
           k.lookup = h.lookup,
           k.rooms = WithUsers(h.rooms, r, Put(h.rooms[r].users, c, user))
    PROVE  /\ Admitted(k)
           /\ DOMAIN k.rooms = DOMAIN h.rooms
           /\ DOMAIN k.rooms[r].users = DOMAIN h.rooms[r].users
<1> DEFINE U == Put(h.rooms[r].users, c, user)
<1>1. IsMap(h.rooms, RoomIDs, RoomRecord) /\ IsMap(h.rooms[r].users, Clients, User)
  BY RoomFields DEF Typed
<1>2. IsMap(U, Clients, User) /\ DOMAIN U = DOMAIN h.rooms[r].users
  <2>1. c \in Clients
    BY <1>1 DEF IsMap
  <2>2. IsMap(U, Clients, User)
    BY <1>1, <2>1, PutMap
  <2>3. QED BY <2>2 DEF Put
<1>3. k.rooms = WithUsers(h.rooms, r, U)
  OBVIOUS
<1> HIDE DEF U
<1>4. /\ DOMAIN k.rooms = DOMAIN h.rooms
      /\ k.rooms[r].users = U
      /\ k.rooms[r].mode = h.rooms[r].mode
      /\ \A q \in DOMAIN h.rooms : q # r => k.rooms[q] = h.rooms[q]
  BY <1>1, <1>2, <1>3, WithUsersMap
<1>5. NoMore(h, k)
  BY <1>2, <1>4 DEF NoMore
<1>6. QED
  BY <1>2, <1>4, <1>5, NoMoreAdmitted

\* So it is with a user who starts or stops sharing.
LEMMA SharedAdmitted ==
    ASSUME NEW h, Typed(h), Admitted(h), NEW r \in DOMAIN h.rooms,
           NEW c \in DOMAIN h.rooms[r].users, NEW on \in BOOLEAN
    PROVE  LET k == SetStreaming(h, r, c, on)
           IN  /\ Admitted(k)
               /\ DOMAIN k.rooms = DOMAIN h.rooms
               /\ DOMAIN k.rooms[r].users = DOMAIN h.rooms[r].users
<1> DEFINE k == SetStreaming(h, r, c, on)
           user == Streaming(h.rooms[r].users[c], on)
<1>1. k.rooms = WithUsers(h.rooms, r, Put(h.rooms[r].users, c, user))
  BY SetStreamingTyped
<1>2. k.lookup = h.lookup
  BY DEF Typed, SetStreaming
<1>3. h.rooms[r].users[c] \in User
  BY RoomFields DEF IsMap
<1>4. user \in User
  BY <1>3 DEF User, Streaming
<1> HIDE DEF k, user
<1>5. QED
  BY <1>1, <1>2, <1>4, ChangedAdmitted DEF k

-----------------------------------------------------------------------------
(* The handlers *)

\* The hub state a handler ends in becomes the variables.
LEMMA BecomeAdmitted ==
    ASSUME NEW k, Admitted(k), Become(k)
    PROVE  Admitted(hub)'
<1>1. (hub.rooms)' = k.rooms /\ (hub.lookup)' = k.lookup
  BY DEF Become, hub
<1>2. QED
  BY <1>1 DEF Admitted, AdmittedTo, Cleared, CheckAuth

\* A handler that disconnects its client.
LEMMA DisconnectStepAdmitted ==
    ASSUME NEW h, Typed(h), Admitted(h), NEW c \in Clients, c \in DOMAIN h.connected,
           Become(Disconnect(h, c))
    PROVE  Admitted(hub)'
<1>1. Admitted(Disconnect(h, c))
  BY DisconnectNoMore, NoMoreAdmitted
<1>2. QED BY <1>1, BecomeAdmitted

\* Join checks the mode of the room that is joined.
LEMMA JoinStepAdmitted ==
    ASSUME TypeOK, Admitted(hub), NEW c \in Clients, NEW r, Join(c, r)
    PROVE  Admitted(hub)'
<1>1. Typed(hub) /\ hub.connected = connected /\ hub.rooms = rooms
  BY HubTyped DEF hub
<1>2. c \in DOMAIN hub.connected
  BY <1>1 DEF Join, Accepts
<1>3. CASE Become(Disconnect(hub, c))
  BY <1>1, <1>2, <1>3, DisconnectStepAdmitted
<1>4. ASSUME NEW name \in Names, MayJoin(c, r)
      PROVE  LET entered == Enter(hub, c, r, name, FALSE)
                 pairs   == (Streamers(entered.rooms[r]) \ {c}) \X {c}
             IN  /\ Become(Disconnect(entered, c)) => Admitted(hub)'
                 /\ Admitted(NewSessions(entered, r, pairs))
  <2> DEFINE user    == NewUser(name, FALSE)
             U       == Put(hub.rooms[r].users, c, user)
             entered == Enter(hub, c, r, name, FALSE)
             pairs   == (Streamers(entered.rooms[r]) \ {c}) \X {c}
  <2>1. r \in DOMAIN hub.rooms /\ CheckAuth(hub.rooms[r].mode, c)
    BY <1>1, <1>4 DEF MayJoin
  <2>2. /\ Typed(entered)
        /\ entered.connected = Put(hub.connected, c, r)
        /\ entered.rooms = WithUsers(hub.rooms, r, U)
    BY <1>1, <2>1, EnterTyped
  <2>3. Admitted(entered)
    BY <1>1, <2>1, EnterAdmitted
  <2> HIDE DEF entered
  <2>4. c \in DOMAIN entered.connected /\ r \in DOMAIN entered.rooms
    BY <2>1, <2>2 DEF Put, WithUsers
  <2>5. c \in DOMAIN entered.rooms[r].users
    <3>1. c \in DOMAIN U
      BY DEF Put
    <3> HIDE DEF U
    <3>2. entered.rooms[r].users = U
      BY <1>1, <2>1, <2>2, RoomFields DEF WithUsers, Typed, IsMap, RoomRecord
    <3>3. QED BY <3>1, <3>2
  <2>6. pairs \in SUBSET ((DOMAIN entered.rooms[r].users)
                            \X (DOMAIN entered.rooms[r].users))
    BY <2>5 DEF Streamers
  <2> HIDE DEF pairs
  <2>7. Become(Disconnect(entered, c)) => Admitted(hub)'
    BY <2>2, <2>3, <2>4, DisconnectStepAdmitted
  <2>8. Admitted(NewSessions(entered, r, pairs))
    BY <2>2, <2>3, <2>4, <2>6, MadeAdmitted
  <2>9. QED BY <2>7, <2>8 DEF pairs, entered
<1>5. QED
  BY <1>3, <1>4, BecomeAdmitted DEF Join

\* Create checks the mode of the room that is opened.
LEMMA CreateStepAdmitted ==
    ASSUME TypeOK, Admitted(hub), NEW c \in Clients, NEW r \in RoomIDs,
           NEW mode \in Modes, NEW close \in BOOLEAN, NEW joinIfExist \in BOOLEAN,
           Create(c, r, mode, close, joinIfExist)
    PROVE  Admitted(hub)'
<1>1. Typed(hub) /\ hub.connected = connected /\ hub.rooms = rooms
  BY HubTyped DEF hub
<1>2. c \in DOMAIN hub.connected
  BY <1>1 DEF Create, Accepts
<1>3. CASE Join(c, r)
  BY <1>3, JoinStepAdmitted
<1>4. CASE Become(Disconnect(hub, c))
  BY <1>1, <1>2, <1>4, DisconnectStepAdmitted
<1>5. ASSUME NEW name \in Names, MayOpen(c, r, mode),
             Become(Enter(OpenRoom(hub, r, mode, close), c, r, name, TRUE))
      PROVE  Admitted(hub)'
  <2> DEFINE opened == OpenRoom(hub, r, mode, close)
             room   == EmptyRoom(mode, close)
  <2>1. Typed(opened) /\ opened.rooms = Put(hub.rooms, r, room)
    BY <1>1, OpenRoomTyped
  <2>2. opened.lookup = hub.lookup
    BY <1>1, LookupKept
  <2>3. AdmittedTo(room) /\ room.mode = mode
    BY DEF AdmittedTo, EmptyRoom, NoUsers
  <2>4. Become(Enter(opened, c, r, name, TRUE))
    BY <1>5
  <2> HIDE DEF opened, room
  <2>5. /\ DOMAIN opened.rooms = DOMAIN hub.rooms \cup {r}
        /\ opened.rooms[r] = room
        /\ \A q \in DOMAIN hub.rooms : q # r => opened.rooms[q] = hub.rooms[q]
    BY <2>1 DEF Put
  <2>6. Admitted(opened)
    BY <2>2, <2>3, <2>5 DEF Admitted
  <2>7. CheckAuth(opened.rooms[r].mode, c)
    BY <1>5, <2>3, <2>5 DEF MayOpen
  <2>8. Admitted(Enter(opened, c, r, name, TRUE))
    BY <2>1, <2>5, <2>6, <2>7, EnterAdmitted
  <2>9. QED
    BY <2>4, <2>8, BecomeAdmitted
<1>6. QED
  BY <1>3, <1>4, <1>5 DEF Create

\* StartShare makes sessions with the users of the room the client is in.
LEMMA StartShareStepAdmitted ==
    ASSUME TypeOK, Sound(hub), Admitted(hub), NEW c \in Clients, StartShare(c)
    PROVE  Admitted(hub)'
<1>1. Typed(hub) /\ hub.connected = connected /\ hub.rooms = rooms
  BY HubTyped DEF hub
<1>2. c \in DOMAIN hub.connected /\ c \in DOMAIN connected
  BY <1>1 DEF StartShare, Accepts
<1>3. CASE Become(Disconnect(hub, c))
  BY <1>1, <1>2, <1>3, DisconnectStepAdmitted
<1>4. CASE HasRoom(c)
  <2> DEFINE r      == connected[c]
             shared == SetStreaming(hub, r, c, TRUE)
             pairs  == {c} \X Others(Room(c), c)
             made   == NewSessions(shared, r, pairs)
             told   == NotifyInfoChanged(made, r)
  <2>1. Inside(hub, r, c) /\ r \in DOMAIN hub.rooms
    BY <1>2, <1>4, HasRoomInside
  <2>2. c \in DOMAIN hub.rooms[r].users /\ Room(c) = hub.rooms[r]
    BY <1>1, <2>1 DEF Inside, Room
  <2>3. Become(Disconnect(hub, c)) \/ Become(Disconnect(shared, c)) \/ Become(told)
    BY <2>2 DEF StartShare, Deref
  <2> HIDE DEF r
  <2>4. /\ Typed(shared)
        /\ shared.connected = hub.connected
        /\ shared.rooms = WithUsers(hub.rooms, r, Put(hub.rooms[r].users, c,
                             Streaming(hub.rooms[r].users[c], TRUE)))
    BY <1>1, <2>1, <2>2, SetStreamingTyped
  <2>5. /\ Admitted(shared)
        /\ DOMAIN shared.rooms = DOMAIN hub.rooms
        /\ DOMAIN shared.rooms[r].users = DOMAIN hub.rooms[r].users
    BY <1>1, <2>1, <2>2, SharedAdmitted
  <2> HIDE DEF shared
  <2>6. pairs \in SUBSET ((DOMAIN shared.rooms[r].users) \X (DOMAIN shared.rooms[r].users))
    BY <2>2, <2>5 DEF Others
  <2>7. pairs \in SUBSET (Clients \X Clients)
    <3>1. DOMAIN Room(c).users \subseteq Clients
      BY <1>1, <2>1, <2>2, RoomFields DEF IsMap
    <3>2. QED BY <3>1 DEF Others
  <2> HIDE DEF pairs
  <2>8. r \in DOMAIN shared.rooms
    BY <2>1, <2>5
  <2>9. Admitted(made)
    BY <2>4, <2>5, <2>6, <2>8, MadeAdmitted
  <2>10. /\ Typed(made)
         /\ made.rooms = WithSessions(shared.rooms, r,
                            shared.rooms[r].sessions \cup Made(shared, pairs))
    BY <2>4, <2>7, <2>8, NewSessionsTyped
  <2> HIDE DEF made
  <2>11. r \in DOMAIN made.rooms
    BY <2>8, <2>10 DEF WithSessions
  <2>12. Admitted(told)
    BY <2>9, <2>10, <2>11, NotifiedNoMore, NoMoreAdmitted
  <2> HIDE DEF told
  <2>13. Become(Disconnect(shared, c)) => Admitted(hub)'
    BY <1>2, <2>4, <2>5, DisconnectStepAdmitted
  <2>14. QED
    BY <1>3, <2>3, <2>12, <2>13, BecomeAdmitted
<1>5. QED
  BY <1>3, <1>4 DEF StartShare

\* StopShare only takes away.
LEMMA StopShareStepAdmitted ==
    ASSUME TypeOK, Sound(hub), Admitted(hub), NEW c \in Clients, StopShare(c)
    PROVE  Admitted(hub)'
<1>1. Typed(hub) /\ hub.connected = connected /\ hub.rooms = rooms
  BY HubTyped DEF hub
<1>2. c \in DOMAIN hub.connected /\ c \in DOMAIN connected
  BY <1>1 DEF StopShare, Accepts
<1>3. CASE Become(Disconnect(hub, c))
  BY <1>1, <1>2, <1>3, DisconnectStepAdmitted
<1>4. CASE HasRoom(c) /\ Become(Deref(hub, connected[c], c, StopSharing(hub, connected[c], c)))
  <2> DEFINE r     == connected[c]
             quiet == SetStreaming(hub, r, c, FALSE)
             shut  == CloseHostSessions(quiet, r, c)
             told  == NotifyInfoChanged(shut, r)
  <2>1. r \in DOMAIN hub.rooms /\ c \in DOMAIN hub.rooms[r].users
    BY <1>2, <1>4, HasRoomInside DEF Inside
  <2>2. Become(told)
    BY <1>4, <2>1 DEF StopSharing, Deref
  <2> HIDE DEF r
  <2>3. /\ Typed(quiet)
        /\ quiet.rooms = WithUsers(hub.rooms, r, Put(hub.rooms[r].users, c,
                           Streaming(hub.rooms[r].users[c], FALSE)))
    BY <1>1, <2>1, SetStreamingTyped
  <2>4. Admitted(quiet) /\ DOMAIN quiet.rooms = DOMAIN hub.rooms
    BY <1>1, <2>1, SharedAdmitted
  <2> HIDE DEF quiet
  <2>5. r \in DOMAIN quiet.rooms
    BY <2>1, <2>4
  <2>6. /\ Typed(shut)
        /\ shut.rooms = WithSessions(quiet.rooms, r,
              quiet.rooms[r].sessions \ HostedBy(quiet.rooms[r], c))
    BY <2>3, <2>5, CloseHostTyped
  <2>7. Admitted(shut)
    BY <2>3, <2>4, <2>5, EndedNoMore, NoMoreAdmitted
  <2> HIDE DEF shut
  <2>8. r \in DOMAIN shut.rooms
    BY <2>5, <2>6 DEF WithSessions
  <2>9. Admitted(told)
    BY <2>6, <2>7, <2>8, NotifiedNoMore, NoMoreAdmitted
  <2> HIDE DEF told
  <2>10. QED
    BY <2>2, <2>9, BecomeAdmitted
<1>5. QED
  BY <1>3, <1>4 DEF StopShare

\* Name changes a user that is there.
LEMMA NameStepAdmitted ==
    ASSUME TypeOK, Sound(hub), Admitted(hub), NEW c \in Clients, Name(c)
    PROVE  Admitted(hub)'
<1>1. Typed(hub) /\ hub.connected = connected /\ hub.rooms = rooms
  BY HubTyped DEF hub
<1>2. c \in DOMAIN hub.connected /\ c \in DOMAIN connected
  BY <1>1 DEF Name, Accepts
<1>3. CASE Become(Disconnect(hub, c))
  BY <1>1, <1>2, <1>3, DisconnectStepAdmitted
<1>4. ASSUME HasRoom(c), NEW name \in Names,
             Become(Deref(hub, connected[c], c,
                 NotifyInfoChanged(
                    [hub EXCEPT !.rooms[connected[c]].users[c].name = name],
                    connected[c])))
      PROVE  Admitted(hub)'
  <2> DEFINE r     == connected[c]
             user  == [hub.rooms[r].users[c] EXCEPT !.name = name]
             named == [hub EXCEPT !.rooms[r].users[c] = user]
             told  == NotifyInfoChanged(named, r)
  <2>1. r \in DOMAIN hub.rooms /\ c \in DOMAIN hub.rooms[r].users
    BY <1>2, <1>4, HasRoomInside DEF Inside
  <2>2. Become(told)
    BY <1>4, <2>1 DEF Deref
  <2> HIDE DEF r
  <2>3. hub.rooms[r].users[c] \in User
    BY <1>1, <2>1, RoomFields DEF IsMap
  <2>4. user \in User
    BY <2>3 DEF User
  <2> HIDE DEF user
  <2>5. /\ Typed(named)
        /\ named.rooms = WithUsers(hub.rooms, r, Put(hub.rooms[r].users, c, user))
    BY <1>1, <2>1, <2>4, UserTyped
  <2>6. named.lookup = hub.lookup
    BY <1>1 DEF Typed
  <2> HIDE DEF named
  <2>7. Admitted(named) /\ DOMAIN named.rooms = DOMAIN hub.rooms
    BY <1>1, <2>1, <2>4, <2>5, <2>6, ChangedAdmitted
  <2>8. Admitted(told)
    BY <2>1, <2>5, <2>7, NotifiedNoMore, NoMoreAdmitted
  <2> HIDE DEF told
  <2>9. QED
    BY <2>2, <2>8, BecomeAdmitted
<1>5. QED
  BY <1>3, <1>4 DEF Name

\* The relays send, disconnect, or do nothing.
LEMMA RelayStepAdmitted ==
    ASSUME TypeOK, Admitted(hub), NEW c \in Clients, NEW role,
           NEW s \in KnownSessions, Relay(c, role, s)
    PROVE  Admitted(hub)'
<1> DEFINE r   == connected[c]
           to  == IF role = "host" THEN s.client ELSE s.host
           msg == [to |-> to, type |-> "relay", sid |-> s]
           k   == Send(hub, {msg})
           p   == [hub EXCEPT !.panicked = TRUE]
<1>1. Typed(hub) /\ hub.connected = connected /\ hub.rooms = rooms
  BY HubTyped DEF hub
<1>2. c \in DOMAIN hub.connected
  BY <1>1 DEF Relay, Accepts
<1>3. s \in Session
  BY <1>1, RoomFields DEF KnownSessions
<1>4. {msg} \in SUBSET Message
  BY <1>3 DEF Message, Session
<1>5. p.rooms = hub.rooms /\ p.lookup = hub.lookup
  BY DEF hub
<1>6. Deref(hub, r, to, k) = k \/ Deref(hub, r, to, k) = p
  BY DEF Deref
<1>7. \/ Become(Disconnect(hub, c))
      \/ Become(hub)
      \/ Become(Deref(hub, r, to, k))
  BY DEF Relay
<1> HIDE DEF msg, p
<1>8. Admitted(k) /\ Admitted(p)
  <2>1. NoMore(hub, k)
    BY <1>1, <1>4, SentNoMore
  <2>2. NoMore(hub, p)
    BY <1>5, SameRoomsNoMore
  <2> HIDE DEF k
  <2>3. QED BY <2>1, <2>2, NoMoreAdmitted
<1> HIDE DEF k
<1>9. CASE Become(Disconnect(hub, c))
  BY <1>1, <1>2, <1>9, DisconnectStepAdmitted
<1>10. CASE Become(hub)
  BY <1>10, BecomeAdmitted
<1>11. CASE Become(k) \/ Become(p)
  BY <1>8, <1>11, BecomeAdmitted
<1>12. QED
  BY <1>6, <1>7, <1>9, <1>10, <1>11

\* A new connection is in no room.
LEMMA ConnectedStepAdmitted ==
    ASSUME TypeOK, Admitted(hub), NEW c \in Clients, Connected(c)
    PROVE  Admitted(hub)'
<1> DEFINE k == [hub EXCEPT !.connected = Put(@, c, NoRoom)]
<1>1. k.rooms = hub.rooms /\ k.lookup = hub.lookup
  BY DEF hub
<1>2. Become(k)
  BY DEF Connected
<1> HIDE DEF k
<1>3. Admitted(k)
  BY <1>1, SameRoomsNoMore, NoMoreAdmitted
<1>4. QED BY <1>2, <1>3, BecomeAdmitted

-----------------------------------------------------------------------------
\* Whatever the clients send, and in whatever order: everyone in a room has
\* passed the check of its mode, and so have the ends of every credential.
THEOREM AdmissionHolds ==
    ASSUME NoRoom \notin RoomIDs
    PROVE  Spec => []Admitted(hub)
<1>1. Init => Admitted(hub)
  BY DEF Init, hub, Admitted
<1>2. TypeOK /\ Sound(hub) /\ Admitted(hub) /\ [Next]_vars => Admitted(hub)'
  <2> SUFFICES ASSUME TypeOK, Sound(hub), Admitted(hub), [Next]_vars
               PROVE  Admitted(hub)'
    OBVIOUS
  <2>1. CASE UNCHANGED vars
    BY <2>1 DEF vars, hub, Admitted, AdmittedTo, Cleared, CheckAuth
  <2>2. ASSUME NEW c \in Clients, Connected(c)
        PROVE  Admitted(hub)'
    BY <2>2, ConnectedStepAdmitted
  <2>3. ASSUME NEW c \in Clients, NEW r \in RoomIDs, NEW mode \in Modes,
               NEW close \in BOOLEAN, NEW joinIfExist \in BOOLEAN,
               Create(c, r, mode, close, joinIfExist)
        PROVE  Admitted(hub)'
    BY <2>3, CreateStepAdmitted
  <2>4. ASSUME NEW c \in Clients, NEW r \in RoomIDs, Join(c, r)
        PROVE  Admitted(hub)'
    BY <2>4, JoinStepAdmitted
  <2>5. ASSUME NEW c \in Clients, StartShare(c)
        PROVE  Admitted(hub)'
    BY <2>5, StartShareStepAdmitted
  <2>6. ASSUME NEW c \in Clients, StopShare(c)
        PROVE  Admitted(hub)'
    BY <2>6, StopShareStepAdmitted
  <2>7. ASSUME NEW c \in Clients, Name(c)
        PROVE  Admitted(hub)'
    BY <2>7, NameStepAdmitted
  <2>8. ASSUME NEW c \in Clients, NEW role \in {"host", "client"},
               NEW s \in KnownSessions, Relay(c, role, s)
        PROVE  Admitted(hub)'
    BY <2>8, RelayStepAdmitted
  <2>9. ASSUME NEW c \in Clients, Disconnected(c)
        PROVE  Admitted(hub)'
    <3>1. Typed(hub) /\ c \in DOMAIN hub.connected
      BY <2>9, HubTyped DEF Disconnected, Accepts, hub
    <3>2. QED BY <2>9, <3>1, DisconnectStepAdmitted DEF Disconnected
  <2>10. QED
    BY <2>1, <2>2, <2>3, <2>4, <2>5, <2>6, <2>7, <2>8, <2>9 DEF Next
<1>3. QED
  BY <1>1, <1>2, TypeCorrect, RegistrySound, PTL DEF Spec

\* A guest is in no room under AuthMode "all", and under "turn" in none whose
\* mode could relay.
THEOREM GuestsStayOutHolds ==
    ASSUME NoRoom \notin RoomIDs
    PROVE  Spec => []GuestsStayOut
<1>1. Admitted(hub) => GuestsStayOut
  <2>1. hub.rooms = rooms
    BY DEF hub
  <2>2. QED
    BY <2>1 DEF Admitted, AdmittedTo, CheckAuth, GuestsStayOut
<1>2. QED
  BY <1>1, AdmissionHolds, PTL

\* Unless AuthMode is "none", whoever has TURN credentials, or has had them
\* from an external server, is logged in.
THEOREM CredentialsAreForUsers ==
    ASSUME NoRoom \notin RoomIDs
    PROVE  Spec => []CredentialsNeedLogin
<1>1. Admitted(hub) => CredentialsNeedLogin
  <2>1. hub.lookup = lookup
    BY DEF hub
  <2>2. QED
    BY <2>1 DEF Admitted, Cleared, CheckAuth, CredentialsNeedLogin
<1>2. QED
  BY <1>1, AdmissionHolds, PTL

-----------------------------------------------------------------------------
(* The counters.  What is counted is followed room by room: f[r] is what    *)
(* room r has, Entries(f) what all rooms have.                              *)

Counted(n, f) == IsFiniteSet(Entries(f)) /\ n = Cardinality(Entries(f))

\* A set and its copy for one room are of the same size.
LEMMA CopySize ==
    ASSUME NEW X, NEW r
    PROVE  /\ IsFiniteSet({r} \X X) <=> IsFiniteSet(X)
           /\ IsFiniteSet(X) => Cardinality({r} \X X) = Cardinality(X)
<1>1. ASSUME IsFiniteSet(X)
      PROVE  IsFiniteSet({r} \X X) /\ Cardinality({r} \X X) = Cardinality(X)
  <2>1. IsFiniteSet({r}) /\ Cardinality({r}) = 1
    BY FS_Singleton
  <2>2. /\ IsFiniteSet({r} \X X)
        /\ Cardinality({r} \X X) = Cardinality({r}) * Cardinality(X)
    BY <1>1, <2>1, FS_Product
  <2>3. Cardinality(X) \in Nat
    BY <1>1, FS_CardinalityType
  <2> QED BY <2>1, <2>2, <2>3
<1>2. ASSUME IsFiniteSet({r} \X X)
      PROVE  IsFiniteSet(X)
  <2>1. PICK f : f = [p \in {r} \X X |-> p[2]]
    OBVIOUS
  <2>2. f \in [{r} \X X -> X]
    BY <2>1
  <2>3. \A x \in X : \E p \in {r} \X X : f[p] = x
    <3> SUFFICES ASSUME NEW x \in X
                 PROVE  \E p \in {r} \X X : f[p] = x
      OBVIOUS
    <3>1. <<r, x>> \in {r} \X X /\ f[<<r, x>>] = x
      BY <2>1
    <3> QED BY <3>1
  <2>4. f \in Surjection({r} \X X, X)
    BY <2>2, <2>3 DEF Surjection
  <2> QED BY <1>2, <2>4, FS_Surjection
<1> QED BY <1>1, <1>2

\* The entries are the pairs of a room and something that it has.
LEMMA EntriesAre ==
    ASSUME NEW f
    PROVE  /\ \A p \in Entries(f) : \E r \in DOMAIN f : \E x \in f[r] : p = <<r, x>>
           /\ \A r, x : <<r, x>> \in Entries(f) <=> r \in DOMAIN f /\ x \in f[r]
           /\ \A r \in DOMAIN f : {r} \X f[r] \subseteq Entries(f)
BY DEF Entries

\* What a room has is finite if what all have is.
LEMMA PartFinite ==
    ASSUME NEW n, NEW f, Counted(n, f), NEW r \in DOMAIN f
    PROVE  IsFiniteSet(f[r])
<1>1. {r} \X f[r] \in SUBSET Entries(f)
  BY EntriesAre
<1>2. IsFiniteSet({r} \X f[r])
  BY <1>1, FS_Subset DEF Counted
<1> QED BY <1>2, CopySize

\* Room r gets X, which it has not had.
LEMMA MoreCounted ==
    ASSUME NEW n, NEW f, Counted(n, f), NEW r \in DOMAIN f,
           NEW X, IsFiniteSet(X), X \cap f[r] = {},
           NEW g, DOMAIN g = DOMAIN f, g[r] = f[r] \cup X,
           \A q \in DOMAIN f : q # r => g[q] = f[q]
    PROVE  Counted(n + Cardinality(X), g)
<1>1. Entries(g) = Entries(f) \cup ({r} \X X)
  BY EntriesAre DEF Entries
<1>2. Entries(f) \cap ({r} \X X) = {}
  BY EntriesAre
<1>3. PICK E, C : E = Entries(f) /\ C = {r} \X X
  OBVIOUS
<1>4. /\ IsFiniteSet(E) /\ IsFiniteSet(C)
      /\ Cardinality(C) = Cardinality(X)
  BY <1>3, CopySize DEF Counted
<1>5. /\ IsFiniteSet(E \cup C)
      /\ Cardinality(E \cup C) = Cardinality(E) + Cardinality(C) - Cardinality(E \cap C)
  BY <1>4, FS_Union
<1>6. Cardinality(E \cap C) = 0
  BY <1>2, <1>3, FS_EmptySet
<1>7. Cardinality(E) \in Nat /\ Cardinality(C) \in Nat
  BY <1>4, FS_CardinalityType
<1> QED BY <1>1, <1>3, <1>4, <1>5, <1>6, <1>7 DEF Counted

\* Room r loses X, of what it has had.
LEMMA LessCounted ==
    ASSUME NEW n, NEW f, Counted(n, f), NEW r \in DOMAIN f, NEW X \in SUBSET f[r],
           NEW g, DOMAIN g = DOMAIN f, g[r] = f[r] \ X,
           \A q \in DOMAIN f : q # r => g[q] = f[q]
    PROVE  Counted(n - Cardinality(X), g)
<1>1. Entries(g) = Entries(f) \ ({r} \X X)
  <2>1. \A p \in Entries(g) : p \in Entries(f) \ ({r} \X X)
    <3> SUFFICES ASSUME NEW p \in Entries(g)
                 PROVE  p \in Entries(f) \ ({r} \X X)
      OBVIOUS
    <3>1. PICK q, x : q \in DOMAIN g /\ x \in g[q] /\ p = <<q, x>>
      BY EntriesAre
    <3>2. x \in f[q] /\ ~ (q = r /\ x \in X)
      BY <3>1
    <3>3. p \in Entries(f)
      BY <3>1, <3>2, EntriesAre
    <3>4. p \notin {r} \X X
      BY <3>1, <3>2
    <3> QED BY <3>3, <3>4
  <2>2. \A p \in Entries(f) \ ({r} \X X) : p \in Entries(g)
    <3> SUFFICES ASSUME NEW p \in Entries(f) \ ({r} \X X)
                 PROVE  p \in Entries(g)
      OBVIOUS
    <3>1. PICK q, x : q \in DOMAIN f /\ x \in f[q] /\ p = <<q, x>>
      BY EntriesAre
    <3> QED BY <3>1, EntriesAre
  <2> QED BY <2>1, <2>2
<1>2. {r} \X X \subseteq Entries(f)
  BY EntriesAre
<1>3. PICK E, C : E = Entries(f) /\ C = {r} \X X
  OBVIOUS
<1>4. IsFiniteSet(E) /\ C \in SUBSET E
  BY <1>2, <1>3 DEF Counted
<1>5. IsFiniteSet(C)
  BY <1>4, FS_Subset
<1>6. Cardinality(C) = Cardinality(X)
  BY <1>3, <1>5, CopySize
<1>7. /\ IsFiniteSet(E \ C)
      /\ Cardinality(E \ C) = Cardinality(E) - Cardinality(E \cap C)
  BY <1>4, FS_Difference
<1>8. E \cap C = C
  BY <1>4
<1> QED BY <1>1, <1>3, <1>6, <1>7, <1>8 DEF Counted

\* A room that has nothing may come or go.
LEMMA NoneCounted ==
    ASSUME NEW n, NEW f, Counted(n, f), NEW r, NEW g,
           (DOMAIN g) \ {r} = (DOMAIN f) \ {r},
           \A q \in (DOMAIN f) \ {r} : g[q] = f[q],
           r \in DOMAIN f => f[r] = {}, r \in DOMAIN g => g[r] = {}
    PROVE  Counted(n, g)
<1>1. Entries(g) = Entries(f)
  <2>1. \A p \in Entries(g) : p \in Entries(f)
    <3> SUFFICES ASSUME NEW p \in Entries(g)
                 PROVE  p \in Entries(f)
      OBVIOUS
    <3>1. PICK q, x : q \in DOMAIN g /\ x \in g[q] /\ p = <<q, x>>
      BY EntriesAre
    <3> QED BY <3>1, EntriesAre
  <2>2. \A p \in Entries(f) : p \in Entries(g)
    <3> SUFFICES ASSUME NEW p \in Entries(f)
                 PROVE  p \in Entries(g)
      OBVIOUS
    <3>1. PICK q, x : q \in DOMAIN f /\ x \in f[q] /\ p = <<q, x>>
      BY EntriesAre
    <3> QED BY <3>1, EntriesAre
  <2> QED BY <2>1, <2>2
<1> QED BY <1>1 DEF Counted

\* Room r goes, with all it has.
LEMMA RoomUncounted ==
    ASSUME NEW n, NEW f, Counted(n, f), NEW r \in DOMAIN f, NEW g,
           DOMAIN g = (DOMAIN f) \ {r}, \A q \in DOMAIN g : g[q] = f[q]
    PROVE  Counted(n - Cardinality(f[r]), g)
<1>1. PICK e : e = [q \in DOMAIN f |-> IF q = r THEN {} ELSE f[q]]
  OBVIOUS
<1>2. /\ DOMAIN e = DOMAIN f /\ e[r] = f[r] \ f[r] /\ e[r] = {}
      /\ \A q \in DOMAIN f : q # r => e[q] = f[q]
  BY <1>1
<1>3. Counted(n - Cardinality(f[r]), e)
  BY <1>2, LessCounted
<1> QED BY <1>2, <1>3, NoneCounted

-----------------------------------------------------------------------------
(* What each function of the code counts *)

UsersIn(h) == [r \in DOMAIN h.rooms |-> DOMAIN h.rooms[r].users]

SessionsIn(h) == [r \in DOMAIN h.rooms |-> h.rooms[r].sessions]

Balanced(h) ==
    /\ IsFiniteSet(DOMAIN h.rooms) /\ h.gauges.rooms = Cardinality(DOMAIN h.rooms)
    /\ Counted(h.gauges.users, UsersIn(h))
    /\ Counted(h.gauges.sessions, SessionsIn(h))

\* Nothing that is counted differs.
SameCounts(h, k) ==
    /\ k.gauges = h.gauges
    /\ DOMAIN k.rooms = DOMAIN h.rooms
    /\ \A r \in DOMAIN h.rooms :
          /\ DOMAIN k.rooms[r].users = DOMAIN h.rooms[r].users
          /\ k.rooms[r].sessions = h.rooms[r].sessions

\* Then the counters are still right.
LEMMA SameBalanced ==
    ASSUME NEW h, NEW k, Balanced(h), SameCounts(h, k)
    PROVE  Balanced(k)
<1>1. UsersIn(k) = UsersIn(h) /\ SessionsIn(k) = SessionsIn(h)
  BY DEF SameCounts, UsersIn, SessionsIn
<1> QED BY <1>1 DEF SameCounts, Balanced

\* What a room has is finite if the counters are right.
LEMMA RoomFinite ==
    ASSUME NEW h, Balanced(h), NEW r \in DOMAIN h.rooms
    PROVE  IsFiniteSet(DOMAIN h.rooms[r].users) /\ IsFiniteSet(h.rooms[r].sessions)
<1>1. /\ DOMAIN UsersIn(h) = DOMAIN h.rooms /\ UsersIn(h)[r] = DOMAIN h.rooms[r].users
      /\ DOMAIN SessionsIn(h) = DOMAIN h.rooms /\ SessionsIn(h)[r] = h.rooms[r].sessions
  BY DEF UsersIn, SessionsIn
<1> QED BY <1>1, PartFinite DEF Balanced

\* The user c is counted in when it comes, out when it goes.
LEMMA UsersBalanced ==
    ASSUME NEW h, Typed(h), Balanced(h), NEW r \in DOMAIN h.rooms,
           NEW k, NEW U, IsMap(U, Clients, User), k.rooms = WithUsers(h.rooms, r, U),
           k.gauges.rooms = h.gauges.rooms, k.gauges.sessions = h.gauges.sessions,
           NEW c,
           \/ /\ DOMAIN U = DOMAIN h.rooms[r].users \cup {c}
              /\ c \notin DOMAIN h.rooms[r].users
              /\ k.gauges.users = h.gauges.users + 1
           \/ /\ DOMAIN U = DOMAIN h.rooms[r].users \ {c}
              /\ c \in DOMAIN h.rooms[r].users
              /\ k.gauges.users = h.gauges.users - 1
    PROVE  Balanced(k)
<1>1. IsMap(h.rooms, RoomIDs, RoomRecord)
  BY DEF Typed
<1>2. /\ DOMAIN k.rooms = DOMAIN h.rooms
      /\ k.rooms[r].users = U
      /\ k.rooms[r].sessions = h.rooms[r].sessions
      /\ \A q \in DOMAIN h.rooms : q # r => k.rooms[q] = h.rooms[q]
  BY <1>1, WithUsersMap
<1>3. SessionsIn(k) = SessionsIn(h)
  BY <1>2 DEF SessionsIn
<1>4. PICK f, g : f = UsersIn(h) /\ g = UsersIn(k)
  OBVIOUS
<1>5. /\ DOMAIN f = DOMAIN h.rooms /\ DOMAIN g = DOMAIN f
      /\ f[r] = DOMAIN h.rooms[r].users /\ g[r] = DOMAIN U
      /\ \A q \in DOMAIN f : q # r => g[q] = f[q]
  BY <1>2, <1>4 DEF UsersIn
<1>6. IsFiniteSet({c}) /\ Cardinality({c}) = 1
  BY FS_Singleton
<1>7. Counted(h.gauges.users, f)
  BY <1>4 DEF Balanced
<1>8. Counted(k.gauges.users, g)
  <2>1. CASE /\ DOMAIN U = DOMAIN h.rooms[r].users \cup {c}
             /\ c \notin DOMAIN h.rooms[r].users
             /\ k.gauges.users = h.gauges.users + 1
    <3>1. Counted(h.gauges.users + Cardinality({c}), g)
      BY <2>1, <1>5, <1>6, <1>7, MoreCounted
    <3> QED BY <2>1, <3>1, <1>6
  <2>2. CASE /\ DOMAIN U = DOMAIN h.rooms[r].users \ {c}
             /\ c \in DOMAIN h.rooms[r].users
             /\ k.gauges.users = h.gauges.users - 1
    <3>1. Counted(h.gauges.users - Cardinality({c}), g)
      BY <2>2, <1>5, <1>7, LessCounted
    <3> QED BY <2>2, <3>1, <1>6
  <2> QED BY <2>1, <2>2
<1> QED BY <1>2, <1>3, <1>4, <1>8 DEF Balanced

\* Sessions that end are counted out.
LEMMA ClosedCounted ==
    ASSUME NEW h, Typed(h), NEW r \in DOMAIN h.rooms, NEW gone \in SUBSET h.rooms[r].sessions,
           Counted(h.gauges.sessions, SessionsIn(h)),
           NEW k, k = CloseSessions(h, r, gone)
    PROVE  /\ Typed(k)
           /\ k.gauges.rooms = h.gauges.rooms
           /\ k.gauges.users = h.gauges.users
           /\ Counted(k.gauges.sessions, SessionsIn(k))
           /\ DOMAIN k.rooms = DOMAIN h.rooms
           /\ k.rooms[r].sessions = h.rooms[r].sessions \ gone
           /\ k.rooms[r].users = h.rooms[r].users
           /\ \A q \in DOMAIN h.rooms : q # r => k.rooms[q] = h.rooms[q]
<1>1. Typed(k) /\ k.rooms = WithSessions(h.rooms, r, h.rooms[r].sessions \ gone)
  <2>1. /\ Typed(CloseSessions(h, r, gone))
        /\ CloseSessions(h, r, gone).rooms
              = WithSessions(h.rooms, r, h.rooms[r].sessions \ gone)
    BY CloseSessionsTyped
  <2> QED BY <2>1
<1>2. /\ k.gauges.rooms = h.gauges.rooms
      /\ k.gauges.users = h.gauges.users
      /\ k.gauges.sessions = h.gauges.sessions - Cardinality(gone)
  <2> DEFINE e == [h EXCEPT !.rooms[r].sessions = @ \ gone,
                            !.gauges.sessions = @ - Cardinality(gone)]
  <2>1. DOMAIN e = DOMAIN h
    OBVIOUS
  <2>2. /\ e.gauges.rooms = h.gauges.rooms
        /\ e.gauges.users = h.gauges.users
        /\ e.gauges.sessions = h.gauges.sessions - Cardinality(gone)
    BY DEF Typed
  <2>3. k = Disallow(e, CredentialsOf(h.rooms[r], gone))
    BY DEF CloseSessions
  <2> HIDE DEF e
  <2>4. k.gauges = e.gauges
    BY <2>1, <2>3 DEF Disallow, Typed
  <2> QED BY <2>2, <2>4
<1>3. PICK X \in SUBSET Session : X = h.rooms[r].sessions \ gone
  BY RoomFields
<1>4. /\ DOMAIN k.rooms = DOMAIN h.rooms
      /\ k.rooms[r].sessions = X
      /\ k.rooms[r].users = h.rooms[r].users
      /\ \A q \in DOMAIN h.rooms : q # r => k.rooms[q] = h.rooms[q]
  <2>1. IsMap(h.rooms, RoomIDs, RoomRecord) /\ k.rooms = WithSessions(h.rooms, r, X)
    BY <1>1, <1>3 DEF Typed
  <2> QED BY <2>1, WithSessionsMap
<1>5. PICK f, g : f = SessionsIn(h) /\ g = SessionsIn(k)
  OBVIOUS
<1>6. /\ DOMAIN f = DOMAIN h.rooms /\ DOMAIN g = DOMAIN f
      /\ f[r] = h.rooms[r].sessions /\ g[r] = h.rooms[r].sessions \ gone
      /\ \A q \in DOMAIN f : q # r => g[q] = f[q]
  BY <1>3, <1>4, <1>5 DEF SessionsIn
<1>7. Counted(h.gauges.sessions - Cardinality(gone), g)
  BY <1>5, <1>6, LessCounted
<1> QED BY <1>1, <1>2, <1>3, <1>4, <1>5, <1>7

\* So the counters stay right.
LEMMA ClosedBalanced ==
    ASSUME NEW h, Typed(h), Balanced(h), NEW r \in DOMAIN h.rooms,
           NEW gone \in SUBSET h.rooms[r].sessions
    PROVE  Balanced(CloseSessions(h, r, gone))
<1>1. PICK k : k = CloseSessions(h, r, gone)
  OBVIOUS
<1>2. Counted(h.gauges.sessions, SessionsIn(h))
  BY DEF Balanced
<1>3. /\ k.gauges.rooms = h.gauges.rooms
      /\ k.gauges.users = h.gauges.users
      /\ Counted(k.gauges.sessions, SessionsIn(k))
      /\ DOMAIN k.rooms = DOMAIN h.rooms
      /\ k.rooms[r].users = h.rooms[r].users
      /\ \A q \in DOMAIN h.rooms : q # r => k.rooms[q] = h.rooms[q]
  BY <1>1, <1>2, ClosedCounted
<1>4. UsersIn(k) = UsersIn(h)
  BY <1>3 DEF UsersIn
<1>5. Balanced(k)
  BY <1>3, <1>4 DEF Balanced
<1> QED BY <1>1, <1>5

\* New sessions are counted in: none of them has been there before.
LEMMA MadeBalanced ==
    ASSUME NEW h, Typed(h), Balanced(h), NEW r \in DOMAIN h.rooms,
           NEW pairs \in SUBSET (Clients \X Clients), IsFiniteSet(pairs)
    PROVE  Balanced(NewSessions(h, r, pairs))
<1>1. PICK k : k = NewSessions(h, r, pairs)
  OBVIOUS
<1>2. PICK made : made = Made(h, pairs)
  OBVIOUS
<1>3. made \in SUBSET Session /\ \A s \in made : s.batch = h.batch
  BY <1>2, MadeTyped
<1>4. IsFiniteSet(made)
  <2>1. PICK f : f = [p \in pairs |-> [batch |-> h.batch, host |-> p[1], client |-> p[2]]]
    OBVIOUS
  <2>2. f \in [pairs -> made] /\ \A s \in made : \E p \in pairs : f[p] = s
    BY <1>2, <2>1 DEF Made
  <2>3. f \in Surjection(pairs, made)
    BY <2>2 DEF Surjection
  <2> QED BY <2>3, FS_Surjection
<1>5. k.rooms = WithSessions(h.rooms, r, h.rooms[r].sessions \cup made)
  <2>1. NewSessions(h, r, pairs).rooms
           = WithSessions(h.rooms, r, h.rooms[r].sessions \cup Made(h, pairs))
    BY NewSessionsTyped
  <2> QED BY <1>1, <1>2, <2>1
<1>6. /\ k.gauges.rooms = h.gauges.rooms
      /\ k.gauges.users = h.gauges.users
      /\ k.gauges.sessions = h.gauges.sessions + Cardinality(made)
  <2>1. PICK added : added = AddSessions(h, r, made)
    OBVIOUS
  <2>2. /\ DOMAIN added = DOMAIN h
        /\ added.gauges.rooms = h.gauges.rooms
        /\ added.gauges.users = h.gauges.users
        /\ added.gauges.sessions = h.gauges.sessions + Cardinality(made)
    BY <2>1 DEF AddSessions, Typed
  <2>3. PICK allowed : allowed = Allow(added, CredentialsOf(h.rooms[r], made))
    OBVIOUS
  <2>4. DOMAIN allowed = DOMAIN h /\ allowed.gauges = added.gauges
    BY <2>2, <2>3 DEF Allow, Typed
  <2>5. k = Send(allowed, SessionNotices(made))
    BY <1>1, <1>2, <2>1, <2>3 DEF NewSessions
  <2>6. k.gauges = allowed.gauges
    BY <2>4, <2>5 DEF Send, Typed
  <2> QED BY <2>2, <2>4, <2>6
<1>7. PICK X \in SUBSET Session : X = h.rooms[r].sessions \cup made
  BY <1>3, RoomFields
<1>8. /\ DOMAIN k.rooms = DOMAIN h.rooms
      /\ k.rooms[r].sessions = X
      /\ k.rooms[r].users = h.rooms[r].users
      /\ \A q \in DOMAIN h.rooms : q # r => k.rooms[q] = h.rooms[q]
  <2>1. IsMap(h.rooms, RoomIDs, RoomRecord) /\ k.rooms = WithSessions(h.rooms, r, X)
    BY <1>5, <1>7 DEF Typed
  <2> QED BY <2>1, WithSessionsMap
<1>9. made \cap h.rooms[r].sessions = {}
  <2> SUFFICES ASSUME NEW s \in made, s \in h.rooms[r].sessions
               PROVE  FALSE
    OBVIOUS
  <2>1. s.batch < h.batch /\ h.batch \in Nat
    BY DEF Typed
  <2> QED BY <1>3, <2>1
<1>10. PICK f, g : f = SessionsIn(h) /\ g = SessionsIn(k)
  OBVIOUS
<1>11. /\ DOMAIN f = DOMAIN h.rooms /\ DOMAIN g = DOMAIN f
       /\ f[r] = h.rooms[r].sessions /\ g[r] = h.rooms[r].sessions \cup made
       /\ \A q \in DOMAIN f : q # r => g[q] = f[q]
  BY <1>7, <1>8, <1>10 DEF SessionsIn
<1>12. Counted(h.gauges.sessions, f)
  BY <1>10 DEF Balanced
<1>13. Counted(h.gauges.sessions + Cardinality(made), g)
  BY <1>4, <1>9, <1>11, <1>12, MoreCounted
<1>14. UsersIn(k) = UsersIn(h)
  BY <1>8 DEF UsersIn
<1>15. Balanced(k)
  BY <1>6, <1>8, <1>10, <1>13, <1>14 DEF Balanced
<1> QED BY <1>1, <1>15

\* What is sent is not counted.
LEMMA SentBalanced ==
    ASSUME NEW h, Typed(h), Balanced(h), NEW msgs \in SUBSET Message
    PROVE  Balanced(Send(h, msgs))
<1>1. /\ Send(h, msgs).gauges = h.gauges
      /\ Send(h, msgs).rooms = h.rooms
  BY DEF Send, Typed
<1>2. SameCounts(h, Send(h, msgs))
  BY <1>1 DEF SameCounts
<1> QED BY <1>2, SameBalanced

\* ... nor is what notifyInfoChanged sends.
LEMMA NotifiedBalanced ==
    ASSUME NEW h, Typed(h), Balanced(h), NEW r \in DOMAIN h.rooms
    PROVE  Balanced(NotifyInfoChanged(h, r))
<1>1. /\ NotifyInfoChanged(h, r).gauges = h.gauges
      /\ NotifyInfoChanged(h, r).rooms = h.rooms
  BY DEF NotifyInfoChanged, Send, Typed
<1>2. SameCounts(h, NotifyInfoChanged(h, r))
  BY <1>1 DEF SameCounts
<1> QED BY <1>2, SameBalanced

\* The sessions of c end, those with it or those it hosts.
LEMMA EndedBalanced ==
    ASSUME NEW h, Typed(h), Balanced(h), NEW r \in DOMAIN h.rooms, NEW c
    PROVE  Balanced(CloseUserSessions(h, r, c)) /\ Balanced(CloseHostSessions(h, r, c))
<1>1. ASSUME NEW gone \in SUBSET h.rooms[r].sessions
      PROVE  Balanced(CloseSessions(Send(h, EndShares(h, r, gone, c)), r, gone))
  <2>1. PICK told : told = Send(h, EndShares(h, r, gone, c))
    OBVIOUS
  <2>2. EndShares(h, r, gone, c) \in SUBSET Message
    BY EndSharesTyped, RoomFields
  <2>3. Typed(told) /\ Alike(h, told) /\ Balanced(told)
    BY <2>1, <2>2, SendTyped, SentBalanced
  <2>4. r \in DOMAIN told.rooms /\ gone \in SUBSET told.rooms[r].sessions
    BY <2>3 DEF Alike
  <2> QED BY <2>1, <2>3, <2>4, ClosedBalanced
<1>2. /\ SessionsWith(h.rooms[r], c) \in SUBSET h.rooms[r].sessions
      /\ HostedBy(h.rooms[r], c) \in SUBSET h.rooms[r].sessions
  BY DEF SessionsWith, HostedBy
<1> QED BY <1>1, <1>2 DEF CloseUserSessions, CloseHostSessions

\* closeRoom counts out all the room has at that time, and the room.
LEMMA RoomClosedBalanced ==
    ASSUME NEW h, Typed(h), Balanced(h), NEW r \in DOMAIN h.rooms
    PROVE  Balanced(CloseRoom(h, r))
<1>1. PICK members : members = DOMAIN h.rooms[r].users
  OBVIOUS
<1>2. PICK evicted : evicted = Evict(h, members)
  OBVIOUS
<1>3. PICK ended : ended = CloseSessions(evicted, r, h.rooms[r].sessions)
  OBVIOUS
<1>4. PICK k : k = CloseRoom(h, r)
  OBVIOUS
<1>5. k = [ended EXCEPT !.rooms = Drop(@, {r}), !.gauges.rooms = @ - 1]
  BY <1>1, <1>2, <1>3, <1>4 DEF CloseRoom
<1>6. members \in SUBSET Clients
  BY <1>1, RoomFields DEF IsMap
<1>7. Typed(evicted) /\ evicted.rooms = h.rooms
  BY <1>2, <1>6, EvictTyped
<1>8. /\ evicted.gauges.rooms = h.gauges.rooms
      /\ evicted.gauges.users = h.gauges.users - Cardinality(members)
      /\ evicted.gauges.sessions = h.gauges.sessions
  BY <1>2 DEF Evict, Send, Typed
<1>9. Counted(evicted.gauges.sessions, SessionsIn(evicted))
  BY <1>7, <1>8 DEF Balanced, SessionsIn
<1>10. /\ Typed(ended)
       /\ ended.gauges.rooms = h.gauges.rooms
       /\ ended.gauges.users = h.gauges.users - Cardinality(members)
       /\ Counted(ended.gauges.sessions, SessionsIn(ended))
       /\ DOMAIN ended.rooms = DOMAIN h.rooms
       /\ ended.rooms[r].sessions = {}
       /\ \A q \in DOMAIN h.rooms : q # r => ended.rooms[q] = h.rooms[q]
  <2>1. PICK X : X = h.rooms[r].sessions
    OBVIOUS
  <2>2. r \in DOMAIN evicted.rooms /\ X \in SUBSET evicted.rooms[r].sessions
    BY <1>7, <2>1
  <2>3. ended = CloseSessions(evicted, r, X)
    BY <1>3, <2>1
  <2>4. /\ Typed(ended)
        /\ ended.gauges.rooms = evicted.gauges.rooms
        /\ ended.gauges.users = evicted.gauges.users
        /\ Counted(ended.gauges.sessions, SessionsIn(ended))
        /\ DOMAIN ended.rooms = DOMAIN evicted.rooms
        /\ ended.rooms[r].sessions = evicted.rooms[r].sessions \ X
        /\ \A q \in DOMAIN evicted.rooms : q # r => ended.rooms[q] = evicted.rooms[q]
    BY <1>7, <1>9, <2>2, <2>3, ClosedCounted
  <2> QED BY <1>7, <1>8, <2>1, <2>4
<1>11. /\ k.gauges.rooms = h.gauges.rooms - 1
       /\ k.gauges.users = h.gauges.users - Cardinality(members)
       /\ k.gauges.sessions = ended.gauges.sessions
       /\ k.rooms = Drop(ended.rooms, {r})
  BY <1>5, <1>10 DEF Typed
<1>12. /\ DOMAIN k.rooms = DOMAIN h.rooms \ {r}
       /\ \A q \in DOMAIN k.rooms : k.rooms[q] = h.rooms[q] /\ k.rooms[q] = ended.rooms[q]
  BY <1>10, <1>11 DEF Drop
<1>13. IsFiniteSet(DOMAIN k.rooms) /\ k.gauges.rooms = Cardinality(DOMAIN k.rooms)
  BY <1>11, <1>12, FS_RemoveElement DEF Balanced
<1>14. Counted(k.gauges.users, UsersIn(k))
  <2>1. PICK f, g : f = UsersIn(h) /\ g = UsersIn(k)
    OBVIOUS
  <2>2. /\ r \in DOMAIN f /\ DOMAIN g = DOMAIN f \ {r} /\ f[r] = members
        /\ \A q \in DOMAIN g : g[q] = f[q]
    BY <1>1, <1>12, <2>1 DEF UsersIn
  <2>3. Counted(h.gauges.users, f)
    BY <2>1 DEF Balanced
  <2>4. Counted(h.gauges.users - Cardinality(members), g)
    BY <2>2, <2>3, RoomUncounted
  <2> QED BY <1>11, <2>1, <2>4
<1>15. Counted(k.gauges.sessions, SessionsIn(k))
  <2>1. PICK f, g : f = SessionsIn(ended) /\ g = SessionsIn(k)
    OBVIOUS
  <2>2. /\ DOMAIN f = DOMAIN h.rooms /\ DOMAIN g = DOMAIN f \ {r} /\ f[r] = {}
        /\ \A q \in DOMAIN g : g[q] = f[q]
    BY <1>10, <1>12, <2>1 DEF SessionsIn
  <2>3. Counted(ended.gauges.sessions, g)
    BY <1>10, <2>1, <2>2, NoneCounted
  <2> QED BY <1>11, <2>1, <2>3
<1>16. Balanced(k)
  BY <1>13, <1>14, <1>15 DEF Balanced
<1> QED BY <1>4, <1>16

\* removeUserFromRoom counts out the user, and the room if it closes.
LEMMA RemovedBalanced ==
    ASSUME NEW h, Typed(h), Balanced(h), NEW r, NEW c
    PROVE  Balanced(RemoveUserFromRoom(h, r, c))
<1>1. CASE ~Inside(h, r, c)
  BY <1>1 DEF Inside, RemoveUserFromRoom
<1>2. CASE Inside(h, r, c)
  <2>1. PICK quiet : quiet = CloseUserSessions(h, r, c)
    OBVIOUS
  <2>2. PICK left : left = RemoveUser(quiet, r, c)
    OBVIOUS
  <2>3. r \in DOMAIN h.rooms /\ c \in DOMAIN h.rooms[r].users
    BY <1>2 DEF Inside
  <2>4. /\ Typed(quiet) /\ Balanced(quiet)
        /\ quiet.rooms = WithSessions(h.rooms, r,
               h.rooms[r].sessions \ SessionsWith(h.rooms[r], c))
    BY <2>1, <2>3, CloseUserTyped, EndedBalanced
  <2>5. r \in DOMAIN quiet.rooms /\ c \in DOMAIN quiet.rooms[r].users
    <3>1. PICK X : X = h.rooms[r].sessions \ SessionsWith(h.rooms[r], c)
      OBVIOUS
    <3>2. quiet.rooms = WithSessions(h.rooms, r, X)
      BY <2>4, <3>1
    <3>3. DOMAIN h.rooms[r] = {"mode", "closeOnOwnerLeave", "users", "sessions"}
      BY <2>3, RoomFields DEF RoomRecord
    <3> QED BY <2>3, <3>2, <3>3 DEF WithSessions
  <2>6. PICK U : U = Drop(quiet.rooms[r].users, {c})
    OBVIOUS
  <2>7. IsMap(U, Clients, User) /\ DOMAIN U = DOMAIN quiet.rooms[r].users \ {c}
    BY <2>4, <2>5, <2>6, RoomFields, DropMap
  <2>8. Typed(left) /\ left.rooms = WithUsers(quiet.rooms, r, U)
    BY <2>2, <2>4, <2>5, <2>6, RemoveUserTyped
  <2>9. /\ left.gauges.rooms = quiet.gauges.rooms
        /\ left.gauges.sessions = quiet.gauges.sessions
        /\ left.gauges.users = quiet.gauges.users - 1
    BY <2>2, <2>4 DEF RemoveUser, Typed
  <2>10. Balanced(left)
    BY <2>4, <2>5, <2>7, <2>8, <2>9, UsersBalanced
  <2>11. r \in DOMAIN left.rooms
    BY <2>5, <2>8 DEF WithUsers
  <2>12. RemoveUserFromRoom(h, r, c) = IF Closes(h.rooms[r], left.rooms[r], c)
                                       THEN CloseRoom(left, r)
                                       ELSE NotifyInfoChanged(left, r)
    BY <2>1, <2>2, <2>3 DEF RemoveUserFromRoom
  <2> QED BY <2>8, <2>10, <2>11, <2>12, RoomClosedBalanced, NotifiedBalanced
<1> QED BY <1>1, <1>2

\* A client that is disconnected is counted out where it was counted in.
LEMMA DisconnectBalanced ==
    ASSUME NEW h, Typed(h), Balanced(h), NEW c \in Clients, c \in DOMAIN h.connected
    PROVE  Balanced(Disconnect(h, c))
<1>1. PICK r : r = h.connected[c]
  OBVIOUS
<1>2. PICK cut : cut = [h EXCEPT !.connected = Drop(@, {c})]
  OBVIOUS
<1>3. PICK gone : gone = Send(cut, CloseWriters({c}))
  OBVIOUS
<1>4. Disconnect(h, c) = IF r = NoRoom THEN gone ELSE RemoveUserFromRoom(gone, r, c)
  BY <1>1, <1>2, <1>3 DEF Disconnect
<1>5. /\ DOMAIN cut = DOMAIN h
      /\ cut.connected = Drop(h.connected, {c})
      /\ cut.rooms = h.rooms /\ cut.panicked = h.panicked /\ cut.lookup = h.lookup
      /\ cut.out = h.out /\ cut.batch = h.batch /\ cut.gauges = h.gauges
  BY <1>2 DEF Typed
<1>6. IsMap(cut.connected, Clients, RoomIDs \cup {NoRoom})
  <2>1. IsMap(h.connected, Clients, RoomIDs \cup {NoRoom})
    BY DEF Typed
  <2>2. IsMap(Drop(h.connected, {c}), Clients, RoomIDs \cup {NoRoom})
    BY <2>1, DropMap
  <2> QED BY <1>5, <2>2
<1>7. Typed(cut)
  BY <1>5, <1>6 DEF Typed
<1>8. Balanced(cut)
  BY <1>5, SameBalanced DEF SameCounts
<1>9. Typed(gone) /\ Balanced(gone)
  BY <1>3, <1>7, <1>8, CloseWritersTyped, SendTyped, SentBalanced
<1> QED BY <1>4, <1>9, RemovedBalanced

-----------------------------------------------------------------------------
(* The handlers *)

\* The hub state a handler ends in becomes the variables.
LEMMA BecomeBalanced ==
    ASSUME NEW k, Balanced(k), Become(k)
    PROVE  Balanced(hub)'
<1>1. (hub.rooms)' = k.rooms /\ (hub.gauges)' = k.gauges
  BY DEF Become, hub
<1> QED BY <1>1 DEF Balanced, UsersIn, SessionsIn

\* A user that was there and changes is counted as before.
LEMMA ChangedBalanced ==
    ASSUME NEW h, Typed(h), Balanced(h), NEW r \in DOMAIN h.rooms,
           NEW c \in DOMAIN h.rooms[r].users, NEW user \in User, NEW k,
           k.gauges = h.gauges,
           k.rooms = WithUsers(h.rooms, r, Put(h.rooms[r].users, c, user))
    PROVE  Balanced(k)
<1>1. c \in Clients
  BY RoomFields DEF IsMap
<1>2. PICK all : all = WithUsers(h.rooms, r, Put(h.rooms[r].users, c, user))
  OBVIOUS
<1>3. /\ DOMAIN all = DOMAIN h.rooms
      /\ \A q \in DOMAIN h.rooms : q # r => all[q] = h.rooms[q]
      /\ all[r].sessions = h.rooms[r].sessions
      /\ DOMAIN all[r].users = DOMAIN h.rooms[r].users \cup {c}
  BY <1>1, <1>2, PutRoom
<1>4. SameCounts(h, k)
  BY <1>2, <1>3 DEF SameCounts
<1> QED BY <1>4, SameBalanced

\* A user who enters a room that it is not in is counted in.
LEMMA EnterBalanced ==
    ASSUME NEW h, Typed(h), Balanced(h), NEW r \in DOMAIN h.rooms, NEW c \in Clients,
           c \notin DOMAIN h.rooms[r].users, NEW name \in Names, NEW owner \in BOOLEAN
    PROVE  Balanced(Enter(h, c, r, name, owner))
<1>1. PICK k : k = Enter(h, c, r, name, owner)
  OBVIOUS
<1>2. PICK user : user = NewUser(name, owner)
  OBVIOUS
<1>3. user \in User
  BY <1>2 DEF User, NewUser
<1>4. PICK U : U = Put(h.rooms[r].users, c, user)
  OBVIOUS
<1>5. k.rooms = WithUsers(h.rooms, r, U)
  <2>1. Enter(h, c, r, name, owner).rooms
           = WithUsers(h.rooms, r, Put(h.rooms[r].users, c, NewUser(name, owner)))
    BY EnterTyped
  <2> QED BY <1>1, <1>2, <1>4, <2>1
<1>6. IsMap(U, Clients, User) /\ DOMAIN U = DOMAIN h.rooms[r].users \cup {c}
  <2>1. IsMap(h.rooms[r].users, Clients, User)
    BY RoomFields
  <2>2. IsMap(Put(h.rooms[r].users, c, user), Clients, User)
    BY <1>3, <2>1, PutMap
  <2> QED BY <1>4, <2>2 DEF Put
<1>7. /\ k.gauges.rooms = h.gauges.rooms
      /\ k.gauges.sessions = h.gauges.sessions
      /\ k.gauges.users = h.gauges.users + 1
  BY <1>1 DEF Enter, NotifyInfoChanged, Send, Typed
<1>8. Balanced(k)
  BY <1>5, <1>6, <1>7, UsersBalanced
<1> QED BY <1>1, <1>8

\* A room is opened empty.
LEMMA OpenedBalanced ==
    ASSUME NEW h, Typed(h), Balanced(h), NEW r \in RoomIDs, r \notin DOMAIN h.rooms,
           NEW mode \in Modes, NEW close \in BOOLEAN
    PROVE  /\ Balanced(OpenRoom(h, r, mode, close))
           /\ Typed(OpenRoom(h, r, mode, close))
           /\ r \in DOMAIN OpenRoom(h, r, mode, close).rooms
           /\ DOMAIN OpenRoom(h, r, mode, close).rooms[r].users = {}
<1>1. PICK k : k = OpenRoom(h, r, mode, close)
  OBVIOUS
<1>2. PICK room : room = EmptyRoom(mode, close)
  OBVIOUS
<1>3. DOMAIN room.users = {} /\ room.sessions = {}
  BY <1>2 DEF EmptyRoom, NoUsers
<1>4. Typed(k) /\ k.rooms = Put(h.rooms, r, room)
  BY <1>1, <1>2, OpenRoomTyped
<1>5. /\ DOMAIN k.rooms = DOMAIN h.rooms \cup {r}
      /\ k.rooms[r] = room
      /\ \A q \in DOMAIN h.rooms : k.rooms[q] = h.rooms[q]
  BY <1>4 DEF Put
<1>6. /\ k.gauges.rooms = h.gauges.rooms + 1
      /\ k.gauges.users = h.gauges.users
      /\ k.gauges.sessions = h.gauges.sessions
  BY <1>1 DEF OpenRoom, Typed
<1>7. IsFiniteSet(DOMAIN k.rooms) /\ k.gauges.rooms = Cardinality(DOMAIN k.rooms)
  <2>1. PICK D : D = DOMAIN h.rooms
    OBVIOUS
  <2>2. IsFiniteSet(D) /\ h.gauges.rooms = Cardinality(D)
    BY <2>1 DEF Balanced
  <2>3. IsFiniteSet(D \cup {r}) /\ Cardinality(D \cup {r}) = Cardinality(D) + 1
    BY <2>1, <2>2, FS_AddElement
  <2> QED BY <1>5, <1>6, <2>1, <2>2, <2>3
<1>8. Counted(k.gauges.users, UsersIn(k))
  <2>1. PICK f, g : f = UsersIn(h) /\ g = UsersIn(k)
    OBVIOUS
  <2>2. /\ r \notin DOMAIN f /\ DOMAIN g = DOMAIN f \cup {r} /\ g[r] = {}
        /\ \A q \in DOMAIN f : g[q] = f[q]
    BY <1>3, <1>5, <2>1 DEF UsersIn
  <2>3. Counted(h.gauges.users, f)
    BY <2>1 DEF Balanced
  <2>4. Counted(h.gauges.users, g)
    BY <2>2, <2>3, NoneCounted
  <2> QED BY <1>6, <2>1, <2>4
<1>9. Counted(k.gauges.sessions, SessionsIn(k))
  <2>1. PICK f, g : f = SessionsIn(h) /\ g = SessionsIn(k)
    OBVIOUS
  <2>2. /\ r \notin DOMAIN f /\ DOMAIN g = DOMAIN f \cup {r} /\ g[r] = {}
        /\ \A q \in DOMAIN f : g[q] = f[q]
    BY <1>3, <1>5, <2>1 DEF SessionsIn
  <2>3. Counted(h.gauges.sessions, f)
    BY <2>1 DEF Balanced
  <2>4. Counted(h.gauges.sessions, g)
    BY <2>2, <2>3, NoneCounted
  <2> QED BY <1>6, <2>1, <2>4
<1>10. Balanced(k)
  BY <1>7, <1>8, <1>9 DEF Balanced
<1> QED BY <1>1, <1>3, <1>4, <1>5, <1>10

\* The user c of r shares, or does not.
LEMMA ShareBalanced ==
    ASSUME NEW h, Typed(h), Balanced(h), NEW r \in DOMAIN h.rooms,
           NEW c \in DOMAIN h.rooms[r].users, NEW on \in BOOLEAN
    PROVE  /\ Balanced(SetStreaming(h, r, c, on)) /\ Typed(SetStreaming(h, r, c, on))
           /\ SetStreaming(h, r, c, on).connected = h.connected
           /\ DOMAIN SetStreaming(h, r, c, on).rooms = DOMAIN h.rooms
<1>1. PICK k : k = SetStreaming(h, r, c, on)
  OBVIOUS
<1>2. PICK user : user = Streaming(h.rooms[r].users[c], on)
  OBVIOUS
<1>3. user \in User
  <2>1. h.rooms[r].users[c] \in User
    BY RoomFields DEF IsMap
  <2> QED BY <1>2, <2>1 DEF User, Streaming
<1>4. /\ Typed(k)
      /\ k.connected = h.connected
      /\ k.rooms = WithUsers(h.rooms, r, Put(h.rooms[r].users, c, user))
  <2>1. /\ Typed(SetStreaming(h, r, c, on))
        /\ SetStreaming(h, r, c, on).connected = h.connected
        /\ SetStreaming(h, r, c, on).rooms
              = WithUsers(h.rooms, r, Put(h.rooms[r].users, c,
                                          Streaming(h.rooms[r].users[c], on)))
    BY SetStreamingTyped
  <2> QED BY <1>1, <1>2, <2>1
<1>5. k.gauges = h.gauges
  BY <1>1 DEF SetStreaming, Typed
<1>6. Balanced(k)
  BY <1>3, <1>4, <1>5, ChangedBalanced
<1>7. DOMAIN k.rooms = DOMAIN h.rooms
  BY <1>4 DEF WithUsers
<1> QED BY <1>1, <1>4, <1>6, <1>7

\* A panic leaves the registry as it is.
LEMMA PanicBalanced ==
    ASSUME NEW h, Typed(h), Balanced(h)
    PROVE  Balanced([h EXCEPT !.panicked = TRUE])
<1>1. PICK k : k = [h EXCEPT !.panicked = TRUE]
  OBVIOUS
<1>2. k.rooms = h.rooms /\ k.gauges = h.gauges
  BY <1>1 DEF Typed
<1>3. Balanced(k)
  BY <1>2, SameBalanced DEF SameCounts
<1> QED BY <1>1, <1>3

\* Join counts the user in, and its sessions, or takes it out again.
LEMMA JoinStepBalanced ==
    ASSUME NoRoom \notin RoomIDs, TypeOK, Placed(hub), Balanced(hub),
           NEW c \in Clients, NEW r, Join(c, r)
    PROVE  Balanced(hub)'
<1>1. Typed(hub) /\ hub.connected = connected /\ hub.rooms = rooms
  BY HubTyped DEF hub
<1>2. c \in DOMAIN hub.connected
  BY <1>1 DEF Join, Accepts
<1>3. CASE Become(Disconnect(hub, c))
  BY <1>1, <1>2, <1>3, DisconnectBalanced, BecomeBalanced
<1>4. ASSUME NEW name \in Names, MayJoin(c, r)
      PROVE  LET entered == Enter(hub, c, r, name, FALSE)
                 pairs   == (Streamers(entered.rooms[r]) \ {c}) \X {c}
             IN  /\ Balanced(Disconnect(entered, c))
                 /\ Balanced(NewSessions(entered, r, pairs))
  <2>1. PICK entered : entered = Enter(hub, c, r, name, FALSE)
    OBVIOUS
  <2>2. PICK pairs : pairs = (Streamers(entered.rooms[r]) \ {c}) \X {c}
    OBVIOUS
  <2>3. r \in DOMAIN hub.rooms /\ hub.connected[c] = NoRoom
    BY <1>1, <1>4 DEF MayJoin
  <2>4. c \notin DOMAIN hub.rooms[r].users
    BY <1>1, <2>3, RoomFields DEF Placed, Inside
  <2>5. /\ Typed(entered)
        /\ entered.connected = Put(hub.connected, c, r)
        /\ entered.rooms = WithUsers(hub.rooms, r,
                               Put(hub.rooms[r].users, c, NewUser(name, FALSE)))
    BY <1>1, <2>1, <2>3, EnterTyped
  <2>6. Balanced(entered)
    BY <1>1, <2>1, <2>3, <2>4, EnterBalanced
  <2>7. c \in DOMAIN entered.connected /\ r \in DOMAIN entered.rooms
    BY <2>3, <2>5 DEF Put, WithUsers
  <2>8. PICK there : there = Streamers(entered.rooms[r]) \ {c}
    OBVIOUS
  <2>9. there \in SUBSET DOMAIN entered.rooms[r].users /\ there \subseteq Clients
    BY <2>5, <2>7, <2>8, RoomFields DEF Streamers, IsMap
  <2>10. IsFiniteSet(there) /\ IsFiniteSet({c})
    <3>1. IsFiniteSet(DOMAIN entered.rooms[r].users)
      BY <2>6, <2>7, RoomFinite
    <3>2. IsFiniteSet(there)
      BY <2>9, <3>1, FS_Subset
    <3> QED BY <3>2, FS_Singleton
  <2>11. pairs \in SUBSET (Clients \X Clients) /\ IsFiniteSet(pairs)
    BY <2>2, <2>8, <2>9, <2>10, FS_Product
  <2>12. Balanced(Disconnect(entered, c)) /\ Balanced(NewSessions(entered, r, pairs))
    BY <2>5, <2>6, <2>7, <2>11, DisconnectBalanced, MadeBalanced
  <2> QED BY <2>1, <2>2, <2>12
<1> QED BY <1>3, <1>4, BecomeBalanced DEF Join

\* Create counts the room and its owner in.
LEMMA CreateStepBalanced ==
    ASSUME NoRoom \notin RoomIDs, TypeOK, Placed(hub), Balanced(hub),
           NEW c \in Clients, NEW r \in RoomIDs, NEW mode \in Modes,
           NEW close \in BOOLEAN, NEW joinIfExist \in BOOLEAN,
           Create(c, r, mode, close, joinIfExist)
    PROVE  Balanced(hub)'
<1>1. Typed(hub) /\ hub.connected = connected /\ hub.rooms = rooms
  BY HubTyped DEF hub
<1>2. c \in DOMAIN hub.connected
  BY <1>1 DEF Create, Accepts
<1>3. CASE Join(c, r)
  BY <1>3, JoinStepBalanced
<1>4. CASE Become(Disconnect(hub, c))
  BY <1>1, <1>2, <1>4, DisconnectBalanced, BecomeBalanced
<1>5. ASSUME NEW name \in Names, MayOpen(c, r, mode),
             Become(Enter(OpenRoom(hub, r, mode, close), c, r, name, TRUE))
      PROVE  Balanced(hub)'
  <2>1. PICK opened : opened = OpenRoom(hub, r, mode, close)
    OBVIOUS
  <2>2. r \notin DOMAIN hub.rooms
    BY <1>1, <1>5 DEF MayOpen
  <2>3. /\ Balanced(opened) /\ Typed(opened)
        /\ r \in DOMAIN opened.rooms /\ DOMAIN opened.rooms[r].users = {}
    BY <1>1, <2>1, <2>2, OpenedBalanced
  <2>4. Balanced(Enter(opened, c, r, name, TRUE))
    BY <2>3, EnterBalanced
  <2> QED BY <1>5, <2>1, <2>4, BecomeBalanced
<1> QED BY <1>3, <1>4, <1>5 DEF Create

\* StartShare counts sessions in, or disconnects.
LEMMA StartShareStepBalanced ==
    ASSUME TypeOK, Balanced(hub), NEW c \in Clients, StartShare(c)
    PROVE  Balanced(hub)'
<1>1. Typed(hub) /\ hub.connected = connected /\ hub.rooms = rooms
  BY HubTyped DEF hub
<1>2. c \in DOMAIN hub.connected
  BY <1>1 DEF StartShare, Accepts
<1>3. CASE Become(Disconnect(hub, c))
  BY <1>1, <1>2, <1>3, DisconnectBalanced, BecomeBalanced
<1>4. CASE HasRoom(c)
  <2>1. PICK r : r = connected[c]
    OBVIOUS
  <2>2. PICK shared : shared = Deref(hub, r, c, SetStreaming(hub, r, c, TRUE))
    OBVIOUS
  <2>3. PICK pairs : pairs = {c} \X Others(Room(c), c)
    OBVIOUS
  <2>4. \/ Become(Disconnect(hub, c)) \/ Become(Disconnect(shared, c))
        \/ Become(NotifyInfoChanged(NewSessions(shared, r, pairs), r))
    BY <2>1, <2>2, <2>3 DEF StartShare
  <2>5. r \in DOMAIN hub.rooms /\ Room(c) = hub.rooms[r]
    BY <1>1, <1>4, <2>1 DEF HasRoom, Room
  <2>6. /\ Typed(shared) /\ Balanced(shared)
        /\ shared.connected = hub.connected
        /\ DOMAIN shared.rooms = DOMAIN hub.rooms
    <3>1. CASE c \in DOMAIN hub.rooms[r].users
      <4>1. shared = SetStreaming(hub, r, c, TRUE)
        BY <2>2, <3>1 DEF Deref
      <4> QED BY <1>1, <2>5, <3>1, <4>1, ShareBalanced
    <3>2. CASE c \notin DOMAIN hub.rooms[r].users
      <4>1. shared = [hub EXCEPT !.panicked = TRUE]
        BY <2>2, <3>2 DEF Deref
      <4>2. /\ Typed(shared)
            /\ shared.connected = hub.connected
            /\ shared.rooms = hub.rooms
        BY <1>1, <4>1, PanicTyped DEF Typed
      <4> QED BY <1>1, <4>1, <4>2, PanicBalanced
    <3> QED BY <3>1, <3>2
  <2>7. pairs \in SUBSET (Clients \X Clients) /\ IsFiniteSet(pairs)
    <3>1. PICK others : others = Others(Room(c), c)
      OBVIOUS
    <3>2. others \in SUBSET DOMAIN hub.rooms[r].users /\ others \subseteq Clients
      BY <1>1, <2>5, <3>1, RoomFields DEF Others, IsMap
    <3>3. IsFiniteSet(others) /\ IsFiniteSet({c})
      BY <2>5, <3>2, RoomFinite, FS_Subset, FS_Singleton
    <3> QED BY <2>3, <3>1, <3>2, <3>3, FS_Product
  <2>8. r \in DOMAIN shared.rooms /\ c \in DOMAIN shared.connected
    BY <1>2, <2>5, <2>6
  <2>9. PICK made : made = NewSessions(shared, r, pairs)
    OBVIOUS
  <2>10. Balanced(made)
    BY <2>6, <2>7, <2>8, <2>9, MadeBalanced
  <2>11. /\ Typed(made)
         /\ made.rooms = WithSessions(shared.rooms, r,
                            shared.rooms[r].sessions \cup Made(shared, pairs))
    BY <2>6, <2>7, <2>8, <2>9, NewSessionsTyped
  <2>12. r \in DOMAIN made.rooms
    BY <2>8, <2>11 DEF WithSessions
  <2>13. Balanced(Disconnect(shared, c))
    BY <2>6, <2>8, DisconnectBalanced
  <2>14. Balanced(NotifyInfoChanged(made, r))
    BY <2>10, <2>11, <2>12, NotifiedBalanced
  <2> QED BY <1>3, <2>4, <2>9, <2>13, <2>14, BecomeBalanced
<1> QED BY <1>3, <1>4 DEF StartShare

\* StopShare counts out the sessions the client hosts.
LEMMA StopShareStepBalanced ==
    ASSUME TypeOK, Balanced(hub), NEW c \in Clients, StopShare(c)
    PROVE  Balanced(hub)'
<1>1. Typed(hub) /\ hub.connected = connected /\ hub.rooms = rooms
  BY HubTyped DEF hub
<1>2. c \in DOMAIN hub.connected
  BY <1>1 DEF StopShare, Accepts
<1>3. CASE Become(Disconnect(hub, c))
  BY <1>1, <1>2, <1>3, DisconnectBalanced, BecomeBalanced
<1>4. CASE HasRoom(c) /\ Become(Deref(hub, connected[c], c, StopSharing(hub, connected[c], c)))
  <2>1. PICK r : r = connected[c]
    OBVIOUS
  <2>2. PICK quiet : quiet = SetStreaming(hub, r, c, FALSE)
    OBVIOUS
  <2>3. PICK shut : shut = CloseHostSessions(quiet, r, c)
    OBVIOUS
  <2>4. Become(Deref(hub, r, c, NotifyInfoChanged(shut, r)))
    BY <1>4, <2>1, <2>2, <2>3 DEF StopSharing
  <2>5. r \in DOMAIN hub.rooms
    BY <1>1, <1>4, <2>1 DEF HasRoom
  <2>6. CASE c \in DOMAIN hub.rooms[r].users
    <3>1. Typed(quiet) /\ Balanced(quiet) /\ r \in DOMAIN quiet.rooms
      BY <1>1, <2>2, <2>5, <2>6, ShareBalanced
    <3>2. /\ Typed(shut)
          /\ shut.rooms = WithSessions(quiet.rooms, r,
                quiet.rooms[r].sessions \ HostedBy(quiet.rooms[r], c))
      BY <2>3, <3>1, CloseHostTyped
    <3>3. Balanced(shut)
      BY <2>3, <3>1, EndedBalanced
    <3>4. r \in DOMAIN shut.rooms
      BY <3>1, <3>2 DEF WithSessions
    <3>5. Balanced(NotifyInfoChanged(shut, r))
      BY <3>2, <3>3, <3>4, NotifiedBalanced
    <3>6. Become(NotifyInfoChanged(shut, r))
      BY <2>4, <2>6 DEF Deref
    <3> QED BY <3>5, <3>6, BecomeBalanced
  <2>7. CASE c \notin DOMAIN hub.rooms[r].users
    <3>1. Become([hub EXCEPT !.panicked = TRUE])
      BY <2>4, <2>7 DEF Deref
    <3> QED BY <1>1, <3>1, PanicBalanced, BecomeBalanced
  <2> QED BY <2>6, <2>7
<1> QED BY <1>3, <1>4 DEF StopShare

\* Name counts nobody.
LEMMA NameStepBalanced ==
    ASSUME TypeOK, Balanced(hub), NEW c \in Clients, Name(c)
    PROVE  Balanced(hub)'
<1>1. Typed(hub) /\ hub.connected = connected /\ hub.rooms = rooms
  BY HubTyped DEF hub
<1>2. c \in DOMAIN hub.connected
  BY <1>1 DEF Name, Accepts
<1>3. CASE Become(Disconnect(hub, c))
  BY <1>1, <1>2, <1>3, DisconnectBalanced, BecomeBalanced
<1>4. ASSUME HasRoom(c), NEW name \in Names,
             Become(Deref(hub, connected[c], c,
                 NotifyInfoChanged(
                    [hub EXCEPT !.rooms[connected[c]].users[c].name = name],
                    connected[c])))
      PROVE  Balanced(hub)'
  <2>1. PICK r : r = connected[c]
    OBVIOUS
  <2>2. PICK user : user = [hub.rooms[r].users[c] EXCEPT !.name = name]
    OBVIOUS
  <2>3. PICK named : named = [hub EXCEPT !.rooms[r].users[c] = user]
    OBVIOUS
  <2>4. r \in DOMAIN hub.rooms
    BY <1>1, <1>4, <2>1 DEF HasRoom
  <2>5. Become(Deref(hub, r, c, NotifyInfoChanged(named, r)))
    BY <1>4, <2>1, <2>2, <2>3
  <2>6. CASE c \in DOMAIN hub.rooms[r].users
    <3>1. hub.rooms[r].users[c] \in User
      BY <1>1, <2>4, <2>6, RoomFields DEF IsMap
    <3>2. user \in User
      BY <2>2, <3>1 DEF User
    <3>3. /\ Typed(named)
          /\ named.rooms = WithUsers(hub.rooms, r, Put(hub.rooms[r].users, c, user))
      BY <1>1, <2>3, <2>4, <2>6, <3>2, UserTyped
    <3>4. named.gauges = hub.gauges
      BY <1>1, <2>3 DEF Typed
    <3>5. Balanced(named)
      BY <1>1, <2>4, <2>6, <3>2, <3>3, <3>4, ChangedBalanced
    <3>6. r \in DOMAIN named.rooms
      BY <2>4, <3>3 DEF WithUsers
    <3>7. Balanced(NotifyInfoChanged(named, r))
      BY <3>3, <3>5, <3>6, NotifiedBalanced
    <3>8. Become(NotifyInfoChanged(named, r))
      BY <2>5, <2>6 DEF Deref
    <3> QED BY <3>7, <3>8, BecomeBalanced
  <2>7. CASE c \notin DOMAIN hub.rooms[r].users
    <3>1. Become([hub EXCEPT !.panicked = TRUE])
      BY <2>5, <2>7 DEF Deref
    <3> QED BY <1>1, <3>1, PanicBalanced, BecomeBalanced
  <2> QED BY <2>6, <2>7
<1> QED BY <1>3, <1>4 DEF Name

\* The relays count nothing.
LEMMA RelayStepBalanced ==
    ASSUME TypeOK, Balanced(hub), NEW c \in Clients, NEW role,
           NEW s \in KnownSessions, Relay(c, role, s)
    PROVE  Balanced(hub)'
<1>1. Typed(hub) /\ hub.connected = connected /\ hub.rooms = rooms
  BY HubTyped DEF hub
<1>2. c \in DOMAIN hub.connected
  BY <1>1 DEF Relay, Accepts
<1>3. PICK to : to = IF role = "host" THEN s.client ELSE s.host
  OBVIOUS
<1>4. PICK msg : msg = [to |-> to, type |-> "relay", sid |-> s]
  OBVIOUS
<1>5. {msg} \in SUBSET Message
  <2>1. s \in Session
    BY <1>1, RoomFields DEF KnownSessions
  <2> QED BY <1>3, <1>4, <2>1 DEF Message, Session
<1>6. Balanced(Send(hub, {msg})) /\ Balanced([hub EXCEPT !.panicked = TRUE])
  BY <1>1, <1>5, SentBalanced, PanicBalanced
<1>7. PICK r : r = connected[c]
  OBVIOUS
<1>8. \/ Become(Disconnect(hub, c))
      \/ Become(hub)
      \/ Become(Deref(hub, r, to, Send(hub, {msg})))
  BY <1>3, <1>4, <1>7 DEF Relay
<1>9. CASE Become(Disconnect(hub, c))
  BY <1>1, <1>2, <1>9, DisconnectBalanced, BecomeBalanced
<1>10. CASE Become(hub)
  BY <1>10, BecomeBalanced
<1>11. CASE Become(Deref(hub, r, to, Send(hub, {msg})))
  <2>1. \/ Become(Send(hub, {msg}))
        \/ Become([hub EXCEPT !.panicked = TRUE])
    BY <1>11 DEF Deref
  <2> QED BY <1>6, <2>1, BecomeBalanced
<1> QED BY <1>8, <1>9, <1>10, <1>11

\* A client that is in no room is counted nowhere.
LEMMA ConnectedStepBalanced ==
    ASSUME TypeOK, Balanced(hub), NEW c \in Clients, Connected(c)
    PROVE  Balanced(hub)'
<1>1. PICK k : k = [hub EXCEPT !.connected = Put(@, c, NoRoom)]
  OBVIOUS
<1>2. k.rooms = hub.rooms /\ k.gauges = hub.gauges
  BY <1>1 DEF hub
<1>3. Become(k)
  BY <1>1 DEF Connected
<1>4. Balanced(k)
  BY <1>2, SameBalanced DEF SameCounts
<1> QED BY <1>3, <1>4, BecomeBalanced

-----------------------------------------------------------------------------
\* The counters add up to the registry, whatever the handlers do and in
\* whatever order: nobody is counted in twice or out twice.
THEOREM CountersHold ==
    ASSUME NoRoom \notin RoomIDs
    PROVE  Spec => []GaugesBalance
<1>1. Init => Balanced(hub)
  <2> SUFFICES ASSUME Init
               PROVE  Balanced(hub)
    OBVIOUS
  <2>1. /\ DOMAIN hub.rooms = {}
        /\ hub.gauges.rooms = 0 /\ hub.gauges.users = 0 /\ hub.gauges.sessions = 0
    BY DEF Init, hub
  <2>2. Entries(UsersIn(hub)) = {} /\ Entries(SessionsIn(hub)) = {}
    BY <2>1 DEF UsersIn, SessionsIn, Entries
  <2> QED BY <2>1, <2>2, FS_EmptySet DEF Balanced, Counted
<1>2. TypeOK /\ Sound(hub) /\ Balanced(hub) /\ [Next]_vars => Balanced(hub)'
  <2> SUFFICES ASSUME TypeOK, Sound(hub), Balanced(hub), [Next]_vars
               PROVE  Balanced(hub)'
    OBVIOUS
  <2>1. Placed(hub)
    BY DEF Sound
  <2>2. CASE UNCHANGED vars
    BY <2>2 DEF vars, hub, Balanced, UsersIn, SessionsIn
  <2>3. ASSUME NEW c \in Clients, Connected(c)
        PROVE  Balanced(hub)'
    BY <2>3, ConnectedStepBalanced
  <2>4. ASSUME NEW c \in Clients, NEW r \in RoomIDs, NEW mode \in Modes,
               NEW close \in BOOLEAN, NEW joinIfExist \in BOOLEAN,
               Create(c, r, mode, close, joinIfExist)
        PROVE  Balanced(hub)'
    BY <2>1, <2>4, CreateStepBalanced
  <2>5. ASSUME NEW c \in Clients, NEW r \in RoomIDs, Join(c, r)
        PROVE  Balanced(hub)'
    BY <2>1, <2>5, JoinStepBalanced
  <2>6. ASSUME NEW c \in Clients, StartShare(c)
        PROVE  Balanced(hub)'
    BY <2>6, StartShareStepBalanced
  <2>7. ASSUME NEW c \in Clients, StopShare(c)
        PROVE  Balanced(hub)'
    BY <2>7, StopShareStepBalanced
  <2>8. ASSUME NEW c \in Clients, Name(c)
        PROVE  Balanced(hub)'
    BY <2>8, NameStepBalanced
  <2>9. ASSUME NEW c \in Clients, NEW role \in {"host", "client"},
               NEW s \in KnownSessions, Relay(c, role, s)
        PROVE  Balanced(hub)'
    BY <2>9, RelayStepBalanced
  <2>10. ASSUME NEW c \in Clients, Disconnected(c)
         PROVE  Balanced(hub)'
    <3>1. Typed(hub) /\ c \in DOMAIN hub.connected
      BY <2>10, HubTyped DEF Disconnected, Accepts, hub
    <3>2. Balanced(Disconnect(hub, c))
      BY <3>1, DisconnectBalanced
    <3> QED BY <2>10, <3>2, BecomeBalanced DEF Disconnected
  <2> QED
    BY <2>2, <2>3, <2>4, <2>5, <2>6, <2>7, <2>8, <2>9, <2>10 DEF Next
<1>3. Balanced(hub) => GaugesBalance
  BY DEF Balanced, Counted, UsersIn, SessionsIn, GaugesBalance, hub
<1> QED
  BY <1>1, <1>2, <1>3, TypeCorrect, RegistrySound, PTL DEF Spec
=============================================================================
