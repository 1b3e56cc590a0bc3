------------------------------- MODULE Rooms -------------------------------
(***************************************************************************)
(* The room registry of the server (ws/rooms.go, ws/room.go, ws/event_*.go) *)
(* One goroutine, Rooms.Start, takes the messages of all connections from  *)
(* Rooms.Incoming and runs one handler at a time, so a handler is one step *)
(* here.  A handler is written as the composition of the functions of the  *)
(* code, each an operator from a hub state to a hub state; `hub' collects  *)
(* the variables into such a state and Become makes one the next state.    *)
(*                                                                         *)
(* A client is one WebSocket connection: its xid is never used again.      *)
(***************************************************************************)
EXTENDS Integers, Sequences, FiniteSets

CONSTANTS
    Clients,      \* connection ids that Upgrade may hand out
    LoggedIn,     \* the clients whose request carried a valid login cookie
    RoomIDs,      \* room names the clients ask for
    NoRoom,       \* the empty string: "connected, but in no room"
    Names,        \* user names (requested, of the account, or generated)
    Modes,        \* connection modes the clients ask for
    AuthMode,     \* config.AuthMode
    TurnExternal, \* config.TurnExternal: the TURN server is not ours
    MaxBatches    \* bound: how many times sessions are created

ASSUME ClientsAssumption == LoggedIn \subseteq Clients
ASSUME AuthModeAssumption == AuthMode \in {"none", "all", "turn"}
ASSUME TurnAssumption == TurnExternal \in BOOLEAN
ASSUME BoundAssumption == MaxBatches \in Nat

VARIABLES
    arrived,   \* ids handed out by Upgrade so far
    connected, \* Rooms.connected: client id -> room name or NoRoom
    rooms,     \* Rooms.Rooms: room name -> Room
    lookup,    \* the credentials the TURN server accepts
    batch,     \* how often xid.New() has named new sessions
    gauges,    \* Prometheus counters, created minus closed
    panicked,  \* a handler has dereferenced a nil *User
    outbox     \* what the last handler sent: a sequence of sets of messages

vars == <<arrived, connected, rooms, lookup, batch, gauges, panicked, outbox>>

-----------------------------------------------------------------------------
(* The data.  newSession names each session with a fresh xid; the sessions  *)
(* made by one handler differ in host or client, so the number of the batch *)
(* together with the pair is such a name.                                   *)

Session == [batch : Nat, host : Clients, client : Clients]

User == [name : Names, streaming : BOOLEAN, owner : BOOLEAN]

Credential == Session \X {"host", "client"}

\* Go maps: f is a map from some of D to S; the maps from some of D to S.
IsMap(f, D, S) == DOMAIN f \subseteq D /\ f \in [DOMAIN f -> S]

Maps(D, S) == UNION {[E -> S] : E \in SUBSET D}

RoomRecord == [mode : Modes, closeOnOwnerLeave : BOOLEAN,
               users : Maps(Clients, User), sessions : SUBSET Session]

\* ws/outgoing: a session's credentials and ICE servers, and the content of
\* what is relayed, are left out.
Message ==
    [to : Clients, type : {"closewriter"}]
        \cup [to : Clients, type : {"room"}, room : RoomIDs,
              users : Maps(Clients, User)]
        \cup [to : Clients, sid : Session,
              type : {"hostsession", "clientsession", "endshare", "relay"}]

Put(f, k, v) == [x \in DOMAIN f \cup {k} |-> IF x = k THEN v ELSE f[x]]

Drop(f, S) == [x \in DOMAIN f \ S |-> f[x]]

hub == [connected |-> connected, rooms |-> rooms, lookup |-> lookup,
        batch |-> batch, gauges |-> gauges, panicked |-> panicked,
        out |-> << >>]

Become(h) ==
    /\ connected' = h.connected
    /\ rooms' = h.rooms
    /\ lookup' = h.lookup
    /\ batch' = h.batch
    /\ gauges' = h.gauges
    /\ panicked' = h.panicked
    /\ outbox' = h.out

-----------------------------------------------------------------------------
(* Messages to the clients *)

Send(h, msgs) == [h EXCEPT !.out = Append(@, msgs)]

NotifyInfoChanged(h, r) ==
    LET users == h.rooms[r].users
    IN  Send(h, {[to |-> u, type |-> "room", room |-> r, users |-> users] :
                    u \in DOMAIN users})

CloseWriters(members) == {[to |-> c, type |-> "closewriter"] : c \in members}

-----------------------------------------------------------------------------
(* Sessions *)

CredentialsOf(room, sessions) ==
    IF room.mode = "turn" THEN sessions \X {"host", "client"} ELSE {}

\* Credentials: an entry of InternalServer.lookup, or a signature the external
\* server can check for itself.
Allow(h, creds) == [h EXCEPT !.lookup = @ \cup creds]

\* Broken: only what the host was given is revoked.
DisallowHosts(h, creds) ==
    [h EXCEPT !.lookup = @ \ {cred \in creds : cred[2] = "host"}]

\* Nothing can be taken back from an external server; its credentials stay
\* good until their TTL of a day is over, which is not modelled.
Disallow(h, creds) ==
    IF TurnExternal THEN h ELSE [h EXCEPT !.lookup = @ \ creds]

Made(h, pairs) ==
    {[batch |-> h.batch, host |-> p[1], client |-> p[2]] : p \in pairs}

SessionNotices(made) ==
    {[to |-> s.host, type |-> "hostsession", sid |-> s] : s \in made}
        \cup {[to |-> s.client, type |-> "clientsession", sid |-> s] : s \in made}

\* Broken: a second batch reuses the names of the first.
ReuseNames(h, r, made) ==
    [h EXCEPT !.rooms[r].sessions = @ \cup made,
              !.gauges.sessions = @ + Cardinality(made)]

AddSessions(h, r, made) ==
    [h EXCEPT !.rooms[r].sessions = @ \cup made,
              !.batch = IF made = {} THEN @ ELSE @ + 1,
              !.gauges.sessions = @ + Cardinality(made)]

\* newSession, once for every <<host, client>> of pairs.
NewSessions(h, r, pairs) ==
    LET made  == Made(h, pairs)
        creds == CredentialsOf(h.rooms[r], made)
    IN  Send(Allow(AddSessions(h, r, made), creds), SessionNotices(made))

\* closeSession, once for every session of gone.
CloseSessions(h, r, gone) ==
    Disallow([h EXCEPT !.rooms[r].sessions = @ \ gone,
                       !.gauges.sessions = @ - Cardinality(gone)],
             CredentialsOf(h.rooms[r], gone))

Peer(s, c) == IF s.host = c THEN s.client ELSE s.host

\* Broken: a viewer who leaves is not reported to the host.
EndSharesToViewers(h, r, gone, c) ==
    {[to |-> s.client, type |-> "endshare", sid |-> s] :
        s \in {t \in gone : t.host = c /\ t.client \in DOMAIN h.rooms[r].users}}

\* Broken: the end of a session is reported to both its ends.
EndSharesToBoth(h, r, gone, c) ==
    {[to |-> s.host, type |-> "endshare", sid |-> s] : s \in gone}
        \cup {[to |-> s.client, type |-> "endshare", sid |-> s] : s \in gone}

\* EndShare to the peers of c that are (still) in the room.
EndShares(h, r, gone, c) ==
    {[to |-> Peer(s, c), type |-> "endshare", sid |-> s] :
        s \in {t \in gone : Peer(t, c) \in DOMAIN h.rooms[r].users}}

HostedBy(room, c) == {s \in room.sessions : s.host = c}

SessionsWith(room, c) == {s \in room.sessions : c \in {s.host, s.client}}

CloseUserSessions(h, r, c) ==
    LET gone == SessionsWith(h.rooms[r], c)
    IN  CloseSessions(Send(h, EndShares(h, r, gone, c)), r, gone)

CloseHostSessions(h, r, c) ==
    LET gone == HostedBy(h.rooms[r], c)
    IN  CloseSessions(Send(h, EndShares(h, r, gone, c)), r, gone)

-----------------------------------------------------------------------------
(* Leaving *)

RemoveUser(h, r, c) ==
    [h EXCEPT !.rooms[r].users = Drop(@, {c}), !.gauges.users = @ - 1]

\* Broken: the connections of the users that are thrown out stay open.
EvictSilently(h, members) ==
    [h EXCEPT !.connected = Drop(@, members),
              !.gauges.users = @ - Cardinality(members)]

\* Broken: the users that are thrown out are not counted.
EvictUncounted(h, members) ==
    Send([h EXCEPT !.connected = Drop(@, members)], CloseWriters(members))

Evict(h, members) ==
    Send([h EXCEPT !.connected = Drop(@, members),
                   !.gauges.users = @ - Cardinality(members)],
         CloseWriters(members))

CloseRoom(h, r) ==
    LET room  == h.rooms[r]
        ended == CloseSessions(Evict(h, DOMAIN room.users), r, room.sessions)
    IN  [ended EXCEPT !.rooms = Drop(@, {r}), !.gauges.rooms = @ - 1]

\* Broken: whether the room is empty is decided before the user is removed.
ClosesUnlessEmptied(before, after, c) ==
    \/ before.users[c].owner /\ before.closeOnOwnerLeave
    \/ DOMAIN before.users = {}

\* Broken: an owner who leaves takes the room along, wanted or not.
ClosesWithOwner(before, after, c) ==
    before.users[c].owner \/ DOMAIN after.users = {}

\* The room closes when c leaves it.
Closes(before, after, c) ==
    \/ before.users[c].owner /\ before.closeOnOwnerLeave
    \/ DOMAIN after.users = {}

RemoveUserFromRoom(h, r, c) ==
    IF r \notin DOMAIN h.rooms \/ c \notin DOMAIN h.rooms[r].users
    THEN h
    ELSE LET left == RemoveUser(CloseUserSessions(h, r, c), r, c)
         IN  IF Closes(h.rooms[r], left.rooms[r], c)
             THEN CloseRoom(left, r)
             ELSE NotifyInfoChanged(left, r)

\* Disconnected.executeNoError
Disconnect(h, c) ==
    LET r    == h.connected[c]
        gone == Send([h EXCEPT !.connected = Drop(@, {c})], CloseWriters({c}))
    IN  IF r = NoRoom THEN gone ELSE RemoveUserFromRoom(gone, r, c)

-----------------------------------------------------------------------------
(* Entering and sharing *)

\* Broken: AuthMode "all" is treated like "turn", and any mode but "turn" is
\* taken for harmless.
CheckAuthTurnOnly(mode, c) ==
    \/ AuthMode = "none"
    \/ c \in LoggedIn
    \/ mode # "turn"

CheckAuth(mode, c) ==
    \/ AuthMode = "none"
    \/ c \in LoggedIn
    \/ AuthMode = "turn" /\ mode \in {"stun", "local"}

\* Broken: the room is not told of its new user.
EnterUntold(h, c, r, name, owner) ==
    LET user == [name |-> name, streaming |-> FALSE, owner |-> owner]
    IN  [h EXCEPT !.rooms[r].users = Put(@, c, user),
                  !.connected = Put(@, c, r),
                  !.gauges.users = @ + 1]

Enter(h, c, r, name, owner) ==
    LET user == [name |-> name, streaming |-> FALSE, owner |-> owner]
    IN  NotifyInfoChanged(
            [h EXCEPT !.rooms[r].users = Put(@, c, user),
                      !.connected = Put(@, c, r),
                      !.gauges.users = @ + 1],
            r)

NoUsers == [u \in {} |-> 0]

OpenRoom(h, r, mode, close) ==
    [h EXCEPT !.rooms = Put(@, r, [mode |-> mode, closeOnOwnerLeave |-> close,
                                   users |-> NoUsers, sessions |-> {}]),
              !.gauges.rooms = @ + 1]

\* room.Users[u]: the code does not look whether the user is there.
Deref(h, r, u, result) ==
    IF u \in DOMAIN h.rooms[r].users
    THEN result
    ELSE [h EXCEPT !.panicked = TRUE]

SetStreaming(h, r, c, on) == [h EXCEPT !.rooms[r].users[c].streaming = on]

Others(room, c) == DOMAIN room.users \ {c}

Streamers(room) == {u \in DOMAIN room.users : room.users[u].streaming}

HasRoom(c) == connected[c] # NoRoom /\ connected[c] \in DOMAIN rooms

-----------------------------------------------------------------------------
(* The handlers.  Rooms.Start drops a message of a client that is not       *)
(* connected any more, and disconnects the client whose handler fails.      *)

Accepts(c) == ~panicked /\ c \in DOMAIN connected

Room(c) == rooms[connected[c]]

Connected(c) ==
    /\ ~panicked
    /\ c \notin arrived
    /\ arrived' = arrived \cup {c}
    /\ Become([hub EXCEPT !.connected = Put(@, c, NoRoom)])

\* Broken: a client that is in a room may join another one.
MayJoinTwice(c, r) ==
    /\ r \in DOMAIN rooms
    /\ CheckAuth(rooms[r].mode, c)

\* Broken: only the creator of a room has to be logged in.
MayJoinUnchecked(c, r) ==
    connected[c] = NoRoom /\ r \in DOMAIN rooms

MayJoin(c, r) ==
    /\ connected[c] = NoRoom
    /\ r \in DOMAIN rooms
    /\ CheckAuth(rooms[r].mode, c)

Join(c, r) ==
    /\ Accepts(c)
    /\ UNCHANGED arrived
    /\ \/ ~MayJoin(c, r) /\ Become(Disconnect(hub, c))
       \/ \E name \in Names :
             LET entered == Enter(hub, c, r, name, FALSE)
                 pairs   == (Streamers(entered.rooms[r]) \ {c}) \X {c}
             IN  /\ MayJoin(c, r)
                 /\ \/ Become(Disconnect(entered, c))  \* TurnIPProvider.Get failed
                    \/ /\ pairs # {} => batch < MaxBatches
                       /\ Become(NewSessions(entered, r, pairs))

MayOpen(c, r, mode) ==
    /\ connected[c] = NoRoom
    /\ r \notin DOMAIN rooms
    /\ CheckAuth(mode, c)

JoinsExisting(c, r, joinIfExist) ==
    connected[c] = NoRoom /\ r \in DOMAIN rooms /\ joinIfExist

Create(c, r, mode, close, joinIfExist) ==
    /\ Accepts(c)
    /\ UNCHANGED arrived
    /\ \/ JoinsExisting(c, r, joinIfExist) /\ Join(c, r)
       \/ /\ ~JoinsExisting(c, r, joinIfExist)
          /\ ~MayOpen(c, r, mode)
          /\ Become(Disconnect(hub, c))
       \/ /\ MayOpen(c, r, mode)
          /\ \E name \in Names :
                Become(Enter(OpenRoom(hub, r, mode, close), c, r, name, TRUE))

StartShare(c) ==
    /\ Accepts(c)
    /\ UNCHANGED arrived
    /\ \/ ~HasRoom(c) /\ Become(Disconnect(hub, c))
       \/ LET r      == connected[c]
              shared == Deref(hub, r, c, SetStreaming(hub, r, c, TRUE))
              pairs  == {c} \X Others(Room(c), c)
          IN  /\ HasRoom(c)
              /\ \/ Become(Disconnect(shared, c))  \* TurnIPProvider.Get failed
                 \/ /\ pairs # {} => batch < MaxBatches
                    /\ Become(NotifyInfoChanged(NewSessions(shared, r, pairs), r))

\* Broken: the room is not told that the stream has ended.
StopSharingUntold(h, r, c) == CloseHostSessions(SetStreaming(h, r, c, FALSE), r, c)

StopSharing(h, r, c) ==
    NotifyInfoChanged(CloseHostSessions(SetStreaming(h, r, c, FALSE), r, c), r)

StopShare(c) ==
    /\ Accepts(c)
    /\ UNCHANGED arrived
    /\ \/ ~HasRoom(c) /\ Become(Disconnect(hub, c))
       \/ LET r == connected[c]
          IN  /\ HasRoom(c)
              /\ Become(Deref(hub, r, c, StopSharing(hub, r, c)))

Name(c) ==
    /\ Accepts(c)
    /\ UNCHANGED arrived
    /\ \/ ~HasRoom(c) /\ Become(Disconnect(hub, c))
       \/ LET r == connected[c]
          IN  /\ HasRoom(c)
              /\ \E name \in Names :
                    Become(Deref(hub, r, c,
                        NotifyInfoChanged(
                            [hub EXCEPT !.rooms[r].users[c].name = name], r)))

\* A message of the peer connection set-up of session s: from its host for
\* role "host" (HostICE, HostOffer), else from its client (ClientICE,
\* ClientAnswer).
Relay(c, role, s) ==
    LET r    == connected[c]
        from == IF role = "host" THEN s.host ELSE s.client
        to   == IF role = "host" THEN s.client ELSE s.host
        msg  == [to |-> to, type |-> "relay", sid |-> s]
    IN  /\ Accepts(c)
        /\ UNCHANGED arrived
        /\ \/ ~HasRoom(c) /\ Become(Disconnect(hub, c))
           \/ HasRoom(c) /\ s \notin Room(c).sessions /\ Become(hub)
           \/ /\ HasRoom(c)
              /\ s \in Room(c).sessions
              /\ \/ c # from /\ Become(Disconnect(hub, c))
                 \/ c = from /\ Become(Deref(hub, r, to, Send(hub, {msg})))

\* The reader, the writer or the ping of the connection has failed.
Disconnected(c) ==
    /\ Accepts(c)
    /\ UNCHANGED arrived
    /\ Become(Disconnect(hub, c))

-----------------------------------------------------------------------------
Init ==
    /\ arrived = {}
    /\ connected = << >>
    /\ rooms = << >>
    /\ lookup = {}
    /\ batch = 0
    /\ gauges = [rooms |-> 0, users |-> 0, sessions |-> 0]
    /\ panicked = FALSE
    /\ outbox = << >>

\* The sids a client may send: a live one of any room.  (One that has ended,
\* or that never was, takes the same branch as one of another room.)
KnownSessions == UNION {rooms[r].sessions : r \in DOMAIN rooms}

Next ==
    \E c \in Clients :
        \/ Connected(c)
        \/ \E r \in RoomIDs, mode \in Modes, close, joinIfExist \in BOOLEAN :
              Create(c, r, mode, close, joinIfExist)
        \/ \E r \in RoomIDs : Join(c, r)
        \/ StartShare(c)
        \/ StopShare(c)
        \/ Name(c)
        \/ \E role \in {"host", "client"}, s \in KnownSessions : Relay(c, role, s)
        \/ Disconnected(c)

Spec == Init /\ [][Next]_vars

-----------------------------------------------------------------------------
(* Properties *)

\* The type invariant; no session has the name that the next one will get.
TypeOK ==
    /\ arrived \subseteq Clients
    /\ DOMAIN connected \subseteq arrived
    /\ IsMap(connected, Clients, RoomIDs \cup {NoRoom})
    /\ IsMap(rooms, RoomIDs, RoomRecord)
    /\ \A r \in DOMAIN rooms : \A s \in rooms[r].sessions : s.batch < batch
    /\ lookup \subseteq Credential
    /\ batch \in Nat
    /\ DOMAIN gauges = {"rooms", "users", "sessions"}
    /\ panicked \in BOOLEAN
    /\ outbox \in Seq(SUBSET Message)

\* The two registries never disagree: Rooms.connected says a client is in a
\* room exactly if the Users of that room have it.  Join, Create and the four
\* ways to leave (rooms.go:131-141) each write both.
MembershipAgrees ==
    \A c \in Clients, r \in RoomIDs :
        (r \in DOMAIN rooms /\ c \in DOMAIN rooms[r].users)
            <=> (c \in DOMAIN connected /\ connected[c] = r)

Owners(room) == {u \in DOMAIN room.users : room.users[u].owner}

\* No room outlives its last user, none has two owners, and a room that
\* closes when its owner leaves still has that owner (removeUserFromRoom,
\* cases 3 and 4).
RoomsAreOwned ==
    \A r \in DOMAIN rooms :
        /\ DOMAIN rooms[r].users # {}
        /\ \A u, v \in Owners(rooms[r]) : u = v
        /\ rooms[r].closeOnOwnerLeave => Owners(rooms[r]) # {}

\* In every room each streaming user has a session with each other user and
\* there is no session besides, whatever the order of share, stop, join and
\* leave: no viewer is forgotten and none watches a stream that has ended.
StreamsAreSessions ==
    \A r \in DOMAIN rooms :
        {<<s.host, s.client>> : s \in rooms[r].sessions} =
            {p \in Streamers(rooms[r]) \X DOMAIN rooms[r].users : p[1] # p[2]}

\* The TURN server accepts the two credentials of each live session of a turn
\* room; our own accepts no other: closeSession revokes what newSession
\* allowed, on every path that ends a session, and never what a live session
\* needs.
CredentialsMatchSessions ==
    LET live == UNION {CredentialsOf(rooms[r], rooms[r].sessions) : r \in DOMAIN rooms}
    IN  live \subseteq lookup /\ (TurnExternal \/ lookup \subseteq live)

\* Unless AuthMode is "none", TURN credentials exist only for sessions both
\* of whose ends are logged in (checkAuth, on all three ways into a room).
CredentialsNeedLogin ==
    AuthMode # "none" =>
        \A cred \in lookup : {cred[1].host, cred[1].client} \subseteq LoggedIn

\* Whatever sequence of messages it sends, a guest is in no room at all under
\* AuthMode "all", and under "turn" in none whose mode could relay.
GuestsStayOut ==
    \A r \in DOMAIN rooms :
        \/ AuthMode = "none"
        \/ AuthMode = "turn" /\ rooms[r].mode \in {"stun", "local"}
        \/ DOMAIN rooms[r].users \subseteq LoggedIn

\* No handler dereferences a user that has left: StartShare, StopShare and
\* Name index Users with the sender, the relays with the peer of a session.
NeverPanics == ~panicked

\* What each room r has in f[r], over all rooms
Entries(f) == UNION {{r} \X f[r] : r \in DOMAIN f}

\* The Prometheus counters add up to the registry: every room, user and
\* session that was counted in is counted out once, also when closeRoom
\* removes them in bulk.
GaugesBalance ==
    /\ gauges.rooms = Cardinality(DOMAIN rooms)
    /\ gauges.users = Cardinality(Entries([r \in DOMAIN rooms |-> DOMAIN rooms[r].users]))
    /\ gauges.sessions = Cardinality(Entries([r \in DOMAIN rooms |-> rooms[r].sessions]))

\* If this step takes the connections of two clients, they were in one room,
\* which was to close with its owner, and the owner is one of those that go.
EvictedByOwner ==
    LET left == DOMAIN connected \ DOMAIN connected'
    IN  \A c, d \in left :
           c # d =>
              /\ connected[c] = connected[d]
              /\ Room(c).closeOnOwnerLeave
              /\ Owners(Room(c)) \subseteq left

\* One handler takes the connection of two clients only when the owner of
\* their room leaves and the room was to close then; everybody else who leaves
\* leaves alone.
OnlyOwnersEvict == [][EvictedByOwner]_vars

\* Every room has a user whose connection is still there to leave it, so that
\* the last user to leave destroys the room (rooms.go:137).
EveryRoomIsAttended ==
    \A r \in DOMAIN rooms : DOMAIN rooms[r].users \cap DOMAIN connected # {}
=============================================================================
