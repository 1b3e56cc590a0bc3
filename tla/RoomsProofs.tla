---------------------------- MODULE RoomsProofs -----------------------------
(***************************************************************************)
(* The type invariant and the registry invariants of Rooms, for any sets   *)
(* of clients, rooms, names and modes.                                     *)
(*                                                                         *)
(* A handler composes functions from hub states to hub states.  So what    *)
(* holds of the variables is stated here of any hub state h, and the first *)
(* part has one lemma for each of those functions: its result is well      *)
(* typed, and this is what it does to Rooms.connected and Rooms.Rooms.  How *)
(* it gets there is of no concern to the proofs that cite the lemma.  The  *)
(* second and the third part have one lemma per action, and the theorems.  *)
(***************************************************************************)
EXTENDS Rooms, TLAPS

Typed(h) ==
    /\ DOMAIN h = {"connected", "rooms", "lookup", "batch", "gauges",
                   "panicked", "out"}
    /\ IsMap(h.connected, Clients, RoomIDs \cup {NoRoom})
    /\ IsMap(h.rooms, RoomIDs, RoomRecord)
    /\ \A r \in DOMAIN h.rooms : \A s \in h.rooms[r].sessions : s.batch < h.batch
    /\ h.lookup \subseteq Credential
    /\ h.batch \in Nat
    /\ DOMAIN h.gauges = {"rooms", "users", "sessions"}
    /\ h.panicked \in BOOLEAN
    /\ h.out \in Seq(SUBSET Message)

\* h and k agree, but for what has been sent and counted.
Alike(h, k) ==
    /\ k.connected = h.connected
    /\ k.rooms = h.rooms
    /\ k.batch = h.batch
    /\ k.panicked = h.panicked

-----------------------------------------------------------------------------
(* Maps *)

\* The two ways to say that f is a Go map from D to S.
LEMMA MapsAreMaps ==
    ASSUME NEW f, NEW D, NEW S
    PROVE  f \in Maps(D, S) <=> IsMap(f, D, S)
BY DEF Maps, IsMap

\* m[k] = v gives k the value v and changes nothing else.
LEMMA PutMap ==
    ASSUME NEW f, NEW D, NEW S, IsMap(f, D, S), NEW k \in D, NEW v \in S
    PROVE  /\ IsMap(Put(f, k, v), D, S)
           /\ DOMAIN Put(f, k, v) = DOMAIN f \cup {k}
           /\ Put(f, k, v)[k] = v
           /\ \A x \in DOMAIN f : x # k => Put(f, k, v)[x] = f[x]
BY DEF IsMap, Put

\* delete takes the keys of X out and changes nothing else.
LEMMA DropMap ==
    ASSUME NEW f, NEW D, NEW S, IsMap(f, D, S), NEW X
    PROVE  /\ IsMap(Drop(f, X), D, S)
           /\ DOMAIN Drop(f, X) = DOMAIN f \ X
           /\ \A x \in DOMAIN f \ X : Drop(f, X)[x] = f[x]
BY DEF IsMap, Drop

\* The users and the sessions of a room are what they should be.
LEMMA RoomFields ==
    ASSUME NEW h, Typed(h), NEW r \in DOMAIN h.rooms
    PROVE  /\ r \in RoomIDs
           /\ h.rooms[r] \in RoomRecord
           /\ IsMap(h.rooms[r].users, Clients, User)
           /\ h.rooms[r].sessions \subseteq Session
BY MapsAreMaps DEF Typed, IsMap, RoomRecord

-----------------------------------------------------------------------------
(* Messages *)

\* A message to clients is all that Send adds.
LEMMA SendTyped ==
    ASSUME NEW h, Typed(h), NEW msgs \in SUBSET Message
    PROVE  Typed(Send(h, msgs)) /\ Alike(h, Send(h, msgs))
<1>1. DOMAIN Send(h, msgs) = DOMAIN h BY DEF Send
<1>2. /\ Alike(h, Send(h, msgs))
      /\ Send(h, msgs).lookup = h.lookup
      /\ Send(h, msgs).gauges = h.gauges
      /\ Send(h, msgs).out = Append(h.out, msgs)
  BY DEF Send, Alike, Typed
<1>3. Append(h.out, msgs) \in Seq(SUBSET Message)
  BY DEF Typed
<1>4. QED
  BY <1>1, <1>2, <1>3 DEF Typed, Alike

\* notifyInfoChanged changes nothing but what has been sent.
LEMMA NotifyTyped ==
    ASSUME NEW h, Typed(h), NEW r \in DOMAIN h.rooms
    PROVE  Typed(NotifyInfoChanged(h, r)) /\ Alike(h, NotifyInfoChanged(h, r))
<1> DEFINE users == h.rooms[r].users
           msgs  == {[to |-> u, type |-> "room", room |-> r, users |-> users] :
                        u \in DOMAIN users}
<1>1. users \in Maps(Clients, User) /\ DOMAIN users \subseteq Clients /\ r \in RoomIDs
  BY RoomFields, MapsAreMaps DEF IsMap
<1>2. msgs \in SUBSET Message
  BY <1>1 DEF Message
<1>3. NotifyInfoChanged(h, r) = Send(h, msgs)
  BY DEF NotifyInfoChanged
<1>4. QED
  BY <1>2, <1>3, SendTyped

\* The CloseWriter messages are messages.
LEMMA CloseWritersTyped ==
    ASSUME NEW members \in SUBSET Clients
    PROVE  CloseWriters(members) \in SUBSET Message
BY DEF CloseWriters, Message

-----------------------------------------------------------------------------
(* Rooms.Rooms with other sessions, or other users, in room r *)

WithSessions(rms, r, X) == [rms EXCEPT ![r].sessions = X]

WithUsers(rms, r, X) == [rms EXCEPT ![r].users = X]

\* Other sessions in room r: the rest of the rooms stay as they are.
LEMMA WithSessionsMap ==
    ASSUME NEW rms, IsMap(rms, RoomIDs, RoomRecord), NEW r \in DOMAIN rms,
           NEW X \in SUBSET Session
    PROVE  LET new == WithSessions(rms, r, X)
           IN  /\ IsMap(new, RoomIDs, RoomRecord)
               /\ DOMAIN new = DOMAIN rms
               /\ new[r].sessions = X
               /\ new[r].users = rms[r].users
               /\ new[r].mode = rms[r].mode
               /\ new[r].closeOnOwnerLeave = rms[r].closeOnOwnerLeave
               /\ \A q \in DOMAIN rms : q # r => new[q] = rms[q]
BY DEF IsMap, WithSessions, RoomRecord

\* Other users in room r: the rest of the rooms stay as they are.
LEMMA WithUsersMap ==
    ASSUME NEW rms, IsMap(rms, RoomIDs, RoomRecord), NEW r \in DOMAIN rms,
           NEW X, IsMap(X, Clients, User)
    PROVE  LET new == WithUsers(rms, r, X)
           IN  /\ IsMap(new, RoomIDs, RoomRecord)
               /\ DOMAIN new = DOMAIN rms
               /\ new[r].users = X
               /\ new[r].sessions = rms[r].sessions
               /\ new[r].mode = rms[r].mode
               /\ new[r].closeOnOwnerLeave = rms[r].closeOnOwnerLeave
               /\ \A q \in DOMAIN rms : q # r => new[q] = rms[q]
<1>1. X \in Maps(Clients, User)
  BY MapsAreMaps
<1>2. QED
  BY <1>1 DEF IsMap, WithUsers, RoomRecord

-----------------------------------------------------------------------------
(* Sessions *)

\* The credentials of sessions are credentials.
LEMMA CredentialsTyped ==
    ASSUME NEW room, NEW X \in SUBSET Session
    PROVE  CredentialsOf(room, X) \subseteq Credential
BY DEF CredentialsOf, Credential

\* One session is made for every pair, under a name no session has yet.
LEMMA MadeTyped ==
    ASSUME NEW h, Typed(h), NEW pairs \in SUBSET (Clients \X Clients)
    PROVE  /\ Made(h, pairs) \in SUBSET Session
           /\ \A s \in Made(h, pairs) : s.batch = h.batch
           /\ \A s \in Made(h, pairs) : <<s.host, s.client>> \in pairs
           /\ \A p \in pairs : \E s \in Made(h, pairs) :
                 s.host = p[1] /\ s.client = p[2]
<1> DEFINE named(p) == [batch |-> h.batch, host |-> p[1], client |-> p[2]]
<1>1. Made(h, pairs) = {named(p) : p \in pairs}
  BY DEF Made
<1>2. ASSUME NEW p \in pairs
      PROVE  /\ named(p) \in Session
             /\ named(p).batch = h.batch
             /\ named(p).host = p[1] /\ named(p).client = p[2]
             /\ <<named(p).host, named(p).client>> = p
  <2>1. p = <<p[1], p[2]>> /\ p[1] \in Clients /\ p[2] \in Clients
    OBVIOUS
  <2>2. QED BY <2>1 DEF Session, Typed
<1> HIDE DEF named
<1>3. QED BY <1>1, <1>2

\* The new sessions join those of room r, and their name is used up.
LEMMA AddSessionsTyped ==
    ASSUME NEW h, Typed(h), NEW r \in DOMAIN h.rooms, NEW made \in SUBSET Session,
           \A s \in made : s.batch = h.batch
    PROVE  LET k == AddSessions(h, r, made)
           IN  /\ Typed(k)
               /\ k.connected = h.connected
               /\ k.rooms = WithSessions(h.rooms, r, h.rooms[r].sessions \cup made)
               /\ k.panicked = h.panicked
               /\ k.lookup = h.lookup
<1> DEFINE k == AddSessions(h, r, made)
           X == h.rooms[r].sessions \cup made
<1>1. DOMAIN k = DOMAIN h BY DEF AddSessions
<1>2. /\ k.connected = h.connected
      /\ k.rooms = WithSessions(h.rooms, r, X)
      /\ k.panicked = h.panicked
      /\ k.lookup = h.lookup
      /\ k.out = h.out
      /\ k.batch = IF made = {} THEN h.batch ELSE h.batch + 1
      /\ DOMAIN k.gauges = DOMAIN h.gauges
  BY DEF AddSessions, WithSessions, Typed
<1>3. X \in SUBSET Session
  BY RoomFields
<1>4. /\ IsMap(k.rooms, RoomIDs, RoomRecord)
      /\ DOMAIN k.rooms = DOMAIN h.rooms
      /\ k.rooms[r].sessions = X
      /\ \A q \in DOMAIN h.rooms : q # r => k.rooms[q] = h.rooms[q]
  BY <1>2, <1>3, WithSessionsMap DEF Typed
<1>5. k.batch \in Nat /\ h.batch <= k.batch /\ (made # {} => h.batch < k.batch)
  BY <1>2 DEF Typed
<1>6. ASSUME NEW q \in DOMAIN k.rooms, NEW s \in k.rooms[q].sessions
      PROVE  s.batch < k.batch
  <2>1. CASE q = r /\ s \in made
    BY <2>1, <1>5
  <2>2. CASE s \in h.rooms[q].sessions
    <3>1. s \in Session
      BY <2>2, <1>4, RoomFields
    <3>2. s.batch \in Nat /\ s.batch < h.batch
      BY <2>2, <3>1, <1>4 DEF Typed, Session
    <3>3. QED BY <3>2, <1>5 DEF Typed
  <2>3. QED BY <2>1, <2>2, <1>4
<1>7. QED
  BY <1>1, <1>2, <1>4, <1>5, <1>6 DEF Typed

\* Allow changes the credentials only.
LEMMA AllowTyped ==
    ASSUME NEW h, Typed(h), NEW creds \in SUBSET Credential
    PROVE  Typed(Allow(h, creds)) /\ Alike(h, Allow(h, creds))
<1> DEFINE k == Allow(h, creds)
<1>1. DOMAIN k = DOMAIN h BY DEF Allow
<1>2. /\ Alike(h, k)
      /\ k.lookup = h.lookup \cup creds
      /\ k.gauges = h.gauges
      /\ k.out = h.out
  BY DEF Allow, Alike, Typed
<1>3. QED
  BY <1>1, <1>2 DEF Typed, Alike

\* Disallow changes the credentials only.
LEMMA DisallowTyped ==
    ASSUME NEW h, Typed(h), NEW creds
    PROVE  Typed(Disallow(h, creds)) /\ Alike(h, Disallow(h, creds))
<1> DEFINE k == [h EXCEPT !.lookup = @ \ creds]
<1>1. DOMAIN k = DOMAIN h OBVIOUS
<1>2. /\ Alike(h, k)
      /\ k.lookup = h.lookup \ creds
      /\ k.gauges = h.gauges
      /\ k.out = h.out
  BY DEF Alike, Typed
<1>3. Typed(k) /\ Alike(h, k)
  BY <1>1, <1>2 DEF Typed, Alike
<1>4. QED
  BY <1>3 DEF Disallow, Alike

\* The host and client session messages are messages.
LEMMA NoticesTyped ==
    ASSUME NEW made \in SUBSET Session
    PROVE  SessionNotices(made) \in SUBSET Message
BY DEF SessionNotices, Message, Session

\* newSession makes the sessions it is asked for, and no others.
LEMMA NewSessionsTyped ==
    ASSUME NEW h, Typed(h), NEW r \in DOMAIN h.rooms,
           NEW pairs \in SUBSET (Clients \X Clients)
    PROVE  LET k == NewSessions(h, r, pairs)
           IN  /\ Typed(k)
               /\ k.connected = h.connected
               /\ k.rooms = WithSessions(h.rooms, r,
                                h.rooms[r].sessions \cup Made(h, pairs))
               /\ k.panicked = h.panicked
<1> DEFINE made  == Made(h, pairs)
           creds == CredentialsOf(h.rooms[r], made)
           added == AddSessions(h, r, made)
           allowed == Allow(added, creds)
<1>1. made \in SUBSET Session /\ \A s \in made : s.batch = h.batch
  BY MadeTyped
<1> HIDE DEF made
<1>2. /\ Typed(added)
      /\ added.connected = h.connected
      /\ added.rooms = WithSessions(h.rooms, r, h.rooms[r].sessions \cup made)
      /\ added.panicked = h.panicked
  BY <1>1, AddSessionsTyped
<1>3. creds \in SUBSET Credential
  BY <1>1, CredentialsTyped
<1>4. Typed(allowed) /\ Alike(added, allowed)
  BY <1>2, <1>3, AllowTyped
<1>5. SessionNotices(made) \in SUBSET Message
  BY <1>1, NoticesTyped
<1>6. /\ Typed(Send(allowed, SessionNotices(made)))
      /\ Alike(allowed, Send(allowed, SessionNotices(made)))
  BY <1>4, <1>5, SendTyped
<1>7. NewSessions(h, r, pairs) = Send(allowed, SessionNotices(made))
  BY DEF NewSessions, made
<1> HIDE DEF allowed, added
<1>8. QED
  BY <1>2, <1>4, <1>6, <1>7 DEF Alike, made

\* closeSession ends the sessions it is asked to end, and no others.
LEMMA CloseSessionsTyped ==
    ASSUME NEW h, Typed(h), NEW r \in DOMAIN h.rooms, NEW gone
    PROVE  LET k == CloseSessions(h, r, gone)
           IN  /\ Typed(k)
               /\ k.connected = h.connected
               /\ k.rooms = WithSessions(h.rooms, r, h.rooms[r].sessions \ gone)
               /\ k.panicked = h.panicked
<1> DEFINE X == h.rooms[r].sessions \ gone
           k == [h EXCEPT !.rooms[r].sessions = @ \ gone,
                          !.gauges.sessions = @ - Cardinality(gone)]
<1>1. DOMAIN k = DOMAIN h OBVIOUS
<1>2. /\ k.connected = h.connected
      /\ k.rooms = WithSessions(h.rooms, r, X)
      /\ k.panicked = h.panicked
      /\ k.lookup = h.lookup
      /\ k.out = h.out
      /\ k.batch = h.batch
      /\ DOMAIN k.gauges = DOMAIN h.gauges
  BY DEF WithSessions, Typed
<1>3. X \in SUBSET Session
  BY RoomFields
<1>4. /\ IsMap(k.rooms, RoomIDs, RoomRecord)
      /\ DOMAIN k.rooms = DOMAIN h.rooms
      /\ k.rooms[r].sessions = X
      /\ \A q \in DOMAIN h.rooms : q # r => k.rooms[q] = h.rooms[q]
  BY <1>2, <1>3, WithSessionsMap DEF Typed
<1>5. \A q \in DOMAIN k.rooms : \A s \in k.rooms[q].sessions : s.batch < k.batch
  BY <1>2, <1>4 DEF Typed
<1>6. Typed(k)
  BY <1>1, <1>2, <1>4, <1>5 DEF Typed
<1>7. CloseSessions(h, r, gone) = Disallow(k, CredentialsOf(h.rooms[r], gone))
  BY DEF CloseSessions
<1> HIDE DEF k
<1>8. QED
  BY <1>2, <1>6, <1>7, DisallowTyped DEF Alike

\* EndShare goes to clients only.
LEMMA EndSharesTyped ==
    ASSUME NEW h, Typed(h), NEW r \in DOMAIN h.rooms, NEW c,
           NEW gone \in SUBSET Session
    PROVE  EndShares(h, r, gone, c) \in SUBSET Message
<1>1. DOMAIN h.rooms[r].users \subseteq Clients
  BY RoomFields DEF IsMap
<1>2. \A s \in gone : Peer(s, c) \in DOMAIN h.rooms[r].users =>
         [to |-> Peer(s, c), type |-> "endshare", sid |-> s] \in Message
  BY <1>1 DEF Message
<1>3. QED
  BY <1>2 DEF EndShares

\* CloseUserSessions and CloseHostSessions: the ends of gone are told, and
\* gone is gone.
LEMMA ToldAndClosed ==
    ASSUME NEW h, Typed(h), NEW r \in DOMAIN h.rooms, NEW c,
           NEW gone \in SUBSET h.rooms[r].sessions
    PROVE  LET k == CloseSessions(Send(h, EndShares(h, r, gone, c)), r, gone)
           IN  /\ Typed(k)
               /\ k.connected = h.connected
               /\ k.rooms = WithSessions(h.rooms, r, h.rooms[r].sessions \ gone)
               /\ k.panicked = h.panicked
<1> DEFINE told == Send(h, EndShares(h, r, gone, c))
<1>1. EndShares(h, r, gone, c) \in SUBSET Message
  BY EndSharesTyped, RoomFields
<1>2. Typed(told) /\ Alike(h, told)
  BY <1>1, SendTyped
<1> DEFINE k == CloseSessions(told, r, gone)
<1> HIDE DEF told
<1>3. r \in DOMAIN told.rooms
  BY <1>2 DEF Alike
<1>4. /\ Typed(k)
      /\ k.connected = told.connected
      /\ k.rooms = WithSessions(told.rooms, r, told.rooms[r].sessions \ gone)
      /\ k.panicked = told.panicked
  BY <1>2, <1>3, CloseSessionsTyped
<1> HIDE DEF k
<1>5. /\ Typed(k)
      /\ k.connected = h.connected
      /\ k.rooms = WithSessions(h.rooms, r, h.rooms[r].sessions \ gone)
      /\ k.panicked = h.panicked
  BY <1>2, <1>4 DEF Alike
<1>6. QED
  BY <1>5 DEF k, told

-----------------------------------------------------------------------------
(* Leaving *)

\* delete(room.Users, id) takes out the one user.
LEMMA RemoveUserTyped ==
    ASSUME NEW h, Typed(h), NEW r \in DOMAIN h.rooms, NEW c
    PROVE  LET k == RemoveUser(h, r, c)
           IN  /\ Typed(k)
               /\ k.connected = h.connected
               /\ k.rooms = WithUsers(h.rooms, r, Drop(h.rooms[r].users, {c}))
               /\ k.panicked = h.panicked
<1> DEFINE k == RemoveUser(h, r, c)
           X == Drop(h.rooms[r].users, {c})
<1>1. DOMAIN k = DOMAIN h BY DEF RemoveUser
<1>2. /\ k.connected = h.connected
      /\ k.rooms = WithUsers(h.rooms, r, X)
      /\ k.panicked = h.panicked
      /\ k.lookup = h.lookup
      /\ k.out = h.out
      /\ k.batch = h.batch
      /\ DOMAIN k.gauges = DOMAIN h.gauges
  BY DEF RemoveUser, WithUsers, Typed
<1>3. IsMap(X, Clients, User)
  BY RoomFields, DropMap
<1> HIDE DEF X, k
<1>4. /\ IsMap(k.rooms, RoomIDs, RoomRecord)
      /\ DOMAIN k.rooms = DOMAIN h.rooms
      /\ k.rooms[r].sessions = h.rooms[r].sessions
      /\ \A q \in DOMAIN h.rooms : q # r => k.rooms[q] = h.rooms[q]
  BY <1>2, <1>3, WithUsersMap DEF Typed
<1>5. \A q \in DOMAIN k.rooms : \A s \in k.rooms[q].sessions : s.batch < k.batch
  BY <1>2, <1>4 DEF Typed
<1>6. Typed(k)
  BY <1>1, <1>2, <1>4, <1>5 DEF Typed
<1>7. QED
  BY <1>2, <1>6 DEF k, X

\* The members lose their connections; the rooms stay as they are for now.
LEMMA EvictTyped ==
    ASSUME NEW h, Typed(h), NEW members \in SUBSET Clients
    PROVE  LET k == Evict(h, members)
           IN  /\ Typed(k)
               /\ k.connected = Drop(h.connected, members)
               /\ k.rooms = h.rooms
               /\ k.panicked = h.panicked
<1> DEFINE k == [h EXCEPT !.connected = Drop(@, members),
                          !.gauges.users = @ - Cardinality(members)]
<1>1. DOMAIN k = DOMAIN h OBVIOUS
<1>2. /\ k.connected = Drop(h.connected, members)
      /\ k.rooms = h.rooms
      /\ k.panicked = h.panicked
      /\ k.lookup = h.lookup
      /\ k.out = h.out
      /\ k.batch = h.batch
      /\ DOMAIN k.gauges = DOMAIN h.gauges
  BY DEF Typed
<1>3. IsMap(k.connected, Clients, RoomIDs \cup {NoRoom})
  BY <1>2, DropMap DEF Typed
<1>4. Evict(h, members) = Send(k, CloseWriters(members))
  BY DEF Evict
<1> HIDE DEF k
<1>5. Typed(k)
  BY <1>1, <1>2, <1>3 DEF Typed
<1>6. QED
  BY <1>2, <1>4, <1>5, CloseWritersTyped, SendTyped DEF Alike

\* closeRoom takes out the room and all its users.
LEMMA CloseRoomTyped ==
    ASSUME NEW h, Typed(h), NEW r \in DOMAIN h.rooms
    PROVE  LET k == CloseRoom(h, r)
           IN  /\ Typed(k)
               /\ k.connected = Drop(h.connected, DOMAIN h.rooms[r].users)
               /\ DOMAIN k.rooms = DOMAIN h.rooms \ {r}
               /\ \A q \in DOMAIN k.rooms : k.rooms[q] = h.rooms[q]
               /\ k.panicked = h.panicked
<1> DEFINE members == DOMAIN h.rooms[r].users
           evicted == Evict(h, members)
           X == h.rooms[r].sessions
           ended == CloseSessions(evicted, r, X)
           k == [ended EXCEPT !.rooms = Drop(@, {r}), !.gauges.rooms = @ - 1]
<1>1. CloseRoom(h, r) = k
  BY DEF CloseRoom
<1>2. members \in SUBSET Clients
  BY RoomFields DEF IsMap
<1> HIDE DEF members
<1>3. /\ Typed(evicted)
      /\ evicted.connected = Drop(h.connected, members)
      /\ evicted.rooms = h.rooms
      /\ evicted.panicked = h.panicked
  BY <1>2, EvictTyped
<1> HIDE DEF evicted, X
<1>4. r \in DOMAIN evicted.rooms
  BY <1>3
<1>5. /\ Typed(ended)
      /\ ended.connected = evicted.connected
      /\ ended.rooms = WithSessions(evicted.rooms, r, evicted.rooms[r].sessions \ X)
      /\ ended.panicked = evicted.panicked
  BY <1>3, <1>4, CloseSessionsTyped
<1> HIDE DEF ended
<1>6. DOMAIN k = DOMAIN ended OBVIOUS
<1>7. /\ k.connected = ended.connected
      /\ k.rooms = Drop(ended.rooms, {r})
      /\ k.panicked = ended.panicked
      /\ k.lookup = ended.lookup
      /\ k.out = ended.out
      /\ k.batch = ended.batch
      /\ DOMAIN k.gauges = DOMAIN ended.gauges
  BY <1>5 DEF Typed
<1> HIDE DEF k
<1>8. IsMap(ended.rooms, RoomIDs, RoomRecord)
  BY <1>5 DEF Typed
<1>9. /\ IsMap(k.rooms, RoomIDs, RoomRecord)
      /\ DOMAIN k.rooms = DOMAIN ended.rooms \ {r}
      /\ \A q \in DOMAIN k.rooms : k.rooms[q] = ended.rooms[q]
  <2>1. k.rooms = Drop(ended.rooms, {r})
    BY <1>7
  <2>2. IsMap(Drop(ended.rooms, {r}), RoomIDs, RoomRecord)
    BY <1>8, DropMap
  <2>3. QED
    BY <2>1, <2>2 DEF Drop
<1>10. Typed(k)
  BY <1>5, <1>6, <1>7, <1>9 DEF Typed
<1>11. /\ DOMAIN ended.rooms = DOMAIN h.rooms
       /\ \A q \in DOMAIN h.rooms : q # r => ended.rooms[q] = h.rooms[q]
  BY <1>3, <1>5 DEF WithSessions
<1>12. /\ k.connected = Drop(h.connected, members)
       /\ DOMAIN k.rooms = DOMAIN h.rooms \ {r}
       /\ \A q \in DOMAIN k.rooms : k.rooms[q] = h.rooms[q]
       /\ k.panicked = h.panicked
  BY <1>3, <1>5, <1>7, <1>9, <1>11
<1>13. QED
  BY <1>1, <1>10, <1>12 DEF members

\* The user is in the room it leaves.
Inside(h, r, c) == r \in DOMAIN h.rooms /\ c \in DOMAIN h.rooms[r].users

\* The room without c and without its sessions.
Without(h, r, c) ==
    WithUsers(WithSessions(h.rooms, r, h.rooms[r].sessions \ SessionsWith(h.rooms[r], c)),
              r, Drop(h.rooms[r].users, {c}))

ClosesFor(h, r, c) ==
    \/ h.rooms[r].users[c].owner /\ h.rooms[r].closeOnOwnerLeave
    \/ DOMAIN h.rooms[r].users \ {c} = {}

\* What removeUserFromRoom makes of h: the scenarios of its comment.
Removed(h, r, c, k) ==
    /\ k.panicked = h.panicked
    /\ ~Inside(h, r, c) => k.connected = h.connected /\ k.rooms = h.rooms
    /\ Inside(h, r, c) /\ ClosesFor(h, r, c) =>
          /\ k.connected = Drop(h.connected, DOMAIN h.rooms[r].users \ {c})
          /\ DOMAIN k.rooms = DOMAIN h.rooms \ {r}
          /\ \A q \in DOMAIN k.rooms : k.rooms[q] = h.rooms[q]
    /\ Inside(h, r, c) /\ ~ClosesFor(h, r, c) =>
          k.connected = h.connected /\ k.rooms = Without(h, r, c)

\* CloseUserSessions ends the sessions of c and no others.
LEMMA CloseUserTyped ==
    ASSUME NEW h, Typed(h), NEW r \in DOMAIN h.rooms, NEW c
    PROVE  LET k == CloseUserSessions(h, r, c)
           IN  /\ Typed(k)
               /\ k.connected = h.connected
               /\ k.rooms = WithSessions(h.rooms, r,
                     h.rooms[r].sessions \ SessionsWith(h.rooms[r], c))
               /\ k.panicked = h.panicked
<1> DEFINE gone == SessionsWith(h.rooms[r], c)
<1>1. gone \in SUBSET h.rooms[r].sessions
  BY DEF SessionsWith
<1>2. CloseUserSessions(h, r, c) =
         CloseSessions(Send(h, EndShares(h, r, gone, c)), r, gone)
  BY DEF CloseUserSessions
<1> HIDE DEF gone
<1>3. LET k == CloseSessions(Send(h, EndShares(h, r, gone, c)), r, gone)
      IN  /\ Typed(k)
          /\ k.connected = h.connected
          /\ k.rooms = WithSessions(h.rooms, r, h.rooms[r].sessions \ gone)
          /\ k.panicked = h.panicked
  BY ONLY Typed(h), r \in DOMAIN h.rooms, <1>1, ToldAndClosed
<1>4. QED
  BY <1>2, <1>3 DEF gone

\* CloseHostSessions ends the sessions c hosts and no others.
LEMMA CloseHostTyped ==
    ASSUME NEW h, Typed(h), NEW r \in DOMAIN h.rooms, NEW c
    PROVE  LET k == CloseHostSessions(h, r, c)
           IN  /\ Typed(k)
               /\ k.connected = h.connected
               /\ k.rooms = WithSessions(h.rooms, r,
                     h.rooms[r].sessions \ HostedBy(h.rooms[r], c))
               /\ k.panicked = h.panicked
<1> DEFINE gone == HostedBy(h.rooms[r], c)
<1>1. gone \in SUBSET h.rooms[r].sessions
  BY DEF HostedBy
<1>2. CloseHostSessions(h, r, c) =
         CloseSessions(Send(h, EndShares(h, r, gone, c)), r, gone)
  BY DEF CloseHostSessions
<1> HIDE DEF gone
<1>3. LET k == CloseSessions(Send(h, EndShares(h, r, gone, c)), r, gone)
      IN  /\ Typed(k)
          /\ k.connected = h.connected
          /\ k.rooms = WithSessions(h.rooms, r, h.rooms[r].sessions \ gone)
          /\ k.panicked = h.panicked
  BY ONLY Typed(h), r \in DOMAIN h.rooms, <1>1, ToldAndClosed
<1>4. QED
  BY <1>2, <1>3 DEF gone

\* removeUserFromRoom before it looks whether the room is to close.
LEMMA LeftTyped ==
    ASSUME NEW h, Typed(h), NEW r, NEW c, Inside(h, r, c)
    PROVE  LET left == RemoveUser(CloseUserSessions(h, r, c), r, c)
           IN  /\ Typed(left)
               /\ left.connected = h.connected
               /\ left.rooms = Without(h, r, c)
               /\ left.panicked = h.panicked
               /\ DOMAIN left.rooms = DOMAIN h.rooms
               /\ DOMAIN left.rooms[r].users = DOMAIN h.rooms[r].users \ {c}
               /\ \A q \in DOMAIN h.rooms : q # r => left.rooms[q] = h.rooms[q]
<1> DEFINE quiet == CloseUserSessions(h, r, c)
           left  == RemoveUser(quiet, r, c)
           X     == h.rooms[r].sessions \ SessionsWith(h.rooms[r], c)
           U     == Drop(h.rooms[r].users, {c})
<1>1. r \in DOMAIN h.rooms
  BY DEF Inside
<1>2. X \in SUBSET Session
  BY <1>1, RoomFields
<1>3. IsMap(U, Clients, User) /\ DOMAIN U = DOMAIN h.rooms[r].users \ {c}
  BY <1>1, RoomFields, DropMap
<1>4. /\ Typed(quiet)
      /\ quiet.connected = h.connected
      /\ quiet.rooms = WithSessions(h.rooms, r, X)
      /\ quiet.panicked = h.panicked
  BY <1>1, CloseUserTyped
<1>5. WithUsers(quiet.rooms, r, U) = Without(h, r, c)
  BY <1>4 DEF Without
<1> HIDE DEF quiet, X
<1>6. IsMap(h.rooms, RoomIDs, RoomRecord)
  BY DEF Typed
<1>7. /\ IsMap(quiet.rooms, RoomIDs, RoomRecord)
      /\ DOMAIN quiet.rooms = DOMAIN h.rooms
      /\ quiet.rooms[r].users = h.rooms[r].users
      /\ \A q \in DOMAIN h.rooms : q # r => quiet.rooms[q] = h.rooms[q]
  BY <1>1, <1>2, <1>4, <1>6, WithSessionsMap
<1>8. r \in DOMAIN quiet.rooms
  BY <1>1, <1>7
<1>9. /\ Typed(left)
      /\ left.connected = quiet.connected
      /\ left.rooms = WithUsers(quiet.rooms, r, Drop(quiet.rooms[r].users, {c}))
      /\ left.panicked = quiet.panicked
  BY <1>4, <1>8, RemoveUserTyped
<1> HIDE DEF left
<1>10. left.rooms = WithUsers(quiet.rooms, r, U)
  BY <1>7, <1>9
<1> HIDE DEF U
<1>11. /\ DOMAIN left.rooms = DOMAIN quiet.rooms
       /\ left.rooms[r].users = U
       /\ \A q \in DOMAIN quiet.rooms : q # r => left.rooms[q] = quiet.rooms[q]
  BY <1>3, <1>7, <1>8, <1>10, WithUsersMap
<1>12. /\ left.connected = h.connected
       /\ left.rooms = Without(h, r, c)
       /\ left.panicked = h.panicked
       /\ DOMAIN left.rooms = DOMAIN h.rooms
       /\ DOMAIN left.rooms[r].users = DOMAIN h.rooms[r].users \ {c}
       /\ \A q \in DOMAIN h.rooms : q # r => left.rooms[q] = h.rooms[q]
  BY <1>3, <1>4, <1>5, <1>7, <1>9, <1>10, <1>11
<1>13. QED
  BY <1>9, <1>12 DEF left, quiet

\* removeUserFromRoom does one of the three things Removed lists.
LEMMA RemoveTyped ==
    ASSUME NEW h, Typed(h), NEW r, NEW c
    PROVE  /\ Typed(RemoveUserFromRoom(h, r, c))
           /\ Removed(h, r, c, RemoveUserFromRoom(h, r, c))
<1> DEFINE k == RemoveUserFromRoom(h, r, c)
           left == RemoveUser(CloseUserSessions(h, r, c), r, c)
<1>1. CASE ~Inside(h, r, c)
  <2>1. k = h
    BY <1>1 DEF Inside, RemoveUserFromRoom
  <2> HIDE DEF k
  <2>2. Removed(h, r, c, k)
    BY <1>1, <2>1 DEF Removed
  <2>3. QED BY <2>1, <2>2 DEF k
<1>2. CASE Inside(h, r, c)
  <2>1. r \in DOMAIN h.rooms /\ c \in DOMAIN h.rooms[r].users
    BY <1>2 DEF Inside
  <2>2. k = IF Closes(h.rooms[r], left.rooms[r], c)
            THEN CloseRoom(left, r)
            ELSE NotifyInfoChanged(left, r)
    BY <2>1 DEF RemoveUserFromRoom
  <2>3. /\ Typed(left)
        /\ left.connected = h.connected
        /\ left.rooms = Without(h, r, c)
        /\ left.panicked = h.panicked
        /\ DOMAIN left.rooms = DOMAIN h.rooms
        /\ DOMAIN left.rooms[r].users = DOMAIN h.rooms[r].users \ {c}
        /\ \A q \in DOMAIN h.rooms : q # r => left.rooms[q] = h.rooms[q]
    BY <1>2, LeftTyped
  <2> HIDE DEF left
  <2>4. Closes(h.rooms[r], left.rooms[r], c) <=> ClosesFor(h, r, c)
    BY <2>3 DEF Closes, ClosesFor
  <2>5. r \in DOMAIN left.rooms
    BY <2>1, <2>3
  <2>6. CASE ClosesFor(h, r, c)
    <3>1. k = CloseRoom(left, r)
      BY <2>2, <2>4, <2>6
    <3>2. /\ Typed(CloseRoom(left, r))
          /\ CloseRoom(left, r).connected
                = Drop(left.connected, DOMAIN left.rooms[r].users)
          /\ DOMAIN CloseRoom(left, r).rooms = DOMAIN left.rooms \ {r}
          /\ \A q \in DOMAIN CloseRoom(left, r).rooms :
                CloseRoom(left, r).rooms[q] = left.rooms[q]
          /\ CloseRoom(left, r).panicked = left.panicked
      BY <2>3, <2>5, CloseRoomTyped
    <3> HIDE DEF k
    <3>3. Removed(h, r, c, k)
      BY <1>2, <2>3, <2>6, <3>1, <3>2 DEF Removed
    <3>4. QED
      BY <3>1, <3>2, <3>3 DEF k
  <2>7. CASE ~ClosesFor(h, r, c)
    <3>1. k = NotifyInfoChanged(left, r)
      BY <2>2, <2>4, <2>7
    <3>2. Typed(NotifyInfoChanged(left, r)) /\ Alike(left, NotifyInfoChanged(left, r))
      BY <2>3, <2>5, NotifyTyped
    <3> HIDE DEF k
    <3>3. Removed(h, r, c, k)
      BY <1>2, <2>3, <2>7, <3>1, <3>2 DEF Removed, Alike
    <3>4. QED
      BY <3>1, <3>2, <3>3 DEF k
  <2>8. QED BY <2>6, <2>7
<1>3. QED BY <1>1, <1>2
\* What a departure of c from h leaves: the connection is gone, and so is the
\* user, with the room if it is to close.
Departed(h, c, k) ==
    LET r == h.connected[c]
        inside == r # NoRoom /\ Inside(h, r, c)
    IN  /\ k.panicked = h.panicked
        /\ DOMAIN k.connected \subseteq DOMAIN h.connected \ {c}
        /\ ~inside => k.connected = Drop(h.connected, {c}) /\ k.rooms = h.rooms
        /\ inside /\ ClosesFor(h, r, c) =>
              /\ k.connected = Drop(Drop(h.connected, {c}),
                                   DOMAIN h.rooms[r].users \ {c})
              /\ DOMAIN k.rooms = DOMAIN h.rooms \ {r}
              /\ \A q \in DOMAIN k.rooms : k.rooms[q] = h.rooms[q]
        /\ inside /\ ~ClosesFor(h, r, c) =>
              k.connected = Drop(h.connected, {c}) /\ k.rooms = Without(h, r, c)

\* Disconnected.executeNoError takes c out of both registries.
LEMMA DisconnectTyped ==
    ASSUME NEW h, Typed(h), NEW c \in Clients, c \in DOMAIN h.connected
    PROVE  Typed(Disconnect(h, c)) /\ Departed(h, c, Disconnect(h, c))
<1> DEFINE r    == h.connected[c]
           cut  == [h EXCEPT !.connected = Drop(@, {c})]
           gone == Send(cut, CloseWriters({c}))
           k    == Disconnect(h, c)
<1>1. DOMAIN cut = DOMAIN h OBVIOUS
<1>2. /\ cut.connected = Drop(h.connected, {c})
      /\ cut.rooms = h.rooms
      /\ cut.panicked = h.panicked
      /\ cut.lookup = h.lookup
      /\ cut.out = h.out
      /\ cut.batch = h.batch
      /\ cut.gauges = h.gauges
  BY DEF Typed
<1>3. k = IF r = NoRoom THEN gone ELSE RemoveUserFromRoom(gone, r, c)
  BY DEF Disconnect
<1>4. /\ IsMap(cut.connected, Clients, RoomIDs \cup {NoRoom})
      /\ DOMAIN cut.connected = DOMAIN h.connected \ {c}
  BY <1>2, DropMap DEF Typed
<1> HIDE DEF cut
<1>5. Typed(cut)
  BY <1>1, <1>2, <1>4 DEF Typed
<1>6. CloseWriters({c}) \in SUBSET Message
  BY CloseWritersTyped
<1>7. Typed(gone) /\ Alike(cut, gone)
  BY <1>5, <1>6, SendTyped
<1> HIDE DEF gone, r
<1>8. /\ gone.connected = Drop(h.connected, {c})
      /\ DOMAIN gone.connected = DOMAIN h.connected \ {c}
      /\ gone.rooms = h.rooms
      /\ gone.panicked = h.panicked
  BY <1>2, <1>4, <1>7 DEF Alike
<1>9. /\ Inside(gone, r, c) <=> Inside(h, r, c)
      /\ ClosesFor(gone, r, c) <=> ClosesFor(h, r, c)
      /\ Without(gone, r, c) = Without(h, r, c)
  BY <1>8 DEF Inside, ClosesFor, Without
<1>10. CASE r = NoRoom
  <2>1. k = gone
    BY <1>3, <1>10
  <2> HIDE DEF k
  <2>2. Departed(h, c, k)
    BY <1>8, <1>10, <2>1 DEF Departed, r
  <2>3. QED
    BY <1>7, <2>1, <2>2 DEF k
<1>11. CASE r # NoRoom
  <2>1. k = RemoveUserFromRoom(gone, r, c)
    BY <1>3, <1>11
  <2>2. /\ Typed(RemoveUserFromRoom(gone, r, c))
        /\ Removed(gone, r, c, RemoveUserFromRoom(gone, r, c))
    BY <1>7, RemoveTyped
  <2> HIDE DEF k
  <2>3. Removed(gone, r, c, k)
    BY <2>1, <2>2
  <2>4. DOMAIN k.connected \subseteq DOMAIN h.connected \ {c}
    <3>1. \A X : DOMAIN Drop(gone.connected, X) \subseteq DOMAIN gone.connected
      BY DEF Drop
    <3>2. \/ k.connected = gone.connected
          \/ k.connected = Drop(gone.connected, DOMAIN gone.rooms[r].users \ {c})
      BY <2>3 DEF Removed
    <3>3. QED BY <1>8, <3>1, <3>2
  <2>5. Departed(h, c, k)
    <3> SUFFICES /\ k.panicked = h.panicked
                 /\ ~Inside(h, r, c) => k.connected = Drop(h.connected, {c})
                                          /\ k.rooms = h.rooms
                 /\ Inside(h, r, c) /\ ClosesFor(h, r, c) =>
                       /\ k.connected = Drop(Drop(h.connected, {c}),
                                             DOMAIN h.rooms[r].users \ {c})
                       /\ DOMAIN k.rooms = DOMAIN h.rooms \ {r}
                       /\ \A q \in DOMAIN k.rooms : k.rooms[q] = h.rooms[q]
                 /\ Inside(h, r, c) /\ ~ClosesFor(h, r, c) =>
                       /\ k.connected = Drop(h.connected, {c})
                       /\ k.rooms = Without(h, r, c)
      BY <1>11, <2>4 DEF Departed, r
    <3> QED
      BY <1>8, <1>9, <2>3 DEF Removed
  <2>6. QED
    BY <2>1, <2>2, <2>5 DEF k
<1>12. QED BY <1>10, <1>11

-----------------------------------------------------------------------------
(* Entering and sharing *)

\* h with the users of room r changed to U, whatever is counted and with the
\* connections K.
LEMMA UsersTyped ==
    ASSUME NEW h, Typed(h), NEW r \in DOMAIN h.rooms,
           NEW U, IsMap(U, Clients, User), NEW k,
           DOMAIN k = DOMAIN h,
           IsMap(k.connected, Clients, RoomIDs \cup {NoRoom}),
           k.rooms = WithUsers(h.rooms, r, U),
           k.panicked = h.panicked, k.lookup = h.lookup, k.out = h.out,
           k.batch = h.batch, DOMAIN k.gauges = DOMAIN h.gauges
    PROVE  Typed(k)
<1>1. IsMap(h.rooms, RoomIDs, RoomRecord)
  BY DEF Typed
<1>2. /\ IsMap(k.rooms, RoomIDs, RoomRecord)
      /\ DOMAIN k.rooms = DOMAIN h.rooms
      /\ k.rooms[r].sessions = h.rooms[r].sessions
      /\ \A q \in DOMAIN h.rooms : q # r => k.rooms[q] = h.rooms[q]
  BY <1>1, WithUsersMap
<1>3. \A q \in DOMAIN k.rooms : \A s \in k.rooms[q].sessions : s.batch < k.batch
  BY <1>2 DEF Typed
<1>4. QED
  BY <1>2, <1>3 DEF Typed

NewUser(name, owner) == [name |-> name, streaming |-> FALSE, owner |-> owner]

\* The last part of Join and Create: c is a user of r and connected to r.
LEMMA EnterTyped ==
    ASSUME NEW h, Typed(h), NEW r \in DOMAIN h.rooms, NEW c \in Clients,
           NEW name \in Names, NEW owner \in BOOLEAN
    PROVE  LET k == Enter(h, c, r, name, owner)
           IN  /\ Typed(k)
               /\ k.connected = Put(h.connected, c, r)
               /\ k.rooms = WithUsers(h.rooms, r,
                                Put(h.rooms[r].users, c, NewUser(name, owner)))
               /\ k.panicked = h.panicked
<1> DEFINE user == NewUser(name, owner)
           U == Put(h.rooms[r].users, c, user)
           k == [h EXCEPT !.rooms[r].users = Put(@, c, user),
                          !.connected = Put(@, c, r),
                          !.gauges.users = @ + 1]
<1>1. /\ DOMAIN k = DOMAIN h
      /\ k.connected = Put(h.connected, c, r)
      /\ k.rooms = WithUsers(h.rooms, r, U)
      /\ k.panicked = h.panicked /\ k.lookup = h.lookup /\ k.out = h.out
      /\ k.batch = h.batch /\ DOMAIN k.gauges = DOMAIN h.gauges
  BY DEF WithUsers, Typed
<1>2. Enter(h, c, r, name, owner) = NotifyInfoChanged(k, r)
  BY DEF Enter, NewUser
<1>3. user \in User
  BY DEF NewUser, User
<1> HIDE DEF user
<1>4. IsMap(U, Clients, User)
  BY <1>3, RoomFields, PutMap
<1>5. /\ IsMap(h.connected, Clients, RoomIDs \cup {NoRoom})
      /\ r \in RoomIDs \cup {NoRoom}
  BY RoomFields DEF Typed
<1> HIDE DEF U, k
<1>6. IsMap(k.connected, Clients, RoomIDs \cup {NoRoom})
  <2> DEFINE S == RoomIDs \cup {NoRoom}
  <2> HIDE DEF S
  <2>1. IsMap(Put(h.connected, c, r), Clients, S)
    BY <1>5, PutMap DEF S
  <2>2. QED BY <1>1, <2>1 DEF S
<1>7. Typed(k)
  BY <1>1, <1>4, <1>6, UsersTyped
<1>8. r \in DOMAIN k.rooms
  BY <1>1 DEF WithUsers
<1>9. Typed(NotifyInfoChanged(k, r)) /\ Alike(k, NotifyInfoChanged(k, r))
  BY <1>7, <1>8, NotifyTyped
<1>10. QED
  BY <1>1, <1>2, <1>9 DEF Alike, U, user

EmptyRoom(mode, close) ==
    [mode |-> mode, closeOnOwnerLeave |-> close, users |-> NoUsers, sessions |-> {}]

\* The first part of Create: a room without users and sessions.
LEMMA OpenRoomTyped ==
    ASSUME NEW h, Typed(h), NEW r \in RoomIDs, NEW mode \in Modes,
           NEW close \in BOOLEAN
    PROVE  LET k == OpenRoom(h, r, mode, close)
           IN  /\ Typed(k)
               /\ k.connected = h.connected
               /\ k.rooms = Put(h.rooms, r, EmptyRoom(mode, close))
               /\ k.panicked = h.panicked
<1> DEFINE room == EmptyRoom(mode, close)
           k == OpenRoom(h, r, mode, close)
<1>1. /\ DOMAIN k = DOMAIN h
      /\ k.connected = h.connected
      /\ k.rooms = Put(h.rooms, r, room)
      /\ k.panicked = h.panicked /\ k.lookup = h.lookup /\ k.out = h.out
      /\ k.batch = h.batch /\ DOMAIN k.gauges = DOMAIN h.gauges
  BY DEF OpenRoom, EmptyRoom, Typed
<1>2. room \in RoomRecord /\ room.sessions = {}
  <2>1. IsMap(NoUsers, Clients, User)
    BY DEF IsMap, NoUsers
  <2>2. NoUsers \in Maps(Clients, User)
    BY <2>1, MapsAreMaps
  <2>3. QED
    BY <2>2 DEF EmptyRoom, RoomRecord
<1>3. IsMap(h.rooms, RoomIDs, RoomRecord)
  BY DEF Typed
<1> HIDE DEF k, room
<1>4. /\ IsMap(k.rooms, RoomIDs, RoomRecord)
      /\ DOMAIN k.rooms = DOMAIN h.rooms \cup {r}
      /\ k.rooms[r] = room
      /\ \A q \in DOMAIN h.rooms : q # r => k.rooms[q] = h.rooms[q]
  BY <1>1, <1>2, <1>3, PutMap
<1>5. \A q \in DOMAIN k.rooms : \A s \in k.rooms[q].sessions : s.batch < k.batch
  BY <1>1, <1>2, <1>4 DEF Typed
<1>6. Typed(k)
  BY <1>1, <1>4, <1>5 DEF Typed
<1>7. QED
  BY <1>1, <1>6 DEF k, room

\* A field of the user c of room r is changed.
LEMMA UserTyped ==
    ASSUME NEW h, Typed(h), NEW r \in DOMAIN h.rooms,
           NEW c \in DOMAIN h.rooms[r].users, NEW user \in User
    PROVE  LET k == [h EXCEPT !.rooms[r].users[c] = user]
           IN  /\ Typed(k)
               /\ k.connected = h.connected
               /\ k.rooms = WithUsers(h.rooms, r, Put(h.rooms[r].users, c, user))
               /\ k.panicked = h.panicked
<1> DEFINE U == Put(h.rooms[r].users, c, user)
           k == [h EXCEPT !.rooms[r].users[c] = user]
<1>1. IsMap(h.rooms[r].users, Clients, User)
  BY RoomFields
<1>2. [h.rooms[r].users EXCEPT ![c] = user] = U
  BY <1>1 DEF Put, IsMap
<1>3. c \in Clients
  BY <1>1 DEF IsMap
<1>4. IsMap(U, Clients, User)
  BY <1>1, <1>3, PutMap
<1>5. /\ DOMAIN k = DOMAIN h
      /\ k.connected = h.connected
      /\ k.rooms = WithUsers(h.rooms, r, U)
      /\ k.panicked = h.panicked /\ k.lookup = h.lookup /\ k.out = h.out
      /\ k.batch = h.batch /\ DOMAIN k.gauges = DOMAIN h.gauges
  BY <1>2 DEF WithUsers, Typed
<1> HIDE DEF U, k
<1>6. IsMap(k.connected, Clients, RoomIDs \cup {NoRoom})
  BY <1>5 DEF Typed
<1>7. Typed(k)
  BY <1>4, <1>5, <1>6, UsersTyped
<1>8. QED
  BY <1>5, <1>7 DEF U, k

Streaming(user, on) == [user EXCEPT !.streaming = on]

\* user.Streaming = on changes this user only.
LEMMA SetStreamingTyped ==
    ASSUME NEW h, Typed(h), NEW r \in DOMAIN h.rooms,
           NEW c \in DOMAIN h.rooms[r].users, NEW on \in BOOLEAN
    PROVE  LET k == SetStreaming(h, r, c, on)
           IN  /\ Typed(k)
               /\ k.connected = h.connected
               /\ k.rooms = WithUsers(h.rooms, r, Put(h.rooms[r].users, c,
                                Streaming(h.rooms[r].users[c], on)))
               /\ k.panicked = h.panicked
<1> DEFINE user == Streaming(h.rooms[r].users[c], on)
           k == SetStreaming(h, r, c, on)
<1>1. h.rooms[r].users[c] \in User
  BY RoomFields DEF IsMap
<1>2. user \in User
  BY <1>1 DEF User, Streaming
<1>3. k = [h EXCEPT !.rooms[r].users[c] = user]
  BY DEF SetStreaming, Streaming
<1> HIDE DEF user, k
<1>4. /\ Typed(k)
      /\ k.connected = h.connected
      /\ k.rooms = WithUsers(h.rooms, r, Put(h.rooms[r].users, c, user))
      /\ k.panicked = h.panicked
  BY <1>2, <1>3, UserTyped
<1>5. QED
  BY <1>4 DEF k, user

\* A nil dereference leaves the registry as it was.
LEMMA PanicTyped ==
    ASSUME NEW h, Typed(h)
    PROVE  LET k == [h EXCEPT !.panicked = TRUE]
           IN  Typed(k) /\ k.connected = h.connected /\ k.rooms = h.rooms
BY DEF Typed

-----------------------------------------------------------------------------
(* The type invariant *)

\* The variables are the hub state a handler starts from ...
LEMMA HubTyped ==
    ASSUME TypeOK
    PROVE  Typed(hub)
<1>1. /\ hub.connected = connected /\ hub.rooms = rooms /\ hub.lookup = lookup
      /\ hub.batch = batch /\ hub.gauges = gauges /\ hub.panicked = panicked
      /\ hub.out = << >>
      /\ DOMAIN hub = {"connected", "rooms", "lookup", "batch", "gauges",
                       "panicked", "out"}
  BY DEF hub
<1>2. << >> \in Seq(SUBSET Message)
  OBVIOUS
<1>3. QED
  BY <1>1, <1>2 DEF TypeOK, Typed

\* ... and the hub state it ends in becomes the variables.
LEMMA BecomeTyped ==
    ASSUME TypeOK, NEW k, Typed(k), Become(k), arrived' \subseteq Clients,
           DOMAIN k.connected \subseteq arrived'
    PROVE  TypeOK'
BY DEF TypeOK, Typed, Become

\* A handler that only lets go of connections.
LEMMA HandlerTyped ==
    ASSUME TypeOK, NEW k, Typed(k), Become(k), UNCHANGED arrived,
           DOMAIN k.connected \subseteq DOMAIN connected
    PROVE  TypeOK'
BY BecomeTyped DEF TypeOK

\* A handler that disconnects its client keeps the types.
LEMMA DisconnectStep ==
    ASSUME TypeOK, NEW c \in Clients, c \in DOMAIN connected, UNCHANGED arrived,
           Become(Disconnect(hub, c))
    PROVE  TypeOK'
<1> DEFINE k == Disconnect(hub, c)
<1>1. Typed(hub) /\ hub.connected = connected
  BY HubTyped DEF hub
<1>2. Typed(k) /\ Departed(hub, c, k)
  BY <1>1, DisconnectTyped
<1>3. Become(k)
  OBVIOUS
<1> HIDE DEF k
<1>4. DOMAIN k.connected \subseteq DOMAIN connected
  BY <1>1, <1>2 DEF Departed
<1>5. QED
  BY <1>2, <1>3, <1>4, HandlerTyped

\* A new connection is one more id, in no room.
LEMMA ConnectedStep ==
    ASSUME TypeOK, NEW c \in Clients, Connected(c)
    PROVE  TypeOK'
<1> DEFINE k == [hub EXCEPT !.connected = Put(@, c, NoRoom)]
           S == RoomIDs \cup {NoRoom}
<1>1. Typed(hub) /\ hub.connected = connected
  BY HubTyped DEF hub
<1>2. /\ DOMAIN k = DOMAIN hub
      /\ k.connected = Put(connected, c, NoRoom)
      /\ k.rooms = hub.rooms
      /\ k.panicked = hub.panicked /\ k.lookup = hub.lookup /\ k.out = hub.out
      /\ k.batch = hub.batch /\ k.gauges = hub.gauges
  BY DEF hub
<1>3. NoRoom \in S
  OBVIOUS
<1>4. IsMap(connected, Clients, S)
  BY DEF TypeOK
<1>5. Become(k)
  BY DEF Connected
<1> HIDE DEF S, k
<1>6. /\ IsMap(Put(connected, c, NoRoom), Clients, S)
      /\ DOMAIN Put(connected, c, NoRoom) = DOMAIN connected \cup {c}
  <2>1. IsMap(Put(connected, c, NoRoom), Clients, S)
    BY <1>3, <1>4, PutMap
  <2>2. QED
    BY <2>1 DEF Put
<1>7. Typed(k)
  <2>1. IsMap(k.connected, Clients, RoomIDs \cup {NoRoom})
    BY <1>2, <1>6 DEF S
  <2>2. QED
    BY <1>1, <1>2, <2>1 DEF Typed
<1>8. /\ arrived' = arrived \cup {c}
      /\ arrived' \subseteq Clients
      /\ DOMAIN k.connected \subseteq arrived'
  BY <1>2, <1>6 DEF Connected, TypeOK
<1>9. QED
  BY <1>5, <1>7, <1>8, BecomeTyped

\* The client enters the room it asks for, and perhaps is thrown out again.
LEMMA JoinStep ==
    ASSUME TypeOK, NEW c \in Clients, NEW r, Join(c, r)
    PROVE  TypeOK'
<1>1. Typed(hub) /\ hub.connected = connected /\ hub.rooms = rooms
  BY HubTyped DEF hub
<1>2. c \in DOMAIN connected /\ UNCHANGED arrived
  BY DEF Join, Accepts
<1>3. CASE Become(Disconnect(hub, c))
  BY <1>2, <1>3, DisconnectStep
<1>4. ASSUME NEW name \in Names, MayJoin(c, r)
      PROVE  LET entered == Enter(hub, c, r, name, FALSE)
                 pairs   == (Streamers(entered.rooms[r]) \ {c}) \X {c}
             IN  Become(Disconnect(entered, c)) \/ Become(NewSessions(entered, r, pairs))
                    => TypeOK'
  <2> DEFINE entered == Enter(hub, c, r, name, FALSE)
             pairs   == (Streamers(entered.rooms[r]) \ {c}) \X {c}
             left    == Disconnect(entered, c)
             joined  == NewSessions(entered, r, pairs)
  <2>1. r \in DOMAIN hub.rooms
    BY <1>1, <1>4 DEF MayJoin
  <2>2. /\ Typed(entered)
        /\ entered.connected = Put(connected, c, r)
        /\ entered.rooms = WithUsers(rooms, r,
                               Put(rooms[r].users, c, NewUser(name, FALSE)))
    BY <1>1, <2>1, EnterTyped
  <2> HIDE DEF entered
  <2>3. /\ DOMAIN entered.connected = DOMAIN connected
        /\ c \in DOMAIN entered.connected
        /\ r \in DOMAIN entered.rooms
    BY <1>1, <1>2, <2>1, <2>2 DEF Put, WithUsers
  <2>4. Typed(left) /\ Departed(entered, c, left)
    BY <2>2, <2>3, DisconnectTyped
  <2>5. Streamers(entered.rooms[r]) \subseteq Clients
    BY <2>2, <2>3, RoomFields DEF Streamers, IsMap
  <2>6. pairs \in SUBSET (Clients \X Clients)
    BY <2>5
  <2> HIDE DEF pairs
  <2>7. Typed(joined) /\ joined.connected = entered.connected
    BY <2>2, <2>3, <2>6, NewSessionsTyped
  <2> HIDE DEF left, joined
  <2>8. DOMAIN left.connected \subseteq DOMAIN connected
    BY <2>3, <2>4 DEF Departed
  <2>9. Become(left) => TypeOK'
    BY <1>2, <2>4, <2>8, HandlerTyped
  <2>10. Become(joined) => TypeOK'
    BY <1>2, <2>3, <2>7, HandlerTyped
  <2>11. QED
    BY <2>9, <2>10 DEF entered, pairs, left, joined
<1>5. QED
  BY <1>3, <1>4 DEF Join

\* Create opens a room and enters it, joins one, or disconnects.
LEMMA CreateStep ==
    ASSUME TypeOK, NEW c \in Clients, NEW r \in RoomIDs, NEW mode \in Modes,
           NEW close \in BOOLEAN, NEW joinIfExist \in BOOLEAN,
           Create(c, r, mode, close, joinIfExist)
    PROVE  TypeOK'
<1>1. Typed(hub) /\ hub.connected = connected
  BY HubTyped DEF hub
<1>2. c \in DOMAIN connected /\ UNCHANGED arrived
  BY DEF Create, Accepts
<1>3. CASE Join(c, r)
  BY <1>3, JoinStep
<1>4. CASE Become(Disconnect(hub, c))
  BY <1>2, <1>4, DisconnectStep
<1>5. ASSUME NEW name \in Names,
             Become(Enter(OpenRoom(hub, r, mode, close), c, r, name, TRUE))
      PROVE  TypeOK'
  <2> DEFINE opened  == OpenRoom(hub, r, mode, close)
             entered == Enter(opened, c, r, name, TRUE)
  <2>1. /\ Typed(opened)
        /\ opened.connected = connected
        /\ opened.rooms = Put(hub.rooms, r, EmptyRoom(mode, close))
    BY <1>1, OpenRoomTyped
  <2>2. Become(entered)
    BY <1>5
  <2> HIDE DEF opened
  <2>3. r \in DOMAIN opened.rooms
    BY <2>1 DEF Put
  <2>4. Typed(entered) /\ entered.connected = Put(opened.connected, c, r)
    BY <2>1, <2>3, EnterTyped
  <2> HIDE DEF entered
  <2>5. DOMAIN entered.connected \subseteq DOMAIN connected
    BY <1>2, <2>1, <2>4 DEF Put
  <2>6. QED
    BY <1>2, <2>2, <2>4, <2>5, HandlerTyped
<1>6. QED
  BY <1>3, <1>4, <1>5 DEF Create

\* StartShare keeps the types, also when the address lookup fails.
LEMMA StartShareStep ==
    ASSUME TypeOK, NEW c \in Clients, StartShare(c)
    PROVE  TypeOK'
<1>1. Typed(hub) /\ hub.connected = connected /\ hub.rooms = rooms
  BY HubTyped DEF hub
<1>2. c \in DOMAIN connected /\ UNCHANGED arrived
  BY DEF StartShare, Accepts
<1>3. CASE Become(Disconnect(hub, c))
  BY <1>2, <1>3, DisconnectStep
<1>4. CASE HasRoom(c)
  <2> DEFINE r      == connected[c]
             shared == Deref(hub, r, c, SetStreaming(hub, r, c, TRUE))
             pairs  == {c} \X Others(Room(c), c)
             left   == Disconnect(shared, c)
             made   == NewSessions(shared, r, pairs)
             told   == NotifyInfoChanged(made, r)
  <2>1. r \in DOMAIN hub.rooms
    BY <1>1, <1>4 DEF HasRoom
  <2> HIDE DEF r
  <2>2. /\ Typed(shared)
        /\ shared.connected = connected
        /\ DOMAIN shared.rooms = DOMAIN hub.rooms
    <3>1. CASE c \in DOMAIN hub.rooms[r].users
      <4> DEFINE k == SetStreaming(hub, r, c, TRUE)
      <4>1. shared = k
        BY <3>1 DEF Deref
      <4>2. /\ Typed(k)
            /\ k.connected = hub.connected
            /\ k.rooms = WithUsers(hub.rooms, r, Put(hub.rooms[r].users, c,
                            Streaming(hub.rooms[r].users[c], TRUE)))
        BY <1>1, <2>1, <3>1, SetStreamingTyped
      <4> HIDE DEF k
      <4>3. QED
        BY <1>1, <4>1, <4>2 DEF WithUsers
    <3>2. CASE c \notin DOMAIN hub.rooms[r].users
      <4>1. shared = [hub EXCEPT !.panicked = TRUE]
        BY <3>2 DEF Deref
      <4>2. QED
        BY <1>1, <4>1, PanicTyped
    <3>3. QED BY <3>1, <3>2
  <2> HIDE DEF shared
  <2>3. pairs \in SUBSET (Clients \X Clients)
    <3>1. Room(c) = hub.rooms[r]
      BY <1>1 DEF Room, r
    <3>2. DOMAIN Room(c).users \subseteq Clients
      BY <1>1, <2>1, <3>1, RoomFields DEF IsMap
    <3>3. QED BY <3>2 DEF Others
  <2> HIDE DEF pairs
  <2>4. Typed(left) /\ Departed(shared, c, left)
    BY <1>2, <2>2, DisconnectTyped
  <2>5. /\ Typed(made)
        /\ made.connected = shared.connected
        /\ made.rooms = WithSessions(shared.rooms, r,
                           shared.rooms[r].sessions \cup Made(shared, pairs))
    BY <2>1, <2>2, <2>3, NewSessionsTyped
  <2> HIDE DEF left, made
  <2>6. r \in DOMAIN made.rooms
    BY <2>1, <2>2, <2>5 DEF WithSessions
  <2>7. Typed(told) /\ Alike(made, told)
    BY <2>5, <2>6, NotifyTyped
  <2> HIDE DEF told
  <2>8. /\ DOMAIN left.connected \subseteq DOMAIN connected
        /\ DOMAIN told.connected \subseteq DOMAIN connected
    BY <2>2, <2>4, <2>5, <2>7 DEF Departed, Alike
  <2>9. Become(left) => TypeOK'
    BY <1>2, <2>4, <2>8, HandlerTyped
  <2>10. Become(told) => TypeOK'
    BY <1>2, <2>7, <2>8, HandlerTyped
  <2>11. Become(Disconnect(hub, c)) \/ Become(left) \/ Become(told)
    BY DEF StartShare, left, told, made, pairs, shared, r
  <2>12. QED
    BY <1>3, <2>9, <2>10, <2>11
<1>5. QED
  BY <1>3, <1>4 DEF StartShare
\* StopShare keeps the types.
LEMMA StopShareStep ==
    ASSUME TypeOK, NEW c \in Clients, StopShare(c)
    PROVE  TypeOK'
<1>1. Typed(hub) /\ hub.connected = connected /\ hub.rooms = rooms
  BY HubTyped DEF hub
<1>2. c \in DOMAIN connected /\ UNCHANGED arrived
  BY DEF StopShare, Accepts
<1>3. CASE Become(Disconnect(hub, c))
  BY <1>2, <1>3, DisconnectStep
<1>4. CASE HasRoom(c)
  <2> DEFINE r     == connected[c]
             quiet == SetStreaming(hub, r, c, FALSE)
             shut  == CloseHostSessions(quiet, r, c)
             told  == NotifyInfoChanged(shut, r)
  <2>1. r \in DOMAIN hub.rooms
    BY <1>1, <1>4 DEF HasRoom
  <2>2. Become(Disconnect(hub, c)) \/ Become(Deref(hub, r, c, told))
    BY DEF StopShare, StopSharing
  <2> HIDE DEF r
  <2>3. CASE c \in DOMAIN hub.rooms[r].users
    <3>1. /\ Typed(quiet)
          /\ quiet.connected = hub.connected
          /\ quiet.rooms = WithUsers(hub.rooms, r, Put(hub.rooms[r].users, c,
                             Streaming(hub.rooms[r].users[c], FALSE)))
      BY <1>1, <2>1, <2>3, SetStreamingTyped
    <3>2. Deref(hub, r, c, told) = told
      BY <2>3 DEF Deref
    <3> HIDE DEF quiet
    <3>3. r \in DOMAIN quiet.rooms
      BY <2>1, <3>1 DEF WithUsers
    <3>4. /\ Typed(shut)
          /\ shut.connected = quiet.connected
          /\ shut.rooms = WithSessions(quiet.rooms, r,
                quiet.rooms[r].sessions \ HostedBy(quiet.rooms[r], c))
      BY <3>1, <3>3, CloseHostTyped
    <3> HIDE DEF shut
    <3>5. r \in DOMAIN shut.rooms
      BY <3>3, <3>4 DEF WithSessions
    <3>6. Typed(told) /\ Alike(shut, told)
      BY <3>4, <3>5, NotifyTyped
    <3> HIDE DEF told
    <3>7. DOMAIN told.connected \subseteq DOMAIN connected
      BY <1>1, <3>1, <3>4, <3>6 DEF Alike
    <3>8. QED
      BY <1>2, <1>3, <2>2, <3>2, <3>6, <3>7, HandlerTyped
  <2>4. CASE c \notin DOMAIN hub.rooms[r].users
    <3> DEFINE k == [hub EXCEPT !.panicked = TRUE]
    <3>1. Deref(hub, r, c, told) = k
      BY <2>4 DEF Deref
    <3>2. Typed(k) /\ k.connected = connected
      BY <1>1, PanicTyped
    <3> HIDE DEF k
    <3>3. QED
      BY <1>2, <1>3, <2>2, <3>1, <3>2, HandlerTyped
  <2>5. QED BY <2>3, <2>4
<1>5. QED
  BY <1>3, <1>4 DEF StopShare

\* Name keeps the types.
LEMMA NameStep ==
    ASSUME TypeOK, NEW c \in Clients, Name(c)
    PROVE  TypeOK'
<1>1. Typed(hub) /\ hub.connected = connected /\ hub.rooms = rooms
  BY HubTyped DEF hub
<1>2. c \in DOMAIN connected /\ UNCHANGED arrived
  BY DEF Name, Accepts
<1>3. CASE Become(Disconnect(hub, c))
  BY <1>2, <1>3, DisconnectStep
<1>4. ASSUME HasRoom(c), NEW name \in Names,
             Become(Deref(hub, connected[c], c,
                 NotifyInfoChanged(
                    [hub EXCEPT !.rooms[connected[c]].users[c].name = name],
                    connected[c])))
      PROVE  TypeOK'
  <2> DEFINE r     == connected[c]
             user  == [hub.rooms[r].users[c] EXCEPT !.name = name]
             named == [hub EXCEPT !.rooms[r].users[c] = user]
             told  == NotifyInfoChanged(named, r)
  <2>1. r \in DOMAIN hub.rooms
    BY <1>1, <1>4 DEF HasRoom
  <2>2. Become(Deref(hub, r, c, told))
    BY <1>4
  <2> HIDE DEF r
  <2>3. CASE c \in DOMAIN hub.rooms[r].users
    <3>1. hub.rooms[r].users[c] \in User
      BY <1>1, <2>1, <2>3, RoomFields DEF IsMap
    <3>2. user \in User
      BY <3>1 DEF User
    <3>3. Deref(hub, r, c, told) = told
      BY <2>3 DEF Deref
    <3> HIDE DEF user
    <3>4. /\ Typed(named)
          /\ named.connected = hub.connected
          /\ named.rooms = WithUsers(hub.rooms, r, Put(hub.rooms[r].users, c, user))
      BY <1>1, <2>1, <2>3, <3>2, UserTyped
    <3> HIDE DEF named
    <3>5. r \in DOMAIN named.rooms
      BY <2>1, <3>4 DEF WithUsers
    <3>6. Typed(told) /\ Alike(named, told)
      BY <3>4, <3>5, NotifyTyped
    <3> HIDE DEF told
    <3>7. DOMAIN told.connected \subseteq DOMAIN connected
      BY <1>1, <3>4, <3>6 DEF Alike
    <3>8. QED
      BY <1>2, <2>2, <3>3, <3>6, <3>7, HandlerTyped
  <2>4. CASE c \notin DOMAIN hub.rooms[r].users
    <3> DEFINE k == [hub EXCEPT !.panicked = TRUE]
    <3>1. Deref(hub, r, c, told) = k
      BY <2>4 DEF Deref
    <3>2. Typed(k) /\ k.connected = connected
      BY <1>1, PanicTyped
    <3> HIDE DEF k
    <3>3. QED
      BY <1>2, <2>2, <3>1, <3>2, HandlerTyped
  <2>5. QED BY <2>3, <2>4
<1>5. QED
  BY <1>3, <1>4 DEF Name

\* The four relays only send, disconnect or panic.
LEMMA RelayStep ==
    ASSUME TypeOK, NEW c \in Clients, NEW role, NEW s \in KnownSessions,
           Relay(c, role, s)
    PROVE  TypeOK'
<1> DEFINE r   == connected[c]
           to  == IF role = "host" THEN s.client ELSE s.host
           msg == [to |-> to, type |-> "relay", sid |-> s]
           k   == Send(hub, {msg})
           p   == [hub EXCEPT !.panicked = TRUE]
<1>1. Typed(hub) /\ hub.connected = connected /\ hub.rooms = rooms
  BY HubTyped DEF hub
<1>2. c \in DOMAIN connected /\ UNCHANGED arrived
  BY DEF Relay, Accepts
<1>3. s \in Session
  BY <1>1, RoomFields DEF KnownSessions
<1>4. {msg} \in SUBSET Message
  BY <1>3 DEF Message, Session
<1>5. Typed(k) /\ Alike(hub, k)
  BY <1>1, <1>4, SendTyped
<1>6. Typed(p) /\ p.connected = connected
  BY <1>1, PanicTyped
<1>7. Deref(hub, r, to, k) = k \/ Deref(hub, r, to, k) = p
  BY DEF Deref
<1>8. \/ Become(Disconnect(hub, c))
      \/ Become(hub)
      \/ Become(Deref(hub, r, to, k))
  BY DEF Relay
<1> HIDE DEF k, p
<1>9. DOMAIN k.connected \subseteq DOMAIN connected
  BY <1>1, <1>5 DEF Alike
<1>10. CASE Become(Disconnect(hub, c))
  BY <1>2, <1>10, DisconnectStep
<1>11. CASE Become(hub)
  BY <1>1, <1>2, <1>11, HandlerTyped
<1>12. CASE Become(k)
  BY <1>2, <1>5, <1>9, <1>12, HandlerTyped
<1>13. CASE Become(p)
  BY <1>2, <1>6, <1>13, HandlerTyped
<1>14. QED
  BY <1>7, <1>8, <1>10, <1>11, <1>12, <1>13

\* Disconnected keeps the types.
LEMMA DisconnectedStep ==
    ASSUME TypeOK, NEW c \in Clients, Disconnected(c)
    PROVE  TypeOK'
BY DisconnectStep DEF Disconnected, Accepts

\* An empty registry is well typed.
LEMMA InitTyped == Init => TypeOK
<1> SUFFICES ASSUME Init PROVE TypeOK
  OBVIOUS
<1>1. DOMAIN connected = {} /\ DOMAIN rooms = {}
  BY DEF Init
<1>2. IsMap(connected, Clients, RoomIDs \cup {NoRoom}) /\ IsMap(rooms, RoomIDs, RoomRecord)
  BY <1>1 DEF IsMap, Init
<1>3. outbox \in Seq(SUBSET Message)
  BY DEF Init
<1>4. QED
  BY <1>1, <1>2, <1>3 DEF Init, TypeOK

\* Every handler keeps the registry well typed, and gives the sessions it
\* makes a name of their own: no session is ever mistaken for another.
THEOREM TypeCorrect == Spec => []TypeOK
<1>1. TypeOK /\ [Next]_vars => TypeOK'
  <2> SUFFICES ASSUME TypeOK, [Next]_vars
               PROVE  TypeOK'
    OBVIOUS
  <2>1. CASE UNCHANGED vars
    BY <2>1 DEF TypeOK, vars
  <2>2. ASSUME NEW c \in Clients, Connected(c)
        PROVE  TypeOK'
    BY <2>2, ConnectedStep
  <2>3. ASSUME NEW c \in Clients, NEW r \in RoomIDs, NEW mode \in Modes,
               NEW close \in BOOLEAN, NEW joinIfExist \in BOOLEAN,
               Create(c, r, mode, close, joinIfExist)
        PROVE  TypeOK'
    BY <2>3, CreateStep
  <2>4. ASSUME NEW c \in Clients, NEW r \in RoomIDs, Join(c, r)
        PROVE  TypeOK'
    BY <2>4, JoinStep
  <2>5. ASSUME NEW c \in Clients, StartShare(c)
        PROVE  TypeOK'
    BY <2>5, StartShareStep
  <2>6. ASSUME NEW c \in Clients, StopShare(c)
        PROVE  TypeOK'
    BY <2>6, StopShareStep
  <2>7. ASSUME NEW c \in Clients, Name(c)
        PROVE  TypeOK'
    BY <2>7, NameStep
  <2>8. ASSUME NEW c \in Clients, NEW role \in {"host", "client"},
               NEW s \in KnownSessions, Relay(c, role, s)
        PROVE  TypeOK'
    BY <2>8, RelayStep
  <2>9. ASSUME NEW c \in Clients, Disconnected(c)
        PROVE  TypeOK'
    BY <2>9, DisconnectedStep
  <2>10. QED
    BY <2>1, <2>2, <2>3, <2>4, <2>5, <2>6, <2>7, <2>8, <2>9 DEF Next
<1>2. QED
  BY <1>1, InitTyped, PTL DEF Spec
-----------------------------------------------------------------------------
(* The registry invariants.  They are proved together: who is in a room      *)
(* decides whose sessions end, and a relay is safe because the ends of each  *)
(* session are in its room.  Of a hub state that Disconnect is about to tidy *)
(* up (TurnIPProvider.Get has failed half-way) less is true: the sessions of *)
(* the client that will leave need not agree with what it streams.           *)

Placed(h) ==
    \A c \in Clients, r \in RoomIDs :
        Inside(h, r, c) <=> (c \in DOMAIN h.connected /\ h.connected[c] = r)

OwnedRoom(room) ==
    /\ DOMAIN room.users # {}
    /\ \A u, v \in Owners(room) : u = v
    /\ room.closeOnOwnerLeave => Owners(room) # {}

\* v has a session with the stream of u; v should have one.
Watches(room, u, v) == \E s \in room.sessions : s.host = u /\ s.client = v

Streams(room, u, v) ==
    /\ u \in DOMAIN room.users
    /\ v \in DOMAIN room.users
    /\ u # v
    /\ room.users[u].streaming

StreamedRoom(room) ==
    \A u, v \in Clients : Watches(room, u, v) <=> Streams(room, u, v)

StreamedBut(room, c) ==
    \A u, v \in Clients :
        c \notin {u, v} => (Watches(room, u, v) <=> Streams(room, u, v))

Sound(h) ==
    /\ Placed(h)
    /\ \A r \in DOMAIN h.rooms : OwnedRoom(h.rooms[r])
    /\ \A r \in DOMAIN h.rooms : StreamedRoom(h.rooms[r])
    /\ ~h.panicked

SoundBut(h, c) ==
    /\ Placed(h)
    /\ \A r \in DOMAIN h.rooms : OwnedRoom(h.rooms[r])
    /\ \A r \in DOMAIN h.rooms : StreamedBut(h.rooms[r], c)
    /\ \A r \in DOMAIN h.rooms : ~Inside(h, r, c) => StreamedRoom(h.rooms[r])
    /\ ~h.panicked

\* A sound registry needs no repair.
LEMMA SoundIsSoundBut ==
    ASSUME NEW h, Sound(h), NEW c
    PROVE  SoundBut(h, c)
BY DEF Sound, SoundBut, StreamedRoom, StreamedBut

\* Sending and counting leave a sound registry sound.
LEMMA AlikeSound ==
    ASSUME NEW h, NEW k, Sound(h), Alike(h, k)
    PROVE  Sound(k)
BY DEF Sound, Alike, Placed, Inside

\* What is left of the room when c is out of it.
LEMMA WithoutRoom ==
    ASSUME NEW h, Typed(h), NEW r, NEW c, Inside(h, r, c)
    PROVE  LET old == h.rooms[r]
               new == Without(h, r, c)[r]
           IN  /\ DOMAIN Without(h, r, c) = DOMAIN h.rooms
               /\ \A q \in DOMAIN h.rooms : q # r => Without(h, r, c)[q] = h.rooms[q]
               /\ new.closeOnOwnerLeave = old.closeOnOwnerLeave
               /\ new.sessions = {s \in old.sessions : c \notin {s.host, s.client}}
               /\ DOMAIN new.users = DOMAIN old.users \ {c}
               /\ \A u \in DOMAIN new.users : new.users[u] = old.users[u]
<1> DEFINE old == h.rooms[r]
           X   == old.sessions \ SessionsWith(old, c)
           U   == Drop(old.users, {c})
           mid == WithSessions(h.rooms, r, X)
           fin == WithUsers(mid, r, U)
<1>1. r \in DOMAIN h.rooms /\ IsMap(h.rooms, RoomIDs, RoomRecord)
  BY DEF Inside, Typed
<1>2. X \in SUBSET Session
  BY <1>1, RoomFields
<1>3. X = {s \in old.sessions : c \notin {s.host, s.client}}
  BY DEF SessionsWith
<1>4. /\ IsMap(U, Clients, User)
      /\ DOMAIN U = DOMAIN old.users \ {c}
      /\ \A u \in DOMAIN U : U[u] = old.users[u]
  <2>1. IsMap(old.users, Clients, User)
    BY <1>1, RoomFields
  <2> HIDE DEF old
  <2>2. IsMap(U, Clients, User)
    BY <2>1, DropMap
  <2>3. QED
    BY <2>2 DEF Drop
<1>5. Without(h, r, c) = fin
  BY DEF Without
<1> HIDE DEF X, U
<1>6. /\ IsMap(mid, RoomIDs, RoomRecord)
      /\ DOMAIN mid = DOMAIN h.rooms
      /\ mid[r].sessions = X
      /\ mid[r].closeOnOwnerLeave = old.closeOnOwnerLeave
      /\ \A q \in DOMAIN h.rooms : q # r => mid[q] = h.rooms[q]
  BY <1>1, <1>2, WithSessionsMap
<1> HIDE DEF mid
<1>7. /\ DOMAIN fin = DOMAIN mid
      /\ fin[r].users = U
      /\ fin[r].sessions = mid[r].sessions
      /\ fin[r].closeOnOwnerLeave = mid[r].closeOnOwnerLeave
      /\ \A q \in DOMAIN mid : q # r => fin[q] = mid[q]
  BY <1>1, <1>4, <1>6, WithUsersMap
<1> HIDE DEF fin, old
<1>8. QED
  BY <1>3, <1>4, <1>5, <1>6, <1>7 DEF old

\* Disconnect repairs what is amiss with the client it removes, and leaves
\* nothing of it behind.
LEMMA DepartSound ==
    ASSUME NoRoom \notin RoomIDs,
           NEW h, Typed(h), NEW c \in Clients, c \in DOMAIN h.connected,
           SoundBut(h, c), NEW k, Departed(h, c, k)
    PROVE  Sound(k)
<1> DEFINE r == h.connected[c]
<1>1. /\ DOMAIN h.connected \subseteq Clients
      /\ DOMAIN h.rooms \subseteq RoomIDs
      /\ r \in RoomIDs \cup {NoRoom}
  BY DEF Typed, IsMap
<1>2. /\ Placed(h)
      /\ \A q \in DOMAIN h.rooms : OwnedRoom(h.rooms[q])
      /\ \A q \in DOMAIN h.rooms : StreamedBut(h.rooms[q], c)
      /\ \A q \in DOMAIN h.rooms : ~Inside(h, q, c) => StreamedRoom(h.rooms[q])
      /\ ~k.panicked
  BY DEF SoundBut, Departed
<1>3. \A q \in DOMAIN h.rooms : q # r => ~Inside(h, q, c)
  BY <1>1, <1>2 DEF Placed
<1>4. Drop(h.connected, {c}) = [d \in DOMAIN h.connected \ {c} |-> h.connected[d]]
  BY DEF Drop
<1>5. CASE r = NoRoom
  <2>1. k.connected = Drop(h.connected, {c}) /\ k.rooms = h.rooms
    BY <1>5 DEF Departed
  <2>2. Placed(k)
    BY <1>1, <1>2, <1>4, <1>5, <2>1 DEF Placed, Inside
  <2>3. \A q \in DOMAIN h.rooms : ~Inside(h, q, c)
    BY <1>1, <1>3, <1>5
  <2>4. QED
    BY <1>2, <2>1, <2>2, <2>3 DEF Sound
<1>6. CASE r # NoRoom
  <2>1. r \in RoomIDs /\ Inside(h, r, c)
    BY <1>1, <1>2, <1>6 DEF Placed
  <2>2. CASE ClosesFor(h, r, c)
    <3> DEFINE members == DOMAIN h.rooms[r].users
               out == Drop(Drop(h.connected, {c}), members \ {c})
    <3>1. /\ k.connected = out
          /\ DOMAIN k.rooms = DOMAIN h.rooms \ {r}
          /\ \A q \in DOMAIN k.rooms : k.rooms[q] = h.rooms[q]
      BY <1>6, <2>1, <2>2 DEF Departed
    <3>2. /\ DOMAIN out = DOMAIN h.connected \ members
          /\ \A d \in DOMAIN out : out[d] = h.connected[d]
      BY <2>1 DEF Drop, Inside
    <3>3. \A d \in Clients : d \in members <=>
                                 d \in DOMAIN h.connected /\ h.connected[d] = r
      BY <1>2, <2>1 DEF Placed, Inside
    <3> HIDE DEF members, out
    <3>4. ASSUME NEW d \in Clients, NEW q \in RoomIDs
          PROVE  Inside(k, q, d) <=> (d \in DOMAIN k.connected /\ k.connected[d] = q)
      <4>1. CASE q = r
        BY <1>1, <3>1, <3>2, <3>3, <4>1 DEF Inside
      <4>2. CASE q # r
        <5>1. Inside(k, q, d) <=> Inside(h, q, d)
          BY <3>1, <4>2 DEF Inside
        <5>2. Inside(h, q, d) <=> (d \in DOMAIN h.connected /\ h.connected[d] = q)
          BY <1>2 DEF Placed
        <5>3. QED BY <3>1, <3>2, <3>3, <4>2, <5>1, <5>2
      <4>3. QED BY <4>1, <4>2
    <3>5. QED
      BY <1>2, <1>3, <3>1, <3>4 DEF Sound, Placed
  <2>3. CASE ~ClosesFor(h, r, c)
    <3> DEFINE old == h.rooms[r]
               new == k.rooms[r]
    <3>1. k.connected = Drop(h.connected, {c}) /\ k.rooms = Without(h, r, c)
      BY <1>6, <2>1, <2>3 DEF Departed
    <3>2. /\ DOMAIN k.rooms = DOMAIN h.rooms
          /\ \A q \in DOMAIN h.rooms : q # r => k.rooms[q] = h.rooms[q]
          /\ new.closeOnOwnerLeave = old.closeOnOwnerLeave
          /\ new.sessions = {s \in old.sessions : c \notin {s.host, s.client}}
          /\ DOMAIN new.users = DOMAIN old.users \ {c}
          /\ \A u \in DOMAIN new.users : new.users[u] = old.users[u]
      BY <2>1, <3>1, WithoutRoom
    <3>3. Placed(k)
      <4> SUFFICES ASSUME NEW d \in Clients, NEW q \in RoomIDs
                   PROVE  Inside(k, q, d) <=>
                             (d \in DOMAIN k.connected /\ k.connected[d] = q)
        BY DEF Placed
      <4>1. Inside(h, q, d) <=> (d \in DOMAIN h.connected /\ h.connected[d] = q)
        BY <1>2 DEF Placed
      <4>2. Inside(k, q, d) <=> Inside(h, q, d) /\ ~(q = r /\ d = c)
        BY <3>2 DEF Inside
      <4>3. QED BY <1>4, <3>1, <4>1, <4>2
    <3>4. r \in DOMAIN h.rooms /\ c \in DOMAIN old.users
      BY <2>1 DEF Inside
    <3> HIDE DEF old, new
    <3>5. OwnedRoom(new)
      <4>1. OwnedRoom(old)
        BY <1>2, <3>4 DEF old
      <4>2. /\ ~(old.users[c].owner /\ old.closeOnOwnerLeave)
            /\ DOMAIN old.users \ {c} # {}
        BY <2>3 DEF ClosesFor, old
      <4>3. Owners(new) = Owners(old) \ {c}
        BY <3>2 DEF Owners
      <4>4. new.closeOnOwnerLeave => c \notin Owners(old)
        BY <3>2, <4>2 DEF Owners
      <4>5. QED BY <3>2, <4>1, <4>2, <4>3, <4>4 DEF OwnedRoom
    <3>6. StreamedRoom(new)
      <4> SUFFICES ASSUME NEW u \in Clients, NEW v \in Clients
                   PROVE  Watches(new, u, v) <=> Streams(new, u, v)
        BY DEF StreamedRoom
      <4>1. CASE c \in {u, v}
        BY <3>2, <4>1 DEF Watches, Streams
      <4>2. CASE c \notin {u, v}
        <5>1. Watches(old, u, v) <=> Streams(old, u, v)
          BY <1>2, <3>4, <4>2 DEF StreamedBut, old
        <5>2. Watches(new, u, v) <=> Watches(old, u, v)
          BY <3>2, <4>2 DEF Watches
        <5>3. Streams(new, u, v) <=> Streams(old, u, v)
          BY <3>2, <4>2 DEF Streams
        <5>4. QED BY <5>1, <5>2, <5>3
      <4>3. QED BY <4>1, <4>2
    <3>7. QED
      BY <1>2, <1>3, <3>2, <3>3, <3>4, <3>5, <3>6 DEF Sound, new
  <2>4. QED BY <2>2, <2>3
<1>7. QED BY <1>5, <1>6
\* The sessions of a room are set right.
LEMMA SessionsSound ==
    ASSUME NEW h, Typed(h), NEW c \in Clients, SoundBut(h, c),
           NEW r, Inside(h, r, c), NEW X \in SUBSET Session,
           NEW k, k.connected = h.connected, k.panicked = h.panicked,
           k.rooms = WithSessions(h.rooms, r, X),
           \A u, v \in Clients :
              (\E s \in X : s.host = u /\ s.client = v) <=> Streams(h.rooms[r], u, v)
    PROVE  Sound(k)
<1> DEFINE old == h.rooms[r]
           new == k.rooms[r]
<1>1. /\ r \in DOMAIN h.rooms /\ IsMap(h.rooms, RoomIDs, RoomRecord)
      /\ DOMAIN h.rooms \subseteq RoomIDs
  BY DEF Inside, Typed, IsMap
<1>2. /\ DOMAIN k.rooms = DOMAIN h.rooms
      /\ new.sessions = X
      /\ new.users = old.users
      /\ new.closeOnOwnerLeave = old.closeOnOwnerLeave
      /\ \A q \in DOMAIN h.rooms : q # r => k.rooms[q] = h.rooms[q]
  BY <1>1, WithSessionsMap
<1> HIDE DEF old, new
<1>3. \A q \in RoomIDs, d \in Clients : Inside(k, q, d) <=> Inside(h, q, d)
  BY <1>2 DEF Inside, old, new
<1>4. Placed(h) /\ Placed(k)
  BY <1>3 DEF SoundBut, Placed
<1>5. OwnedRoom(new)
  <2>1. OwnedRoom(old)
    BY <1>1 DEF SoundBut, old
  <2>2. Owners(new) = Owners(old)
    BY <1>2 DEF Owners
  <2>3. QED BY <1>2, <2>1, <2>2 DEF OwnedRoom
<1>6. StreamedRoom(new)
  <2>1. \A u, v \in Clients : Streams(new, u, v) <=> Streams(old, u, v)
    BY <1>2 DEF Streams
  <2>2. QED BY <1>2, <2>1 DEF StreamedRoom, Watches, old
<1>7. \A q \in DOMAIN h.rooms : q # r => ~Inside(h, q, c)
  BY <1>1, <1>4 DEF Placed
<1>8. \A q \in DOMAIN k.rooms : OwnedRoom(k.rooms[q]) /\ StreamedRoom(k.rooms[q])
  BY <1>2, <1>5, <1>6, <1>7 DEF SoundBut, new
<1>9. QED
  BY <1>4, <1>8 DEF Sound, SoundBut

\* newSession for pairs that c belongs to, when they are what is missing.
LEMMA AddSound ==
    ASSUME NEW h, Typed(h), NEW c \in Clients, SoundBut(h, c),
           NEW r, Inside(h, r, c), NEW pairs \in SUBSET (Clients \X Clients),
           \A u, v \in Clients :
              IF c \in {u, v}
              THEN <<u, v>> \in pairs \/ Watches(h.rooms[r], u, v)
                      <=> Streams(h.rooms[r], u, v)
              ELSE <<u, v>> \notin pairs
    PROVE  Sound(NewSessions(h, r, pairs))
<1> DEFINE made == Made(h, pairs)
           old  == h.rooms[r]
           X    == old.sessions \cup made
           k    == NewSessions(h, r, pairs)
<1>1. r \in DOMAIN h.rooms
  BY DEF Inside
<1>2. /\ k.connected = h.connected
      /\ k.rooms = WithSessions(h.rooms, r, X)
      /\ k.panicked = h.panicked
  BY <1>1, NewSessionsTyped
<1>3. /\ made \in SUBSET Session
      /\ \A s \in made : <<s.host, s.client>> \in pairs
      /\ \A p \in pairs : \E s \in made : s.host = p[1] /\ s.client = p[2]
  BY MadeTyped
<1> HIDE DEF made
<1>4. X \in SUBSET Session
  BY <1>1, <1>3, RoomFields
<1>5. ASSUME NEW u \in Clients, NEW v \in Clients
      PROVE  (\E s \in X : s.host = u /\ s.client = v) <=> Streams(old, u, v)
  <2>1. (\E s \in made : s.host = u /\ s.client = v) <=> <<u, v>> \in pairs
    <3>1. ASSUME NEW s \in made, s.host = u, s.client = v
          PROVE  <<u, v>> \in pairs
      BY <1>3, <3>1
    <3>2. ASSUME <<u, v>> \in pairs
          PROVE  \E s \in made : s.host = u /\ s.client = v
      <4>1. <<u, v>>[1] = u /\ <<u, v>>[2] = v
        OBVIOUS
      <4>2. QED BY <1>3, <3>2, <4>1
    <3>3. QED BY <3>1, <3>2
  <2>2. (\E s \in X : s.host = u /\ s.client = v)
           <=> <<u, v>> \in pairs \/ Watches(old, u, v)
    BY <2>1 DEF Watches
  <2>3. CASE c \in {u, v}
    BY <2>2, <2>3
  <2>4. CASE c \notin {u, v}
    <3>1. Watches(old, u, v) <=> Streams(old, u, v)
      BY <1>1, <2>4 DEF SoundBut, StreamedBut
    <3>2. <<u, v>> \notin pairs
      BY <2>4
    <3>3. QED BY <2>2, <3>1, <3>2
  <2>5. QED BY <2>3, <2>4
<1> HIDE DEF X, k, old
<1>6. \A u, v \in Clients :
         (\E s \in X : s.host = u /\ s.client = v) <=> Streams(h.rooms[r], u, v)
  BY <1>5 DEF old
<1>7. Sound(k)
  BY <1>2, <1>4, <1>6, SessionsSound
<1>8. QED
  BY <1>7 DEF k

\* Room r with the user c put into it.
LEMMA PutRoom ==
    ASSUME NEW h, Typed(h), NEW r \in DOMAIN h.rooms, NEW c \in Clients,
           NEW user \in User
    PROVE  LET all == WithUsers(h.rooms, r, Put(h.rooms[r].users, c, user))
               old == h.rooms[r]
               new == all[r]
           IN  /\ DOMAIN all = DOMAIN h.rooms
               /\ \A q \in DOMAIN h.rooms : q # r => all[q] = h.rooms[q]
               /\ new.closeOnOwnerLeave = old.closeOnOwnerLeave
               /\ new.sessions = old.sessions
               /\ DOMAIN new.users = DOMAIN old.users \cup {c}
               /\ new.users[c] = user
               /\ \A u \in DOMAIN old.users : u # c => new.users[u] = old.users[u]
<1> DEFINE old == h.rooms[r]
           U   == Put(old.users, c, user)
           all == WithUsers(h.rooms, r, U)
<1>1. IsMap(h.rooms, RoomIDs, RoomRecord)
  BY DEF Typed
<1>2. IsMap(old.users, Clients, User)
  BY RoomFields
<1> HIDE DEF old
<1>3. /\ IsMap(U, Clients, User)
      /\ DOMAIN U = DOMAIN old.users \cup {c}
      /\ U[c] = user
      /\ \A u \in DOMAIN old.users : u # c => U[u] = old.users[u]
  <2>1. IsMap(U, Clients, User)
    BY <1>2, PutMap
  <2>2. QED
    BY <2>1 DEF Put
<1> HIDE DEF U
<1>4. /\ DOMAIN all = DOMAIN h.rooms
      /\ all[r].users = U
      /\ all[r].sessions = old.sessions
      /\ all[r].closeOnOwnerLeave = old.closeOnOwnerLeave
      /\ \A q \in DOMAIN h.rooms : q # r => all[q] = h.rooms[q]
  BY <1>1, <1>3, WithUsersMap DEF old
<1> HIDE DEF all
<1>5. QED
  BY <1>3, <1>4 DEF all, U, old

\* A user changes, but not whether it owns the room.
LEMMA UserSound ==
    ASSUME NEW h, Typed(h), Sound(h), NEW r, NEW c \in Clients, Inside(h, r, c),
           NEW user \in User, user.owner = h.rooms[r].users[c].owner,
           NEW k, k.connected = h.connected, k.panicked = h.panicked,
           k.rooms = WithUsers(h.rooms, r, Put(h.rooms[r].users, c, user))
    PROVE  /\ SoundBut(k, c)
           /\ user.streaming = h.rooms[r].users[c].streaming => Sound(k)
<1> DEFINE old == h.rooms[r]
           new == k.rooms[r]
<1>1. r \in DOMAIN h.rooms /\ DOMAIN h.rooms \subseteq RoomIDs
      /\ c \in DOMAIN old.users
  BY DEF Inside, Typed, IsMap
<1>2. /\ DOMAIN k.rooms = DOMAIN h.rooms
      /\ \A q \in DOMAIN h.rooms : q # r => k.rooms[q] = h.rooms[q]
      /\ new.closeOnOwnerLeave = old.closeOnOwnerLeave
      /\ new.sessions = old.sessions
      /\ DOMAIN new.users = DOMAIN old.users \cup {c}
      /\ new.users[c] = user
      /\ \A u \in DOMAIN old.users : u # c => new.users[u] = old.users[u]
  <2>1. PICK all : all = WithUsers(h.rooms, r, Put(h.rooms[r].users, c, user))
    OBVIOUS
  <2>2. /\ DOMAIN all = DOMAIN h.rooms
        /\ \A q \in DOMAIN h.rooms : q # r => all[q] = h.rooms[q]
        /\ all[r].closeOnOwnerLeave = old.closeOnOwnerLeave
        /\ all[r].sessions = old.sessions
        /\ DOMAIN all[r].users = DOMAIN old.users \cup {c}
        /\ all[r].users[c] = user
        /\ \A u \in DOMAIN old.users : u # c => all[r].users[u] = old.users[u]
    BY ONLY Typed(h), <1>1, <2>1, PutRoom
  <2> QED BY ONLY k.rooms = WithUsers(h.rooms, r, Put(h.rooms[r].users, c, user)), <2>1, <2>2
<1>3. OwnedRoom(old) /\ StreamedRoom(old) /\ user.owner = old.users[c].owner
  BY <1>1 DEF Sound
<1>4. \A q \in RoomIDs, d \in Clients : Inside(k, q, d) <=> Inside(h, q, d)
  BY <1>1, <1>2 DEF Inside
<1>5. Placed(k)
  BY <1>4 DEF Sound, Placed
<1>6. (user.streaming = h.rooms[r].users[c].streaming)
         <=> (user.streaming = old.users[c].streaming)
  OBVIOUS
<1> HIDE DEF old, new
<1>7. OwnedRoom(new)
  <2>1. Owners(new) = Owners(old)
    BY <1>1, <1>2, <1>3 DEF Owners
  <2>2. QED BY <1>1, <1>2, <1>3, <2>1 DEF OwnedRoom
<1>8. \A u, v \in Clients : u # c \/ user.streaming = old.users[c].streaming =>
         (Streams(new, u, v) <=> Streams(old, u, v))
  BY <1>1, <1>2 DEF Streams
<1>9. \A u, v \in Clients : Watches(new, u, v) <=> Watches(old, u, v)
  BY <1>2 DEF Watches
<1>10. StreamedBut(new, c)
  BY <1>3, <1>8, <1>9 DEF StreamedRoom, StreamedBut
<1>11. user.streaming = old.users[c].streaming => StreamedRoom(new)
  BY <1>3, <1>8, <1>9 DEF StreamedRoom
<1>12. /\ \A q \in DOMAIN k.rooms : OwnedRoom(k.rooms[q])
       /\ \A q \in DOMAIN k.rooms : q # r => StreamedRoom(k.rooms[q])
       /\ ~k.panicked
  BY <1>2, <1>7 DEF Sound, new
<1>13. \A q \in DOMAIN k.rooms : StreamedBut(k.rooms[q], c)
  BY <1>10, <1>12 DEF new, StreamedRoom, StreamedBut
<1>14. Inside(k, r, c)
  BY <1>1, <1>4
<1>15. SoundBut(k, c)
  BY <1>5, <1>12, <1>13, <1>14 DEF SoundBut
<1>16. user.streaming = old.users[c].streaming => Sound(k)
  BY <1>5, <1>11, <1>12 DEF Sound, new
<1>17. QED
  BY <1>6, <1>15, <1>16
\* A client without a room gets one, in both registries.
LEMMA EnterPlaced ==
    ASSUME NoRoom \notin RoomIDs,
           NEW h, Typed(h), Placed(h), NEW c \in Clients, c \in DOMAIN h.connected,
           h.connected[c] = NoRoom, NEW r \in DOMAIN h.rooms, NEW user \in User,
           NEW k, k.connected = Put(h.connected, c, r),
           k.rooms = WithUsers(h.rooms, r, Put(h.rooms[r].users, c, user))
    PROVE  Placed(k) /\ \A q \in RoomIDs : ~Inside(h, q, c)
<1> DEFINE old == h.rooms[r]
           new == k.rooms[r]
<1>1. \A q \in RoomIDs : ~Inside(h, q, c)
  BY DEF Placed
<1>2. /\ DOMAIN k.rooms = DOMAIN h.rooms
      /\ \A q \in DOMAIN h.rooms : q # r => k.rooms[q] = h.rooms[q]
      /\ DOMAIN new.users = DOMAIN old.users \cup {c}
  BY PutRoom
<1>3. /\ DOMAIN k.connected = DOMAIN h.connected \cup {c}
      /\ k.connected[c] = r
      /\ \A d \in DOMAIN h.connected : d # c => k.connected[d] = h.connected[d]
  BY DEF Put
<1>4. r \in RoomIDs
  BY RoomFields
<1>5. ASSUME NEW d \in Clients, NEW q \in RoomIDs
      PROVE  Inside(k, q, d) <=> (d \in DOMAIN k.connected /\ k.connected[d] = q)
  <2>1. Inside(h, q, d) <=> (d \in DOMAIN h.connected /\ h.connected[d] = q)
    BY DEF Placed
  <2>2. CASE d # c
    <3>1. Inside(k, q, d) <=> Inside(h, q, d)
      BY <1>2, <2>2 DEF Inside
    <3>2. QED BY <1>3, <2>1, <2>2, <3>1
  <2>3. CASE d = c
    <3>1. Inside(k, q, c) <=> q = r
      <4>1. CASE q = r
        BY <1>2, <4>1 DEF Inside
      <4>2. CASE q # r
        BY <1>1, <1>2, <4>2 DEF Inside
      <4>3. QED BY <4>1, <4>2
    <3>2. QED BY <1>3, <2>3, <3>1
  <2>4. QED BY <2>2, <2>3
<1>6. QED
  BY <1>1, <1>5 DEF Placed

\* Join: the new user owns nothing and shares nothing, so only the sessions
\* with those who share already are missing.
LEMMA JoinSound ==
    ASSUME NoRoom \notin RoomIDs,
           NEW h, Typed(h), Sound(h), NEW c \in Clients, c \in DOMAIN h.connected,
           h.connected[c] = NoRoom, NEW r \in DOMAIN h.rooms, NEW name \in Names
    PROVE  LET k     == Enter(h, c, r, name, FALSE)
               pairs == (Streamers(k.rooms[r]) \ {c}) \X {c}
           IN  SoundBut(k, c) /\ Sound(NewSessions(k, r, pairs))
<1> DEFINE user  == NewUser(name, FALSE)
           k     == Enter(h, c, r, name, FALSE)
           pairs == (Streamers(k.rooms[r]) \ {c}) \X {c}
           old   == h.rooms[r]
           new   == k.rooms[r]
<1>1. user \in User /\ user.owner = FALSE /\ user.streaming = FALSE
  BY DEF User, NewUser
<1>2. /\ Typed(k)
      /\ k.connected = Put(h.connected, c, r)
      /\ k.rooms = WithUsers(h.rooms, r, Put(h.rooms[r].users, c, user))
      /\ k.panicked = h.panicked
  BY EnterTyped
<1> HIDE DEF k, user
<1>3. Placed(h) /\ OwnedRoom(old) /\ StreamedRoom(old) /\ r \in RoomIDs
  BY RoomFields DEF Sound
<1>4. Placed(k) /\ \A q \in RoomIDs : ~Inside(h, q, c)
  BY <1>1, <1>2, <1>3, EnterPlaced
<1>5. /\ DOMAIN k.rooms = DOMAIN h.rooms
      /\ \A q \in DOMAIN h.rooms : q # r => k.rooms[q] = h.rooms[q]
      /\ new.closeOnOwnerLeave = old.closeOnOwnerLeave
      /\ new.sessions = old.sessions
      /\ DOMAIN new.users = DOMAIN old.users \cup {c}
      /\ new.users[c] = user
      /\ \A u \in DOMAIN old.users : u # c => new.users[u] = old.users[u]
  <2>1. k.rooms = WithUsers(h.rooms, r, Put(h.rooms[r].users, c, user))
        /\ user \in User
    BY <1>1, <1>2
  <2>2. QED BY <2>1, PutRoom
<1>6. c \notin DOMAIN old.users
  BY <1>3, <1>4 DEF Inside
<1>7. Inside(k, r, c)
  BY <1>5 DEF Inside
<1>8. DOMAIN new.users \subseteq Clients
  BY <1>2, <1>5, RoomFields DEF IsMap
<1> HIDE DEF old, new
<1>9. OwnedRoom(new)
  <2>1. Owners(new) = Owners(old)
    BY <1>1, <1>5, <1>6 DEF Owners
  <2>2. QED BY <1>3, <1>5, <2>1 DEF OwnedRoom
<1>10. \A u, v \in Clients : Watches(new, u, v) <=> Watches(old, u, v)
  BY <1>5 DEF Watches
<1>11. \A u, v \in Clients : c \notin {u, v} => (Streams(new, u, v) <=> Streams(old, u, v))
  BY <1>5 DEF Streams
<1>12. \A u, v \in Clients : c \in {u, v} => ~Watches(old, u, v)
  BY <1>3, <1>6 DEF StreamedRoom, Streams
<1>13. StreamedBut(new, c)
  BY <1>3, <1>10, <1>11 DEF StreamedRoom, StreamedBut
<1>14. /\ \A q \in DOMAIN k.rooms : OwnedRoom(k.rooms[q])
       /\ \A q \in DOMAIN k.rooms : q # r => StreamedRoom(k.rooms[q])
       /\ ~k.panicked
  BY <1>2, <1>5, <1>9 DEF Sound, new
<1>15. \A q \in DOMAIN k.rooms : StreamedBut(k.rooms[q], c)
  BY <1>13, <1>14 DEF new, StreamedRoom, StreamedBut
<1>16. SoundBut(k, c)
  BY <1>4, <1>7, <1>14, <1>15 DEF SoundBut
<1>17. pairs = {u \in DOMAIN new.users : new.users[u].streaming /\ u # c} \X {c}
  BY DEF Streamers, new
<1> HIDE DEF pairs
<1>18. pairs \in SUBSET (Clients \X Clients)
  BY <1>8, <1>17
<1>19. ASSUME NEW u \in Clients, NEW v \in Clients
       PROVE  IF c \in {u, v}
              THEN <<u, v>> \in pairs \/ Watches(new, u, v) <=> Streams(new, u, v)
              ELSE <<u, v>> \notin pairs
  <2>1. <<u, v>> \in pairs <=>
           v = c /\ u # c /\ u \in DOMAIN new.users /\ new.users[u].streaming
    BY <1>17
  <2>2. Streams(new, u, v) <=>
           /\ u \in DOMAIN new.users /\ v \in DOMAIN new.users
           /\ u # v /\ new.users[u].streaming
    BY DEF Streams
  <2>3. CASE c \in {u, v}
    <3>1. ~Watches(new, u, v)
      BY <1>10, <1>12, <2>3
    <3>2. ~new.users[c].streaming /\ c \in DOMAIN new.users
      BY <1>1, <1>5
    <3>3. QED BY <2>1, <2>2, <2>3, <3>1, <3>2
  <2>4. CASE c \notin {u, v}
    BY <2>1, <2>4
  <2>5. QED BY <2>3, <2>4
<1>20. Sound(NewSessions(k, r, pairs))
  BY <1>2, <1>7, <1>16, <1>18, <1>19, AddSound DEF new
<1>21. QED
  BY <1>16, <1>20 DEF pairs, k

\* Create: the room has one user, its owner.
LEMMA CreateSound ==
    ASSUME NoRoom \notin RoomIDs,
           NEW h, Typed(h), Sound(h), NEW c \in Clients, c \in DOMAIN h.connected,
           h.connected[c] = NoRoom, NEW r \in RoomIDs, r \notin DOMAIN h.rooms,
           NEW name \in Names, NEW mode \in Modes, NEW close \in BOOLEAN
    PROVE  Sound(Enter(OpenRoom(h, r, mode, close), c, r, name, TRUE))
<1> DEFINE room   == EmptyRoom(mode, close)
           opened == OpenRoom(h, r, mode, close)
           user   == NewUser(name, TRUE)
           k      == Enter(opened, c, r, name, TRUE)
           new    == k.rooms[r]
<1>1. user \in User /\ user.owner = TRUE
  BY DEF User, NewUser
<1>2. /\ Typed(opened)
      /\ opened.connected = h.connected
      /\ opened.rooms = Put(h.rooms, r, room)
      /\ opened.panicked = h.panicked
  BY OpenRoomTyped
<1>3. DOMAIN room.users = {} /\ room.sessions = {}
  BY DEF EmptyRoom, NoUsers
<1> HIDE DEF opened, room
<1>4. /\ DOMAIN opened.rooms = DOMAIN h.rooms \cup {r}
      /\ opened.rooms[r] = room
      /\ \A q \in DOMAIN h.rooms : opened.rooms[q] = h.rooms[q]
  BY <1>2 DEF Put
<1>5. r \in DOMAIN opened.rooms
  BY <1>4
<1>6. Placed(opened)
  <2> SUFFICES ASSUME NEW d \in Clients, NEW q \in RoomIDs
               PROVE  Inside(opened, q, d) <=>
                         (d \in DOMAIN h.connected /\ h.connected[d] = q)
    BY <1>2 DEF Placed
  <2>1. Inside(h, q, d) <=> (d \in DOMAIN h.connected /\ h.connected[d] = q)
    BY DEF Sound, Placed
  <2>2. Inside(opened, q, d) <=> Inside(h, q, d)
    <3>1. CASE q = r
      BY <1>3, <1>4, <3>1 DEF Inside
    <3>2. CASE q # r
      BY <1>4, <3>2 DEF Inside
    <3>3. QED BY <3>1, <3>2
  <2>3. QED BY <2>1, <2>2
<1>7. /\ Typed(k)
      /\ k.connected = Put(opened.connected, c, r)
      /\ k.rooms = WithUsers(opened.rooms, r, Put(opened.rooms[r].users, c, user))
      /\ k.panicked = opened.panicked
  BY <1>2, <1>5, EnterTyped
<1> HIDE DEF k, user
<1>8. c \in DOMAIN opened.connected /\ opened.connected[c] = NoRoom
  BY <1>2
<1>9. Placed(k)
  BY <1>1, <1>2, <1>5, <1>6, <1>7, <1>8, EnterPlaced
<1>10. /\ DOMAIN k.rooms = DOMAIN opened.rooms
       /\ \A q \in DOMAIN opened.rooms : q # r => k.rooms[q] = opened.rooms[q]
       /\ new.sessions = opened.rooms[r].sessions
       /\ DOMAIN new.users = DOMAIN opened.rooms[r].users \cup {c}
       /\ new.users[c] = user
  <2>1. /\ Typed(opened)
        /\ k.rooms = WithUsers(opened.rooms, r, Put(opened.rooms[r].users, c, user))
        /\ user \in User
    BY <1>1, <1>2, <1>7
  <2>2. QED BY <1>5, <2>1, PutRoom
<1>11. /\ \A q \in DOMAIN h.rooms : k.rooms[q] = h.rooms[q]
       /\ DOMAIN k.rooms = DOMAIN h.rooms \cup {r}
       /\ new.sessions = {}
       /\ DOMAIN new.users = {c}
  BY <1>3, <1>4, <1>10
<1> HIDE DEF new
<1>12. Owners(new) = {c}
  BY <1>1, <1>10, <1>11 DEF Owners
<1>13. OwnedRoom(new) /\ StreamedRoom(new)
  BY <1>11, <1>12 DEF OwnedRoom, StreamedRoom, Watches, Streams
<1>14. QED
  BY <1>2, <1>7, <1>9, <1>11, <1>13 DEF Sound, k, opened, new

\* StartShare: c has a session with every other user, once the ones that
\* are made are added to those it has.
LEMMA ShareSound ==
    ASSUME NEW h, Typed(h), Sound(h), NEW r, NEW c \in Clients, Inside(h, r, c)
    PROVE  LET k     == SetStreaming(h, r, c, TRUE)
               pairs == {c} \X Others(h.rooms[r], c)
           IN  SoundBut(k, c) /\ Sound(NewSessions(k, r, pairs))
<1> DEFINE old   == h.rooms[r]
           user  == Streaming(old.users[c], TRUE)
           k     == SetStreaming(h, r, c, TRUE)
           pairs == {c} \X Others(old, c)
           new   == k.rooms[r]
<1>1. r \in DOMAIN h.rooms /\ c \in DOMAIN old.users
  BY DEF Inside
<1>2. old.users[c] \in User /\ DOMAIN old.users \subseteq Clients
  BY <1>1, RoomFields DEF IsMap
<1>3. user \in User /\ user.owner = old.users[c].owner /\ user.streaming = TRUE
  BY <1>2 DEF User, Streaming
<1>4. /\ Typed(k)
      /\ k.connected = h.connected
      /\ k.rooms = WithUsers(h.rooms, r, Put(old.users, c, user))
      /\ k.panicked = h.panicked
  BY <1>1, SetStreamingTyped
<1> HIDE DEF k, user
<1>5. SoundBut(k, c)
  BY <1>3, <1>4, UserSound
<1>6. /\ DOMAIN k.rooms = DOMAIN h.rooms
      /\ new.sessions = old.sessions
      /\ DOMAIN new.users = DOMAIN old.users \cup {c}
      /\ new.users[c] = user
      /\ \A u \in DOMAIN old.users : u # c => new.users[u] = old.users[u]
  BY <1>1, <1>3, <1>4, PutRoom
<1>7. Inside(k, r, c)
  BY <1>1, <1>6 DEF Inside
<1>8. StreamedRoom(old)
  BY <1>1 DEF Sound
<1>9. pairs \in SUBSET (Clients \X Clients)
  BY <1>2 DEF Others
<1>10. ASSUME NEW u \in Clients, NEW v \in Clients
       PROVE  IF c \in {u, v}
              THEN <<u, v>> \in pairs \/ Watches(new, u, v) <=> Streams(new, u, v)
              ELSE <<u, v>> \notin pairs
  <2> HIDE DEF old, new
  <2>1. <<u, v>> \in pairs <=> u = c /\ v # c /\ v \in DOMAIN old.users
    BY DEF Others
  <2>2. Watches(new, u, v) <=> Streams(old, u, v)
    BY <1>6, <1>8 DEF Watches, StreamedRoom
  <2>3. CASE u = c
    BY <1>1, <1>3, <1>6, <2>1, <2>2, <2>3 DEF Streams
  <2>4. CASE u # c
    BY <1>1, <1>6, <2>1, <2>2, <2>4 DEF Streams
  <2>5. QED BY <2>3, <2>4
<1> HIDE DEF pairs
<1>11. Sound(NewSessions(k, r, pairs))
  BY <1>4, <1>5, <1>7, <1>9, <1>10, AddSound
<1>12. QED
  BY <1>5, <1>11 DEF pairs, k

\* StopShare: the sessions that c hosts end, those it watches stay.
LEMMA StopSound ==
    ASSUME NEW h, Typed(h), Sound(h), NEW r, NEW c \in Clients, Inside(h, r, c)
    PROVE  Sound(StopSharing(h, r, c))
<1> DEFINE old   == h.rooms[r]
           user  == Streaming(old.users[c], FALSE)
           quiet == SetStreaming(h, r, c, FALSE)
           new   == quiet.rooms[r]
           X     == new.sessions \ HostedBy(new, c)
           shut  == CloseHostSessions(quiet, r, c)
<1>1. r \in DOMAIN h.rooms /\ c \in DOMAIN old.users
  BY DEF Inside
<1>2. old.users[c] \in User
  BY <1>1, RoomFields DEF IsMap
<1>3. user \in User /\ user.owner = old.users[c].owner /\ user.streaming = FALSE
  BY <1>2 DEF User, Streaming
<1>4. /\ Typed(quiet)
      /\ quiet.connected = h.connected
      /\ quiet.rooms = WithUsers(h.rooms, r, Put(old.users, c, user))
      /\ quiet.panicked = h.panicked
  BY <1>1, SetStreamingTyped
<1> HIDE DEF quiet, user
<1>5. SoundBut(quiet, c)
  BY <1>3, <1>4, UserSound
<1>6. /\ DOMAIN quiet.rooms = DOMAIN h.rooms
      /\ new.sessions = old.sessions
      /\ DOMAIN new.users = DOMAIN old.users \cup {c}
      /\ new.users[c] = user
      /\ \A u \in DOMAIN old.users : u # c => new.users[u] = old.users[u]
  BY <1>1, <1>3, <1>4, PutRoom
<1>7. Inside(quiet, r, c) /\ r \in DOMAIN quiet.rooms
  BY <1>1, <1>6 DEF Inside
<1>8. /\ Typed(shut)
      /\ shut.connected = quiet.connected
      /\ shut.rooms = WithSessions(quiet.rooms, r, X)
      /\ shut.panicked = quiet.panicked
  BY <1>4, <1>7, CloseHostTyped
<1>9. X \in SUBSET Session
  BY <1>4, <1>7, RoomFields
<1>10. StreamedRoom(old)
  BY <1>1 DEF Sound
<1>11. ASSUME NEW u \in Clients, NEW v \in Clients
       PROVE  (\E s \in X : s.host = u /\ s.client = v) <=> Streams(new, u, v)
  <2> HIDE DEF old, new
  <2>1. (\E s \in X : s.host = u /\ s.client = v) <=> u # c /\ Watches(old, u, v)
    BY <1>6 DEF Watches, HostedBy
  <2>2. Watches(old, u, v) <=> Streams(old, u, v)
    BY <1>10 DEF StreamedRoom
  <2>3. CASE u = c
    BY <1>3, <1>6, <2>1, <2>3 DEF Streams
  <2>4. CASE u # c
    BY <1>1, <1>6, <2>1, <2>2, <2>4 DEF Streams
  <2>5. QED BY <2>3, <2>4
<1> HIDE DEF X, shut
<1>12. \A u, v \in Clients :
          (\E s \in X : s.host = u /\ s.client = v) <=> Streams(quiet.rooms[r], u, v)
  BY <1>11
<1>13. Sound(shut)
  BY <1>4, <1>5, <1>7, <1>8, <1>9, <1>12, SessionsSound
<1>14. r \in DOMAIN shut.rooms
  BY <1>7, <1>8 DEF WithSessions
<1>15. Alike(shut, NotifyInfoChanged(shut, r))
  BY <1>8, <1>14, NotifyTyped
<1>16. Sound(NotifyInfoChanged(shut, r))
  BY <1>13, <1>15, AlikeSound
<1>17. QED
  BY <1>16 DEF StopSharing, shut, quiet
-----------------------------------------------------------------------------
(* The registry theorems.  The empty string is no room's name: without that  *)
(* they are false (see the run RoomsEmptyName).                             *)

\* A client in a room is its user: HasRoom is all the handlers look at.
LEMMA HasRoomInside ==
    ASSUME TypeOK, Sound(hub), NEW c \in Clients, c \in DOMAIN connected, HasRoom(c)
    PROVE  Inside(hub, connected[c], c) /\ connected[c] \in DOMAIN hub.rooms
<1>1. hub.connected = connected /\ hub.rooms = rooms
  BY DEF hub
<1>2. connected[c] \in RoomIDs /\ connected[c] \in DOMAIN hub.rooms
  BY <1>1 DEF HasRoom, TypeOK, IsMap
<1>3. QED
  BY <1>1, <1>2 DEF Sound, Placed

\* A sound hub state becomes sound variables.
LEMMA BecomeSound ==
    ASSUME NEW k, Sound(k), Become(k)
    PROVE  Sound(hub)'
<1>1. (hub.connected)' = k.connected /\ (hub.rooms)' = k.rooms
      /\ (hub.panicked)' = k.panicked
  BY DEF Become, hub
<1>2. QED
  BY <1>1 DEF Sound, Placed, Inside

\* Disconnect leaves a sound registry.
LEMMA DisconnectSound ==
    ASSUME NoRoom \notin RoomIDs,
           NEW h, Typed(h), NEW c \in Clients, c \in DOMAIN h.connected,
           SoundBut(h, c)
    PROVE  Sound(Disconnect(h, c))
<1>1. Departed(h, c, Disconnect(h, c))
  BY DisconnectTyped
<1>2. QED
  BY <1>1, DepartSound

\* Join leaves a sound registry, on each of its three ways out.
LEMMA JoinStepSound ==
    ASSUME NoRoom \notin RoomIDs, TypeOK, Sound(hub), NEW c \in Clients, NEW r,
           Join(c, r)
    PROVE  Sound(hub)'
<1>1. Typed(hub) /\ hub.connected = connected /\ hub.rooms = rooms
  BY HubTyped DEF hub
<1>2. c \in DOMAIN hub.connected
  BY <1>1 DEF Join, Accepts
<1>3. CASE Become(Disconnect(hub, c))
  <2>1. Sound(Disconnect(hub, c))
    BY <1>1, <1>2, SoundIsSoundBut, DisconnectSound
  <2>2. QED BY <1>3, <2>1, BecomeSound
<1>4. ASSUME NEW name \in Names, MayJoin(c, r)
      PROVE  LET entered == Enter(hub, c, r, name, FALSE)
                 pairs   == (Streamers(entered.rooms[r]) \ {c}) \X {c}
             IN  /\ Sound(Disconnect(entered, c))
                 /\ Sound(NewSessions(entered, r, pairs))
  <2> DEFINE entered == Enter(hub, c, r, name, FALSE)
             pairs   == (Streamers(entered.rooms[r]) \ {c}) \X {c}
  <2>1. r \in DOMAIN hub.rooms /\ hub.connected[c] = NoRoom
    BY <1>1, <1>4 DEF MayJoin
  <2>2. SoundBut(entered, c) /\ Sound(NewSessions(entered, r, pairs))
    BY <1>1, <1>2, <2>1, JoinSound
  <2>3. Typed(entered) /\ entered.connected = Put(hub.connected, c, r)
    BY <1>1, <2>1, EnterTyped
  <2> HIDE DEF entered
  <2>4. c \in DOMAIN entered.connected
    BY <2>3 DEF Put
  <2>5. Sound(Disconnect(entered, c))
    BY <2>2, <2>3, <2>4, DisconnectSound
  <2>6. QED
    BY <2>2, <2>5 DEF entered
<1>5. QED
  BY <1>3, <1>4, BecomeSound DEF Join

\* StartShare leaves a sound registry, on each of its three ways out.
LEMMA StartShareStepSound ==
    ASSUME NoRoom \notin RoomIDs, TypeOK, Sound(hub), NEW c \in Clients,
           StartShare(c)
    PROVE  Sound(hub)'
<1>1. Typed(hub) /\ hub.connected = connected /\ hub.rooms = rooms
  BY HubTyped DEF hub
<1>2. c \in DOMAIN hub.connected /\ c \in DOMAIN connected
  BY <1>1 DEF StartShare, Accepts
<1>3. CASE Become(Disconnect(hub, c))
  <2>1. Sound(Disconnect(hub, c))
    BY <1>1, <1>2, SoundIsSoundBut, DisconnectSound
  <2>2. QED BY <1>3, <2>1, BecomeSound
<1>4. CASE HasRoom(c)
  <2> DEFINE r      == connected[c]
             shared == SetStreaming(hub, r, c, TRUE)
             pairs  == {c} \X Others(Room(c), c)
             made   == NewSessions(shared, r, pairs)
             told   == NotifyInfoChanged(made, r)
  <2>1. Inside(hub, r, c) /\ r \in DOMAIN hub.rooms
    BY <1>2, <1>4, HasRoomInside
  <2>2. c \in DOMAIN hub.rooms[r].users /\ Room(c) = hub.rooms[r]
    BY <1>1, <2>1 DEF Inside, Room
  <2>3. /\ Become(Disconnect(hub, c)) \/ Become(Disconnect(shared, c)) \/ Become(told)
    BY <2>2 DEF StartShare, Deref
  <2> HIDE DEF r
  <2>4. SoundBut(shared, c) /\ Sound(made)
    BY <1>1, <2>1, <2>2, ShareSound
  <2>5. /\ Typed(shared)
        /\ shared.connected = hub.connected
        /\ shared.rooms = WithUsers(hub.rooms, r, Put(hub.rooms[r].users, c,
                             Streaming(hub.rooms[r].users[c], TRUE)))
    BY ONLY <1>1, <2>1, <2>2, SetStreamingTyped DEF shared
  <2>6. pairs \in SUBSET (Clients \X Clients)
    <3>1. DOMAIN Room(c).users \subseteq Clients
      BY <1>1, <2>1, <2>2, RoomFields DEF IsMap
    <3>2. QED BY <3>1 DEF Others
  <2> HIDE DEF shared, pairs
  <2>7. Sound(Disconnect(shared, c))
    BY <1>2, <2>4, <2>5, DisconnectSound
  <2>8. r \in DOMAIN shared.rooms
    BY <2>1, <2>5 DEF WithUsers
  <2>9. /\ Typed(made)
        /\ made.rooms = WithSessions(shared.rooms, r,
                           shared.rooms[r].sessions \cup Made(shared, pairs))
    BY <2>5, <2>6, <2>8, NewSessionsTyped
  <2> HIDE DEF made
  <2>10. r \in DOMAIN made.rooms
    BY <2>8, <2>9 DEF WithSessions
  <2>11. Alike(made, told)
    BY <2>9, <2>10, NotifyTyped
  <2> HIDE DEF told
  <2>12. Sound(told)
    BY <2>4, <2>11, AlikeSound
  <2>13. QED
    BY <1>3, <2>3, <2>7, <2>12, BecomeSound
<1>5. QED
  BY <1>3, <1>4 DEF StartShare

\* Name leaves a sound registry.
LEMMA NameStepSound ==
    ASSUME NoRoom \notin RoomIDs, TypeOK, Sound(hub), NEW c \in Clients, Name(c)
    PROVE  Sound(hub)'
<1>1. Typed(hub) /\ hub.connected = connected /\ hub.rooms = rooms
  BY HubTyped DEF hub
<1>2. c \in DOMAIN hub.connected /\ c \in DOMAIN connected
  BY <1>1 DEF Name, Accepts
<1>3. CASE Become(Disconnect(hub, c))
  <2>1. Sound(Disconnect(hub, c))
    BY <1>1, <1>2, SoundIsSoundBut, DisconnectSound
  <2>2. QED BY <1>3, <2>1, BecomeSound
<1>4. ASSUME HasRoom(c), NEW name \in Names,
             Become(Deref(hub, connected[c], c,
                 NotifyInfoChanged(
                    [hub EXCEPT !.rooms[connected[c]].users[c].name = name],
                    connected[c])))
      PROVE  Sound(hub)'
  <2> DEFINE r     == connected[c]
             user  == [hub.rooms[r].users[c] EXCEPT !.name = name]
             named == [hub EXCEPT !.rooms[r].users[c] = user]
             told  == NotifyInfoChanged(named, r)
  <2>1. Inside(hub, r, c) /\ r \in DOMAIN hub.rooms
    BY <1>2, <1>4, HasRoomInside
  <2>2. c \in DOMAIN hub.rooms[r].users
    BY <2>1 DEF Inside
  <2>3. Become(told)
    BY <1>4, <2>2 DEF Deref
  <2> HIDE DEF r
  <2>4. hub.rooms[r].users[c] \in User
    BY <1>1, <2>1, <2>2, RoomFields DEF IsMap
  <2>5. /\ user \in User
        /\ user.owner = hub.rooms[r].users[c].owner
        /\ user.streaming = hub.rooms[r].users[c].streaming
    BY <2>4 DEF User
  <2> HIDE DEF user
  <2>6. /\ Typed(named)
        /\ named.connected = hub.connected
        /\ named.rooms = WithUsers(hub.rooms, r, Put(hub.rooms[r].users, c, user))
        /\ named.panicked = hub.panicked
    BY <1>1, <2>1, <2>2, <2>5, UserTyped
  <2> HIDE DEF named
  <2>7. Sound(named)
    BY <1>1, <2>1, <2>5, <2>6, UserSound
  <2>8. r \in DOMAIN named.rooms
    BY <2>1, <2>6 DEF WithUsers
  <2>9. Alike(named, told)
    BY <2>6, <2>8, NotifyTyped
  <2> HIDE DEF told
  <2>10. QED
    BY <2>3, <2>7, <2>9, AlikeSound, BecomeSound
<1>5. QED
  BY <1>3, <1>4 DEF Name

\* A relay finds the peer of a live session in the room.
LEMMA RelayStepSound ==
    ASSUME NoRoom \notin RoomIDs, TypeOK, Sound(hub), NEW c \in Clients,
           NEW role \in {"host", "client"}, NEW s \in KnownSessions,
           Relay(c, role, s)
    PROVE  Sound(hub)'
<1> DEFINE r   == connected[c]
           to  == IF role = "host" THEN s.client ELSE s.host
           msg == [to |-> to, type |-> "relay", sid |-> s]
           k   == Send(hub, {msg})
<1>1. Typed(hub) /\ hub.connected = connected /\ hub.rooms = rooms
  BY HubTyped DEF hub
<1>2. c \in DOMAIN hub.connected /\ c \in DOMAIN connected
  BY <1>1 DEF Relay, Accepts
<1>3. CASE Become(Disconnect(hub, c))
  <2>1. Sound(Disconnect(hub, c))
    BY <1>1, <1>2, SoundIsSoundBut, DisconnectSound
  <2>2. QED BY <1>3, <2>1, BecomeSound
<1>4. CASE Become(hub)
  BY <1>4, BecomeSound
<1>5. CASE HasRoom(c) /\ s \in Room(c).sessions /\ Become(Deref(hub, r, to, k))
  <2>1. r \in DOMAIN hub.rooms /\ Room(c) = hub.rooms[r]
    BY <1>1, <1>2, <1>5, HasRoomInside DEF Room
  <2>2. s \in Session /\ s \in hub.rooms[r].sessions
    BY <1>1, <1>5, <2>1, RoomFields
  <2>3. s.host \in Clients /\ s.client \in Clients
    BY <2>2 DEF Session
  <2>4. StreamedRoom(hub.rooms[r])
    BY <2>1 DEF Sound
  <2>5. Streams(hub.rooms[r], s.host, s.client)
    BY <2>2, <2>3, <2>4 DEF StreamedRoom, Watches
  <2>6. to \in DOMAIN hub.rooms[r].users
    BY <2>5 DEF Streams
  <2>7. Become(k)
    BY <1>5, <2>6 DEF Deref
  <2>8. {msg} \in SUBSET Message
    BY <2>2, <2>3 DEF Message
  <2>9. Alike(hub, k)
    BY <1>1, <2>8, SendTyped
  <2> HIDE DEF k
  <2>10. QED
    BY <2>7, <2>9, AlikeSound, BecomeSound
<1>6. QED
  BY <1>3, <1>4, <1>5 DEF Relay

\* Create leaves a sound registry.
LEMMA CreateStepSound ==
    ASSUME NoRoom \notin RoomIDs, TypeOK, Sound(hub), NEW c \in Clients,
           NEW r \in RoomIDs, NEW mode \in Modes, NEW close \in BOOLEAN,
           NEW joinIfExist \in BOOLEAN, Create(c, r, mode, close, joinIfExist)
    PROVE  Sound(hub)'
<1>1. Typed(hub) /\ hub.connected = connected /\ hub.rooms = rooms
  BY HubTyped DEF hub
<1>2. c \in DOMAIN hub.connected
  BY <1>1 DEF Create, Accepts
<1>3. CASE Join(c, r)
  BY <1>3, JoinStepSound
<1>4. CASE Become(Disconnect(hub, c))
  <2>1. Sound(Disconnect(hub, c))
    BY <1>1, <1>2, SoundIsSoundBut, DisconnectSound
  <2>2. QED BY <1>4, <2>1, BecomeSound
<1>5. ASSUME NEW name \in Names, MayOpen(c, r, mode),
             Become(Enter(OpenRoom(hub, r, mode, close), c, r, name, TRUE))
      PROVE  Sound(hub)'
  <2>1. hub.connected[c] = NoRoom /\ r \notin DOMAIN hub.rooms
    BY <1>1, <1>5 DEF MayOpen
  <2>2. Sound(Enter(OpenRoom(hub, r, mode, close), c, r, name, TRUE))
    BY <1>1, <1>2, <2>1, CreateSound
  <2>3. QED BY <1>5, <2>2, BecomeSound
<1>6. QED
  BY <1>3, <1>4, <1>5 DEF Create

\* StopShare leaves a sound registry.
LEMMA StopShareStepSound ==
    ASSUME NoRoom \notin RoomIDs, TypeOK, Sound(hub), NEW c \in Clients,
           StopShare(c)
    PROVE  Sound(hub)'
<1>1. Typed(hub) /\ hub.connected = connected
  BY HubTyped DEF hub
<1>2. c \in DOMAIN hub.connected /\ c \in DOMAIN connected
  BY <1>1 DEF StopShare, Accepts
<1>3. CASE Become(Disconnect(hub, c))
  <2>1. Sound(Disconnect(hub, c))
    BY <1>1, <1>2, SoundIsSoundBut, DisconnectSound
  <2>2. QED BY <1>3, <2>1, BecomeSound
<1>4. CASE HasRoom(c) /\ Become(Deref(hub, connected[c], c,
                                     StopSharing(hub, connected[c], c)))
  <2>1. Inside(hub, connected[c], c)
    BY <1>2, <1>4, HasRoomInside
  <2>2. Become(StopSharing(hub, connected[c], c))
    BY <1>4, <2>1 DEF Deref, Inside
  <2>3. Sound(StopSharing(hub, connected[c], c))
    BY <1>1, <2>1, StopSound
  <2>4. QED BY <2>2, <2>3, BecomeSound
<1>5. QED
  BY <1>3, <1>4 DEF StopShare

\* A client that is in no room disturbs none.
LEMMA ConnectedStepSound ==
    ASSUME NoRoom \notin RoomIDs, TypeOK, Sound(hub), NEW c \in Clients,
           Connected(c)
    PROVE  Sound(hub)'
<1> DEFINE k == [hub EXCEPT !.connected = Put(@, c, NoRoom)]
<1>1. /\ k.connected = Put(hub.connected, c, NoRoom)
      /\ k.rooms = hub.rooms
      /\ k.panicked = hub.panicked
  BY DEF hub
<1>2. Become(k) /\ c \notin DOMAIN hub.connected
  BY DEF Connected, TypeOK, hub
<1> HIDE DEF k
<1>3. Placed(k)
  <2>1. \A d \in Clients, q \in RoomIDs : Inside(k, q, d) <=> Inside(hub, q, d)
    BY <1>1 DEF Inside
  <2>2. QED
    BY <1>1, <1>2, <2>1 DEF Sound, Placed, Put
<1>4. Sound(k)
  BY <1>1, <1>3 DEF Sound
<1>5. QED
  BY <1>2, <1>4, BecomeSound

\* The invariant of the registry, in the form that is inductive.
THEOREM RegistrySound ==
    ASSUME NoRoom \notin RoomIDs
    PROVE  Spec => []Sound(hub)
<1>1. Init => Sound(hub)
  <2> SUFFICES ASSUME Init PROVE Sound(hub)
    OBVIOUS
  <2>1. hub.connected = << >> /\ hub.rooms = << >> /\ hub.panicked = FALSE
    BY DEF Init, hub
  <2>2. DOMAIN hub.connected = {} /\ DOMAIN hub.rooms = {}
    BY <2>1
  <2>3. QED
    BY <2>1, <2>2 DEF Sound, Placed, Inside
<1>2. TypeOK /\ Sound(hub) /\ [Next]_vars => Sound(hub)'
  <2> SUFFICES ASSUME TypeOK, Sound(hub), [Next]_vars
               PROVE  Sound(hub)'
    OBVIOUS
  <2>1. CASE UNCHANGED vars
    <3>1. hub' = hub
      BY <2>1 DEF hub, vars
    <3>2. QED BY <3>1 DEF Sound, Placed, Inside
  <2>2. ASSUME NEW c \in Clients, Connected(c)
        PROVE  Sound(hub)'
    BY <2>2, ConnectedStepSound
  <2>3. ASSUME NEW c \in Clients, NEW r \in RoomIDs, NEW mode \in Modes,
               NEW close \in BOOLEAN, NEW joinIfExist \in BOOLEAN,
               Create(c, r, mode, close, joinIfExist)
        PROVE  Sound(hub)'
    BY <2>3, CreateStepSound
  <2>4. ASSUME NEW c \in Clients, NEW r \in RoomIDs, Join(c, r)
        PROVE  Sound(hub)'
    BY <2>4, JoinStepSound
  <2>5. ASSUME NEW c \in Clients, StartShare(c)
        PROVE  Sound(hub)'
    BY <2>5, StartShareStepSound
  <2>6. ASSUME NEW c \in Clients, StopShare(c)
        PROVE  Sound(hub)'
    BY <2>6, StopShareStepSound
  <2>7. ASSUME NEW c \in Clients, Name(c)
        PROVE  Sound(hub)'
    BY <2>7, NameStepSound
  <2>8. ASSUME NEW c \in Clients, NEW role \in {"host", "client"},
               NEW s \in KnownSessions, Relay(c, role, s)
        PROVE  Sound(hub)'
    BY <2>8, RelayStepSound
  <2>9. ASSUME NEW c \in Clients, Disconnected(c)
        PROVE  Sound(hub)'
    <3>1. Typed(hub) /\ c \in DOMAIN hub.connected
      BY <2>9, HubTyped DEF Disconnected, Accepts, hub
    <3>2. Sound(Disconnect(hub, c))
      BY <3>1, SoundIsSoundBut, DisconnectSound
    <3>3. QED BY <2>9, <3>2, BecomeSound DEF Disconnected
  <2>10. QED
    BY <2>1, <2>2, <2>3, <2>4, <2>5, <2>6, <2>7, <2>8, <2>9 DEF Next
<1>3. QED
  BY <1>1, <1>2, TypeCorrect, PTL DEF Spec
\* Rooms.connected and the Users of the rooms agree, whatever the handlers do
\* and in whatever order.
THEOREM MembershipHolds ==
    ASSUME NoRoom \notin RoomIDs
    PROVE  Spec => []MembershipAgrees
<1>1. Sound(hub) => MembershipAgrees
  <2>1. hub.connected = connected /\ hub.rooms = rooms
    BY DEF hub
  <2>2. QED
    BY <2>1 DEF Sound, Placed, Inside, MembershipAgrees
<1>2. QED
  BY <1>1, RegistrySound, PTL

\* No room is left empty, has two owners, or has lost the owner it depends on.
THEOREM OwnershipHolds ==
    ASSUME NoRoom \notin RoomIDs
    PROVE  Spec => []RoomsAreOwned
<1>1. Sound(hub) => RoomsAreOwned
  <2>1. hub.rooms = rooms
    BY DEF hub
  <2>2. QED
    BY <2>1 DEF Sound, OwnedRoom, RoomsAreOwned
<1>2. QED
  BY <1>1, RegistrySound, PTL

\* The sessions of a room are what its streams call for.
THEOREM StreamsHold ==
    ASSUME NoRoom \notin RoomIDs
    PROVE  Spec => []StreamsAreSessions
<1>1. TypeOK /\ Sound(hub) => StreamsAreSessions
  <2> SUFFICES ASSUME TypeOK, Sound(hub), NEW r \in DOMAIN rooms
               PROVE  {<<s.host, s.client>> : s \in rooms[r].sessions} =
                        {p \in Streamers(rooms[r]) \X DOMAIN rooms[r].users : p[1] # p[2]}
    BY DEF StreamsAreSessions
  <2> DEFINE room == rooms[r]
             A == {<<s.host, s.client>> : s \in room.sessions}
             B == {p \in Streamers(room) \X DOMAIN room.users : p[1] # p[2]}
  <2>1. Typed(hub) /\ r \in DOMAIN hub.rooms /\ hub.rooms[r] = room
    BY HubTyped DEF hub
  <2>2. /\ StreamedRoom(room)
        /\ room.sessions \subseteq Session
        /\ DOMAIN room.users \subseteq Clients
    BY <2>1, RoomFields DEF Sound, IsMap
  <2> HIDE DEF room
  <2>3. ASSUME NEW s \in room.sessions
        PROVE  <<s.host, s.client>> \in B
    <3>1. s.host \in Clients /\ s.client \in Clients
      BY <2>2 DEF Session
    <3>2. Streams(room, s.host, s.client)
      BY <2>2, <3>1 DEF StreamedRoom, Watches
    <3>3. QED BY <3>2 DEF Streams, Streamers
  <2>4. ASSUME NEW p \in B
        PROVE  p \in A
    <3>1. p = <<p[1], p[2]>> /\ p[1] \in Streamers(room)
          /\ p[2] \in DOMAIN room.users /\ p[1] # p[2]
      OBVIOUS
    <3>2. Streams(room, p[1], p[2])
      BY <3>1 DEF Streams, Streamers
    <3>3. p[1] \in Clients /\ p[2] \in Clients
      BY <2>2, <3>1 DEF Streamers
    <3>4. PICK s \in room.sessions : s.host = p[1] /\ s.client = p[2]
      BY <2>2, <3>2, <3>3 DEF StreamedRoom, Watches
    <3>5. QED BY <3>1, <3>4
  <2>5. A = B
    BY <2>3, <2>4
  <2>6. QED BY <2>5 DEF room
<1>2. QED
  BY <1>1, RegistrySound, TypeCorrect, PTL

\* No handler dereferences the user of a client that is not in the room.
THEOREM PanicFree ==
    ASSUME NoRoom \notin RoomIDs
    PROVE  Spec => []NeverPanics
<1>1. Sound(hub) => NeverPanics
  BY DEF Sound, hub, NeverPanics
<1>2. QED
  BY <1>1, RegistrySound, PTL
=============================================================================
