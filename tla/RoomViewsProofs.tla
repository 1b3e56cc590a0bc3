-------------------------- MODULE RoomViewsProofs ---------------------------
(***************************************************************************)
(* What the clients can know of the rooms, for any sets of clients, rooms, *)
(* names and modes.  A handler is followed through the hub states it is    *)
(* composed of, as in RoomsProofs, and with each goes what has been sent    *)
(* so far.                                                                 *)
(***************************************************************************)
EXTENDS RoomViews, RoomsProofs

RoomMessages(h, r) ==
    {[to |-> u, type |-> "room", room |-> r, users |-> h.rooms[r].users] :
        u \in DOMAIN h.rooms[r].users}

-----------------------------------------------------------------------------
(* What the functions of the hub send *)

\* Send adds to what was sent and leaves the registry alone.
LEMMA SendOut ==
    ASSUME NEW h, Typed(h), NEW msgs
    PROVE  /\ Send(h, msgs).out = Append(h.out, msgs)
           /\ Send(h, msgs).connected = h.connected
           /\ Send(h, msgs).rooms = h.rooms
BY DEF Send, Typed

\* Everybody in the room is sent the room.
LEMMA NotifyOut ==
    ASSUME NEW h, Typed(h), NEW r
    PROVE  NotifyInfoChanged(h, r).out = Append(h.out, RoomMessages(h, r))
BY SendOut DEF NotifyInfoChanged, RoomMessages

\* The two ends of every new session are told.
LEMMA NewSessionsOut ==
    ASSUME NEW h, Typed(h), NEW r, NEW pairs
    PROVE  NewSessions(h, r, pairs).out = Append(h.out, SessionNotices(Made(h, pairs)))
<1> DEFINE made == Made(h, pairs)
           added == AddSessions(h, r, made)
           allowed == Allow(added, CredentialsOf(h.rooms[r], made))
<1>1. DOMAIN added = DOMAIN h /\ added.out = h.out
  BY DEF AddSessions, Typed
<1> HIDE DEF added
<1>2. DOMAIN allowed = DOMAIN h /\ allowed.out = h.out
  BY <1>1 DEF Allow, Typed
<1> HIDE DEF allowed
<1>3. Send(allowed, SessionNotices(made)).out = Append(h.out, SessionNotices(made))
  BY <1>2 DEF Send, Typed
<1> QED BY <1>3 DEF NewSessions, allowed, added

\* Nothing is sent because a session ends, but by those who end it.
LEMMA CloseSessionsOut ==
    ASSUME NEW h, Typed(h), NEW r, NEW gone
    PROVE  CloseSessions(h, r, gone).out = h.out
<1> DEFINE k == [h EXCEPT !.rooms[r].sessions = @ \ gone,
                          !.gauges.sessions = @ - Cardinality(gone)]
<1>1. DOMAIN k = DOMAIN h /\ k.out = h.out
  BY DEF Typed
<1> HIDE DEF k
<1>2. Disallow(k, CredentialsOf(h.rooms[r], gone)).out = h.out
  BY <1>1 DEF Disallow, Typed
<1> QED BY <1>2 DEF CloseSessions, k

\* The peers are told first.
LEMMA ToldAndClosedOut ==
    ASSUME NEW h, Typed(h), NEW r \in DOMAIN h.rooms, NEW c,
           NEW gone \in SUBSET h.rooms[r].sessions
    PROVE  CloseSessions(Send(h, EndShares(h, r, gone, c)), r, gone).out
              = Append(h.out, EndShares(h, r, gone, c))
<1>1. EndShares(h, r, gone, c) \in SUBSET Message
  BY EndSharesTyped, RoomFields
<1>2. Typed(Send(h, EndShares(h, r, gone, c)))
  BY <1>1, SendTyped
<1> QED BY <1>2, CloseSessionsOut, SendOut

\* Who leaves is taken out of the room once its peers are told.
LEMMA LeftOut ==
    ASSUME NEW h, Typed(h), NEW r, NEW c, Inside(h, r, c)
    PROVE  RemoveUser(CloseUserSessions(h, r, c), r, c).out
              = Append(h.out, EndShares(h, r, SessionsWith(h.rooms[r], c), c))
<1> DEFINE gone == SessionsWith(h.rooms[r], c)
           quiet == CloseUserSessions(h, r, c)
<1>1. r \in DOMAIN h.rooms
  BY DEF Inside
<1>2. gone \in SUBSET h.rooms[r].sessions
  BY DEF SessionsWith
<1>3. quiet = CloseSessions(Send(h, EndShares(h, r, gone, c)), r, gone)
  BY DEF CloseUserSessions
<1>4. Typed(quiet)
  BY <1>1, CloseUserTyped
<1> HIDE DEF gone
<1>5. quiet.out = Append(h.out, EndShares(h, r, gone, c))
  BY <1>1, <1>2, <1>3, ToldAndClosedOut
<1> HIDE DEF quiet
<1>6. RemoveUser(quiet, r, c).out = quiet.out
  BY <1>4 DEF RemoveUser, Typed
<1> QED BY <1>5, <1>6 DEF quiet, gone

\* The users of a room that closes are sent CloseWriter.
LEMMA CloseRoomOut ==
    ASSUME NEW h, Typed(h), NEW r \in DOMAIN h.rooms
    PROVE  CloseRoom(h, r).out = Append(h.out, CloseWriters(DOMAIN h.rooms[r].users))
<1> DEFINE members == DOMAIN h.rooms[r].users
           out == Evict(h, members)
           ended == CloseSessions(out, r, h.rooms[r].sessions)
<1>1. members \in SUBSET Clients
  BY RoomFields DEF IsMap
<1>2. Typed(out) /\ out.rooms = h.rooms
  BY <1>1, EvictTyped
<1>3. out.out = Append(h.out, CloseWriters(members))
  BY DEF Evict, Send, Typed
<1> HIDE DEF out
<1>4. Typed(ended)
  BY <1>2, CloseSessionsTyped
<1>5. ended.out = out.out
  BY <1>2, CloseSessionsOut
<1> HIDE DEF ended
<1>6. [ended EXCEPT !.rooms = Drop(@, {r}), !.gauges.rooms = @ - 1].out = ended.out
  BY <1>4 DEF Typed
<1> QED BY <1>3, <1>5, <1>6 DEF CloseRoom, ended, out

\* What is sent of a client that leaves its room, before the room changes
EndsOf(h, c) ==
    Append(Append(h.out, CloseWriters({c})),
           EndShares(h, h.connected[c], SessionsWith(h.rooms[h.connected[c]], c), c))

\* Disconnect: CloseWriter to who is gone; if it was in a room, the end of its
\* sessions to their other ends, and then either CloseWriter to those who go
\* with it, or the room to those who stay.
LEMMA DisconnectOut ==
    ASSUME NEW h, Typed(h), NEW c \in Clients, c \in DOMAIN h.connected,
           NEW k, k = Disconnect(h, c)
    PROVE  LET r == h.connected[c]
               inside == r # NoRoom /\ Inside(h, r, c)
           IN  /\ ~inside => k.out = Append(h.out, CloseWriters({c}))
               /\ inside /\ ClosesFor(h, r, c) =>
                     k.out = Append(EndsOf(h, c), CloseWriters(DOMAIN h.rooms[r].users \ {c}))
               /\ inside /\ ~ClosesFor(h, r, c) =>
                     k.out = Append(EndsOf(h, c), RoomMessages(k, r))
<1> DEFINE r == h.connected[c]
           off == [h EXCEPT !.connected = Drop(@, {c})]
           gone == Send(off, CloseWriters({c}))
           cut == Append(h.out, CloseWriters({c}))
           left == RemoveUser(CloseUserSessions(gone, r, c), r, c)
           ends == Append(cut, EndShares(h, r, SessionsWith(h.rooms[r], c), c))
<1>0. ends = EndsOf(h, c)
  BY DEF EndsOf
<1>1. Typed(off) /\ off.out = h.out /\ off.rooms = h.rooms
  <2>1. /\ off.connected = Drop(h.connected, {c})
        /\ off.rooms = h.rooms
        /\ off.panicked = h.panicked
        /\ off.lookup = h.lookup
        /\ off.out = h.out
        /\ off.batch = h.batch
        /\ off.gauges = h.gauges
        /\ DOMAIN off = DOMAIN h
    BY DEF Typed
  <2>2. IsMap(off.connected, Clients, RoomIDs \cup {NoRoom})
    BY <2>1, DropMap DEF Typed
  <2> HIDE DEF off
  <2> QED BY <2>1, <2>2 DEF Typed
<1> HIDE DEF off
<1>2. Typed(gone) /\ gone.out = cut /\ gone.rooms = h.rooms
  <2>1. CloseWriters({c}) \in SUBSET Message
    BY CloseWritersTyped
  <2> QED BY <1>1, <2>1, SendTyped, SendOut
<1>3. k = IF r = NoRoom THEN gone ELSE RemoveUserFromRoom(gone, r, c)
  BY DEF Disconnect, gone, off
<1> HIDE DEF gone
<1>4. /\ Inside(gone, r, c) <=> Inside(h, r, c)
      /\ EndShares(gone, r, SessionsWith(gone.rooms[r], c), c)
            = EndShares(h, r, SessionsWith(h.rooms[r], c), c)
  BY <1>2 DEF Inside, EndShares
<1>5. CASE r = NoRoom \/ ~Inside(h, r, c)
  <2>1. k = gone
    BY <1>3, <1>4, <1>5 DEF RemoveUserFromRoom, Inside
  <2> QED BY <1>2, <1>5, <2>1
<1>6. CASE r # NoRoom /\ Inside(h, r, c)
  <2>1. /\ Typed(left)
        /\ DOMAIN left.rooms = DOMAIN gone.rooms
        /\ DOMAIN left.rooms[r].users = DOMAIN gone.rooms[r].users \ {c}
    BY <1>2, <1>4, <1>6, LeftTyped
  <2>2. left.out = ends
    BY <1>2, <1>4, <1>6, LeftOut
  <2>3. k = IF Closes(gone.rooms[r], left.rooms[r], c)
            THEN CloseRoom(left, r)
            ELSE NotifyInfoChanged(left, r)
    BY <1>2, <1>3, <1>6 DEF RemoveUserFromRoom, Inside
  <2> HIDE DEF left, cut, ends
  <2>4. Closes(gone.rooms[r], left.rooms[r], c) <=> ClosesFor(h, r, c)
    BY <1>2, <2>1 DEF Closes, ClosesFor
  <2>5. r \in DOMAIN left.rooms
    BY <1>2, <1>6, <2>1 DEF Inside
  <2>6. CASE ClosesFor(h, r, c)
    <3>1. k = CloseRoom(left, r)
      BY <2>3, <2>4, <2>6
    <3>2. k.out = Append(left.out, CloseWriters(DOMAIN left.rooms[r].users))
      BY <2>1, <2>5, <3>1, CloseRoomOut
    <3>3. DOMAIN left.rooms[r].users = DOMAIN h.rooms[r].users \ {c}
      BY <1>2, <2>1
    <3>4. k.out = Append(ends, CloseWriters(DOMAIN h.rooms[r].users \ {c}))
      BY <2>2, <3>2, <3>3
    <3> QED BY <1>0, <1>6, <2>6, <3>4
  <2>7. CASE ~ClosesFor(h, r, c)
    <3>1. k = NotifyInfoChanged(left, r)
      BY <2>3, <2>4, <2>7
    <3>2. k.rooms = left.rooms
      BY <2>1, <2>5, <3>1, NotifyTyped DEF Alike
    <3>3. k.out = Append(ends, RoomMessages(left, r))
      BY <2>1, <2>2, <3>1, NotifyOut
    <3>4. RoomMessages(left, r) = RoomMessages(k, r)
      BY <3>2 DEF RoomMessages
    <3>5. k.out = Append(ends, RoomMessages(k, r))
      BY <3>3, <3>4
    <3> QED BY <1>0, <1>6, <2>7, <3>5
  <2> QED BY <2>6, <2>7
<1> QED BY <1>5, <1>6

\* Who enters is in the room that everybody in it is sent.
LEMMA EnterOut ==
    ASSUME NEW h, Typed(h), NEW r \in DOMAIN h.rooms, NEW c \in Clients,
           NEW name \in Names, NEW owner \in BOOLEAN,
           NEW k, k = Enter(h, c, r, name, owner)
    PROVE  k.out = Append(h.out, RoomMessages(k, r))
<1> DEFINE user == [name |-> name, streaming |-> FALSE, owner |-> owner]
           in == [h EXCEPT !.rooms[r].users = Put(@, c, user),
                           !.connected = Put(@, c, r),
                           !.gauges.users = @ + 1]
<1>1. DOMAIN in = DOMAIN h /\ in.out = h.out
  BY DEF Typed
<1>2. k = NotifyInfoChanged(in, r)
  BY DEF Enter
<1> HIDE DEF in
<1>3. k.rooms = in.rooms /\ k.out = Append(h.out, RoomMessages(in, r))
  BY <1>1, <1>2 DEF NotifyInfoChanged, Send, RoomMessages, Typed
<1> QED BY <1>3 DEF RoomMessages

\* Neither opening a room nor another flag in a user is sent by itself.
LEMMA QuietOut ==
    ASSUME NEW h, Typed(h), NEW r, NEW c, NEW mode, NEW close, NEW on, NEW name
    PROVE  /\ OpenRoom(h, r, mode, close).out = h.out
           /\ SetStreaming(h, r, c, on).out = h.out
           /\ [h EXCEPT !.rooms[r].users[c].name = name].out = h.out
BY DEF OpenRoom, SetStreaming, Typed

-----------------------------------------------------------------------------
(* The order of the messages.  C is who is still connected.                *)

Greeted(out, c) ==
    \/ view[c] # NoView
    \/ \E i \in DOMAIN out : \E n \in out[i] : n.to = c /\ n.type = "room"

CloseWriter(c) == [to |-> c, type |-> "closewriter"]

\* All that was sent went to who was connected then, nothing else than a room
\* to who has not seen one, and CloseWriter to all who are gone.
Post(C, out) ==
    /\ C \subseteq DOMAIN connected
    /\ \A i \in DOMAIN out : \A m \in out[i] :
          /\ m.to \in DOMAIN connected
          /\ \A j \in 1 .. i - 1 : CloseWriter(m.to) \notin out[j]
          /\ view[m.to] = NoView /\ m.type \notin {"room", "closewriter"} =>
                \E j \in 1 .. i - 1 : \E n \in out[j] : n.to = m.to /\ n.type = "room"
    /\ \A c \in DOMAIN connected :
          (\E i \in DOMAIN out : CloseWriter(c) \in out[i]) <=> c \notin C

\* One more set of messages
LEMMA Grown ==
    ASSUME NEW S, NEW q \in Seq(S), NEW x \in S
    PROVE  /\ Append(q, x) \in Seq(S)
           /\ DOMAIN q = 1 .. Len(q) /\ Len(q) \in Nat
           /\ DOMAIN Append(q, x) = 1 .. Len(q) + 1
           /\ \A i \in 1 .. Len(q) : Append(q, x)[i] = q[i]
           /\ Append(q, x)[Len(q) + 1] = x
           /\ \A i \in 1 .. Len(q) + 1 : i \in 1 .. Len(q) \/ i = Len(q) + 1
<1>1. Append(q, x) \in Seq(S) /\ Len(Append(q, x)) = Len(q) + 1
  OBVIOUS
<1>2. DOMAIN Append(q, x) = 1 .. Len(Append(q, x))
  BY <1>1
<1>3. \A i \in 1 .. Len(q) : Append(q, x)[i] = q[i]
  OBVIOUS
<1>4. Append(q, x)[Len(q) + 1] = x
  OBVIOUS
<1>5. DOMAIN q = 1 .. Len(q) /\ Len(q) \in Nat
  OBVIOUS
<1> QED BY <1>1, <1>2, <1>3, <1>4, <1>5

\* What has been sent stays a sequence of messages.
LEMMA Sent ==
    ASSUME NEW out \in Seq(SUBSET Message), NEW msgs \in SUBSET Message
    PROVE  Append(out, msgs) \in Seq(SUBSET Message)
OBVIOUS

\* Each kind of message has its fields.
LEMMA MessageForms ==
    ASSUME NEW m \in Message
    PROVE  /\ m.to \in Clients
           /\ m.type = "closewriter" => m = CloseWriter(m.to)
           /\ m.type = "room" =>
                 m = [to |-> m.to, type |-> "room", room |-> m.room, users |-> m.users]
           /\ m.type \in {"hostsession", "clientsession", "endshare"} => m.sid \in Session
<1>1. CASE m \in [to : Clients, type : {"closewriter"}]
  BY <1>1 DEF CloseWriter
<1>2. CASE m \in [to : Clients, type : {"room"}, room : RoomIDs, users : Maps(Clients, User)]
  BY <1>2
<1>3. CASE m \in [to : Clients, sid : Session,
                  type : {"hostsession", "clientsession", "endshare", "relay"}]
  BY <1>3
<1> QED BY <1>1, <1>2, <1>3 DEF Message

\* A message to those who are there, who have seen a room
LEMMA SendPost ==
    ASSUME NEW C, NEW out \in Seq(SUBSET Message), Post(C, out),
           NEW msgs \in SUBSET Message,
           \A m \in msgs :
              /\ m.to \in C
              /\ m.type # "closewriter"
              /\ m.type # "room" => Greeted(out, m.to)
    PROVE  Post(C, Append(out, msgs))
<1>1. PICK new : new = Append(out, msgs)
  OBVIOUS
<1>2. /\ DOMAIN out = 1 .. Len(out) /\ Len(out) \in Nat
      /\ DOMAIN new = 1 .. Len(out) + 1
      /\ \A i \in 1 .. Len(out) : new[i] = out[i]
      /\ new[Len(out) + 1] = msgs
      /\ \A i \in 1 .. Len(out) + 1 : i \in 1 .. Len(out) \/ i = Len(out) + 1
  BY <1>1, Grown
<1>3. ASSUME NEW i \in DOMAIN new, NEW m \in new[i]
      PROVE  /\ m.to \in DOMAIN connected
             /\ \A j \in 1 .. i - 1 : CloseWriter(m.to) \notin new[j]
             /\ view[m.to] = NoView /\ m.type \notin {"room", "closewriter"} =>
                   \E j \in 1 .. i - 1 : \E n \in new[j] : n.to = m.to /\ n.type = "room"
  <2>1. CASE i \in 1 .. Len(out)
    <3>1. m \in out[i] /\ \A j \in 1 .. i - 1 : j \in 1 .. Len(out) /\ new[j] = out[j]
      BY <1>2, <1>3, <2>1
    <3> QED BY <1>2, <2>1, <3>1 DEF Post
  <2>2. CASE i = Len(out) + 1
    <3>1. m \in msgs /\ m.to \in C
      BY <1>2, <1>3, <2>2
    <3>2. \A j \in 1 .. i - 1 : j \in DOMAIN out /\ new[j] = out[j]
      BY <1>2, <2>2
    <3>3. \A j \in DOMAIN out : j \in 1 .. i - 1 /\ new[j] = out[j]
      BY <1>2, <2>2
    <3>4. m.to \in DOMAIN connected /\ \A j \in DOMAIN out : CloseWriter(m.to) \notin out[j]
      BY <3>1 DEF Post
    <3>5. ASSUME view[m.to] = NoView, m.type # "room"
          PROVE  \E j \in 1 .. i - 1 : \E n \in new[j] : n.to = m.to /\ n.type = "room"
      <4>1. PICK j \in DOMAIN out : \E n \in out[j] : n.to = m.to /\ n.type = "room"
        BY <3>1, <3>5 DEF Greeted
      <4> QED BY <3>3, <4>1
    <3> QED BY <3>2, <3>4, <3>5
  <2> QED BY <1>2, <2>1, <2>2
<1>4. ASSUME NEW c \in DOMAIN connected
      PROVE  (\E i \in DOMAIN new : CloseWriter(c) \in new[i]) <=> c \notin C
  <2>1. CloseWriter(c) \notin msgs
    BY DEF CloseWriter
  <2>2. (\E i \in DOMAIN new : CloseWriter(c) \in new[i])
           <=> (\E i \in DOMAIN out : CloseWriter(c) \in out[i])
    BY <1>2, <2>1
  <2> QED BY <2>2 DEF Post
<1>5. Post(C, new)
  BY <1>3, <1>4 DEF Post
<1> QED BY <1>1, <1>5

\* CloseWriters sends CloseWriter to each of the set.
LEMMA CloseWritersAre ==
    ASSUME NEW S
    PROVE  /\ \A m \in CloseWriters(S) : m.to \in S /\ m.type = "closewriter"
           /\ \A c : CloseWriter(c) \in CloseWriters(S) <=> c \in S
<1>1. \A m \in CloseWriters(S) : m.to \in S /\ m.type = "closewriter"
  BY DEF CloseWriters
<1>2. \A c : CloseWriter(c).to = c
  BY DEF CloseWriter
<1>3. \A c \in S : CloseWriter(c) \in CloseWriters(S)
  BY DEF CloseWriters, CloseWriter
<1> QED BY <1>1, <1>2, <1>3

\* CloseWriter to those who lose their connection
LEMMA ClosePost ==
    ASSUME NEW C, NEW out \in Seq(SUBSET Message), Post(C, out),
           NEW S \in SUBSET C, S \subseteq Clients
    PROVE  /\ CloseWriters(S) \in SUBSET Message
           /\ Post(C \ S, Append(out, CloseWriters(S)))
<1>1. CloseWriters(S) \in SUBSET Message
  BY CloseWritersTyped
<1>2. PICK new : new = Append(out, CloseWriters(S))
  OBVIOUS
<1>3. /\ DOMAIN out = 1 .. Len(out) /\ Len(out) \in Nat
      /\ DOMAIN new = 1 .. Len(out) + 1
      /\ \A i \in 1 .. Len(out) : new[i] = out[i]
      /\ new[Len(out) + 1] = CloseWriters(S)
      /\ \A i \in 1 .. Len(out) + 1 : i \in 1 .. Len(out) \/ i = Len(out) + 1
  BY <1>1, <1>2, Grown
<1>4. /\ \A m \in CloseWriters(S) : m.to \in S /\ m.type = "closewriter"
      /\ \A c : CloseWriter(c) \in CloseWriters(S) <=> c \in S
  BY CloseWritersAre
<1>5. ASSUME NEW i \in DOMAIN new, NEW m \in new[i]
      PROVE  /\ m.to \in DOMAIN connected
             /\ \A j \in 1 .. i - 1 : CloseWriter(m.to) \notin new[j]
             /\ view[m.to] = NoView /\ m.type \notin {"room", "closewriter"} =>
                   \E j \in 1 .. i - 1 : \E n \in new[j] : n.to = m.to /\ n.type = "room"
  <2>1. CASE i \in 1 .. Len(out)
    <3>1. m \in out[i] /\ \A j \in 1 .. i - 1 : j \in 1 .. Len(out) /\ new[j] = out[j]
      BY <1>3, <1>5, <2>1
    <3> QED BY <1>3, <2>1, <3>1 DEF Post
  <2>2. CASE i = Len(out) + 1
    <3>1. m.to \in C /\ m.type = "closewriter"
      BY <1>3, <1>4, <1>5, <2>2
    <3>2. \A j \in 1 .. i - 1 : j \in DOMAIN out /\ new[j] = out[j]
      BY <1>3, <2>2
    <3> QED BY <3>1, <3>2 DEF Post
  <2> QED BY <1>3, <2>1, <2>2
<1>6. ASSUME NEW c \in DOMAIN connected
      PROVE  (\E i \in DOMAIN new : CloseWriter(c) \in new[i]) <=> c \notin C \ S
  <2>1. (\E i \in DOMAIN new : CloseWriter(c) \in new[i])
           <=> c \in S \/ \E i \in DOMAIN out : CloseWriter(c) \in out[i]
    <3>1. Len(out) + 1 \in DOMAIN new
      BY <1>3
    <3> QED BY <1>3, <1>4, <3>1
  <2> QED BY <2>1 DEF Post
<1>7. Post(C \ S, new)
  BY <1>5, <1>6 DEF Post
<1> QED BY <1>1, <1>2, <1>7

\* Who has been greeted stays so.
LEMMA StillGreeted ==
    ASSUME NEW out \in Seq(SUBSET Message), NEW msgs \in SUBSET Message,
           NEW c, Greeted(out, c)
    PROVE  Greeted(Append(out, msgs), c)
<1>1. /\ DOMAIN out = 1 .. Len(out)
      /\ DOMAIN Append(out, msgs) = 1 .. Len(out) + 1 /\ Len(out) \in Nat
      /\ \A i \in 1 .. Len(out) : Append(out, msgs)[i] = out[i]
  BY Grown
<1>2. \A i \in DOMAIN out : i \in DOMAIN Append(out, msgs) /\ Append(out, msgs)[i] = out[i]
  BY <1>1
<1> QED BY <1>2 DEF Greeted

-----------------------------------------------------------------------------
(* The last room *)

\* v is what the messages of out leave c to see.
LastSeen(out, c, v) ==
    \/ /\ v = view[c]
       /\ \A i \in DOMAIN out : \A m \in out[i] : ~ (m.to = c /\ m.type = "room")
    \/ \E i \in DOMAIN out : \E m \in out[i] :
          /\ m.to = c /\ m.type = "room" /\ v = [room |-> m.room, users |-> m.users]
          /\ \A n \in out[i] : n.to = c /\ n.type = "room" => n = m
          /\ \A j \in DOMAIN out : j > i =>
                \A n \in out[j] : ~ (n.to = c /\ n.type = "room")

LookAt(out, c) ==
    IF Mail(out, c, "room") = {}
    THEN view[c]
    ELSE LET m == LastRoomMessage(out, c)
         IN  [room |-> m.room, users |-> m.users]

\* It is what Look finds.
LEMMA LastSeenLook ==
    ASSUME NEW out \in Seq(SUBSET Message), NEW c, NEW v, LastSeen(out, c, v)
    PROVE  LookAt(out, c) = v
<1>1. CASE \A i \in DOMAIN out : \A m \in out[i] : ~ (m.to = c /\ m.type = "room")
  <2>1. Mail(out, c, "room") = {}
    BY <1>1 DEF Mail
  <2> QED BY <1>1, <2>1 DEF LookAt, LastSeen
<1>2. ASSUME NEW i \in DOMAIN out, NEW m \in out[i],
             m.to = c, m.type = "room", v = [room |-> m.room, users |-> m.users],
             \A n \in out[i] : n.to = c /\ n.type = "room" => n = m,
             \A j \in DOMAIN out : j > i => \A n \in out[j] : ~ (n.to = c /\ n.type = "room")
      PROVE  LookAt(out, c) = v
  <2> DEFINE carries(j) == \E n \in out[j] : n.to = c /\ n.type = "room"
             isLast(j) == carries(j) /\ \A k \in DOMAIN out : carries(k) => k <= j
             last == CHOOSE j \in DOMAIN out : isLast(j)
  <2>1. DOMAIN out \subseteq Int
    <3>1. DOMAIN out = 1 .. Len(out)
      OBVIOUS
    <3> QED BY <3>1
  <2>2. carries(i) /\ \A k \in DOMAIN out : carries(k) => ~ (k > i)
    BY <1>2
  <2> HIDE DEF carries
  <2>3. isLast(i)
    BY <2>1, <2>2
  <2>4. \A j \in DOMAIN out : isLast(j) => j = i
    BY <2>1, <2>2
  <2>5. last \in DOMAIN out /\ isLast(last)
    BY <2>3
  <2> HIDE DEF isLast
  <2>6. last = i
    BY <2>4, <2>5
  <2>7. LastRoomMessage(out, c) = CHOOSE n \in out[last] : n.to = c /\ n.type = "room"
    BY DEF LastRoomMessage, last, isLast, carries
  <2> HIDE DEF last
  <2>8. LastRoomMessage(out, c) = m
    <3>1. PICK x : x = CHOOSE n \in out[i] : n.to = c /\ n.type = "room"
      OBVIOUS
    <3>2. x \in out[i] /\ x.to = c /\ x.type = "room"
      BY <1>2, <3>1
    <3> QED BY <1>2, <2>6, <2>7, <3>1, <3>2
  <2>9. Mail(out, c, "room") # {}
    <3>1. m \in UNION {out[j] : j \in DOMAIN out}
      BY <1>2
    <3> QED BY <1>2, <3>1 DEF Mail
  <2> QED BY <1>2, <2>8, <2>9 DEF LookAt
<1> QED BY <1>1, <1>2 DEF LastSeen

\* Other messages do not change it.
LEMMA SendSeen ==
    ASSUME NEW out \in Seq(SUBSET Message), NEW msgs \in SUBSET Message, NEW c, NEW v,
           LastSeen(out, c, v), \A m \in msgs : ~ (m.to = c /\ m.type = "room")
    PROVE  LastSeen(Append(out, msgs), c, v)
<1>1. PICK new : new = Append(out, msgs)
  OBVIOUS
<1>2. /\ DOMAIN out = 1 .. Len(out) /\ Len(out) \in Nat
      /\ DOMAIN new = 1 .. Len(out) + 1
      /\ \A i \in 1 .. Len(out) : new[i] = out[i]
      /\ new[Len(out) + 1] = msgs
      /\ \A i \in 1 .. Len(out) + 1 : i \in 1 .. Len(out) \/ i = Len(out) + 1
  BY <1>1, Grown
<1>3. CASE /\ v = view[c]
           /\ \A i \in DOMAIN out : \A m \in out[i] : ~ (m.to = c /\ m.type = "room")
  BY <1>1, <1>2, <1>3 DEF LastSeen
<1>4. ASSUME NEW i \in DOMAIN out, NEW m \in out[i],
             m.to = c, m.type = "room", v = [room |-> m.room, users |-> m.users],
             \A n \in out[i] : n.to = c /\ n.type = "room" => n = m,
             \A j \in DOMAIN out : j > i => \A n \in out[j] : ~ (n.to = c /\ n.type = "room")
      PROVE  LastSeen(new, c, v)
  <2>1. i \in DOMAIN new /\ m \in new[i] /\ new[i] = out[i]
    BY <1>2, <1>4
  <2>2. \A j \in DOMAIN new : j > i => \A n \in new[j] : ~ (n.to = c /\ n.type = "room")
    BY <1>2, <1>4
  <2> QED BY <1>4, <2>1, <2>2 DEF LastSeen
<1> QED BY <1>1, <1>3, <1>4 DEF LastSeen

\* Who is sent the room sees it.
LEMMA NotifySeen ==
    ASSUME NEW out \in Seq(SUBSET Message), NEW k, NEW r, NEW c \in DOMAIN k.rooms[r].users,
           RoomMessages(k, r) \in SUBSET Message
    PROVE  LastSeen(Append(out, RoomMessages(k, r)), c,
                    [room |-> r, users |-> k.rooms[r].users])
<1>1. PICK msgs \in SUBSET Message : msgs = RoomMessages(k, r)
  OBVIOUS
<1>2. PICK m : m = [to |-> c, type |-> "room", room |-> r, users |-> k.rooms[r].users]
  OBVIOUS
<1>3. m \in msgs /\ \A n \in msgs : n.to = c => n = m
  BY <1>1, <1>2 DEF RoomMessages
<1>4. m.to = c /\ m.type = "room" /\ m.room = r /\ m.users = k.rooms[r].users
  BY <1>2
<1>5. PICK new : new = Append(out, msgs)
  OBVIOUS
<1>6. /\ DOMAIN out = 1 .. Len(out) /\ Len(out) \in Nat
      /\ DOMAIN new = 1 .. Len(out) + 1
      /\ new[Len(out) + 1] = msgs
  BY <1>5, Grown
<1>7. Len(out) + 1 \in DOMAIN new /\ \A j \in DOMAIN new : ~ (j > Len(out) + 1)
  BY <1>6
<1>8. LastSeen(new, c, [room |-> m.room, users |-> m.users])
  BY <1>3, <1>4, <1>6, <1>7 DEF LastSeen
<1> QED BY <1>1, <1>4, <1>5, <1>8

-----------------------------------------------------------------------------
(* The sessions that were announced and not ended *)

Announced(out, c) == Sids(out, c, "hostsession") \cup Sids(out, c, "clientsession")

Heard(out, c) == (told[c] \cup Announced(out, c)) \ Sids(out, c, "endshare")

\* What a set of messages says to c
SidsIn(msgs, c, type) == {m.sid : m \in {n \in msgs : n.to = c /\ n.type = type}}

\* The sids in one more set of messages
LEMMA SidsGrow ==
    ASSUME NEW out \in Seq(SUBSET Message), NEW msgs \in SUBSET Message, NEW c, NEW type
    PROVE  Sids(Append(out, msgs), c, type) = Sids(out, c, type) \cup SidsIn(msgs, c, type)
<1>1. PICK new : new = Append(out, msgs)
  OBVIOUS
<1>2. /\ DOMAIN out = 1 .. Len(out) /\ Len(out) \in Nat
      /\ DOMAIN new = 1 .. Len(out) + 1
      /\ \A i \in 1 .. Len(out) : new[i] = out[i]
      /\ new[Len(out) + 1] = msgs
      /\ \A i \in 1 .. Len(out) + 1 : i \in 1 .. Len(out) \/ i = Len(out) + 1
  BY <1>1, Grown
<1>3. UNION {new[i] : i \in DOMAIN new} = (UNION {out[i] : i \in DOMAIN out}) \cup msgs
  <2>1. \A m : (\E i \in DOMAIN new : m \in new[i])
                 <=> (\E i \in DOMAIN out : m \in out[i]) \/ m \in msgs
    <3>1. Len(out) + 1 \in DOMAIN new /\ \A i \in DOMAIN out : i \in DOMAIN new
      BY <1>2
    <3> QED BY <1>2, <3>1
  <2> QED BY <2>1
<1>4. PICK A : A = UNION {new[i] : i \in DOMAIN new}
  OBVIOUS
<1>5. PICK B : B = UNION {out[i] : i \in DOMAIN out}
  OBVIOUS
<1>6. A = B \cup msgs
  BY <1>3, <1>4, <1>5
<1>7. Sids(new, c, type) = {m.sid : m \in {n \in A : n.to = c /\ n.type = type}}
  BY <1>4 DEF Sids, Mail
<1>8. Sids(out, c, type) = {m.sid : m \in {n \in B : n.to = c /\ n.type = type}}
  BY <1>5 DEF Sids, Mail
<1>9. \A s : s \in {m.sid : m \in {n \in A : n.to = c /\ n.type = type}}
              <=> s \in {m.sid : m \in {n \in B : n.to = c /\ n.type = type}}
                     \/ s \in SidsIn(msgs, c, type)
  BY <1>6 DEF SidsIn
<1> QED BY <1>1, <1>7, <1>8, <1>9

\* Messages of other types tell c of no session.
LEMMA OtherSids ==
    ASSUME NEW out \in Seq(SUBSET Message), NEW msgs \in SUBSET Message, NEW c,
           \A m \in msgs : m.to = c =>
              m.type \notin {"hostsession", "clientsession", "endshare"}
    PROVE  Heard(Append(out, msgs), c) = Heard(out, c)
<1>1. \A type \in {"hostsession", "clientsession", "endshare"} : SidsIn(msgs, c, type) = {}
  BY DEF SidsIn
<1>2. ASSUME NEW type \in {"hostsession", "clientsession", "endshare"}
      PROVE  Sids(Append(out, msgs), c, type) = Sids(out, c, type)
  <2>1. SidsIn(msgs, c, type) = {}
    BY <1>1
  <2>2. Sids(Append(out, msgs), c, type) = Sids(out, c, type) \cup SidsIn(msgs, c, type)
    BY SidsGrow
  <2> QED BY <2>1, <2>2
<1> QED BY <1>2 DEF Heard, Announced

\* The end of the sessions gone is heard by the other ends that are there.
LEMMA EndSharesHeard ==
    ASSUME NEW h, NEW out \in Seq(SUBSET Message), NEW r, NEW gone, NEW c,
           NEW msgs \in SUBSET Message, msgs = EndShares(h, r, gone, c), NEW d
    PROVE  \A s : s \in Heard(Append(out, msgs), d)
                     <=> /\ s \in Heard(out, d)
                         /\ ~ (s \in gone /\ Peer(s, c) = d /\ d \in DOMAIN h.rooms[r].users)
<1>1. msgs = EndShares(h, r, gone, c)
  OBVIOUS
<1>2. PICK ended : ended = {s \in gone : Peer(s, c) = d /\ d \in DOMAIN h.rooms[r].users}
  OBVIOUS
<1>3. \A m \in msgs : m.type = "endshare"
  BY <1>1 DEF EndShares
<1>4. SidsIn(msgs, d, "hostsession") = {} /\ SidsIn(msgs, d, "clientsession") = {}
  BY <1>3 DEF SidsIn
<1>5. SidsIn(msgs, d, "endshare") = ended
  <2>1. ASSUME NEW s \in SidsIn(msgs, d, "endshare")
        PROVE  s \in ended
    <3>1. PICK m \in msgs : m.to = d /\ m.sid = s
      BY <2>1 DEF SidsIn
    <3>2. PICK t \in gone : /\ Peer(t, c) \in DOMAIN h.rooms[r].users
                            /\ m = [to |-> Peer(t, c), type |-> "endshare", sid |-> t]
      BY <1>1, <3>1 DEF EndShares
    <3>3. m.to = Peer(t, c) /\ m.sid = t
      BY <3>2
    <3> QED BY <1>2, <3>1, <3>2, <3>3
  <2>2. ASSUME NEW s \in ended
        PROVE  s \in SidsIn(msgs, d, "endshare")
    <3>1. PICK m : m = [to |-> Peer(s, c), type |-> "endshare", sid |-> s]
      OBVIOUS
    <3>2. m \in msgs
      BY <1>1, <1>2, <3>1 DEF EndShares
    <3>3. m.to = d /\ m.type = "endshare" /\ m.sid = s
      BY <1>2, <3>1
    <3> QED BY <3>2, <3>3 DEF SidsIn
  <2> QED BY <2>1, <2>2
<1>6. PICK new : new = Append(out, msgs)
  OBVIOUS
<1>7. /\ Sids(new, d, "hostsession") = Sids(out, d, "hostsession")
      /\ Sids(new, d, "clientsession") = Sids(out, d, "clientsession")
      /\ Sids(new, d, "endshare") = Sids(out, d, "endshare") \cup ended
  <2>1. ASSUME NEW type
        PROVE  Sids(new, d, type) = Sids(out, d, type) \cup SidsIn(msgs, d, type)
    BY <1>6, SidsGrow
  <2>2. Sids(new, d, "hostsession") = Sids(out, d, "hostsession")
    BY <1>4, <2>1
  <2>3. Sids(new, d, "clientsession") = Sids(out, d, "clientsession")
    BY <1>4, <2>1
  <2>4. Sids(new, d, "endshare") = Sids(out, d, "endshare") \cup ended
    BY <1>5, <2>1
  <2> QED BY <2>2, <2>3, <2>4
<1>8. Heard(new, d) = Heard(out, d) \ ended
  BY <1>7 DEF Heard, Announced
<1>9. Heard(Append(out, msgs), d) = Heard(out, d) \ ended
  BY <1>6, <1>8
<1> QED BY <1>2, <1>9

\* New sessions are heard of by their ends.
LEMMA NoticesHeard ==
    ASSUME NEW out \in Seq(SUBSET Message), NEW made \in SUBSET Session,
           NEW d, Sids(out, d, "endshare") = {}
    PROVE  \A s : s \in Heard(Append(out, SessionNotices(made)), d)
                     <=> s \in Heard(out, d) \/ (s \in made /\ d \in {s.host, s.client})
<1>1. PICK msgs \in SUBSET Message : msgs = SessionNotices(made)
  BY NoticesTyped
<1>2. \A m \in msgs : m.type \in {"hostsession", "clientsession"}
  BY <1>1 DEF SessionNotices
<1>3. SidsIn(msgs, d, "endshare") = {}
  BY <1>2 DEF SidsIn
<1>4. SidsIn(msgs, d, "hostsession") = {s \in made : s.host = d}
  <2>1. ASSUME NEW s \in SidsIn(msgs, d, "hostsession")
        PROVE  s \in made /\ s.host = d
    <3>1. PICK m \in msgs : m.to = d /\ m.type = "hostsession" /\ m.sid = s
      BY <2>1 DEF SidsIn
    <3>2. PICK t \in made : m = [to |-> t.host, type |-> "hostsession", sid |-> t]
      BY <1>1, <3>1 DEF SessionNotices
    <3> QED BY <3>1, <3>2
  <2>2. ASSUME NEW s \in made, s.host = d
        PROVE  s \in SidsIn(msgs, d, "hostsession")
    <3>1. PICK m : m = [to |-> s.host, type |-> "hostsession", sid |-> s]
      OBVIOUS
    <3>2. m \in msgs
      BY <1>1, <3>1 DEF SessionNotices
    <3> QED BY <2>2, <3>1, <3>2 DEF SidsIn
  <2> QED BY <2>1, <2>2
<1>5. SidsIn(msgs, d, "clientsession") = {s \in made : s.client = d}
  <2>1. ASSUME NEW s \in SidsIn(msgs, d, "clientsession")
        PROVE  s \in made /\ s.client = d
    <3>1. PICK m \in msgs : m.to = d /\ m.type = "clientsession" /\ m.sid = s
      BY <2>1 DEF SidsIn
    <3>2. PICK t \in made : m = [to |-> t.client, type |-> "clientsession", sid |-> t]
      BY <1>1, <3>1 DEF SessionNotices
    <3> QED BY <3>1, <3>2
  <2>2. ASSUME NEW s \in made, s.client = d
        PROVE  s \in SidsIn(msgs, d, "clientsession")
    <3>1. PICK m : m = [to |-> s.client, type |-> "clientsession", sid |-> s]
      OBVIOUS
    <3>2. m \in msgs
      BY <1>1, <3>1 DEF SessionNotices
    <3> QED BY <2>2, <3>1, <3>2 DEF SidsIn
  <2> QED BY <2>1, <2>2
<1>6. PICK new : new = Append(out, msgs)
  OBVIOUS
<1>7. /\ Sids(new, d, "hostsession") = Sids(out, d, "hostsession") \cup {s \in made : s.host = d}
      /\ Sids(new, d, "clientsession")
            = Sids(out, d, "clientsession") \cup {s \in made : s.client = d}
      /\ Sids(new, d, "endshare") = {}
  <2>1. ASSUME NEW type
        PROVE  Sids(new, d, type) = Sids(out, d, type) \cup SidsIn(msgs, d, type)
    BY <1>6, SidsGrow
  <2>2. Sids(new, d, "hostsession") = Sids(out, d, "hostsession") \cup {s \in made : s.host = d}
    BY <1>4, <2>1
  <2>3. Sids(new, d, "clientsession")
           = Sids(out, d, "clientsession") \cup {s \in made : s.client = d}
    BY <1>5, <2>1
  <2>4. Sids(new, d, "endshare") = {}
    <3>1. Sids(new, d, "endshare") = Sids(out, d, "endshare") \cup SidsIn(msgs, d, "endshare")
      BY <2>1
    <3> QED BY <1>3, <3>1
  <2> QED BY <2>2, <2>3, <2>4
<1>8. \A s : s \in Heard(new, d)
               <=> s \in Heard(out, d) \/ (s \in made /\ d \in {s.host, s.client})
  <2>1. Sids(out, d, "endshare") = {}
    OBVIOUS
  <2> QED BY <1>7, <2>1 DEF Heard, Announced
<1>9. Heard(new, d) = Heard(Append(out, SessionNotices(made)), d)
  BY <1>1, <1>6
<1> QED BY <1>8, <1>9

-----------------------------------------------------------------------------
(* What the registry would have a client know *)

Shown(h, c) ==
    IF h.connected[c] = NoRoom
    THEN NoView
    ELSE [room |-> h.connected[c], users |-> h.rooms[h.connected[c]].users]

Live(h, c) ==
    IF h.connected[c] = NoRoom THEN {} ELSE SessionsWith(h.rooms[h.connected[c]], c)

\* Those that do not end with c
LiveBut(h, d, c) == {s \in Live(h, d) : c \notin {s.host, s.client}}

\* The two ends of a session are two users of its room.
Paired(h) ==
    \A r \in DOMAIN h.rooms : \A s \in h.rooms[r].sessions :
        s.host # s.client /\ {s.host, s.client} \subseteq DOMAIN h.rooms[r].users

\* A sound registry is paired, and hosts stream.
LEMMA SoundPaired ==
    ASSUME NEW h, Typed(h), Sound(h)
    PROVE  /\ Paired(h)
           /\ \A r \in DOMAIN h.rooms : \A s \in h.rooms[r].sessions :
                 Sharing(h.rooms[r].users, s.host)
<1> SUFFICES ASSUME NEW r \in DOMAIN h.rooms, NEW s \in h.rooms[r].sessions
             PROVE  /\ s.host # s.client
                    /\ {s.host, s.client} \subseteq DOMAIN h.rooms[r].users
                    /\ Sharing(h.rooms[r].users, s.host)
  BY DEF Paired
<1>1. s.host \in Clients /\ s.client \in Clients
  BY RoomFields DEF Session
<1>2. Watches(h.rooms[r], s.host, s.client)
  BY DEF Watches
<1>3. Streams(h.rooms[r], s.host, s.client)
  BY <1>1, <1>2 DEF Sound, StreamedRoom
<1> QED BY <1>3 DEF Streams, Sharing

\* A placed client is a user of the room it is connected to, and of no other.
LEMMA PlacedIn ==
    ASSUME NoRoom \notin RoomIDs, NEW h, Typed(h), Placed(h), NEW d \in DOMAIN h.connected
    PROVE  /\ d \in Clients
           /\ h.connected[d] # NoRoom => Inside(h, h.connected[d], d)
           /\ \A r \in DOMAIN h.rooms :
                 d \in DOMAIN h.rooms[r].users <=> h.connected[d] = r
<1>1. d \in Clients /\ h.connected[d] \in RoomIDs \cup {NoRoom} /\ DOMAIN h.rooms \subseteq RoomIDs
  BY DEF Typed, IsMap
<1> QED BY <1>1 DEF Placed, Inside

\* The users of a room are connected to it.
LEMMA PlacedUsers ==
    ASSUME NoRoom \notin RoomIDs, NEW h, Typed(h), Placed(h), NEW r \in DOMAIN h.rooms,
           NEW d \in DOMAIN h.rooms[r].users
    PROVE  d \in DOMAIN h.connected /\ h.connected[d] = r /\ r # NoRoom /\ d \in Clients
<1>1. d \in Clients /\ r \in RoomIDs
  BY RoomFields DEF IsMap
<1> QED BY <1>1 DEF Placed, Inside

\* Nobody else than the users of the room is sent the room.
LEMMA RoomMessagesTyped ==
    ASSUME NEW h, Typed(h), NEW r \in DOMAIN h.rooms
    PROVE  RoomMessages(h, r) \in SUBSET Message
<1>1. h.rooms[r].users \in Maps(Clients, User) /\ DOMAIN h.rooms[r].users \subseteq Clients
      /\ r \in RoomIDs
  BY RoomFields, MapsAreMaps DEF IsMap
<1> QED BY <1>1 DEF RoomMessages, Message

\* Only room messages have been sent, to everybody who has to know; c, which
\* will be disconnected, and those around it need not know the last.
Underway(h, c) ==
    /\ Post(DOMAIN h.connected, h.out)
    /\ \A d \in DOMAIN h.connected : h.connected[d] # NoRoom => Greeted(h.out, d)
    /\ \A d \in DOMAIN h.connected \ {c} : Heard(h.out, d) = Live(h, d)
    /\ \A d \in DOMAIN h.connected \ {c} :
          h.connected[d] = NoRoom \/ h.connected[d] # h.connected[c] =>
             LastSeen(h.out, d, Shown(h, d))

\* Everybody who is still connected has been told all.
Informed(k) ==
    /\ Post(DOMAIN k.connected, k.out)
    /\ \A d \in DOMAIN k.connected :
          LastSeen(k.out, d, Shown(k, d)) /\ Heard(k.out, d) = Live(k, d)

\* Messages that leave what d knows as it is
Unheard(msgs, d) ==
    \A m \in msgs : m.to = d =>
        m.type \notin {"room", "hostsession", "clientsession", "endshare"}

\* They do.
LEMMA UnheardKeeps ==
    ASSUME NEW out \in Seq(SUBSET Message), NEW msgs \in SUBSET Message, NEW d,
           Unheard(msgs, d), NEW v, LastSeen(out, d, v)
    PROVE  /\ LastSeen(Append(out, msgs), d, v)
           /\ Heard(Append(out, msgs), d) = Heard(out, d)
<1>1. \A m \in msgs : ~ (m.to = d /\ m.type = "room")
  BY DEF Unheard
<1>2. \A m \in msgs : m.to = d => m.type \notin {"hostsession", "clientsession", "endshare"}
  BY DEF Unheard
<1> QED BY <1>1, <1>2, SendSeen, OtherSids

\* A client in no room leaves without a word.
LEMMA OutsiderLeaves ==
    ASSUME NoRoom \notin RoomIDs, NEW h, Typed(h), Placed(h), NEW c \in Clients,
           c \in DOMAIN h.connected, h.connected[c] = NoRoom, Underway(h, c),
           NEW k, k = Disconnect(h, c), Typed(k), Departed(h, c, k)
    PROVE  Informed(k)
<1>1. /\ k.connected = Drop(h.connected, {c}) /\ k.rooms = h.rooms
      /\ k.out = Append(h.out, CloseWriters({c}))
  <2>1. k.out = Append(h.out, CloseWriters({c}))
    BY DisconnectOut
  <2> QED BY <2>1 DEF Departed
<1>2. /\ DOMAIN k.connected = DOMAIN h.connected \ {c}
      /\ \A d \in DOMAIN k.connected : k.connected[d] = h.connected[d]
  BY <1>1 DEF Drop
<1>3. h.out \in Seq(SUBSET Message) /\ CloseWriters({c}) \in SUBSET Message
  BY CloseWritersTyped DEF Typed
<1>4. Post(DOMAIN k.connected, k.out)
  <2>1. {c} \in SUBSET DOMAIN h.connected /\ {c} \subseteq Clients
    OBVIOUS
  <2>2. Post(DOMAIN h.connected, h.out)
    BY DEF Underway
  <2>3. Post(DOMAIN h.connected \ {c}, Append(h.out, CloseWriters({c})))
    BY <1>3, <2>1, <2>2, ClosePost
  <2> QED BY <1>1, <1>2, <2>3
<1>5. ASSUME NEW d \in DOMAIN k.connected
      PROVE  LastSeen(k.out, d, Shown(k, d)) /\ Heard(k.out, d) = Live(k, d)
  <2>1. d \in DOMAIN h.connected \ {c} /\ k.connected[d] = h.connected[d]
    BY <1>2
  <2>2. Shown(k, d) = Shown(h, d) /\ Live(k, d) = Live(h, d)
    BY <1>1, <2>1 DEF Shown, Live
  <2>3. LastSeen(h.out, d, Shown(h, d)) /\ Heard(h.out, d) = Live(h, d)
    BY <2>1 DEF Underway
  <2>4. Unheard(CloseWriters({c}), d)
    BY CloseWritersAre DEF Unheard
  <2>5. /\ LastSeen(Append(h.out, CloseWriters({c})), d, Shown(h, d))
        /\ Heard(Append(h.out, CloseWriters({c})), d) = Heard(h.out, d)
    BY <1>3, <2>3, <2>4, UnheardKeeps
  <2> QED BY <1>1, <2>2, <2>3, <2>5
<1> QED BY <1>4, <1>5 DEF Informed

\* The peers of a client that leaves are told of the end of their sessions
\* before anything else happens.
LEMMA PeersAreTold ==
    ASSUME NoRoom \notin RoomIDs, NEW h, Typed(h), Placed(h), Paired(h),
           NEW c \in Clients, c \in DOMAIN h.connected,
           NEW r, r = h.connected[c], r # NoRoom, Inside(h, r, c), Underway(h, c),
           NEW ends, ends = EndsOf(h, c)
    PROVE  /\ ends \in Seq(SUBSET Message)
           /\ Post(DOMAIN h.connected \ {c}, ends)
           /\ \A d \in DOMAIN h.connected \ {c} :
                 /\ h.connected[d] # r => LastSeen(ends, d, Shown(h, d))
                 /\ Heard(ends, d) = LiveBut(h, d, c)
<1>1. PICK gone : gone = SessionsWith(h.rooms[r], c)
  OBVIOUS
<1>2. PICK msgs : msgs = EndShares(h, r, gone, c)
  OBVIOUS
<1>3. PICK cut : cut = Append(h.out, CloseWriters({c}))
  OBVIOUS
<1>4. r \in DOMAIN h.rooms /\ gone \in SUBSET h.rooms[r].sessions
      /\ gone \in SUBSET Session
  BY <1>1, RoomFields DEF Inside, SessionsWith
<1>5. msgs \in SUBSET Message
  BY <1>2, <1>4, EndSharesTyped, RoomFields
<1>6. h.out \in Seq(SUBSET Message) /\ CloseWriters({c}) \in SUBSET Message
  BY CloseWritersTyped DEF Typed
<1>7. cut \in Seq(SUBSET Message) /\ ends = Append(cut, msgs) /\ ends \in Seq(SUBSET Message)
  <2>1. cut \in Seq(SUBSET Message)
    BY <1>3, <1>6, Sent
  <2>2. ends = Append(cut, msgs)
    BY <1>1, <1>2, <1>3 DEF EndsOf
  <2>3. Append(cut, msgs) \in Seq(SUBSET Message)
    BY <1>5, <2>1, Sent, Zenon
  <2> QED BY <2>1, <2>2, <2>3, Zenon
<1>8. \A s \in gone : Peer(s, c) # c
  BY <1>1, <1>4 DEF Peer, Paired, SessionsWith
<1>9. \A m \in msgs : m.type = "endshare" /\ m.to # c /\ m.to \in DOMAIN h.rooms[r].users
  BY <1>2, <1>8 DEF EndShares
<1>10. Post(DOMAIN h.connected \ {c}, cut)
  <2>1. {c} \in SUBSET DOMAIN h.connected /\ {c} \subseteq Clients
    OBVIOUS
  <2>2. Post(DOMAIN h.connected, h.out)
    BY DEF Underway
  <2> QED BY <1>3, <1>6, <2>1, <2>2, ClosePost
<1>11. Post(DOMAIN h.connected \ {c}, ends)
  <2>1. ASSUME NEW m \in msgs
        PROVE  /\ m.to \in DOMAIN h.connected \ {c}
               /\ m.type # "closewriter"
               /\ Greeted(cut, m.to)
    <3>1. m.to \in DOMAIN h.connected /\ h.connected[m.to] # NoRoom
      BY <1>4, <1>9, PlacedUsers
    <3>2. Greeted(h.out, m.to)
      BY <3>1 DEF Underway
    <3>3. Greeted(cut, m.to)
      BY <1>3, <1>6, <3>2, StillGreeted
    <3> QED BY <1>9, <3>1, <3>3
  <2> QED BY <1>5, <1>7, <1>10, <2>1, SendPost
<1>12. ASSUME NEW d \in DOMAIN h.connected \ {c}
       PROVE  /\ h.connected[d] # r => LastSeen(ends, d, Shown(h, d))
              /\ Heard(ends, d) = LiveBut(h, d, c)
  <2>1. Unheard(CloseWriters({c}), d)
    BY CloseWritersAre DEF Unheard
  <2>2. Heard(h.out, d) = Live(h, d)
    BY DEF Underway
  <2>3. Heard(cut, d) = Live(h, d)
    <3>1. \A m \in CloseWriters({c}) : m.to = d =>
             m.type \notin {"hostsession", "clientsession", "endshare"}
      BY <2>1 DEF Unheard
    <3> QED BY <1>3, <1>6, <2>2, <3>1, OtherSids
  <2>4. \A s : s \in Heard(ends, d)
                  <=> /\ s \in Live(h, d)
                      /\ ~ (s \in gone /\ Peer(s, c) = d /\ d \in DOMAIN h.rooms[r].users)
    <3>1. \A s : s \in Heard(Append(cut, msgs), d)
                    <=> /\ s \in Heard(cut, d)
                        /\ ~ (s \in gone /\ Peer(s, c) = d
                                /\ d \in DOMAIN h.rooms[r].users)
      <4>1. cut \in Seq(SUBSET Message)
        BY <1>7
      <4> QED BY ONLY <1>2, <1>5, <4>1, EndSharesHeard, Zenon
    <3> QED BY <1>7, <2>3, <3>1
  <2>5. \A s \in Live(h, d) :
           s \in gone /\ Peer(s, c) = d /\ d \in DOMAIN h.rooms[r].users
              <=> c \in {s.host, s.client}
    <3>1. CASE h.connected[d] = NoRoom
      BY <3>1 DEF Live
    <3>2. CASE h.connected[d] # NoRoom
      <4>1. PICK q : q = h.connected[d]
        OBVIOUS
      <4>2. q \in DOMAIN h.rooms /\ d \in DOMAIN h.rooms[q].users
        BY <3>2, <4>1, PlacedIn DEF Inside
      <4>3. Live(h, d) = SessionsWith(h.rooms[q], d)
        BY <3>2, <4>1 DEF Live
      <4>4. ASSUME NEW s \in h.rooms[q].sessions, d \in {s.host, s.client},
                   c \in {s.host, s.client}
            PROVE  s \in gone /\ Peer(s, c) = d /\ d \in DOMAIN h.rooms[r].users
        <5>1. c \in DOMAIN h.rooms[q].users /\ s.host # s.client
          BY <4>2, <4>4 DEF Paired
        <5>2. q = r
          BY <4>2, <5>1, PlacedUsers
        <5> QED BY <1>1, <4>2, <4>4, <5>1, <5>2 DEF SessionsWith, Peer
      <4>5. \A s \in gone : c \in {s.host, s.client}
        BY <1>1 DEF SessionsWith
      <4> QED BY <4>3, <4>4, <4>5 DEF SessionsWith
    <3> QED BY <3>1, <3>2
  <2>6. ASSUME h.connected[d] # r
        PROVE  LastSeen(ends, d, Shown(h, d))
    <3>1. LastSeen(h.out, d, Shown(h, d))
      BY <2>6 DEF Underway
    <3>2. LastSeen(cut, d, Shown(h, d))
      BY <1>3, <1>6, <2>1, <3>1, UnheardKeeps
    <3>3. \A m \in msgs : ~ (m.to = d /\ m.type = "room")
      BY <1>9
    <3> QED BY <1>5, <1>7, <3>2, <3>3, SendSeen
  <2>7. Heard(ends, d) = LiveBut(h, d, c)
    BY <2>4, <2>5 DEF LiveBut
  <2> QED BY <2>6, <2>7
<1> QED BY <1>7, <1>11, <1>12

\* A client that leaves its room: those who go with it are sent CloseWriter,
\* those who stay the room.
LEMMA UserLeaves ==
    ASSUME NoRoom \notin RoomIDs, NEW h, Typed(h), Placed(h), Paired(h),
           NEW c \in Clients, c \in DOMAIN h.connected,
           NEW r, r = h.connected[c], r # NoRoom, Inside(h, r, c), Underway(h, c),
           NEW k, k = Disconnect(h, c), Typed(k), Departed(h, c, k)
    PROVE  Informed(k)
<1>2. PICK ends : ends = EndsOf(h, c)
  OBVIOUS
<1>3. /\ ends \in Seq(SUBSET Message)
      /\ Post(DOMAIN h.connected \ {c}, ends)
      /\ \A d \in DOMAIN h.connected \ {c} :
            /\ h.connected[d] # r => LastSeen(ends, d, Shown(h, d))
            /\ Heard(ends, d) = LiveBut(h, d, c)
  BY <1>2, PeersAreTold
<1>4. r \in DOMAIN h.rooms /\ DOMAIN h.rooms \subseteq RoomIDs
  BY DEF Inside, Typed, IsMap
<1>5. CASE ClosesFor(h, r, c)
  <2>1. PICK others : others = DOMAIN h.rooms[r].users \ {c}
    OBVIOUS
  <2>2. /\ k.connected = Drop(Drop(h.connected, {c}), others)
        /\ DOMAIN k.rooms = DOMAIN h.rooms \ {r}
        /\ \A q \in DOMAIN k.rooms : k.rooms[q] = h.rooms[q]
        /\ k.out = Append(ends, CloseWriters(others))
    <3>1. k.out = Append(ends, CloseWriters(others))
      <4>1. k.out = Append(EndsOf(h, c), CloseWriters(DOMAIN h.rooms[r].users \ {c}))
        BY <1>5, DisconnectOut
      <4> QED BY ONLY <1>2, <2>1, <4>1
    <3> QED BY <1>5, <2>1, <3>1 DEF Departed
  <2>3. /\ DOMAIN k.connected = (DOMAIN h.connected \ {c}) \ others
        /\ \A d \in DOMAIN k.connected : k.connected[d] = h.connected[d]
    BY <2>2 DEF Drop
  <2>4. others \in SUBSET (DOMAIN h.connected \ {c}) /\ others \subseteq Clients
    BY <1>4, <2>1, PlacedUsers
  <2>5. CloseWriters(others) \in SUBSET Message
    BY <2>4, CloseWritersTyped
  <2>6. Post(DOMAIN k.connected, k.out)
    <3>1. Post((DOMAIN h.connected \ {c}) \ others, Append(ends, CloseWriters(others)))
      BY <1>3, <2>4, ClosePost
    <3> QED BY <2>2, <2>3, <3>1
  <2>7. ASSUME NEW d \in DOMAIN k.connected
        PROVE  LastSeen(k.out, d, Shown(k, d)) /\ Heard(k.out, d) = Live(k, d)
    <3>1. d \in DOMAIN h.connected \ {c} /\ k.connected[d] = h.connected[d] /\ d \notin others
      BY <2>3
    <3>2. h.connected[d] # r
      BY <1>4, <2>1, <3>1, PlacedIn
    <3>3. /\ h.connected[d] # NoRoom =>
                /\ h.connected[d] \in DOMAIN h.rooms
                /\ k.rooms[h.connected[d]] = h.rooms[h.connected[d]]
      BY <2>2, <3>1, <3>2, PlacedIn DEF Inside
    <3>4. Shown(k, d) = Shown(h, d) /\ Live(k, d) = Live(h, d)
      BY <3>1, <3>3 DEF Shown, Live
    <3>5. LiveBut(h, d, c) = Live(h, d)
      <4>1. CASE h.connected[d] = NoRoom
        BY <4>1 DEF Live, LiveBut
      <4>2. CASE h.connected[d] # NoRoom
        <5>1. PICK q : q = h.connected[d]
          OBVIOUS
        <5>2. q \in DOMAIN h.rooms /\ q # r /\ Live(h, d) = SessionsWith(h.rooms[q], d)
          BY <3>2, <3>3, <4>2, <5>1 DEF Live
        <5>3. \A s \in h.rooms[q].sessions : c \notin {s.host, s.client}
          <6>1. c \notin DOMAIN h.rooms[q].users
            BY <5>2, PlacedUsers
          <6> QED BY <5>2, <6>1 DEF Paired
        <5> QED BY <5>2, <5>3 DEF SessionsWith, LiveBut
      <4> QED BY <4>1, <4>2
    <3>6. LastSeen(ends, d, Shown(h, d)) /\ Heard(ends, d) = Live(h, d)
      BY <1>3, <3>1, <3>2, <3>5
    <3>7. Unheard(CloseWriters(others), d)
      BY CloseWritersAre DEF Unheard
    <3>8. /\ LastSeen(Append(ends, CloseWriters(others)), d, Shown(h, d))
          /\ Heard(Append(ends, CloseWriters(others)), d) = Heard(ends, d)
      BY <1>3, <2>5, <3>6, <3>7, UnheardKeeps
    <3> QED BY <2>2, <3>4, <3>6, <3>8
  <2> QED BY <2>6, <2>7 DEF Informed
<1>6. CASE ~ClosesFor(h, r, c)
  <2>1. PICK msgs : msgs = RoomMessages(k, r)
    OBVIOUS
  <2>2. /\ k.connected = Drop(h.connected, {c})
        /\ k.rooms = Without(h, r, c)
        /\ k.out = Append(ends, msgs)
    <3>1. k.out = Append(ends, msgs)
      BY <1>2, <1>6, <2>1, DisconnectOut
    <3> QED BY <1>6, <3>1 DEF Departed
  <2>3. /\ DOMAIN k.connected = DOMAIN h.connected \ {c}
        /\ \A d \in DOMAIN k.connected : k.connected[d] = h.connected[d]
    BY <2>2 DEF Drop
  <2>4. /\ DOMAIN k.rooms = DOMAIN h.rooms
        /\ \A q \in DOMAIN h.rooms : q # r => k.rooms[q] = h.rooms[q]
        /\ k.rooms[r].sessions
              = {s \in h.rooms[r].sessions : c \notin {s.host, s.client}}
        /\ DOMAIN k.rooms[r].users = DOMAIN h.rooms[r].users \ {c}
    BY <2>2, WithoutRoom
  <2>5. msgs \in SUBSET Message
    BY <1>4, <2>1, <2>4, RoomMessagesTyped
  <2>6. \A m \in msgs : m.type = "room" /\ m.to \in DOMAIN k.rooms[r].users
    BY <2>1 DEF RoomMessages
  <2>7. Post(DOMAIN k.connected, k.out)
    <3>1. \A m \in msgs : m.to \in DOMAIN h.connected \ {c}
      BY <1>4, <2>4, <2>6, PlacedUsers
    <3>2. Post(DOMAIN h.connected \ {c}, Append(ends, msgs))
      BY <1>3, <2>5, <2>6, <3>1, SendPost
    <3> QED BY <2>2, <2>3, <3>2
  <2>8. ASSUME NEW d \in DOMAIN k.connected
        PROVE  LastSeen(k.out, d, Shown(k, d)) /\ Heard(k.out, d) = Live(k, d)
    <3>1. d \in DOMAIN h.connected \ {c} /\ k.connected[d] = h.connected[d]
      BY <2>3
    <3>2. Heard(k.out, d) = Heard(ends, d)
      <4>1. \A m \in msgs : m.to = d =>
               m.type \notin {"hostsession", "clientsession", "endshare"}
        BY <2>6
      <4>2. Heard(Append(ends, msgs), d) = Heard(ends, d)
        BY <1>3, <2>5, <4>1, OtherSids
      <4> QED BY <2>2, <4>2
    <3>3. Heard(ends, d) = LiveBut(h, d, c)
      BY <1>3, <3>1
    <3>4. CASE h.connected[d] = r
      <4>1. d \in DOMAIN k.rooms[r].users
        BY <1>4, <2>4, <3>1, <3>4, PlacedIn
      <4>2. LastSeen(Append(ends, RoomMessages(k, r)), d,
                     [room |-> r, users |-> k.rooms[r].users])
        BY <1>3, <2>1, <2>5, <4>1, NotifySeen
      <4>3. Shown(k, d) = [room |-> r, users |-> k.rooms[r].users]
        BY <3>1, <3>4 DEF Shown
      <4>4. Live(k, d) = LiveBut(h, d, c)
        BY <2>4, <3>1, <3>4 DEF Live, SessionsWith, LiveBut
      <4> QED BY <2>1, <2>2, <3>2, <3>3, <4>2, <4>3, <4>4
    <3>5. CASE h.connected[d] # r
      <4>1. h.connected[d] # NoRoom =>
               /\ h.connected[d] \in DOMAIN h.rooms
               /\ k.rooms[h.connected[d]] = h.rooms[h.connected[d]]
        BY <2>4, <3>1, <3>5, PlacedIn DEF Inside
      <4>2. Shown(k, d) = Shown(h, d) /\ Live(k, d) = Live(h, d)
        BY <3>1, <4>1 DEF Shown, Live
      <4>3. LiveBut(h, d, c) = Live(h, d)
        <5>1. CASE h.connected[d] = NoRoom
          BY <5>1 DEF Live, LiveBut
        <5>2. CASE h.connected[d] # NoRoom
          <6>1. PICK q : q = h.connected[d]
            OBVIOUS
          <6>2. q \in DOMAIN h.rooms /\ q # r /\ Live(h, d) = SessionsWith(h.rooms[q], d)
            BY <3>5, <4>1, <5>2, <6>1 DEF Live
          <6>3. \A s \in h.rooms[q].sessions : c \notin {s.host, s.client}
            <7>1. c \notin DOMAIN h.rooms[q].users
              BY <6>2, PlacedUsers
            <7> QED BY <6>2, <7>1 DEF Paired
          <6> QED BY <6>2, <6>3 DEF SessionsWith, LiveBut
        <5> QED BY <5>1, <5>2
      <4>4. LastSeen(ends, d, Shown(h, d))
        BY <1>3, <3>1, <3>5
      <4>5. d \notin DOMAIN k.rooms[r].users
        BY <1>4, <2>4, <3>1, <3>5, PlacedIn
      <4>6. \A m \in msgs : ~ (m.to = d /\ m.type = "room")
        BY <2>6, <4>5
      <4>7. LastSeen(Append(ends, msgs), d, Shown(h, d))
        BY <1>3, <2>5, <4>4, <4>6, SendSeen
      <4> QED BY <2>2, <3>2, <3>3, <4>2, <4>3, <4>7
    <3> QED BY <3>4, <3>5
  <2> QED BY <2>7, <2>8 DEF Informed
<1> QED BY <1>5, <1>6

\* Whoever is disconnected, those who stay know how things are.
LEMMA DisconnectInforms ==
    ASSUME NoRoom \notin RoomIDs, NEW h, Typed(h), Placed(h), Paired(h),
           NEW c \in Clients, c \in DOMAIN h.connected, Underway(h, c)
    PROVE  Informed(Disconnect(h, c))
<1>1. PICK k : k = Disconnect(h, c)
  OBVIOUS
<1>2. Typed(k) /\ Departed(h, c, k)
  BY <1>1, DisconnectTyped
<1>3. CASE h.connected[c] = NoRoom
  BY <1>1, <1>2, <1>3, OutsiderLeaves
<1>4. CASE h.connected[c] # NoRoom
  <2>1. Inside(h, h.connected[c], c)
    BY <1>4, PlacedIn
  <2> QED BY <1>1, <1>2, <1>4, <2>1, UserLeaves
<1> QED BY <1>3, <1>4

-----------------------------------------------------------------------------
(* The other functions of the hub *)

\* Everybody but the users of q has been told all; they know their sessions.
InformedBut(h, q) ==
    /\ Post(DOMAIN h.connected, h.out)
    /\ \A d \in DOMAIN h.connected :
          /\ h.connected[d] # NoRoom => Greeted(h.out, d)
          /\ Heard(h.out, d) = Live(h, d)
          /\ h.connected[d] = NoRoom \/ h.connected[d] # q => LastSeen(h.out, d, Shown(h, d))

\* Who knows its room has been greeted.
LEMMA SeenGreeted ==
    ASSUME NEW h, NEW d, h.connected[d] # NoRoom, LastSeen(h.out, d, Shown(h, d))
    PROVE  Greeted(h.out, d)
<1>1. Shown(h, d) # NoView
  BY DEF Shown, NoView
<1> QED BY <1>1 DEF LastSeen, Greeted

\* Who is told all is told that much.
LEMMA InformedIsBut ==
    ASSUME NEW h, Informed(h), NEW q
    PROVE  InformedBut(h, q)
BY SeenGreeted DEF Informed, InformedBut

\* A client of room q may then be disconnected.
LEMMA InformedUnderway ==
    ASSUME NEW h, NEW c, InformedBut(h, h.connected[c])
    PROVE  Underway(h, c)
BY DEF InformedBut, Underway

\* notifyInfoChanged tells the users of r what they do not know yet.
LEMMA NotifyInforms ==
    ASSUME NoRoom \notin RoomIDs, NEW h, Typed(h), Placed(h), NEW r \in DOMAIN h.rooms,
           Post(DOMAIN h.connected, h.out),
           \A d \in DOMAIN h.connected :
              h.connected[d] = NoRoom \/ h.connected[d] # r => LastSeen(h.out, d, Shown(h, d)),
           NEW k, k = NotifyInfoChanged(h, r)
    PROVE  /\ Post(DOMAIN k.connected, k.out)
           /\ k.connected = h.connected
           /\ \A d \in DOMAIN k.connected :
                 /\ LastSeen(k.out, d, Shown(k, d))
                 /\ Heard(k.out, d) = Heard(h.out, d)
                 /\ Live(k, d) = Live(h, d)
<1>1. PICK msgs \in SUBSET Message : msgs = RoomMessages(h, r)
  BY RoomMessagesTyped
<1>2. h.out \in Seq(SUBSET Message) /\ r # NoRoom
  BY RoomFields DEF Typed
<1>3. k.connected = h.connected /\ k.rooms = h.rooms /\ k.out = Append(h.out, msgs)
  <2>1. k.out = Append(h.out, RoomMessages(h, r))
    BY NotifyOut
  <2> QED BY <1>1, <2>1, NotifyTyped DEF Alike
<1>4. \A m \in msgs : m.type = "room" /\ m.to \in DOMAIN h.rooms[r].users
  BY <1>1 DEF RoomMessages
<1>5. Post(DOMAIN k.connected, k.out)
  <2>1. \A m \in msgs : m.to \in DOMAIN h.connected
    BY <1>4, PlacedUsers
  <2>2. Post(DOMAIN h.connected, Append(h.out, msgs))
    BY <1>2, <1>4, <2>1, SendPost
  <2> QED BY <1>3, <2>2
<1>6. ASSUME NEW d \in DOMAIN k.connected
      PROVE  /\ LastSeen(k.out, d, Shown(k, d))
             /\ Heard(k.out, d) = Heard(h.out, d)
             /\ Live(k, d) = Live(h, d)
  <2>1. d \in DOMAIN h.connected /\ Shown(k, d) = Shown(h, d) /\ Live(k, d) = Live(h, d)
    BY <1>3 DEF Shown, Live
  <2>2. Heard(k.out, d) = Heard(h.out, d)
    <3>1. \A m \in msgs : m.to = d =>
             m.type \notin {"hostsession", "clientsession", "endshare"}
      BY <1>4
    <3>2. Heard(Append(h.out, msgs), d) = Heard(h.out, d)
      BY <1>2, <3>1, OtherSids
    <3> QED BY <1>3, <3>2
  <2>3. CASE h.connected[d] = r
    <3>1. d \in DOMAIN h.rooms[r].users
      BY <2>1, <2>3, PlacedIn
    <3>2. LastSeen(Append(h.out, RoomMessages(h, r)), d,
                   [room |-> r, users |-> h.rooms[r].users])
      BY <1>1, <1>2, <3>1, NotifySeen
    <3>3. Shown(h, d) = [room |-> r, users |-> h.rooms[r].users]
      BY <1>2, <2>3 DEF Shown
    <3> QED BY <1>1, <1>3, <2>1, <2>2, <3>2, <3>3
  <2>4. CASE h.connected[d] # r
    <3>1. d \notin DOMAIN h.rooms[r].users
      BY <2>1, <2>4, PlacedIn
    <3>2. \A m \in msgs : ~ (m.to = d /\ m.type = "room")
      BY <1>4, <3>1
    <3>3. LastSeen(h.out, d, Shown(h, d))
      BY <2>1, <2>4
    <3>4. LastSeen(Append(h.out, msgs), d, Shown(h, d))
      BY <1>2, <3>2, <3>3, SendSeen
    <3> QED BY <1>3, <2>1, <2>2, <3>4
  <2> QED BY <2>3, <2>4
<1> QED BY <1>3, <1>5, <1>6

\* A client that enters room r sees it, and the others see the client there.
LEMMA EnterInforms ==
    ASSUME NoRoom \notin RoomIDs, NEW h, Typed(h), Placed(h), Paired(h), Informed(h),
           NEW c \in Clients, c \in DOMAIN h.connected, h.connected[c] = NoRoom,
           NEW r \in DOMAIN h.rooms, NEW name \in Names, NEW owner \in BOOLEAN,
           NEW k, k = Enter(h, c, r, name, owner)
    PROVE  Informed(k) /\ Paired(k)
<1>1. PICK user : user = NewUser(name, owner)
  OBVIOUS
<1>2. user \in User
  BY <1>1 DEF NewUser, User
<1>3. /\ Typed(k)
      /\ k.connected = Put(h.connected, c, r)
      /\ k.rooms = WithUsers(h.rooms, r, Put(h.rooms[r].users, c, user))
  BY <1>1, EnterTyped
<1>4. /\ DOMAIN k.connected = DOMAIN h.connected
      /\ k.connected[c] = r
      /\ \A d \in DOMAIN h.connected : d # c => k.connected[d] = h.connected[d]
  BY <1>3 DEF Put
<1>5. /\ DOMAIN k.rooms = DOMAIN h.rooms
      /\ \A q \in DOMAIN h.rooms : q # r => k.rooms[q] = h.rooms[q]
      /\ k.rooms[r].sessions = h.rooms[r].sessions
      /\ DOMAIN k.rooms[r].users = DOMAIN h.rooms[r].users \cup {c}
  <2>1. PICK all : all = WithUsers(h.rooms, r, Put(h.rooms[r].users, c, user))
    OBVIOUS
  <2>2. /\ DOMAIN all = DOMAIN h.rooms
        /\ \A q \in DOMAIN h.rooms : q # r => all[q] = h.rooms[q]
        /\ all[r].closeOnOwnerLeave = h.rooms[r].closeOnOwnerLeave
        /\ all[r].sessions = h.rooms[r].sessions
        /\ DOMAIN all[r].users = DOMAIN h.rooms[r].users \cup {c}
        /\ all[r].users[c] = user
        /\ \A u \in DOMAIN h.rooms[r].users : u # c =>
              all[r].users[u] = h.rooms[r].users[u]
    BY <1>2, <2>1, PutRoom
  <2> QED BY <1>3, <2>1, <2>2
<1>6. r # NoRoom /\ h.out \in Seq(SUBSET Message)
  BY RoomFields DEF Typed
<1>7. PICK msgs \in SUBSET Message : msgs = RoomMessages(k, r)
  BY <1>3, <1>5, RoomMessagesTyped
<1>8. k.out = Append(h.out, msgs)
  BY <1>7, EnterOut
<1>9. \A m \in msgs : m.type = "room" /\ m.to \in DOMAIN k.rooms[r].users
  BY <1>7 DEF RoomMessages
<1>10. Post(DOMAIN k.connected, k.out)
  <2>1. \A m \in msgs : m.to \in DOMAIN h.connected
    BY <1>5, <1>9, PlacedUsers
  <2>2. Post(DOMAIN h.connected, h.out)
    BY DEF Informed
  <2>3. Post(DOMAIN h.connected, Append(h.out, msgs))
    BY <1>6, <1>9, <2>1, <2>2, SendPost
  <2> QED BY <1>4, <1>8, <2>3
<1>11. c \notin DOMAIN h.rooms[r].users
  BY <1>6, PlacedIn
<1>12. ASSUME NEW d \in DOMAIN k.connected
       PROVE  LastSeen(k.out, d, Shown(k, d)) /\ Heard(k.out, d) = Live(k, d)
  <2>1. d \in DOMAIN h.connected /\ (d # c => k.connected[d] = h.connected[d])
    BY <1>4
  <2>2. LastSeen(h.out, d, Shown(h, d)) /\ Heard(h.out, d) = Live(h, d)
    BY <2>1 DEF Informed
  <2>3. h.connected[d] # NoRoom => h.connected[d] \in DOMAIN h.rooms
    BY <2>1, PlacedIn DEF Inside
  <2>4. Live(k, d) = Live(h, d)
    <3>1. CASE d = c
      <4>1. \A s \in h.rooms[r].sessions : c \notin {s.host, s.client}
        BY <1>11 DEF Paired
      <4>2. Live(k, d) = SessionsWith(k.rooms[r], c) /\ Live(h, d) = {}
        BY <1>4, <1>6, <3>1 DEF Live
      <4> QED BY <1>5, <4>1, <4>2 DEF SessionsWith
    <3>2. CASE d # c
      BY <1>5, <2>1, <2>3, <3>2 DEF Live, SessionsWith
    <3> QED BY <3>1, <3>2
  <2>5. Heard(k.out, d) = Heard(h.out, d)
    <3>1. \A m \in msgs : m.to = d =>
             m.type \notin {"hostsession", "clientsession", "endshare"}
      BY <1>9
    <3>2. Heard(Append(h.out, msgs), d) = Heard(h.out, d)
      BY <1>6, <3>1, OtherSids
    <3> QED BY <1>8, <3>2
  <2>6. CASE d \in DOMAIN k.rooms[r].users
    <3>1. k.connected[d] = r
      BY <1>4, <1>5, <2>1, <2>6, PlacedIn
    <3>2. LastSeen(Append(h.out, RoomMessages(k, r)), d,
                   [room |-> r, users |-> k.rooms[r].users])
      BY <1>6, <1>7, <2>6, NotifySeen
    <3>3. Shown(k, d) = [room |-> r, users |-> k.rooms[r].users]
      BY <1>6, <3>1 DEF Shown
    <3> QED BY <1>7, <1>8, <2>2, <2>4, <2>5, <3>2, <3>3
  <2>7. CASE d \notin DOMAIN k.rooms[r].users
    <3>1. d # c /\ h.connected[d] # r
      BY <1>5, <2>1, <2>7, PlacedIn
    <3>2. Shown(k, d) = Shown(h, d)
      BY <1>5, <2>1, <2>3, <3>1 DEF Shown
    <3>3. \A m \in msgs : ~ (m.to = d /\ m.type = "room")
      BY <1>9, <2>7
    <3>4. LastSeen(Append(h.out, msgs), d, Shown(h, d))
      BY <1>6, <2>2, <3>3, SendSeen
    <3> QED BY <1>8, <2>2, <2>4, <2>5, <3>2, <3>4
  <2> QED BY <2>6, <2>7
<1>13. Paired(k)
  BY <1>5 DEF Paired
<1> QED BY <1>10, <1>12, <1>13 DEF Informed

\* newSession tells both ends of every session it makes.
LEMMA NewSessionsInform ==
    ASSUME NoRoom \notin RoomIDs, NEW h, Typed(h), Placed(h), NEW q, InformedBut(h, q),
           \A d \in DOMAIN h.connected : Sids(h.out, d, "endshare") = {},
           NEW r \in DOMAIN h.rooms, NEW pairs \in SUBSET (Clients \X Clients),
           \A p \in pairs : {p[1], p[2]} \subseteq DOMAIN h.rooms[r].users,
           NEW k, k = NewSessions(h, r, pairs)
    PROVE  InformedBut(k, q)
<1>1. PICK made : made = Made(h, pairs)
  OBVIOUS
<1>2. made \in SUBSET Session /\ \A s \in made : <<s.host, s.client>> \in pairs
  BY <1>1, MadeTyped
<1>3. \A s \in made : {s.host, s.client} \subseteq DOMAIN h.rooms[r].users
  <2> SUFFICES ASSUME NEW s \in made
               PROVE  {s.host, s.client} \subseteq DOMAIN h.rooms[r].users
    OBVIOUS
  <2>1. PICK p \in pairs : p = <<s.host, s.client>>
    BY <1>2
  <2> QED BY <2>1
<1>4. PICK msgs \in SUBSET Message : msgs = SessionNotices(made)
  BY <1>2, NoticesTyped
<1>5. /\ k.connected = h.connected
      /\ k.rooms = WithSessions(h.rooms, r, h.rooms[r].sessions \cup made)
  BY <1>1, NewSessionsTyped
<1>6. k.out = Append(h.out, msgs)
  <2>1. k.out = Append(h.out, SessionNotices(Made(h, pairs)))
    BY NewSessionsOut
  <2> QED BY <1>1, <1>4, <2>1
<1>7. /\ DOMAIN k.rooms = DOMAIN h.rooms
      /\ k.rooms[r].sessions = h.rooms[r].sessions \cup made
      /\ k.rooms[r].users = h.rooms[r].users
      /\ \A p \in DOMAIN h.rooms : p # r => k.rooms[p] = h.rooms[p]
  <2>1. IsMap(h.rooms, RoomIDs, RoomRecord) /\ h.rooms[r].sessions \cup made \in SUBSET Session
    BY <1>2, RoomFields DEF Typed
  <2> QED BY <1>5, <2>1, WithSessionsMap
<1>8. h.out \in Seq(SUBSET Message)
  BY DEF Typed
<1>9. \A m \in msgs : /\ m.type \in {"hostsession", "clientsession"}
                      /\ m.to \in DOMAIN h.rooms[r].users
  BY <1>3, <1>4 DEF SessionNotices
<1>10. Post(DOMAIN k.connected, k.out)
  <2>1. ASSUME NEW m \in msgs
        PROVE  /\ m.to \in DOMAIN h.connected
               /\ m.type # "closewriter"
               /\ Greeted(h.out, m.to)
    <3>1. m.to \in DOMAIN h.connected /\ h.connected[m.to] # NoRoom
      BY <1>9, PlacedUsers
    <3> QED BY <1>9, <3>1 DEF InformedBut
  <2>2. Post(DOMAIN h.connected, h.out)
    BY DEF InformedBut
  <2>3. Post(DOMAIN h.connected, Append(h.out, msgs))
    BY <1>8, <2>1, <2>2, SendPost
  <2> QED BY <1>5, <1>6, <2>3
<1>11. ASSUME NEW d \in DOMAIN k.connected
       PROVE  /\ k.connected[d] # NoRoom => Greeted(k.out, d)
              /\ Heard(k.out, d) = Live(k, d)
              /\ k.connected[d] = NoRoom \/ k.connected[d] # q =>
                    LastSeen(k.out, d, Shown(k, d))
  <2>1. d \in DOMAIN h.connected /\ k.connected[d] = h.connected[d]
    BY <1>5
  <2>2. h.connected[d] # NoRoom => Greeted(k.out, d)
    <3>1. h.connected[d] # NoRoom => Greeted(h.out, d)
      BY <2>1 DEF InformedBut
    <3>2. Greeted(h.out, d) => Greeted(Append(h.out, msgs), d)
      BY <1>8, StillGreeted
    <3> QED BY <1>6, <3>1, <3>2
  <2>3. \A s : s \in Heard(k.out, d)
                  <=> s \in Heard(h.out, d) \/ (s \in made /\ d \in {s.host, s.client})
    <3>1. Sids(h.out, d, "endshare") = {}
      BY <2>1
    <3>2. \A s : s \in Heard(Append(h.out, SessionNotices(made)), d)
                  <=> s \in Heard(h.out, d) \/ (s \in made /\ d \in {s.host, s.client})
      BY <1>2, <1>8, <3>1, NoticesHeard
    <3> QED BY <1>4, <1>6, <3>2
  <2>4. Heard(h.out, d) = Live(h, d)
    BY <2>1 DEF InformedBut
  <2>5. h.connected[d] # NoRoom => h.connected[d] \in DOMAIN h.rooms
    BY <2>1, PlacedIn DEF Inside
  <2>6. Shown(k, d) = Shown(h, d)
    BY <1>7, <2>1, <2>5 DEF Shown
  <2>7. Heard(k.out, d) = Live(k, d)
    <3>1. CASE h.connected[d] = r
      <4>1. r # NoRoom
        BY RoomFields
      <4> QED BY <1>7, <2>1, <2>3, <2>4, <3>1, <4>1 DEF Live, SessionsWith
    <3>2. CASE h.connected[d] # r
      <4>1. d \notin DOMAIN h.rooms[r].users
        BY <2>1, <3>2, PlacedIn
      <4>2. Live(k, d) = Live(h, d)
        BY <1>7, <2>1, <2>5, <3>2 DEF Live
      <4>3. \A s \in made : d \notin {s.host, s.client}
        BY <1>3, <4>1
      <4> QED BY <2>3, <2>4, <4>2, <4>3
    <3> QED BY <3>1, <3>2
  <2>8. ASSUME h.connected[d] = NoRoom \/ h.connected[d] # q
        PROVE  LastSeen(k.out, d, Shown(k, d))
    <3>1. LastSeen(h.out, d, Shown(h, d))
      BY <2>1, <2>8 DEF InformedBut
    <3>2. \A m \in msgs : ~ (m.to = d /\ m.type = "room")
      BY <1>9
    <3>3. LastSeen(Append(h.out, msgs), d, Shown(h, d))
      BY <1>8, <3>1, <3>2, SendSeen
    <3> QED BY <1>6, <2>6, <3>3
  <2> QED BY <2>1, <2>2, <2>7, <2>8
<1> QED BY <1>10, <1>11 DEF InformedBut

-----------------------------------------------------------------------------
(* The handlers *)

\* Everybody who is still connected knows how things are, but for the sessions
\* that it has ended itself by no longer sharing.
Delivered(k) ==
    /\ Post(DOMAIN k.connected, k.out)
    /\ \A d \in DOMAIN k.connected :
          /\ LastSeen(k.out, d, Shown(k, d))
          /\ Live(k, d) \subseteq Heard(k.out, d)
          /\ \A s \in Heard(k.out, d) \ Live(k, d) :
                s.host = d /\ ~Sharing(Shown(k, d).users, d)

\* Who knows all knows enough.
LEMMA InformedDelivered ==
    ASSUME NEW k, Informed(k)
    PROVE  Delivered(k)
BY DEF Informed, Delivered

\* A client whose handler fails is disconnected.
LEMMA LeaverDelivers ==
    ASSUME NoRoom \notin RoomIDs, NEW h, Typed(h), Placed(h), Paired(h),
           NEW c \in Clients, c \in DOMAIN h.connected,
           InformedBut(h, h.connected[c])
    PROVE  Delivered(Disconnect(h, c))
BY InformedUnderway, DisconnectInforms, InformedDelivered

\* What a client knows between two handlers.
Known ==
    \A d \in DOMAIN connected : view[d] = Shown(hub, d) /\ told[d] = Live(hub, d)

\* A handler starts with everybody informed and nothing sent.
LEMMA HubInformed ==
    ASSUME TypeOK, Sound(hub), Known
    PROVE  /\ Typed(hub) /\ Placed(hub) /\ Paired(hub) /\ Informed(hub)
           /\ hub.connected = connected /\ hub.rooms = rooms /\ hub.out = << >>
           /\ \A d : Sids(hub.out, d, "endshare") = {}
<1>1. Typed(hub) /\ Placed(hub) /\ Paired(hub)
  BY HubTyped, SoundPaired DEF Sound
<1>2. hub.connected = connected /\ hub.rooms = rooms /\ hub.out = << >>
  BY DEF hub
<1>3. DOMAIN hub.out = {}
  BY <1>2
<1>4. Post(DOMAIN hub.connected, hub.out)
  BY <1>2, <1>3 DEF Post
<1>5. ASSUME NEW d, NEW type
      PROVE  Sids(hub.out, d, type) = {}
  BY <1>3 DEF Sids, Mail
<1>6. ASSUME NEW d \in DOMAIN hub.connected
      PROVE  LastSeen(hub.out, d, Shown(hub, d)) /\ Heard(hub.out, d) = Live(hub, d)
  <2>1. view[d] = Shown(hub, d) /\ told[d] = Live(hub, d)
    BY <1>2 DEF Known
  <2>2. LastSeen(hub.out, d, Shown(hub, d))
    BY <1>3, <2>1 DEF LastSeen
  <2>3. Heard(hub.out, d) = told[d]
    BY <1>5 DEF Heard, Announced
  <2> QED BY <2>1, <2>2, <2>3
<1> QED BY <1>1, <1>2, <1>4, <1>5, <1>6 DEF Informed

\* A set of messages without an end of a session
LEMMA NoEnds ==
    ASSUME NEW out \in Seq(SUBSET Message), NEW msgs \in SUBSET Message,
           \A m \in msgs : m.type # "endshare", NEW d, Sids(out, d, "endshare") = {}
    PROVE  Sids(Append(out, msgs), d, "endshare") = {}
<1>1. SidsIn(msgs, d, "endshare") = {}
  BY DEF SidsIn
<1>2. Sids(Append(out, msgs), d, "endshare")
         = Sids(out, d, "endshare") \cup SidsIn(msgs, d, "endshare")
  BY SidsGrow
<1> QED BY <1>1, <1>2

\* A handler that fails
LEMMA FailDelivers ==
    ASSUME NoRoom \notin RoomIDs, TypeOK, Sound(hub), Known,
           NEW c \in Clients, c \in DOMAIN connected, Become(Disconnect(hub, c))
    PROVE  \E k : Become(k) /\ Delivered(k)
<1>1. /\ Typed(hub) /\ Placed(hub) /\ Paired(hub) /\ Informed(hub)
      /\ hub.connected = connected
  BY HubInformed
<1>2. InformedBut(hub, hub.connected[c])
  BY <1>1, InformedIsBut
<1>3. Delivered(Disconnect(hub, c))
  BY <1>1, <1>2, LeaverDelivers
<1> QED BY <1>3

\* Only the users of q see that a user of q is another.
LEMMA UserInforms ==
    ASSUME NoRoom \notin RoomIDs, NEW h, Typed(h), Placed(h), Paired(h), Informed(h),
           NEW r, NEW c \in Clients, Inside(h, r, c), NEW user \in User,
           NEW k, k.connected = h.connected, k.out = h.out,
           k.rooms = WithUsers(h.rooms, r, Put(h.rooms[r].users, c, user))
    PROVE  /\ Placed(k) /\ Paired(k) /\ InformedBut(k, r)
           /\ DOMAIN k.rooms = DOMAIN h.rooms
           /\ DOMAIN k.rooms[r].users = DOMAIN h.rooms[r].users
           /\ k.rooms[r].sessions = h.rooms[r].sessions
           /\ k.rooms[r].users[c] = user
<1>1. r \in DOMAIN h.rooms /\ c \in DOMAIN h.rooms[r].users
  BY DEF Inside
<1>2. /\ DOMAIN k.rooms = DOMAIN h.rooms
      /\ \A q \in DOMAIN h.rooms : q # r => k.rooms[q] = h.rooms[q]
      /\ k.rooms[r].sessions = h.rooms[r].sessions
      /\ DOMAIN k.rooms[r].users = DOMAIN h.rooms[r].users
      /\ k.rooms[r].users[c] = user
  <2>1. PICK all : all = WithUsers(h.rooms, r, Put(h.rooms[r].users, c, user))
    OBVIOUS
  <2>2. /\ DOMAIN all = DOMAIN h.rooms
        /\ \A q \in DOMAIN h.rooms : q # r => all[q] = h.rooms[q]
        /\ all[r].closeOnOwnerLeave = h.rooms[r].closeOnOwnerLeave
        /\ all[r].sessions = h.rooms[r].sessions
        /\ DOMAIN all[r].users = DOMAIN h.rooms[r].users \cup {c}
        /\ all[r].users[c] = user
        /\ \A u \in DOMAIN h.rooms[r].users : u # c =>
              all[r].users[u] = h.rooms[r].users[u]
    BY <1>1, <2>1, PutRoom
  <2> QED BY <1>1, <2>1, <2>2
<1>3. \A q, d : Inside(k, q, d) <=> Inside(h, q, d)
  BY <1>2 DEF Inside
<1>4. Placed(k)
  BY <1>3 DEF Placed
<1>5. Paired(k)
  BY <1>2 DEF Paired
<1>6. ASSUME NEW d \in DOMAIN k.connected
      PROVE  /\ k.connected[d] # NoRoom => Greeted(k.out, d)
             /\ Heard(k.out, d) = Live(k, d)
             /\ k.connected[d] = NoRoom \/ k.connected[d] # r =>
                   LastSeen(k.out, d, Shown(k, d))
  <2>1. LastSeen(h.out, d, Shown(h, d)) /\ Heard(h.out, d) = Live(h, d)
    BY DEF Informed
  <2>2. h.connected[d] # NoRoom => h.connected[d] \in DOMAIN h.rooms
    BY PlacedIn DEF Inside
  <2>3. Live(k, d) = Live(h, d)
    BY <1>2, <2>2 DEF Live, SessionsWith
  <2>4. h.connected[d] # r => Shown(k, d) = Shown(h, d)
    BY <1>2, <2>2 DEF Shown
  <2>5. r # NoRoom
    BY <1>1, RoomFields
  <2> QED BY <2>1, <2>3, <2>4, <2>5, SeenGreeted
<1> QED BY <1>2, <1>4, <1>5, <1>6 DEF InformedBut, Informed

\* Join: the room has its new user, and the user the streams of the room.
LEMMA JoinDelivers ==
    ASSUME NoRoom \notin RoomIDs, TypeOK, Sound(hub), Known,
           NEW c \in Clients, NEW r, Join(c, r)
    PROVE  \E k : Become(k) /\ Delivered(k)
<1>1. /\ Typed(hub) /\ Placed(hub) /\ Paired(hub) /\ Informed(hub)
      /\ hub.connected = connected /\ hub.rooms = rooms /\ hub.out = << >>
      /\ \A d : Sids(hub.out, d, "endshare") = {}
  BY HubInformed
<1>2. c \in DOMAIN connected
  BY DEF Join, Accepts
<1>3. CASE Become(Disconnect(hub, c))
  BY <1>2, <1>3, FailDelivers
<1>4. ASSUME NEW name \in Names, MayJoin(c, r),
             NEW entered, entered = Enter(hub, c, r, name, FALSE),
             NEW pairs, pairs = (Streamers(entered.rooms[r]) \ {c}) \X {c}
      PROVE  Delivered(Disconnect(entered, c)) /\ Delivered(NewSessions(entered, r, pairs))
  <2>1. r \in DOMAIN hub.rooms /\ hub.connected[c] = NoRoom /\ c \in DOMAIN hub.connected
    BY <1>1, <1>2, <1>4 DEF MayJoin
  <2>2. PICK owner \in BOOLEAN : entered = Enter(hub, c, r, name, owner) /\ owner = FALSE
    BY <1>4
  <2>3. Informed(entered) /\ Paired(entered)
    BY <1>1, <2>1, <2>2, EnterInforms
  <2>4. PICK user : user = NewUser(name, owner)
    OBVIOUS
  <2>5. user \in User
    BY <2>4 DEF NewUser, User
  <2>6. /\ Typed(entered)
        /\ entered.connected = Put(hub.connected, c, r)
        /\ entered.rooms = WithUsers(hub.rooms, r, Put(hub.rooms[r].users, c, user))
    BY <1>1, <2>1, <2>2, <2>4, EnterTyped
  <2>7. Placed(entered)
    BY <1>1, <2>1, <2>5, <2>6, EnterPlaced
  <2>8. /\ c \in DOMAIN entered.connected
        /\ r \in DOMAIN entered.rooms
        /\ c \in DOMAIN entered.rooms[r].users
    <3>1. c \in DOMAIN entered.connected /\ entered.connected[c] = r
      BY <2>6 DEF Put
    <3>2. r \in DOMAIN entered.rooms
      BY <2>1, <2>6 DEF WithUsers
    <3> QED BY <2>6, <2>7, <3>1, <3>2, PlacedIn
  <2>9. Delivered(Disconnect(entered, c))
    <3>1. InformedBut(entered, entered.connected[c])
      BY <2>3, InformedIsBut
    <3> QED BY <2>3, <2>6, <2>7, <2>8, <3>1, LeaverDelivers
  <2>10. PICK msgs : msgs = RoomMessages(entered, r)
    OBVIOUS
  <2>11. \A d : Sids(entered.out, d, "endshare") = {}
    <3>1. msgs \in SUBSET Message /\ \A m \in msgs : m.type # "endshare"
      <4>1. msgs \in SUBSET Message
        BY <2>6, <2>8, <2>10, RoomMessagesTyped
      <4> QED BY <2>10, <4>1 DEF RoomMessages
    <3>2. entered.out = Append(hub.out, msgs)
      BY <1>1, <2>1, <2>2, <2>10, EnterOut
    <3>3. hub.out \in Seq(SUBSET Message)
      BY <1>1 DEF Typed
    <3> QED BY <1>1, <3>1, <3>2, <3>3, NoEnds
  <2>12. pairs \in SUBSET (Clients \X Clients)
         /\ \A p \in pairs : {p[1], p[2]} \subseteq DOMAIN entered.rooms[r].users
    <3>1. DOMAIN entered.rooms[r].users \subseteq Clients
      BY <2>6, <2>8, RoomFields DEF IsMap
    <3> QED BY <1>4, <2>8, <3>1 DEF Streamers
  <2>13. PICK made : made = NewSessions(entered, r, pairs)
    OBVIOUS
  <2>14. InformedBut(made, NoRoom)
    <3>1. InformedBut(entered, NoRoom)
      BY <2>3, InformedIsBut
    <3> QED BY <2>6, <2>7, <2>8, <2>11, <2>12, <2>13, <3>1, NewSessionsInform
  <2>15. Informed(made)
    BY <2>14 DEF InformedBut, Informed
  <2> QED BY <2>9, <2>13, <2>15, InformedDelivered
<1>5. ASSUME NEW name \in Names, MayJoin(c, r),
             \/ Become(Disconnect(Enter(hub, c, r, name, FALSE), c))
             \/ Become(NewSessions(Enter(hub, c, r, name, FALSE), r,
                   (Streamers(Enter(hub, c, r, name, FALSE).rooms[r]) \ {c}) \X {c}))
      PROVE  \E k : Become(k) /\ Delivered(k)
  <2>1. PICK entered : entered = Enter(hub, c, r, name, FALSE)
    OBVIOUS
  <2>2. PICK pairs : pairs = (Streamers(entered.rooms[r]) \ {c}) \X {c}
    OBVIOUS
  <2>3. Delivered(Disconnect(entered, c)) /\ Delivered(NewSessions(entered, r, pairs))
    BY <1>4, <1>5, <2>1, <2>2
  <2> QED BY <1>5, <2>1, <2>2, <2>3
<1> QED BY <1>3, <1>5 DEF Join

\* Nobody is told of a room that nobody is in yet.
LEMMA OpenRoomInforms ==
    ASSUME NoRoom \notin RoomIDs, NEW h, Typed(h), Placed(h), Paired(h), Informed(h),
           NEW r \in RoomIDs, r \notin DOMAIN h.rooms,
           NEW mode \in Modes, NEW close \in BOOLEAN,
           NEW k, k = OpenRoom(h, r, mode, close)
    PROVE  Typed(k) /\ Placed(k) /\ Paired(k) /\ Informed(k)
<1>1. PICK room : room = EmptyRoom(mode, close)
  OBVIOUS
<1>2. DOMAIN room.users = {} /\ room.sessions = {}
  BY <1>1 DEF EmptyRoom, NoUsers
<1>3. Typed(k) /\ k.connected = h.connected /\ k.rooms = Put(h.rooms, r, room)
  BY <1>1, OpenRoomTyped
<1>4. k.out = h.out
  BY DEF OpenRoom, Typed
<1>5. /\ DOMAIN k.rooms = DOMAIN h.rooms \cup {r}
      /\ k.rooms[r] = room
      /\ \A q \in DOMAIN h.rooms : k.rooms[q] = h.rooms[q]
  BY <1>3 DEF Put
<1>6. \A q \in RoomIDs, d \in Clients : Inside(k, q, d) <=> Inside(h, q, d)
  BY <1>2, <1>5 DEF Inside
<1>7. Placed(k)
  BY <1>3, <1>6 DEF Placed
<1>8. Paired(k)
  BY <1>2, <1>5 DEF Paired
<1>9. ASSUME NEW d \in DOMAIN k.connected
      PROVE  LastSeen(k.out, d, Shown(k, d)) /\ Heard(k.out, d) = Live(k, d)
  <2>1. h.connected[d] # NoRoom => h.connected[d] \in DOMAIN h.rooms
    BY <1>3, PlacedIn DEF Inside
  <2>2. Shown(k, d) = Shown(h, d) /\ Live(k, d) = Live(h, d)
    BY <1>3, <1>5, <2>1 DEF Shown, Live
  <2> QED BY <1>3, <1>4, <2>2 DEF Informed
<1> QED BY <1>3, <1>4, <1>7, <1>8, <1>9 DEF Informed

\* Create: the owner is sent its room.
LEMMA CreateDelivers ==
    ASSUME NoRoom \notin RoomIDs, TypeOK, Sound(hub), Known,
           NEW c \in Clients, NEW r \in RoomIDs, NEW mode \in Modes,
           NEW close \in BOOLEAN, NEW joinIfExist \in BOOLEAN,
           Create(c, r, mode, close, joinIfExist)
    PROVE  \E k : Become(k) /\ Delivered(k)
<1>1. /\ Typed(hub) /\ Placed(hub) /\ Paired(hub) /\ Informed(hub)
      /\ hub.connected = connected /\ hub.rooms = rooms
  BY HubInformed
<1>2. c \in DOMAIN connected
  BY DEF Create, Accepts
<1>3. CASE Join(c, r)
  BY <1>3, JoinDelivers
<1>4. CASE Become(Disconnect(hub, c))
  BY <1>2, <1>4, FailDelivers
<1>5. ASSUME NEW name \in Names, MayOpen(c, r, mode),
             Become(Enter(OpenRoom(hub, r, mode, close), c, r, name, TRUE))
      PROVE  \E k : Become(k) /\ Delivered(k)
  <2>1. hub.connected[c] = NoRoom /\ r \notin DOMAIN hub.rooms
    BY <1>1, <1>5 DEF MayOpen
  <2>2. PICK opened : opened = OpenRoom(hub, r, mode, close)
    OBVIOUS
  <2>3. Typed(opened) /\ Placed(opened) /\ Paired(opened) /\ Informed(opened)
    BY <1>1, <2>1, <2>2, OpenRoomInforms
  <2>4. opened.connected = hub.connected /\ r \in DOMAIN opened.rooms
    <3>1. /\ opened.connected = hub.connected
          /\ opened.rooms = Put(hub.rooms, r, EmptyRoom(mode, close))
      BY <1>1, <2>2, OpenRoomTyped
    <3> QED BY <3>1 DEF Put
  <2>5. PICK k : k = Enter(opened, c, r, name, TRUE)
    OBVIOUS
  <2>6. Informed(k)
    <3>1. TRUE \in BOOLEAN /\ opened.connected[c] = NoRoom /\ c \in DOMAIN opened.connected
      BY <1>1, <1>2, <2>1, <2>4
    <3> QED BY <2>3, <2>4, <2>5, <3>1, EnterInforms
  <2> QED BY <1>5, <2>2, <2>5, <2>6, InformedDelivered
<1> QED BY <1>3, <1>4, <1>5 DEF Create

\* notifyInfoChanged informs the users of r of all, who were all but informed.
LEMMA NotifyCompletes ==
    ASSUME NoRoom \notin RoomIDs, NEW h, Typed(h), Placed(h), NEW r \in DOMAIN h.rooms,
           InformedBut(h, r), NEW k, k = NotifyInfoChanged(h, r)
    PROVE  Informed(k)
<1>1. Post(DOMAIN h.connected, h.out)
  BY DEF InformedBut
<1>2. \A d \in DOMAIN h.connected :
         /\ Heard(h.out, d) = Live(h, d)
         /\ h.connected[d] = NoRoom \/ h.connected[d] # r => LastSeen(h.out, d, Shown(h, d))
  BY DEF InformedBut
<1>3. /\ Post(DOMAIN k.connected, k.out)
      /\ k.connected = h.connected
      /\ \A d \in DOMAIN k.connected :
            /\ LastSeen(k.out, d, Shown(k, d))
            /\ Heard(k.out, d) = Heard(h.out, d)
            /\ Live(k, d) = Live(h, d)
  BY <1>1, <1>2, NotifyInforms
<1> QED BY <1>2, <1>3 DEF Informed

\* StartShare: the viewers hear of their sessions, then everybody of the stream.
LEMMA StartShareDelivers ==
    ASSUME NoRoom \notin RoomIDs, TypeOK, Sound(hub), Known,
           NEW c \in Clients, StartShare(c)
    PROVE  \E k : Become(k) /\ Delivered(k)
<1>1. /\ Typed(hub) /\ Placed(hub) /\ Paired(hub) /\ Informed(hub)
      /\ hub.connected = connected /\ hub.rooms = rooms
      /\ \A d : Sids(hub.out, d, "endshare") = {}
  BY HubInformed
<1>2. c \in DOMAIN connected
  BY DEF StartShare, Accepts
<1>3. CASE Become(Disconnect(hub, c))
  BY <1>2, <1>3, FailDelivers
<1>4. CASE HasRoom(c)
  <2>1. PICK r : r = connected[c]
    OBVIOUS
  <2>2. /\ Inside(hub, r, c) /\ r \in DOMAIN hub.rooms
        /\ c \in DOMAIN hub.rooms[r].users /\ Room(c) = hub.rooms[r]
    <3>1. Inside(hub, r, c) /\ r \in DOMAIN hub.rooms
      BY <1>2, <1>4, <2>1, HasRoomInside
    <3> QED BY <1>1, <2>1, <3>1 DEF Inside, Room
  <2>3. PICK shared : shared = SetStreaming(hub, r, c, TRUE)
    OBVIOUS
  <2>4. PICK pairs : pairs = {c} \X Others(hub.rooms[r], c)
    OBVIOUS
  <2>5. PICK made : made = NewSessions(shared, r, pairs)
    OBVIOUS
  <2>6. \/ Become(Disconnect(hub, c))
        \/ Become(Disconnect(shared, c))
        \/ Become(NotifyInfoChanged(made, r))
    BY <2>1, <2>2, <2>3, <2>4, <2>5 DEF StartShare, Deref
  <2>7. PICK user : user = Streaming(hub.rooms[r].users[c], TRUE)
    OBVIOUS
  <2>8. user \in User
    <3>1. hub.rooms[r].users[c] \in User
      BY <1>1, <2>2, RoomFields DEF IsMap
    <3> QED BY <2>7, <3>1 DEF User, Streaming
  <2>9. /\ Typed(shared)
        /\ shared.connected = hub.connected
        /\ shared.rooms = WithUsers(hub.rooms, r, Put(hub.rooms[r].users, c, user))
        /\ shared.panicked = hub.panicked
    <3>1. PICK on \in BOOLEAN : on = TRUE
      OBVIOUS
    <3>2. /\ shared = SetStreaming(hub, r, c, on)
          /\ user = Streaming(hub.rooms[r].users[c], on)
      BY <2>3, <2>7, <3>1
    <3> QED BY <1>1, <2>2, <3>2, SetStreamingTyped
  <2>10. shared.out = hub.out
    BY <1>1, <2>3 DEF SetStreaming, Typed
  <2>11. /\ Placed(shared) /\ Paired(shared) /\ InformedBut(shared, r)
         /\ DOMAIN shared.rooms = DOMAIN hub.rooms
         /\ DOMAIN shared.rooms[r].users = DOMAIN hub.rooms[r].users
    BY <1>1, <2>2, <2>8, <2>9, <2>10, UserInforms
  <2>12. Delivered(Disconnect(shared, c))
    BY <1>1, <1>2, <2>1, <2>9, <2>11, LeaverDelivers
  <2>13. /\ pairs \in SUBSET (Clients \X Clients)
         /\ \A p \in pairs : {p[1], p[2]} \subseteq DOMAIN shared.rooms[r].users
    <3>1. DOMAIN hub.rooms[r].users \subseteq Clients
      BY <1>1, <2>2, RoomFields DEF IsMap
    <3> QED BY <2>2, <2>4, <2>11, <3>1 DEF Others
  <2>14. InformedBut(made, r)
    <3>1. r \in DOMAIN shared.rooms /\ \A d : Sids(shared.out, d, "endshare") = {}
      BY <1>1, <2>2, <2>10, <2>11
    <3> QED BY <2>5, <2>9, <2>11, <2>13, <3>1, NewSessionsInform
  <2>15. Typed(made) /\ Placed(made) /\ r \in DOMAIN made.rooms
    <3>1. r \in DOMAIN shared.rooms
      BY <2>2, <2>11
    <3>2. /\ Typed(made)
          /\ made.rooms = WithSessions(shared.rooms, r,
                             shared.rooms[r].sessions \cup Made(shared, pairs))
      BY <2>5, <2>9, <2>13, <3>1, NewSessionsTyped
    <3>3. Sound(made)
      BY <1>1, <2>2, <2>3, <2>4, <2>5, ShareSound
    <3>4. r \in DOMAIN made.rooms
      BY <3>1, <3>2 DEF WithSessions
    <3> QED BY <3>2, <3>3, <3>4 DEF Sound
  <2>16. Informed(NotifyInfoChanged(made, r))
    BY <2>14, <2>15, NotifyCompletes
  <2> QED BY <1>3, <2>6, <2>12, <2>16, InformedDelivered
<1> QED BY <1>3, <1>4 DEF StartShare

\* Name: the room is told of the name.
LEMMA NameDelivers ==
    ASSUME NoRoom \notin RoomIDs, TypeOK, Sound(hub), Known,
           NEW c \in Clients, Name(c)
    PROVE  \E k : Become(k) /\ Delivered(k)
<1>1. /\ Typed(hub) /\ Placed(hub) /\ Paired(hub) /\ Informed(hub)
      /\ hub.connected = connected /\ hub.rooms = rooms
  BY HubInformed
<1>2. c \in DOMAIN connected
  BY DEF Name, Accepts
<1>3. CASE Become(Disconnect(hub, c))
  BY <1>2, <1>3, FailDelivers
<1>4. ASSUME HasRoom(c), NEW name \in Names,
             Become(Deref(hub, connected[c], c,
                 NotifyInfoChanged(
                    [hub EXCEPT !.rooms[connected[c]].users[c].name = name],
                    connected[c])))
      PROVE  \E k : Become(k) /\ Delivered(k)
  <2> DEFINE r     == connected[c]
             user  == [hub.rooms[r].users[c] EXCEPT !.name = name]
             named == [hub EXCEPT !.rooms[r].users[c] = user]
             all   == NotifyInfoChanged(named, r)
  <2>1. Inside(hub, r, c) /\ r \in DOMAIN hub.rooms
    BY <1>2, <1>4, HasRoomInside
  <2>2. c \in DOMAIN hub.rooms[r].users
    BY <2>1 DEF Inside
  <2>3. Become(all)
    BY <1>4, <2>2 DEF Deref
  <2> HIDE DEF r
  <2>4. hub.rooms[r].users[c] \in User
    BY <1>1, <2>1, <2>2, RoomFields DEF IsMap
  <2>5. user \in User
    BY <2>4 DEF User
  <2> HIDE DEF user
  <2>6. /\ Typed(named)
        /\ named.connected = hub.connected
        /\ named.rooms = WithUsers(hub.rooms, r, Put(hub.rooms[r].users, c, user))
        /\ named.panicked = hub.panicked
    BY <1>1, <2>1, <2>2, <2>5, UserTyped
  <2>7. named.out = hub.out
    BY <1>1 DEF Typed
  <2> HIDE DEF named
  <2>8. /\ Placed(named) /\ InformedBut(named, r)
        /\ DOMAIN named.rooms = DOMAIN hub.rooms
    BY <1>1, <2>1, <2>5, <2>6, <2>7, UserInforms
  <2>9. Informed(all)
    BY <2>1, <2>6, <2>8, NotifyCompletes
  <2> HIDE DEF all
  <2> QED BY <2>3, <2>9, InformedDelivered
<1> QED BY <1>3, <1>4 DEF Name

\* A relay tells nobody of a room or of a session.
LEMMA RelayDelivers ==
    ASSUME NoRoom \notin RoomIDs, TypeOK, Sound(hub), Known,
           NEW c \in Clients, NEW role \in {"host", "client"},
           NEW s \in KnownSessions, Relay(c, role, s)
    PROVE  \E k : Become(k) /\ Delivered(k)
<1> DEFINE r   == connected[c]
           to  == IF role = "host" THEN s.client ELSE s.host
           msg == [to |-> to, type |-> "relay", sid |-> s]
           k   == Send(hub, {msg})
<1>1. /\ Typed(hub) /\ Placed(hub) /\ Paired(hub) /\ Informed(hub)
      /\ hub.connected = connected /\ hub.rooms = rooms
  BY HubInformed
<1>2. c \in DOMAIN connected
  BY DEF Relay, Accepts
<1>3. CASE Become(Disconnect(hub, c))
  BY <1>2, <1>3, FailDelivers
<1>4. CASE Become(hub)
  BY <1>1, <1>4, InformedDelivered
<1>5. CASE HasRoom(c) /\ s \in Room(c).sessions /\ Become(Deref(hub, r, to, k))
  <2>1. r \in DOMAIN hub.rooms /\ Room(c) = hub.rooms[r]
    BY <1>1, <1>2, <1>5, HasRoomInside DEF Room
  <2>2. s \in Session /\ s \in hub.rooms[r].sessions
    BY <1>1, <1>5, <2>1, RoomFields
  <2>3. to \in DOMAIN hub.rooms[r].users
    BY <1>1, <2>1, <2>2 DEF Paired
  <2>4. Become(k)
    BY <1>5, <2>3 DEF Deref
  <2>5. to \in DOMAIN hub.connected /\ hub.connected[to] # NoRoom /\ to \in Clients
    BY <1>1, <2>1, <2>3, PlacedUsers
  <2> HIDE DEF to
  <2>6. PICK msgs : msgs = {msg}
    OBVIOUS
  <2>7. msgs \in SUBSET Message
    BY <2>2, <2>5, <2>6 DEF Message
  <2>8. \A m \in msgs : m.to = to /\ m.type = "relay"
    BY <2>6
  <2>9. k.connected = hub.connected /\ k.rooms = hub.rooms /\ k.out = Append(hub.out, msgs)
    BY <1>1, <2>6, SendOut
  <2> HIDE DEF k, msg
  <2>10. hub.out \in Seq(SUBSET Message)
    BY <1>1 DEF Typed
  <2>11. Post(DOMAIN k.connected, k.out)
    <3>1. LastSeen(hub.out, to, Shown(hub, to))
      BY <1>1, <2>5 DEF Informed
    <3>2. Greeted(hub.out, to)
      BY <2>5, <3>1, SeenGreeted
    <3>3. \A m \in msgs : /\ m.to \in DOMAIN hub.connected
                          /\ m.type # "closewriter"
                          /\ Greeted(hub.out, m.to)
      BY <2>5, <2>8, <3>2
    <3>4. Post(DOMAIN hub.connected, hub.out)
      BY <1>1 DEF Informed
    <3>5. Post(DOMAIN hub.connected, Append(hub.out, msgs))
      BY <2>7, <2>10, <3>3, <3>4, SendPost
    <3> QED BY <2>9, <3>5
  <2>12. ASSUME NEW d \in DOMAIN k.connected
         PROVE  LastSeen(k.out, d, Shown(k, d)) /\ Heard(k.out, d) = Live(k, d)
    <3>1. LastSeen(hub.out, d, Shown(hub, d)) /\ Heard(hub.out, d) = Live(hub, d)
      BY <1>1, <2>9, <2>12 DEF Informed
    <3>2. Shown(k, d) = Shown(hub, d) /\ Live(k, d) = Live(hub, d)
      BY <2>9 DEF Shown, Live
    <3>3. Unheard(msgs, d)
      BY <2>8 DEF Unheard
    <3>4. /\ LastSeen(Append(hub.out, msgs), d, Shown(hub, d))
          /\ Heard(Append(hub.out, msgs), d) = Heard(hub.out, d)
      BY <2>7, <2>10, <3>1, <3>3, UnheardKeeps
    <3> QED BY <2>9, <3>1, <3>2, <3>4
  <2>13. Informed(k)
    BY <2>11, <2>12 DEF Informed
  <2> QED BY <2>4, <2>13, InformedDelivered
<1> QED BY <1>3, <1>4, <1>5 DEF Relay

\* The peers of a host that stops are told of the end of its sessions.  The
\* host is not: it has ended them itself.
LEMMA HostStops ==
    ASSUME NoRoom \notin RoomIDs, NEW h, Typed(h), Placed(h), Paired(h),
           NEW r, InformedBut(h, r), NEW c \in Clients, Inside(h, r, c),
           NEW k, k = CloseHostSessions(h, r, c)
    PROVE  /\ Typed(k) /\ Placed(k) /\ r \in DOMAIN k.rooms
           /\ Post(DOMAIN k.connected, k.out)
           /\ k.rooms[r].users = h.rooms[r].users
           /\ \A d \in DOMAIN k.connected :
                 /\ k.connected[d] = NoRoom \/ k.connected[d] # r =>
                       LastSeen(k.out, d, Shown(k, d))
                 /\ Live(k, d) \subseteq Heard(k.out, d)
                 /\ \A s \in Heard(k.out, d) \ Live(k, d) :
                       s.host = d /\ d = c /\ k.connected[d] = r
<1>1. PICK gone : gone = HostedBy(h.rooms[r], c)
  OBVIOUS
<1>2. r \in DOMAIN h.rooms /\ c \in DOMAIN h.rooms[r].users
      /\ gone \in SUBSET h.rooms[r].sessions
      /\ \A s \in h.rooms[r].sessions : s \in gone <=> s.host = c
  BY <1>1 DEF Inside, HostedBy
<1>3. PICK msgs \in SUBSET Message : msgs = EndShares(h, r, gone, c)
  BY <1>2, EndSharesTyped, RoomFields
<1>4. /\ Typed(k)
      /\ k.connected = h.connected
      /\ k.rooms = WithSessions(h.rooms, r, h.rooms[r].sessions \ gone)
  <2>1. /\ Typed(CloseHostSessions(h, r, c))
        /\ CloseHostSessions(h, r, c).connected = h.connected
        /\ CloseHostSessions(h, r, c).rooms =
              WithSessions(h.rooms, r, h.rooms[r].sessions \ HostedBy(h.rooms[r], c))
    BY ONLY Typed(h), <1>2, CloseHostTyped
  <2> QED BY ONLY k = CloseHostSessions(h, r, c), <1>1, <2>1
<1>5. k.out = Append(h.out, msgs)
  <2>1. k = CloseSessions(Send(h, EndShares(h, r, gone, c)), r, gone)
    BY <1>1 DEF CloseHostSessions
  <2> QED BY <1>2, <1>3, <2>1, ToldAndClosedOut
<1>6. /\ DOMAIN k.rooms = DOMAIN h.rooms
      /\ k.rooms[r].sessions = h.rooms[r].sessions \ gone
      /\ k.rooms[r].users = h.rooms[r].users
      /\ \A q \in DOMAIN h.rooms : q # r => k.rooms[q] = h.rooms[q]
  <2>1. IsMap(h.rooms, RoomIDs, RoomRecord) /\ h.rooms[r].sessions \ gone \in SUBSET Session
    BY <1>2, RoomFields DEF Typed
  <2>2. PICK X \in SUBSET Session : X = h.rooms[r].sessions \ gone
    BY <2>1
  <2>3. PICK all : all = WithSessions(h.rooms, r, X)
    OBVIOUS
  <2>4. /\ DOMAIN all = DOMAIN h.rooms
        /\ all[r].sessions = X
        /\ all[r].users = h.rooms[r].users
        /\ \A q \in DOMAIN h.rooms : q # r => all[q] = h.rooms[q]
    BY <1>2, <2>1, <2>3, WithSessionsMap
  <2> QED BY <1>4, <2>2, <2>3, <2>4
<1>7. Placed(k)
  <2>1. \A q, d : Inside(k, q, d) <=> Inside(h, q, d)
    BY <1>6 DEF Inside
  <2> QED BY <1>4, <2>1 DEF Placed
<1>8. h.out \in Seq(SUBSET Message)
  BY DEF Typed
<1>9. \A m \in msgs : m.type = "endshare" /\ m.to \in DOMAIN h.rooms[r].users
  BY <1>3 DEF EndShares
<1>10. Post(DOMAIN k.connected, k.out)
  <2>1. ASSUME NEW m \in msgs
        PROVE  /\ m.to \in DOMAIN h.connected
               /\ m.type # "closewriter"
               /\ Greeted(h.out, m.to)
    <3>1. m.to \in DOMAIN h.connected /\ h.connected[m.to] # NoRoom
      BY <1>2, <1>9, PlacedUsers
    <3> QED BY <1>9, <3>1 DEF InformedBut
  <2>2. Post(DOMAIN h.connected, h.out)
    BY DEF InformedBut
  <2>3. Post(DOMAIN h.connected, Append(h.out, msgs))
    BY <1>8, <2>1, <2>2, SendPost
  <2> QED BY <1>4, <1>5, <2>3
<1>11. ASSUME NEW d \in DOMAIN k.connected
       PROVE  /\ k.connected[d] = NoRoom \/ k.connected[d] # r =>
                    LastSeen(k.out, d, Shown(k, d))
              /\ Live(k, d) \subseteq Heard(k.out, d)
              /\ \A s \in Heard(k.out, d) \ Live(k, d) :
                    s.host = d /\ d = c /\ k.connected[d] = r
  <2>1. d \in DOMAIN h.connected /\ k.connected[d] = h.connected[d]
    BY <1>4
  <2>2. h.connected[d] # NoRoom => h.connected[d] \in DOMAIN h.rooms
    BY <2>1, PlacedIn DEF Inside
  <2>3. r # NoRoom
    BY <1>2, RoomFields
  <2>4. Heard(h.out, d) = Live(h, d)
    BY <2>1 DEF InformedBut
  <2>5. \A s : s \in Heard(k.out, d)
                  <=> /\ s \in Live(h, d)
                      /\ ~ (s \in gone /\ Peer(s, c) = d /\ d \in DOMAIN h.rooms[r].users)
    <3>1. \A s : s \in Heard(Append(h.out, msgs), d)
                    <=> /\ s \in Heard(h.out, d)
                        /\ ~ (s \in gone /\ Peer(s, c) = d
                                /\ d \in DOMAIN h.rooms[r].users)
      BY ONLY <1>3, <1>8, EndSharesHeard
    <3> QED BY <1>5, <2>4, <3>1
  <2>6. Shown(k, d) = Shown(h, d)
    BY <1>6, <2>1, <2>2 DEF Shown
  <2>7. ASSUME k.connected[d] = NoRoom \/ k.connected[d] # r
        PROVE  LastSeen(k.out, d, Shown(k, d))
    <3>1. LastSeen(h.out, d, Shown(h, d))
      BY <2>1, <2>7 DEF InformedBut
    <3>2. \A m \in msgs : ~ (m.to = d /\ m.type = "room")
      BY <1>9
    <3>3. LastSeen(Append(h.out, msgs), d, Shown(h, d))
      BY <1>8, <3>1, <3>2, SendSeen
    <3> QED BY <1>5, <2>6, <3>3
  <2>8. CASE h.connected[d] = r
    <3>1. d \in DOMAIN h.rooms[r].users
      BY <1>2, <2>1, <2>8, PlacedIn
    <3>2. /\ Live(h, d) = SessionsWith(h.rooms[r], d)
          /\ Live(k, d) = SessionsWith(k.rooms[r], d)
      BY <2>1, <2>3, <2>8 DEF Live
    <3>3. \A s : s \in Live(k, d) <=> s \in Live(h, d) /\ s \notin gone
      BY <1>6, <3>2 DEF SessionsWith
    <3>4. ASSUME NEW s \in Live(h, d), s \in gone, Peer(s, c) # d
          PROVE  s.host = d /\ d = c
      <4>1. s.host = c /\ d \in {s.host, s.client}
        BY <1>2, <3>2, <3>4 DEF SessionsWith
      <4> QED BY <3>4, <4>1 DEF Peer
    <3> QED BY <2>1, <2>5, <2>7, <2>8, <3>1, <3>3, <3>4
  <2>9. CASE h.connected[d] # r
    <3>1. d \notin DOMAIN h.rooms[r].users
      BY <1>2, <2>1, <2>9, PlacedIn
    <3>2. Live(k, d) = Live(h, d)
      BY <1>6, <2>1, <2>2, <2>9 DEF Live
    <3> QED BY <2>5, <2>7, <3>1, <3>2
  <2> QED BY <2>8, <2>9
<1> QED BY <1>2, <1>4, <1>6, <1>7, <1>10, <1>11

\* StopShare: the viewers hear of the end, then everybody of the stream's.
LEMMA StopShareDelivers ==
    ASSUME NoRoom \notin RoomIDs, TypeOK, Sound(hub), Known,
           NEW c \in Clients, StopShare(c)
    PROVE  \E k : Become(k) /\ Delivered(k)
<1>1. /\ Typed(hub) /\ Placed(hub) /\ Paired(hub) /\ Informed(hub)
      /\ hub.connected = connected /\ hub.rooms = rooms
  BY HubInformed
<1>2. c \in DOMAIN connected
  BY DEF StopShare, Accepts
<1>3. CASE Become(Disconnect(hub, c))
  BY <1>2, <1>3, FailDelivers
<1>4. CASE HasRoom(c) /\ Become(Deref(hub, connected[c], c,
                                     StopSharing(hub, connected[c], c)))
  <2>1. PICK r : r = connected[c]
    OBVIOUS
  <2>2. Inside(hub, r, c) /\ r \in DOMAIN hub.rooms /\ c \in DOMAIN hub.rooms[r].users
    <3>1. Inside(hub, r, c) /\ r \in DOMAIN hub.rooms
      BY <1>2, <1>4, <2>1, HasRoomInside
    <3> QED BY <3>1 DEF Inside
  <2>3. PICK quiet : quiet = SetStreaming(hub, r, c, FALSE)
    OBVIOUS
  <2>4. PICK shut : shut = CloseHostSessions(quiet, r, c)
    OBVIOUS
  <2>5. PICK k : k = NotifyInfoChanged(shut, r)
    OBVIOUS
  <2>6. Become(k)
    BY <1>4, <2>1, <2>2, <2>3, <2>4, <2>5 DEF Deref, StopSharing
  <2>7. PICK user : user = Streaming(hub.rooms[r].users[c], FALSE)
    OBVIOUS
  <2>8. user \in User /\ ~user.streaming
    <3>1. hub.rooms[r].users[c] \in User
      BY <1>1, <2>2, RoomFields DEF IsMap
    <3> QED BY <2>7, <3>1 DEF User, Streaming
  <2>9. /\ Typed(quiet)
        /\ quiet.connected = hub.connected
        /\ quiet.rooms = WithUsers(hub.rooms, r, Put(hub.rooms[r].users, c, user))
        /\ quiet.panicked = hub.panicked
    <3>1. PICK on \in BOOLEAN : on = FALSE
      OBVIOUS
    <3>2. /\ quiet = SetStreaming(hub, r, c, on)
          /\ user = Streaming(hub.rooms[r].users[c], on)
      BY <2>3, <2>7, <3>1
    <3> QED BY <1>1, <2>2, <3>2, SetStreamingTyped
  <2>10. quiet.out = hub.out
    BY <1>1, <2>3 DEF SetStreaming, Typed
  <2>11. /\ Placed(quiet) /\ Paired(quiet) /\ InformedBut(quiet, r)
         /\ DOMAIN quiet.rooms = DOMAIN hub.rooms
         /\ DOMAIN quiet.rooms[r].users = DOMAIN hub.rooms[r].users
         /\ quiet.rooms[r].users[c] = user
    BY <1>1, <2>2, <2>8, <2>9, <2>10, UserInforms
  <2>12. Inside(quiet, r, c)
    BY <2>2, <2>11 DEF Inside
  <2>13. /\ Typed(shut) /\ Placed(shut) /\ r \in DOMAIN shut.rooms
         /\ Post(DOMAIN shut.connected, shut.out)
         /\ shut.rooms[r].users = quiet.rooms[r].users
         /\ \A d \in DOMAIN shut.connected :
               /\ shut.connected[d] = NoRoom \/ shut.connected[d] # r =>
                     LastSeen(shut.out, d, Shown(shut, d))
               /\ Live(shut, d) \subseteq Heard(shut.out, d)
               /\ \A s \in Heard(shut.out, d) \ Live(shut, d) :
                     s.host = d /\ d = c /\ shut.connected[d] = r
    BY <2>4, <2>9, <2>11, <2>12, HostStops
  <2>14. /\ Post(DOMAIN k.connected, k.out)
         /\ k.connected = shut.connected
         /\ \A d \in DOMAIN k.connected :
               /\ LastSeen(k.out, d, Shown(k, d))
               /\ Heard(k.out, d) = Heard(shut.out, d)
               /\ Live(k, d) = Live(shut, d)
    BY <2>5, <2>13, NotifyInforms
  <2>15. k.rooms = shut.rooms
    BY <2>5, <2>13, NotifyTyped DEF Alike
  <2>16. ASSUME NEW d \in DOMAIN k.connected, NEW s \in Heard(k.out, d) \ Live(k, d)
         PROVE  s.host = d /\ ~Sharing(Shown(k, d).users, d)
    <3>1. s.host = d /\ d = c /\ k.connected[d] = r
      BY <2>13, <2>14, <2>16
    <3>2. r # NoRoom
      BY <1>1, <2>2, RoomFields
    <3>3. Shown(k, d) = [room |-> r, users |-> quiet.rooms[r].users]
      BY <2>13, <2>15, <3>1, <3>2 DEF Shown
    <3>4. ~Sharing(quiet.rooms[r].users, c)
      BY <2>8, <2>11 DEF Sharing
    <3> QED BY <3>1, <3>3, <3>4
  <2>17. Delivered(k)
    BY <2>13, <2>14, <2>16 DEF Delivered
  <2> QED BY <2>6, <2>17
<1> QED BY <1>3, <1>4 DEF StopShare

-----------------------------------------------------------------------------
(* What the clients conclude of it *)

\* Whoever hosts a session shares.
HostsShare ==
    \A d \in DOMAIN connected :
        connected[d] # NoRoom =>
           \A s \in Room(d).sessions : s.host = d => Sharing(Room(d).users, d)

\* Nothing is remembered of a client that is gone, or not there yet.
Forgotten ==
    \A c \in Clients \ DOMAIN connected : view[c] = NoView /\ told[c] = {}

ViewInv == ViewIsCurrent /\ SessionsAreTold /\ ClosedAreGone /\ Forgotten

\* The two step properties, as actions
NothingSentAfterClose ==
    \A i \in DOMAIN outbox' : \A m \in outbox'[i] :
       /\ m.to \notin closed
       /\ \A j \in 1..i-1 : [to |-> m.to, type |-> "closewriter"] \notin outbox'[j]

RoomSentFirst ==
    \A c \in Clients : \A i \in DOMAIN outbox' : \A m \in outbox'[i] :
       (m.to = c /\ view[c] = NoView /\ m.type \notin {"room", "closewriter"})
           => \E j \in 1..i-1 : \E n \in outbox'[j] : n.to = c /\ n.type = "room"

\* What the views say of the variables they say of the hub.
LEMMA ViewsKnown ==
    ASSUME ViewIsCurrent, SessionsAreTold
    PROVE  Known
<1>1. hub.connected = connected /\ hub.rooms = rooms
  BY DEF hub
<1> QED BY <1>1 DEF Known, Shown, Live, ViewIsCurrent, SessionsAreTold, Room

\* CloseWriter among the messages
LEMMA CloseMail ==
    ASSUME NEW out \in Seq(SUBSET Message), NEW c
    PROVE  Mail(out, c, "closewriter") # {}
              <=> \E i \in DOMAIN out : CloseWriter(c) \in out[i]
<1>1. ASSUME NEW m \in Mail(out, c, "closewriter")
      PROVE  \E i \in DOMAIN out : CloseWriter(c) \in out[i]
  <2>1. PICK i \in DOMAIN out : m \in out[i] /\ m.to = c /\ m.type = "closewriter"
    BY <1>1 DEF Mail
  <2>2. m \in Message
    <3>1. out[i] \in SUBSET Message
      OBVIOUS
    <3> QED BY <2>1, <3>1
  <2>3. m = CloseWriter(c)
    BY <2>1, <2>2, MessageForms
  <2> QED BY <2>1, <2>3
<1>2. ASSUME NEW i \in DOMAIN out, CloseWriter(c) \in out[i]
      PROVE  CloseWriter(c) \in Mail(out, c, "closewriter")
  <2>1. CloseWriter(c).to = c /\ CloseWriter(c).type = "closewriter"
    BY DEF CloseWriter
  <2>2. CloseWriter(c) \in UNION {out[j] : j \in DOMAIN out}
    BY <1>2
  <2> QED BY <2>1, <2>2 DEF Mail
<1> QED BY <1>1, <1>2

\* A client that is sent nothing learns nothing.
LEMMA NoMail ==
    ASSUME NEW out, NEW c, \A i \in DOMAIN out : \A m \in out[i] : m.to # c
    PROVE  \A type : Mail(out, c, type) = {} /\ Sids(out, c, type) = {}
<1>1. \A type : Mail(out, c, type) = {}
  BY DEF Mail
<1> QED BY <1>1 DEF Sids

\* A handler that delivers leaves everybody who stays with the right view.
LEMMA Observed ==
    ASSUME TypeOK, TypeOK', HostsShare', ViewInv, NEW k, Become(k), Delivered(k),
           UNCHANGED arrived, Observe
    PROVE  ViewInv' /\ NothingSentAfterClose /\ RoomSentFirst
<1>1. PICK out \in Seq(SUBSET Message) : out = k.out /\ outbox' = out
  BY DEF TypeOK, Become
<1>2. connected' = k.connected /\ rooms' = k.rooms
  BY DEF Become
<1>3. Post(DOMAIN k.connected, out)
  BY <1>1 DEF Delivered
<1>4. /\ DOMAIN k.connected \subseteq DOMAIN connected
      /\ DOMAIN connected \subseteq arrived /\ arrived \subseteq Clients
  BY <1>3 DEF Post, TypeOK
<1>5. closed = arrived \ DOMAIN connected
  BY DEF ViewInv, ClosedAreGone
<1>6. /\ closed' = closed \cup {c \in Clients : Mail(out, c, "closewriter") # {}}
      /\ view' = [c \in Clients |-> IF c \in closed' THEN NoView ELSE Look(c)]
      /\ told' = [c \in Clients |-> IF c \in closed' THEN {} ELSE Listen(c)]
  BY <1>1 DEF Observe
<1>7. \A c \in Clients : Mail(out, c, "closewriter") # {}
                           <=> c \in DOMAIN connected \ DOMAIN k.connected
  <2> SUFFICES ASSUME NEW c \in Clients
               PROVE  Mail(out, c, "closewriter") # {}
                         <=> c \in DOMAIN connected \ DOMAIN k.connected
    OBVIOUS
  <2>1. CASE c \in DOMAIN connected
    <3>1. Mail(out, c, "closewriter") # {}
             <=> \E i \in DOMAIN out : CloseWriter(c) \in out[i]
      BY CloseMail
    <3>2. (\E i \in DOMAIN out : CloseWriter(c) \in out[i]) <=> c \notin DOMAIN k.connected
      BY <1>3, <2>1 DEF Post
    <3> QED BY <2>1, <3>1, <3>2
  <2>2. CASE c \notin DOMAIN connected
    <3>1. \A i \in DOMAIN out : \A m \in out[i] : m.to # c
      BY <1>3, <2>2 DEF Post
    <3>2. Mail(out, c, "closewriter") = {}
      BY <3>1, NoMail
    <3> QED BY <2>2, <3>2
  <2> QED BY <2>1, <2>2
<1>8. closed' = arrived \ DOMAIN k.connected
  BY <1>4, <1>5, <1>6, <1>7
<1>9. ASSUME NEW c \in Clients
      PROVE  /\ Look(c) = LookAt(out, c)
             /\ Listen(c) = {s \in Heard(out, c) :
                               s.host = c => Sharing(LookAt(out, c).users, c)}
  <2>1. Look(c) = LookAt(out, c)
    BY <1>1 DEF Look, LookAt
  <2>2. (told[c] \cup Sids(out, c, "hostsession") \cup Sids(out, c, "clientsession"))
             \ Sids(out, c, "endshare") = Heard(out, c)
    BY DEF Heard, Announced
  <2>3. Listen(c) = {s \in Heard(out, c) :
                        s.host = c => Sharing(LookAt(out, c).users, c)}
    BY <1>1, <2>1, <2>2 DEF Listen
  <2> QED BY <2>1, <2>3
<1>10. ASSUME NEW d \in DOMAIN k.connected
       PROVE  view'[d] = Shown(k, d) /\ told'[d] = Live(k, d)
  <2>1. d \in Clients /\ d \notin closed'
    BY <1>4, <1>8
  <2>2. view'[d] = Look(d) /\ told'[d] = Listen(d)
    BY <1>6, <2>1
  <2>3. /\ LastSeen(out, d, Shown(k, d))
        /\ Live(k, d) \subseteq Heard(out, d)
        /\ \A s \in Heard(out, d) \ Live(k, d) :
              s.host = d /\ ~Sharing(Shown(k, d).users, d)
    BY <1>1 DEF Delivered
  <2>4. LookAt(out, d) = Shown(k, d)
    BY <2>3, LastSeenLook
  <2>5. ASSUME NEW s \in Live(k, d), s.host = d
        PROVE  Sharing(Shown(k, d).users, d)
    <3>1. PICK r : r = k.connected[d]
      OBVIOUS
    <3>2. r # NoRoom /\ s \in k.rooms[r].sessions
          /\ Shown(k, d) = [room |-> r, users |-> k.rooms[r].users]
      BY <2>5, <3>1 DEF Live, Shown, SessionsWith
    <3>3. Sharing(k.rooms[r].users, d)
      BY <1>2, <2>5, <3>1, <3>2 DEF HostsShare, Room
    <3> QED BY <3>2, <3>3
  <2>6. Listen(d) = Live(k, d)
    BY <1>9, <2>1, <2>3, <2>4, <2>5
  <2> QED BY <1>9, <2>1, <2>2, <2>4, <2>6
<1>11. ViewIsCurrent' /\ SessionsAreTold'
  BY <1>2, <1>10 DEF ViewIsCurrent, SessionsAreTold, Shown, Live, Room
<1>12. ClosedAreGone'
  BY <1>2, <1>8 DEF ClosedAreGone
<1>13. Forgotten'
  <2> SUFFICES ASSUME NEW c \in Clients \ DOMAIN k.connected
               PROVE  view'[c] = NoView /\ told'[c] = {}
    BY <1>2 DEF Forgotten
  <2>1. CASE c \in closed'
    BY <1>6, <2>1
  <2>2. CASE c \notin closed'
    <3>1. c \notin DOMAIN connected
      BY <1>4, <1>8, <2>2
    <3>2. view[c] = NoView /\ told[c] = {}
      BY <3>1 DEF ViewInv, Forgotten
    <3>3. \A i \in DOMAIN out : \A m \in out[i] : m.to # c
      BY <1>3, <3>1 DEF Post
    <3>4. \A type : Mail(out, c, type) = {} /\ Sids(out, c, type) = {}
      BY <3>3, NoMail
    <3>5. LookAt(out, c) = NoView
      BY <3>2, <3>4 DEF LookAt
    <3>6. Heard(out, c) = {}
      BY <3>2, <3>4 DEF Heard, Announced
    <3>7. Look(c) = NoView /\ Listen(c) = {}
      BY <1>9, <3>5, <3>6
    <3> QED BY <1>6, <2>2, <3>7
  <2> QED BY <2>1, <2>2
<1>14. NothingSentAfterClose
  <2> SUFFICES ASSUME NEW i \in DOMAIN out, NEW m \in out[i]
               PROVE  /\ m.to \notin closed
                      /\ \A j \in 1..i-1 :
                            [to |-> m.to, type |-> "closewriter"] \notin out[j]
    BY <1>1 DEF NothingSentAfterClose
  <2>1. m.to \in DOMAIN connected /\ \A j \in 1 .. i - 1 : CloseWriter(m.to) \notin out[j]
    BY <1>3 DEF Post
  <2> QED BY <1>5, <2>1 DEF CloseWriter
<1>15. RoomSentFirst
  BY <1>1, <1>3 DEF Post, RoomSentFirst
<1> QED BY <1>11, <1>12, <1>13, <1>14, <1>15 DEF ViewInv

\* A new connection is sent nothing, and knows nothing.
LEMMA NewcomerObserved ==
    ASSUME TypeOK, HostsShare, ViewInv, NEW c \in Clients, Connected(c), Observe
    PROVE  ViewInv' /\ NothingSentAfterClose /\ RoomSentFirst
<1>1. /\ c \notin arrived /\ arrived' = arrived \cup {c}
      /\ connected' = Put(connected, c, NoRoom)
      /\ rooms' = rooms /\ outbox' = << >>
  BY DEF Connected, Become, hub
<1>2. DOMAIN outbox' = {}
  BY <1>1
<1>3. \A d, type : Mail(outbox', d, type) = {} /\ Sids(outbox', d, type) = {}
  BY <1>2, NoMail
<1>4. closed' = closed
  BY <1>3 DEF Observe
<1>5. DOMAIN connected \subseteq arrived /\ arrived \subseteq Clients
      /\ closed = arrived \ DOMAIN connected
  BY DEF TypeOK, ViewInv, ClosedAreGone
<1>6. /\ DOMAIN connected' = DOMAIN connected \cup {c}
      /\ connected'[c] = NoRoom
      /\ \A d \in DOMAIN connected : connected'[d] = connected[d]
  BY <1>1, <1>5 DEF Put
<1>7. ASSUME NEW d \in Clients, d \notin closed
      PROVE  view'[d] = view[d]
  BY <1>3, <1>4, <1>7 DEF Observe, Look
<1>8. ASSUME NEW d \in Clients, d \notin closed,
             \A s \in told[d] : s.host = d => Sharing(view[d].users, d)
      PROVE  told'[d] = told[d]
  <2>1. Look(d) = view[d]
    BY <1>3 DEF Look
  <2>2. Listen(d) = told[d]
    BY <1>3, <1>8, <2>1 DEF Listen
  <2> QED BY <1>4, <1>8, <2>2 DEF Observe
<1>9. ASSUME NEW d \in DOMAIN connected
      PROVE  view'[d] = view[d] /\ told'[d] = told[d]
  <2>1. d \in Clients /\ d \notin closed
    BY <1>5
  <2>2. \A s \in told[d] : s.host = d => Sharing(view[d].users, d)
    <3>1. CASE connected[d] = NoRoom
      BY <3>1 DEF ViewInv, SessionsAreTold
    <3>2. CASE connected[d] # NoRoom
      <4>1. told[d] = SessionsWith(Room(d), d) /\ view[d].users = Room(d).users
        <5>1. told[d] = SessionsWith(Room(d), d)
          BY <3>2 DEF ViewInv, SessionsAreTold
        <5>2. view[d] = [room |-> connected[d], users |-> Room(d).users]
          BY <3>2 DEF ViewInv, ViewIsCurrent
        <5> QED BY <5>1, <5>2
      <4> QED BY <3>2, <4>1 DEF HostsShare, SessionsWith
    <3> QED BY <3>1, <3>2
  <2> QED BY <1>7, <1>8, <2>1, <2>2
<1>10. ASSUME NEW d \in Clients \ DOMAIN connected
       PROVE  view'[d] = NoView /\ told'[d] = {}
  <2>1. CASE d \in closed
    BY <1>4, <2>1 DEF Observe
  <2>2. CASE d \notin closed
    <3>1. view[d] = NoView /\ told[d] = {}
      BY DEF ViewInv, Forgotten
    <3> QED BY <1>7, <1>8, <2>2, <3>1
  <2> QED BY <2>1, <2>2
<1>11. c \in Clients \ DOMAIN connected
  BY <1>1, <1>5
<1>12. \A d \in DOMAIN connected' : d \in DOMAIN connected \/ d = c
  BY <1>6
<1>13. ViewIsCurrent'
  <2> SUFFICES ASSUME NEW d \in DOMAIN connected'
               PROVE  view'[d] = IF connected'[d] = NoRoom
                                 THEN NoView
                                 ELSE [room |-> connected'[d], users |-> Room(d)'.users]
    BY DEF ViewIsCurrent
  <2>1. CASE d = c
    BY <1>6, <1>10, <1>11, <2>1
  <2>2. CASE d \in DOMAIN connected
    BY <1>1, <1>6, <1>9, <2>2 DEF ViewInv, ViewIsCurrent, Room
  <2> QED BY <1>12, <2>1, <2>2
<1>14. SessionsAreTold'
  <2> SUFFICES ASSUME NEW d \in DOMAIN connected'
               PROVE  told'[d] = IF connected'[d] = NoRoom
                                 THEN {}
                                 ELSE SessionsWith(Room(d)', d)
    BY DEF SessionsAreTold, SessionsWith
  <2>1. CASE d = c
    BY <1>6, <1>10, <1>11, <2>1
  <2>2. CASE d \in DOMAIN connected
    BY <1>1, <1>6, <1>9, <2>2 DEF ViewInv, SessionsAreTold, Room, SessionsWith
  <2> QED BY <1>12, <2>1, <2>2
<1>15. ClosedAreGone'
  BY <1>1, <1>4, <1>5, <1>6 DEF ClosedAreGone
<1>16. Forgotten'
  BY <1>6, <1>10 DEF Forgotten
<1>17. NothingSentAfterClose /\ RoomSentFirst
  BY <1>2 DEF NothingSentAfterClose, RoomSentFirst
<1> QED BY <1>13, <1>14, <1>15, <1>16, <1>17 DEF ViewInv

\* Every handler but Connected delivers.
LEMMA HandlersDeliver ==
    ASSUME NoRoom \notin RoomIDs, TypeOK, Sound(hub), Known, Next
    PROVE  \/ \E c \in Clients : Connected(c)
           \/ UNCHANGED arrived /\ \E k : Become(k) /\ Delivered(k)
<1>1. ASSUME NEW c \in Clients, NEW r \in RoomIDs, NEW mode \in Modes,
             NEW close \in BOOLEAN, NEW joinIfExist \in BOOLEAN,
             Create(c, r, mode, close, joinIfExist)
      PROVE  UNCHANGED arrived /\ \E k : Become(k) /\ Delivered(k)
  BY <1>1, CreateDelivers DEF Create
<1>2. ASSUME NEW c \in Clients, NEW r \in RoomIDs, Join(c, r)
      PROVE  UNCHANGED arrived /\ \E k : Become(k) /\ Delivered(k)
  BY <1>2, JoinDelivers DEF Join
<1>3. ASSUME NEW c \in Clients, StartShare(c)
      PROVE  UNCHANGED arrived /\ \E k : Become(k) /\ Delivered(k)
  BY <1>3, StartShareDelivers DEF StartShare
<1>4. ASSUME NEW c \in Clients, StopShare(c)
      PROVE  UNCHANGED arrived /\ \E k : Become(k) /\ Delivered(k)
  BY <1>4, StopShareDelivers DEF StopShare
<1>5. ASSUME NEW c \in Clients, Name(c)
      PROVE  UNCHANGED arrived /\ \E k : Become(k) /\ Delivered(k)
  BY <1>5, NameDelivers DEF Name
<1>6. ASSUME NEW c \in Clients, NEW role \in {"host", "client"},
             NEW s \in KnownSessions, Relay(c, role, s)
      PROVE  UNCHANGED arrived /\ \E k : Become(k) /\ Delivered(k)
  BY <1>6, RelayDelivers DEF Relay
<1>7. ASSUME NEW c \in Clients, Disconnected(c)
      PROVE  UNCHANGED arrived /\ \E k : Become(k) /\ Delivered(k)
  BY <1>7, FailDelivers DEF Disconnected, Accepts
<1> QED BY <1>1, <1>2, <1>3, <1>4, <1>5, <1>6, <1>7 DEF Next

\* A step of the registry as the clients see it
LEMMA ViewStep ==
    ASSUME NoRoom \notin RoomIDs, TypeOK, TypeOK', Sound(hub), HostsShare, HostsShare',
           ViewInv, [ViewNext]_<<vars, views>>
    PROVE  /\ ViewInv'
           /\ [NothingSentAfterClose]_<<vars, views>>
           /\ [RoomSentFirst]_<<vars, views>>
<1>1. CASE UNCHANGED <<vars, views>>
  <2>1. ViewInv'
    BY <1>1 DEF vars, views, ViewInv, ViewIsCurrent, SessionsAreTold, ClosedAreGone,
                Forgotten, Room, SessionsWith
  <2> QED BY <1>1, <2>1
<1>2. CASE ViewNext
  <2>1. Known
    BY ViewsKnown DEF ViewInv
  <2>2. ASSUME NEW c \in Clients, Connected(c)
        PROVE  ViewInv' /\ NothingSentAfterClose /\ RoomSentFirst
    BY <1>2, <2>2, NewcomerObserved DEF ViewNext
  <2>3. ASSUME UNCHANGED arrived, NEW k, Become(k), Delivered(k)
        PROVE  ViewInv' /\ NothingSentAfterClose /\ RoomSentFirst
    BY <1>2, <2>3, Observed DEF ViewNext
  <2>4. \/ \E c \in Clients : Connected(c)
        \/ UNCHANGED arrived /\ \E k : Become(k) /\ Delivered(k)
    BY <1>2, <2>1, HandlersDeliver DEF ViewNext
  <2> QED BY <2>2, <2>3, <2>4
<1> QED BY <1>1, <1>2

\* What the steps need to know of the registry
LEMMA RegistryOfViews ==
    ASSUME NoRoom \notin RoomIDs
    PROVE  ViewSpec => [](TypeOK /\ Sound(hub) /\ HostsShare)
<1>1. ViewInit => Init
  BY DEF ViewInit
<1>2. [ViewNext]_<<vars, views>> => [Next]_vars
  BY DEF ViewNext
<1>3. ViewSpec => Spec
  BY <1>1, <1>2, PTL DEF ViewSpec, Spec
<1>4. TypeOK /\ Sound(hub) => HostsShare
  <2> SUFFICES ASSUME TypeOK, Sound(hub), NEW d \in DOMAIN connected, connected[d] # NoRoom,
                      NEW s \in Room(d).sessions, s.host = d
               PROVE  Sharing(Room(d).users, d)
    BY DEF HostsShare
  <2>1. hub.connected = connected /\ hub.rooms = rooms /\ Typed(hub) /\ Placed(hub)
    BY HubTyped DEF hub, Sound
  <2>2. connected[d] \in DOMAIN hub.rooms
    BY <2>1, PlacedIn DEF Inside
  <2> QED BY <2>1, <2>2, SoundPaired DEF Room
<1> QED BY <1>3, <1>4, TypeCorrect, RegistrySound, PTL

\* The invariant of the views, and the order of the messages
LEMMA ViewsCorrect ==
    ASSUME NoRoom \notin RoomIDs
    PROVE  ViewSpec => /\ []ViewInv
                       /\ [][NothingSentAfterClose]_<<vars, views>>
                       /\ [][RoomSentFirst]_<<vars, views>>
<1>1. ViewInit => ViewInv
  <2> SUFFICES ASSUME ViewInit PROVE ViewInv
    OBVIOUS
  <2>1. DOMAIN connected = {} /\ arrived = {} /\ closed = {}
    BY DEF ViewInit, Init
  <2>2. \A c \in Clients : view[c] = NoView /\ told[c] = {}
    BY DEF ViewInit
  <2> QED BY <2>1, <2>2 DEF ViewInv, ViewIsCurrent, SessionsAreTold, ClosedAreGone, Forgotten
<1>2. TypeOK /\ Sound(hub) /\ HostsShare /\ (TypeOK /\ Sound(hub) /\ HostsShare)'
      /\ ViewInv /\ [ViewNext]_<<vars, views>>
      => ViewInv' /\ [NothingSentAfterClose]_<<vars, views>>
                  /\ [RoomSentFirst]_<<vars, views>>
  <2> SUFFICES ASSUME TypeOK, Sound(hub), HostsShare,
                      (TypeOK /\ Sound(hub) /\ HostsShare)',
                      ViewInv, [ViewNext]_<<vars, views>>
               PROVE  /\ ViewInv'
                      /\ [NothingSentAfterClose]_<<vars, views>>
                      /\ [RoomSentFirst]_<<vars, views>>
    OBVIOUS
  <2>1. TypeOK' /\ HostsShare'
    OBVIOUS
  <2> QED BY <2>1, ViewStep
<1> QED BY <1>1, <1>2, RegistryOfViews, PTL DEF ViewSpec

\* Whoever is in a room has been sent it as it is, after every handler.
THEOREM ViewsAreCurrent ==
    ASSUME NoRoom \notin RoomIDs
    PROVE  ViewSpec => []ViewIsCurrent
<1>1. ViewInv => ViewIsCurrent
  BY DEF ViewInv
<1> QED BY <1>1, ViewsCorrect, PTL

\* Whoever is an end of a session has been told of it, and nobody of another.
THEOREM EndsAreTold ==
    ASSUME NoRoom \notin RoomIDs
    PROVE  ViewSpec => []SessionsAreTold
<1>1. ViewInv => SessionsAreTold
  BY DEF ViewInv
<1> QED BY <1>1, ViewsCorrect, PTL

\* CloseWriter goes to those who lose their connection, and to nobody else.
THEOREM ClosedLeft ==
    ASSUME NoRoom \notin RoomIDs
    PROVE  ViewSpec => []ClosedAreGone
<1>1. ViewInv => ClosedAreGone
  BY DEF ViewInv
<1> QED BY <1>1, ViewsCorrect, PTL

\* No message follows CloseWriter, in no handler and in none after it.
THEOREM CloseIsLast ==
    ASSUME NoRoom \notin RoomIDs
    PROVE  ViewSpec => NothingAfterClose
BY ViewsCorrect, PTL DEF NothingAfterClose, NothingSentAfterClose

\* No message but CloseWriter comes before the first room.
THEOREM RoomIsFirst ==
    ASSUME NoRoom \notin RoomIDs
    PROVE  ViewSpec => RoomComesFirst
BY ViewsCorrect, PTL DEF RoomComesFirst, RoomSentFirst
=============================================================================
