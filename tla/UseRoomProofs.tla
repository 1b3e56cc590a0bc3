--------------------------- MODULE UseRoomProofs ----------------------------
(***************************************************************************)
(* For any number of viewers, pages, shares and candidates: what a page    *)
(* shows is served or about to be taken off, no peer of the host gets out  *)
(* of reach of stopShare, and the offers, answers and candidates of an     *)
(* open session find the peer they are for.                                *)
(***************************************************************************)
EXTENDS UseRoom, FiniteSetTheorems, TLAPS

\* The states of a RTCPeerConnection
HostStates == {"none", "offering", "offered", "answered", "closed"}

ViewerStates == {"none", "new", "applying", "answering", "answered", "closed"}

\* A session of the server, whatever the number of its share
Session == [viewer : Viewers, share : Nat]

Signal ==
    [type : {"room", "join", "share", "stopshare", "disconnected"}]
        \cup [type : {"hostsession", "clientsession", "offer", "answer",
                      "hostice", "clientice", "endshare"}, sid : Session]

ServerTypeOK ==
    /\ DOMAIN server = {"streaming", "share", "members", "sessions"}
    /\ server.streaming \in BOOLEAN
    /\ server.share \in Nat
    /\ server.members \subseteq Pages
    /\ server.sessions \subseteq Session
    /\ \A s \in server.sessions : s.share <= server.share

\* The host does not enter the room: it is there.
UpTypeOK ==
    /\ up \in [Pages -> Seq(Signal)]
    /\ \A i \in DOMAIN up[Host] : up[Host][i].type # "join"

\* Nobody is told to watch in the place of somebody else.
DownTypeOK ==
    /\ DOMAIN down = Pages
    /\ \A v \in Viewers :
          /\ down[v] \in Seq(Signal)
          /\ \A i \in DOMAIN down[v] :
                down[v][i].type = "clientsession" => down[v][i].sid.viewer = v

TypeOK ==
    /\ ServerTypeOK
    /\ page \in [Pages -> {"out", "joining", "in", "gone"}]
    /\ UpTypeOK
    /\ DownTypeOK
    /\ hostPeer \in [Sid -> HostStates]
    /\ viewerPeer \in [Sid -> ViewerStates]
    /\ shown \subseteq Sid

\* The end of s waits for its viewer, behind the i-th message.
Ended(s, i) ==
    \E j \in DOMAIN down[s.viewer] :
        j > i /\ down[s.viewer][j] = [type |-> "endshare", sid |-> s]

Live(s) == viewerPeer[s] \in {"new", "applying", "answering", "answered"}

\* Whoever has a session, or will hear of one, has it open or will hear of
\* its end afterwards.
Reported(s) ==
    page[s.viewer] # "gone" =>
        /\ Live(s) \/ s \in shown => s \in server.sessions \/ Ended(s, 0)
        /\ \A i \in DOMAIN down[s.viewer] :
              down[s.viewer][i] = [type |-> "clientsession", sid |-> s]
                => s \in server.sessions \/ Ended(s, i)

IInv ==
    /\ TypeOK
    /\ \A s \in Sid : Reported(s)

-----------------------------------------------------------------------------
(* What the server sends *)

\* SetToSeq lists every element of a finite set.
LEMMA SetToSeqLists ==
    ASSUME NEW S, IsFiniteSet(S)
    PROVE  /\ SetToSeq(S) \in Seq(S)
           /\ DOMAIN SetToSeq(S) = 1 .. Cardinality(S)
           /\ \A x \in S : \E i \in 1 .. Cardinality(S) : SetToSeq(S)[i] = x
<1> DEFINE n == Cardinality(S)
           f == SetToSeq(S)
<1>1. n \in Nat /\ ExistsBijection(1 .. n, S)
  BY FS_CardinalityType
<1>2. PICK g : g \in Bijection(1 .. n, S)
  BY <1>1 DEF ExistsBijection
<1>3. g \in [1 .. n -> S] /\ IsInjective(g)
  BY <1>2 DEF Bijection, Injection
<1>4. f \in [1 .. n -> S] /\ IsInjective(f)
  BY <1>3 DEF SetToSeq
<1> HIDE DEF f
<1>5. f \in Injection(1 .. n, S)
  BY <1>4 DEF IsInjective, Injection
<1>6. IsFiniteSet(1 .. n) /\ Cardinality(1 .. n) = n
  BY <1>1, FS_Interval
<1>7. f \in Surjection(1 .. n, S)
  BY <1>5, <1>6, FS_Injection
<1>8. \A x \in S : \E i \in 1 .. n : f[i] = x
  BY <1>7 DEF Surjection
<1>9. f \in Seq(S) /\ DOMAIN f = 1 .. n
  BY <1>1, <1>4
<1> QED BY <1>8, <1>9 DEF f

\* Messages about the sessions of one viewer are few.
LEMMA FewMessages ==
    ASSUME NEW v, NEW type, NEW n \in Nat, NEW msgs,
           \A m \in msgs : \E k \in 0 .. n :
              m = [type |-> type, sid |-> [viewer |-> v, share |-> k]]
    PROVE  IsFiniteSet(msgs)
<1> DEFINE msg(k) == [type |-> type, sid |-> [viewer |-> v, share |-> k]]
           all == {msg(k) : k \in 0 .. n}
           f == [k \in 0 .. n |-> msg(k)]
<1>1. f \in Surjection(0 .. n, all)
  BY DEF Surjection
<1>2. IsFiniteSet(all)
  <2>1. IsFiniteSet(0 .. n)
    BY FS_Interval
  <2> QED BY <1>1, <2>1, FS_Surjection
<1>3. msgs \in SUBSET all
  OBVIOUS
<1> QED BY <1>2, <1>3, FS_Subset

\* out tells the viewers of the sessions sids, and of nothing else.
Told(out, sids, type) ==
    /\ DOMAIN out = Pages
    /\ \A v \in Viewers :
          /\ out[v] \in Seq(Signal)
          /\ \A i \in DOMAIN out[v] :
                /\ out[v][i].type = type
                /\ out[v][i].sid \in sids /\ out[v][i].sid.viewer = v
          /\ \A s \in sids : s.viewer = v =>
                \E i \in DOMAIN out[v] : out[v][i] = [type |-> type, sid |-> s]

\* That is what Tell does.
LEMMA TellIs ==
    ASSUME NEW sids, sids \subseteq Session, NEW n \in Nat,
           \A s \in sids : s.share <= n,
           NEW toHost, NEW toViewer \in {"clientsession", "endshare"},
           NEW out, out = Tell(sids, toHost, toViewer)
    PROVE  Told(out, sids, toViewer)
<1>1. DOMAIN out = Pages
  BY DEF Tell
<1> SUFFICES ASSUME NEW v \in Viewers
             PROVE  /\ out[v] \in Seq(Signal)
                    /\ \A i \in DOMAIN out[v] :
                          /\ out[v][i].type = toViewer
                          /\ out[v][i].sid \in sids /\ out[v][i].sid.viewer = v
                    /\ \A s \in sids : s.viewer = v =>
                          \E i \in DOMAIN out[v] :
                             out[v][i] = [type |-> toViewer, sid |-> s]
  BY <1>1 DEF Told
<1> DEFINE msgs == {[type |-> toViewer, sid |-> s] : s \in {t \in sids : t.viewer = v}}
<1>2. out[v] = SetToSeq(msgs)
  BY ViewersAssumption DEF Tell, Pages
<1>3. IsFiniteSet(msgs)
  <2>1. ASSUME NEW m \in msgs
        PROVE  \E k \in 0 .. n : m = [type |-> toViewer, sid |-> [viewer |-> v, share |-> k]]
    <3>1. PICK s \in sids : s.viewer = v /\ m = [type |-> toViewer, sid |-> s]
      OBVIOUS
    <3>2. s = [viewer |-> v, share |-> s.share] /\ s.share \in 0 .. n
      BY <3>1 DEF Session
    <3> QED BY <3>1, <3>2
  <2> HIDE DEF msgs
  <2> QED BY <2>1, FewMessages
<1>4. msgs \subseteq Signal
  BY DEF Signal
<1>5. \A m \in msgs : m.type = toViewer /\ m.sid \in sids /\ m.sid.viewer = v
  OBVIOUS
<1>6. \A s \in sids : s.viewer = v => [type |-> toViewer, sid |-> s] \in msgs
  OBVIOUS
<1> HIDE DEF msgs
<1>7. /\ out[v] \in Seq(msgs)
      /\ \A x \in msgs : \E i \in DOMAIN out[v] : out[v][i] = x
  BY <1>2, <1>3, SetToSeqLists
<1>8. out[v] \in Seq(Signal) /\ \A i \in DOMAIN out[v] : out[v][i] \in msgs
  BY <1>4, <1>7
<1> QED BY <1>5, <1>6, <1>7, <1>8

\* A queue and what is put behind it
LEMMA Joined ==
    ASSUME NEW S, NEW a \in Seq(S), NEW b \in Seq(S)
    PROVE  /\ DOMAIN a = 1 .. Len(a) /\ Len(a) \in Nat
           /\ DOMAIN b = 1 .. Len(b) /\ Len(b) \in Nat
           /\ a \o b \in Seq(S)
           /\ DOMAIN (a \o b) = 1 .. Len(a) + Len(b)
           /\ \A i \in 1 .. Len(a) : (a \o b)[i] = a[i]
           /\ \A i \in 1 .. Len(b) : (a \o b)[Len(a) + i] = b[i]
<1>1. a \o b \in Seq(S) /\ Len(a \o b) = Len(a) + Len(b)
  OBVIOUS
<1>2. \A i \in 1 .. Len(a) : (a \o b)[i] = a[i]
  OBVIOUS
<1>3. \A i \in 1 .. Len(b) : (a \o b)[Len(a) + i] = b[i]
  OBVIOUS
<1>4. DOMAIN (a \o b) = 1 .. Len(a \o b)
  BY <1>1
<1> QED BY <1>1, <1>2, <1>3, <1>4

\* The messages of a handler of the server that opens and closes sessions:
\* a session that is announced is open, and one that is closed is announced
\* to be.
Fits(out) ==
    \A v \in Viewers :
        /\ out[v] \in Seq(Signal)
        /\ \A s \in server.sessions : s.viewer = v =>
              s \in server'.sessions
                \/ \E i \in DOMAIN out[v] : out[v][i] = [type |-> "endshare", sid |-> s]
        /\ \A i \in DOMAIN out[v] :
              out[v][i].type = "clientsession" =>
                 out[v][i].sid \in server'.sessions /\ out[v][i].sid.viewer = v

\* Such messages keep every viewer informed.
LEMMA DeliverReports ==
    ASSUME TypeOK, NEW s \in Sid, Reported(s), NEW out, Fits(out), Deliver(out),
           UNCHANGED <<page, viewerPeer, shown>>
    PROVE  Reported(s)'
<1>1. PICK v \in Viewers : v = s.viewer /\ v \in Pages
  BY DEF Sid, Pages
<1> SUFFICES ASSUME page[v] # "gone"
             PROVE  Reported(s)'
  BY <1>1 DEF Reported
<1>2. PICK old \in Seq(Signal), new \in Seq(Signal) : old = down[v] /\ new = out[v]
  BY DEF TypeOK, DownTypeOK, Fits
<1>3. down'[v] = old \o new
  BY <1>1, <1>2 DEF Deliver
<1>4. /\ DOMAIN old = 1 .. Len(old) /\ Len(old) \in Nat
      /\ DOMAIN new = 1 .. Len(new) /\ Len(new) \in Nat
      /\ DOMAIN down'[v] = 1 .. Len(old) + Len(new)
      /\ \A i \in 1 .. Len(old) : down'[v][i] = old[i]
      /\ \A i \in 1 .. Len(new) : down'[v][Len(old) + i] = new[i]
  <2>1. /\ DOMAIN old = 1 .. Len(old) /\ Len(old) \in Nat
        /\ DOMAIN new = 1 .. Len(new) /\ Len(new) \in Nat
        /\ old \o new \in Seq(Signal)
        /\ DOMAIN (old \o new) = 1 .. Len(old) + Len(new)
        /\ \A i \in 1 .. Len(old) : (old \o new)[i] = old[i]
        /\ \A i \in 1 .. Len(new) : (old \o new)[Len(old) + i] = new[i]
    BY Joined
  <2> QED BY <1>3, <2>1
<1>5. ASSUME NEW i, Ended(s, i)
      PROVE  Ended(s, i)'
  <2>1. PICK j \in 1 .. Len(old) : j > i /\ old[j] = [type |-> "endshare", sid |-> s]
    BY <1>1, <1>2, <1>4, <1>5 DEF Ended
  <2>2. j \in DOMAIN down'[v] /\ down'[v][j] = old[j]
    BY <1>4
  <2> QED BY <1>1, <2>1, <2>2 DEF Ended
<1>6. s \in server.sessions =>
        s \in server'.sessions \/ \A i \in 0 .. Len(old) : Ended(s, i)'
  <2> SUFFICES ASSUME s \in server.sessions, s \notin server'.sessions,
                      NEW i \in 0 .. Len(old)
               PROVE  Ended(s, i)'
    OBVIOUS
  <2>1. PICK j \in 1 .. Len(new) : new[j] = [type |-> "endshare", sid |-> s]
    BY <1>1, <1>2, <1>4 DEF Fits
  <2>2. Len(old) + j > i /\ Len(old) + j \in DOMAIN down'[v]
    BY <1>4
  <2> QED BY <1>1, <1>4, <2>1, <2>2 DEF Ended
<1>7. ASSUME NEW i \in DOMAIN down'[v],
             down'[v][i] = [type |-> "clientsession", sid |-> s]
      PROVE  s \in server'.sessions \/ Ended(s, i)'
  <2>1. CASE i \in 1 .. Len(old)
    <3>1. s \in server.sessions \/ Ended(s, i)
      BY <1>1, <1>2, <1>4, <1>7, <2>1 DEF Reported
    <3>2. i \in 0 .. Len(old)
      BY <1>4, <2>1
    <3> QED BY <1>5, <1>6, <3>1, <3>2
  <2>2. CASE i \notin 1 .. Len(old)
    <3>1. PICK k \in 1 .. Len(new) : i = Len(old) + k
      <4>1. i - Len(old) \in 1 .. Len(new) /\ i = Len(old) + (i - Len(old))
        BY <1>4, <2>2
      <4> QED BY <4>1
    <3>2. new[k] = [type |-> "clientsession", sid |-> s]
      BY <1>4, <1>7, <3>1
    <3>3. k \in DOMAIN out[v] /\ out[v][k].type = "clientsession" /\ out[v][k].sid = s
      BY <1>2, <1>4, <3>2
    <3> QED BY <3>3 DEF Fits
  <2> QED BY <2>1, <2>2
<1>8. Live(s) \/ s \in shown => s \in server'.sessions \/ Ended(s, 0)'
  BY <1>1, <1>4, <1>5, <1>6 DEF Reported
<1> QED BY <1>1, <1>7, <1>8 DEF Reported, Live

-----------------------------------------------------------------------------
(* The handlers of the server *)

\* Who joins is told of the room, then of its session with the host.
LEMMA JoinFits ==
    ASSUME TypeOK, NEW p \in Viewers, OnJoin(p)
    PROVE  ServerTypeOK' /\ \E out : Fits(out) /\ Deliver(out)
<1> DEFINE new == IF server.streaming THEN SessionsOf({p}, server.share) ELSE {}
<1>1. PICK told : told = Tell(new, "hostsession", "clientsession")
  OBVIOUS
<1>2. PICK out : out = [told EXCEPT ![p] = << [type |-> "room"] >> \o @]
  OBVIOUS
<1>3. /\ server' = [server EXCEPT !.members = @ \cup {p}, !.sessions = @ \cup new]
      /\ Deliver(out)
  BY <1>1, <1>2 DEF OnJoin
<1>4. new \subseteq Session /\ \A s \in new : s.share <= server.share
  BY DEF TypeOK, ServerTypeOK, SessionsOf, Session
<1> HIDE DEF new
<1>5. /\ DOMAIN server' = {"streaming", "share", "members", "sessions"}
      /\ server'.streaming = server.streaming
      /\ server'.share = server.share
      /\ server'.members = server.members \cup {p}
      /\ server'.sessions = server.sessions \cup new
  BY <1>3 DEF TypeOK, ServerTypeOK
<1>6. ServerTypeOK'
  BY <1>4, <1>5 DEF TypeOK, ServerTypeOK, Pages
<1>7. Told(told, new, "clientsession")
  <2>1. server.share \in Nat
    BY DEF TypeOK, ServerTypeOK
  <2> QED BY <1>1, <1>4, <2>1, TellIs
<1>8. ASSUME NEW v \in Viewers
      PROVE  /\ out[v] \in Seq(Signal)
             /\ \A i \in DOMAIN out[v] :
                   out[v][i].type = "clientsession" =>
                      out[v][i].sid \in server'.sessions /\ out[v][i].sid.viewer = v
  <2>1. PICK tail \in Seq(Signal) : tail = told[v]
    BY <1>7 DEF Told
  <2>2. \A i \in DOMAIN tail : tail[i].sid \in new /\ tail[i].sid.viewer = v
    BY <1>7, <2>1 DEF Told
  <2>3. CASE v # p
    BY <1>2, <1>5, <1>7, <2>1, <2>2, <2>3 DEF Pages, Told
  <2>4. CASE v = p
    <3>1. PICK m \in Signal : m = [type |-> "room"]
      BY DEF Signal
    <3>2. PICK head \in Seq(Signal) : head = << m >> /\ Len(head) = 1 /\ head[1] = m
      <4>1. << m >> \in Seq(Signal) /\ Len(<< m >>) = 1 /\ << m >>[1] = m
        OBVIOUS
      <4> QED BY <4>1
    <3>3. Len(head) = 1 /\ head[1].type = "room"
      BY <3>1, <3>2
    <3>4. out[v] = head \o tail
      BY <1>2, <1>7, <2>1, <2>4, <3>1, <3>2 DEF Pages, Told
    <3>5. /\ DOMAIN tail = 1 .. Len(tail) /\ Len(tail) \in Nat
          /\ head \o tail \in Seq(Signal)
          /\ DOMAIN (head \o tail) = 1 .. 1 + Len(tail)
          /\ (head \o tail)[1] = head[1]
          /\ \A i \in 1 .. Len(tail) : (head \o tail)[1 + i] = tail[i]
      <4>1. /\ DOMAIN head = 1 .. Len(head) /\ Len(head) \in Nat
            /\ DOMAIN tail = 1 .. Len(tail) /\ Len(tail) \in Nat
            /\ head \o tail \in Seq(Signal)
            /\ DOMAIN (head \o tail) = 1 .. Len(head) + Len(tail)
            /\ \A i \in 1 .. Len(head) : (head \o tail)[i] = head[i]
            /\ \A i \in 1 .. Len(tail) : (head \o tail)[Len(head) + i] = tail[i]
        BY Joined
      <4> QED BY <3>3, <4>1
    <3>6. ASSUME NEW i \in 1 .. 1 + Len(tail), (head \o tail)[i].type = "clientsession"
          PROVE  (head \o tail)[i].sid \in new /\ (head \o tail)[i].sid.viewer = v
      <4>1. i # 1
        BY <3>3, <3>5, <3>6
      <4>2. PICK k \in 1 .. Len(tail) : i = 1 + k
        <5>1. i - 1 \in 1 .. Len(tail) /\ i = 1 + (i - 1)
          BY <3>5, <4>1
        <5> QED BY <5>1
      <4> QED BY <2>2, <3>5, <4>2
    <3> QED BY <1>5, <3>4, <3>5, <3>6
  <2> QED BY <2>3, <2>4
<1>9. Fits(out)
  BY <1>5, <1>8 DEF Fits
<1> QED BY <1>3, <1>6, <1>9

\* A share is announced to everybody in the room.
LEMMA ShareFits ==
    ASSUME TypeOK, OnShare
    PROVE  ServerTypeOK' /\ \E out : Fits(out) /\ Deliver(out)
<1> DEFINE new == SessionsOf(server.members \ {Host}, server.share + 1)
<1>1. PICK out : out = Tell(new, "hostsession", "clientsession")
  OBVIOUS
<1>2. /\ server' = [server EXCEPT !.streaming = TRUE, !.share = @ + 1,
                                  !.sessions = @ \cup new]
      /\ Deliver(out)
  BY <1>1 DEF OnShare
<1>3. new \subseteq Session /\ \A s \in new : s.share <= server.share + 1
  BY DEF TypeOK, ServerTypeOK, SessionsOf, Session, Pages
<1> HIDE DEF new
<1>4. /\ DOMAIN server' = {"streaming", "share", "members", "sessions"}
      /\ server'.streaming = TRUE
      /\ server'.share = server.share + 1
      /\ server'.members = server.members
      /\ server'.sessions = server.sessions \cup new
  BY <1>2 DEF TypeOK, ServerTypeOK
<1>5. server.share \in Nat /\ server.share + 1 \in Nat
  BY DEF TypeOK, ServerTypeOK
<1>6. ServerTypeOK'
  <2>1. server.sessions \subseteq Session /\ \A s \in Session : s.share \in Nat
    BY DEF TypeOK, ServerTypeOK, Session
  <2>2. \A s \in server.sessions : s.share <= server.share + 1
    BY <1>5, <2>1 DEF TypeOK, ServerTypeOK
  <2>3. \A s \in server'.sessions : s.share <= server'.share
    BY <1>3, <1>4, <2>2
  <2> QED BY <1>3, <1>4, <1>5, <2>1, <2>3 DEF TypeOK, ServerTypeOK
<1>7. Told(out, new, "clientsession")
  BY <1>1, <1>3, <1>5, TellIs
<1>8. Fits(out)
  BY <1>4, <1>7 DEF Fits, Told
<1> QED BY <1>2, <1>6, <1>8

\* The end of every session that ends is announced.
LEMMA EndsFit ==
    ASSUME TypeOK, NEW ended, ended \subseteq server.sessions, NEW tellHost \in BOOLEAN,
           server'.sessions = server.sessions \ ended
    PROVE  Fits(EndShareTo(ended, tellHost))
<1>1. PICK told : told = Tell(ended, "endshare", "endshare")
  OBVIOUS
<1>2. PICK out : out = EndShareTo(ended, tellHost)
  OBVIOUS
<1>3. Told(told, ended, "endshare")
  <2>1. /\ ended \subseteq Session /\ server.share \in Nat
        /\ \A s \in ended : s.share <= server.share
    BY DEF TypeOK, ServerTypeOK
  <2> QED BY <1>1, <2>1, TellIs
<1>4. ASSUME NEW v \in Viewers
      PROVE  out[v] = told[v]
  BY <1>1, <1>2, <1>3, ViewersAssumption DEF EndShareTo, Pages, Told
<1>5. \A v \in Viewers :
         /\ out[v] \in Seq(Signal)
         /\ \A i \in DOMAIN out[v] : out[v][i].type = "endshare"
         /\ \A s \in ended : s.viewer = v =>
               \E i \in DOMAIN out[v] : out[v][i] = [type |-> "endshare", sid |-> s]
  BY <1>3, <1>4 DEF Told
<1>6. Fits(out)
  BY <1>5 DEF Fits
<1> QED BY <1>2, <1>6

\* The share ends, and all its sessions.
LEMMA StopShareFits ==
    ASSUME TypeOK, OnStopShare
    PROVE  ServerTypeOK' /\ \E out : Fits(out) /\ Deliver(out)
<1>1. /\ DOMAIN server' = {"streaming", "share", "members", "sessions"}
      /\ server'.streaming = FALSE
      /\ server'.share = server.share
      /\ server'.members = server.members
      /\ server'.sessions = {}
  BY DEF OnStopShare, TypeOK, ServerTypeOK
<1>2. ServerTypeOK'
  BY <1>1 DEF TypeOK, ServerTypeOK
<1>3. Fits(EndShareTo(server.sessions, FALSE))
  BY <1>1, EndsFit
<1> QED BY <1>2, <1>3 DEF OnStopShare

\* Who leaves takes its sessions along.
LEMMA DisconnectedFits ==
    ASSUME TypeOK, NEW p \in Pages, OnDisconnected(p)
    PROVE  ServerTypeOK' /\ \E out : Fits(out) /\ Deliver(out)
<1> DEFINE ended == {s \in server.sessions : p \in {Host, s.viewer}}
<1>1. /\ DOMAIN server' = {"streaming", "share", "members", "sessions"}
      /\ server'.streaming \in BOOLEAN
      /\ server'.share = server.share
      /\ server'.members = server.members \ {p}
      /\ server'.sessions = server.sessions \ ended
  <2> HIDE DEF ended
  <2>1. server' = [server EXCEPT !.members = @ \ {p}, !.sessions = @ \ ended,
                                 !.streaming = @ /\ p # Host]
    BY DEF OnDisconnected, ended
  <2> QED BY <2>1 DEF TypeOK, ServerTypeOK
<1>2. ServerTypeOK'
  BY <1>1 DEF TypeOK, ServerTypeOK
<1>3. Fits(EndShareTo(ended, p # Host))
  BY <1>1, EndsFit
<1> QED BY <1>2, <1>3 DEF OnDisconnected

\* What is passed on opens and closes nothing.
LEMMA PassOnFits ==
    ASSUME TypeOK, NEW msg \in Signal,
           msg.type \in {"offer", "answer", "hostice", "clientice"},
           NEW to, PassOn(msg, to)
    PROVE  ServerTypeOK' /\ \E out : Fits(out) /\ Deliver(out)
<1> DEFINE out == IF msg.sid \in server.sessions
                  THEN [Silence EXCEPT ![to] = << msg >>] ELSE Silence
<1>1. UNCHANGED server /\ Deliver(out)
  BY DEF PassOn
<1>2. ASSUME NEW v \in Viewers
      PROVE  out[v] = << >> \/ out[v] = << msg >>
  BY DEF Silence, Pages
<1> HIDE DEF out
<1>3. ASSUME NEW v \in Viewers
      PROVE  /\ out[v] \in Seq(Signal)
             /\ \A i \in DOMAIN out[v] : out[v][i].type # "clientsession"
  <2>1. CASE out[v] = << >>
    BY <2>1
  <2>2. CASE out[v] = << msg >>
    BY <2>2
  <2> QED BY <1>2, <2>1, <2>2
<1>4. Fits(out)
  BY <1>1, <1>3 DEF Fits
<1> QED BY <1>1, <1>4 DEF TypeOK, ServerTypeOK

\* Every handler does, whatever message of p is taken.
LEMMA ServeFits ==
    ASSUME TypeOK, NEW p \in Pages, Serve(p)
    PROVE  ServerTypeOK' /\ \E out : Fits(out) /\ Deliver(out)
<1>1. PICK msg \in Signal :
         /\ p = Host => msg.type # "join"
         /\ \/ msg.type = "join" /\ OnJoin(p)
            \/ msg.type = "share" /\ OnShare
            \/ msg.type = "stopshare" /\ OnStopShare
            \/ msg.type = "offer" /\ OnHostOffer(msg)
            \/ msg.type = "answer" /\ OnClientAnswer(msg)
            \/ msg.type = "hostice" /\ OnHostICE(msg)
            \/ msg.type = "clientice" /\ OnClientICE(msg)
            \/ msg.type = "disconnected" /\ OnDisconnected(p)
  <2>1. PICK q \in Seq(Signal) : q = up[p]
    BY DEF TypeOK, UpTypeOK
  <2>2. q # << >>
    BY <2>1 DEF Serve
  <2>3. Head(q) \in Signal /\ 1 \in DOMAIN q /\ Head(q) = q[1]
    BY <2>2
  <2>4. p = Host => Head(q).type # "join"
    BY <2>1, <2>3 DEF TypeOK, UpTypeOK
  <2> QED BY <2>1, <2>3, <2>4 DEF Serve
<1>2. CASE OnJoin(p) /\ p # Host
  BY <1>2, JoinFits DEF Pages
<1>3. CASE OnShare
  BY <1>3, ShareFits
<1>4. CASE OnStopShare
  BY <1>4, StopShareFits
<1>5. CASE OnDisconnected(p)
  BY <1>5, DisconnectedFits
<1>6. CASE /\ msg.type \in {"offer", "answer", "hostice", "clientice"}
           /\ \E to : PassOn(msg, to)
  BY <1>6, PassOnFits
<1> QED
  BY <1>1, <1>2, <1>3, <1>4, <1>5, <1>6
  DEF OnHostOffer, OnClientAnswer, OnHostICE, OnClientICE

\* What is left of a queue
LEMMA Rest ==
    ASSUME NEW S, NEW q \in Seq(S), q # << >>
    PROVE  /\ Tail(q) \in Seq(S) /\ Head(q) \in S /\ Head(q) = q[1]
           /\ DOMAIN q = 1 .. Len(q) /\ Len(q) \in Nat \ {0}
           /\ DOMAIN Tail(q) = 1 .. Len(q) - 1
           /\ \A i \in 1 .. Len(q) - 1 : Tail(q)[i] = q[i + 1]
<1>1. Tail(q) \in Seq(S) /\ Head(q) \in S /\ Head(q) = q[1]
  OBVIOUS
<1>2. DOMAIN q = 1 .. Len(q) /\ Len(q) \in Nat \ {0}
  OBVIOUS
<1>3. Len(Tail(q)) = Len(q) - 1
  OBVIOUS
<1>4. DOMAIN Tail(q) = 1 .. Len(Tail(q))
  BY <1>1
<1>5. \A i \in 1 .. Len(q) - 1 : Tail(q)[i] = q[i + 1]
  BY <1>2
<1> QED BY <1>1, <1>2, <1>3, <1>4, <1>5

\* The server keeps the invariant.
LEMMA ServeKeeps ==
    ASSUME IInv, NEW p \in Pages, Serve(p)
    PROVE  IInv'
<1>1. ServerTypeOK' /\ \E out : Fits(out) /\ Deliver(out)
  BY ServeFits DEF IInv
<1>2. PICK out : Fits(out) /\ Deliver(out)
  BY <1>1
<1>3. UNCHANGED <<page, hostPeer, viewerPeer, shown>>
  BY DEF Serve, HostSide, ViewerSide
<1>4. DownTypeOK'
  <2>1. DOMAIN down' = Pages
    BY <1>2 DEF Deliver
  <2>2. ASSUME NEW v \in Viewers
        PROVE  /\ down'[v] \in Seq(Signal)
               /\ \A i \in DOMAIN down'[v] :
                     down'[v][i].type = "clientsession" => down'[v][i].sid.viewer = v
    <3>1. PICK old \in Seq(Signal), new \in Seq(Signal) : old = down[v] /\ new = out[v]
      BY <1>2 DEF IInv, TypeOK, DownTypeOK, Fits
    <3>2. down'[v] = << >> \/ down'[v] = old \o new
      BY <1>2, <3>1 DEF Deliver, Pages
    <3>3. CASE down'[v] = << >>
      BY <3>3
    <3>4. CASE down'[v] = old \o new
      <4>1. /\ DOMAIN old = 1 .. Len(old) /\ Len(old) \in Nat
            /\ DOMAIN new = 1 .. Len(new) /\ Len(new) \in Nat
            /\ old \o new \in Seq(Signal)
            /\ DOMAIN (old \o new) = 1 .. Len(old) + Len(new)
            /\ \A i \in 1 .. Len(old) : (old \o new)[i] = old[i]
            /\ \A i \in 1 .. Len(new) : (old \o new)[Len(old) + i] = new[i]
        BY Joined
      <4>2. /\ \A i \in DOMAIN old : old[i].type = "clientsession" => old[i].sid.viewer = v
            /\ \A i \in DOMAIN new : new[i].type = "clientsession" => new[i].sid.viewer = v
        BY <1>2, <3>1 DEF IInv, TypeOK, DownTypeOK, Fits
      <4>3. ASSUME NEW i \in DOMAIN (old \o new), (old \o new)[i].type = "clientsession"
            PROVE  (old \o new)[i].sid.viewer = v
        <5>1. CASE i \in 1 .. Len(old)
          BY <4>1, <4>2, <4>3, <5>1
        <5>2. CASE i \notin 1 .. Len(old)
          <6>1. i - Len(old) \in 1 .. Len(new) /\ i = Len(old) + (i - Len(old))
            BY <4>1, <5>2
          <6>2. PICK k \in 1 .. Len(new) : i = Len(old) + k
            BY <6>1
          <6> QED BY <4>1, <4>2, <4>3, <6>2
        <5> QED BY <5>1, <5>2
      <4> QED BY <3>4, <4>1, <4>3
    <3> QED BY <3>2, <3>3, <3>4
  <2> QED BY <2>1, <2>2 DEF DownTypeOK
<1>6. UpTypeOK'
  <2>1. PICK q \in Seq(Signal) : q = up[p] /\ q # << >>
    BY DEF IInv, TypeOK, UpTypeOK, Serve
  <2>2. /\ Tail(q) \in Seq(Signal)
        /\ DOMAIN q = 1 .. Len(q) /\ Len(q) \in Nat \ {0}
        /\ DOMAIN Tail(q) = 1 .. Len(q) - 1
        /\ \A i \in 1 .. Len(q) - 1 : Tail(q)[i] = q[i + 1]
    BY <2>1, Rest
  <2>3. up' = [up EXCEPT ![p] = Tail(q)] /\ up \in [Pages -> Seq(Signal)]
    BY <2>1 DEF Serve, IInv, TypeOK, UpTypeOK
  <2>4. up' \in [Pages -> Seq(Signal)]
    BY <2>2, <2>3
  <2>5. CASE p # Host
    <3>1. up'[Host] = up[Host]
      BY <2>3, <2>5 DEF Pages
    <3> QED BY <2>4, <3>1 DEF IInv, TypeOK, UpTypeOK
  <2>6. CASE p = Host
    <3>1. up'[Host] = Tail(q) /\ \A i \in DOMAIN q : q[i].type # "join"
      BY <2>1, <2>3, <2>6 DEF IInv, TypeOK, UpTypeOK, Pages
    <3>2. \A i \in 1 .. Len(q) - 1 : i + 1 \in 1 .. Len(q)
      BY <2>2
    <3>3. \A i \in DOMAIN Tail(q) : Tail(q)[i].type # "join"
      BY <2>2, <3>1, <3>2
    <3> QED BY <2>4, <3>1, <3>3 DEF UpTypeOK
  <2> QED BY <2>5, <2>6
<1>7. TypeOK'
  BY <1>1, <1>3, <1>4, <1>6 DEF IInv, TypeOK
<1>8. ASSUME NEW s \in Sid
      PROVE  Reported(s)'
  BY <1>2, <1>3, DeliverReports DEF IInv
<1> QED BY <1>7, <1>8 DEF IInv

-----------------------------------------------------------------------------
(* The pages *)

\* What a page sends
LEMMA SendTyped ==
    ASSUME TypeOK, NEW p \in Pages, NEW msg \in Signal, p = Host => msg.type # "join",
           SendUp(p, msg)
    PROVE  UpTypeOK'
<1>1. up \in [Pages -> Seq(Signal)] /\ \A i \in DOMAIN up[Host] : up[Host][i].type # "join"
  BY DEF TypeOK, UpTypeOK
<1>2. PICK q \in Seq(Signal) : q = up[p]
  BY <1>1
<1>3. /\ Append(q, msg) \in Seq(Signal)
      /\ DOMAIN q = 1 .. Len(q) /\ Len(q) \in Nat
      /\ DOMAIN Append(q, msg) = 1 .. Len(q) + 1
      /\ \A i \in 1 .. Len(q) : Append(q, msg)[i] = q[i]
      /\ Append(q, msg)[Len(q) + 1] = msg
  <2>1. Append(q, msg) \in Seq(Signal) /\ Len(Append(q, msg)) = Len(q) + 1
    OBVIOUS
  <2>2. DOMAIN Append(q, msg) = 1 .. Len(Append(q, msg))
    BY <2>1
  <2> QED BY <2>1, <2>2
<1>4. PICK r \in Seq(Signal) : r = Append(q, msg)
  BY <1>3
<1>5. up' = up \/ up' = [up EXCEPT ![p] = r]
  BY <1>1, <1>2, <1>4 DEF SendUp
<1>6. CASE up' = up
  BY <1>1, <1>6 DEF UpTypeOK
<1>7. CASE up' = [up EXCEPT ![p] = r]
  <2>1. up' \in [Pages -> Seq(Signal)]
    BY <1>1, <1>7
  <2>2. CASE p # Host
    BY <1>1, <1>7, <2>1, <2>2 DEF UpTypeOK, Pages
  <2>3. CASE p = Host
    <3>1. up'[Host] = r /\ \A i \in DOMAIN q : q[i].type # "join"
      BY <1>1, <1>2, <1>7, <2>3 DEF Pages
    <3>2. \A i \in DOMAIN r : r[i].type # "join"
      BY <1>3, <1>4, <2>3, <3>1
    <3> QED BY <2>1, <3>1, <3>2 DEF UpTypeOK
  <2> QED BY <2>2, <2>3
<1> QED BY <1>5, <1>6, <1>7

\* A socket that is gone
LEMMA HangUpTyped ==
    ASSUME TypeOK, NEW p \in Pages, HangUp(p, down)
    PROVE  /\ UpTypeOK' /\ DownTypeOK'
           /\ page' \in [Pages -> {"out", "joining", "in", "gone"}]
           /\ page'[p] = "gone"
           /\ \A v \in Pages : v # p => page'[v] = page[v] /\ down'[v] = down[v]
<1>1. /\ page' = [page EXCEPT ![p] = "gone"]
      /\ down' = [down EXCEPT ![p] = << >>]
  BY DEF HangUp
<1>2. DownTypeOK'
  <2>1. << >> \in Seq(Signal)
    OBVIOUS
  <2> QED BY <1>1, <2>1 DEF TypeOK, DownTypeOK, Pages
<1>3. UpTypeOK'
  <2>1. up \in [Pages -> Seq(Signal)] /\ \A i \in DOMAIN up[Host] : up[Host][i].type # "join"
    BY DEF TypeOK, UpTypeOK
  <2>2. PICK q \in Seq(Signal) : q = up[p]
    BY <2>1
  <2>3. PICK n \in 0 .. Len(q) :
           up' = [up EXCEPT ![p] = Append(SubSeq(q, 1, n), [type |-> "disconnected"])]
    BY <2>1, <2>2 DEF HangUp
  <2>4. PICK msg \in Signal : msg = [type |-> "disconnected"] /\ msg.type # "join"
    <3>1. [type |-> "disconnected"] \in Signal
      BY DEF Signal
    <3> QED BY <3>1
  <2>5. PICK k \in Seq(Signal) :
           /\ k = SubSeq(q, 1, n)
           /\ Len(k) = n
           /\ \A i \in 1 .. n : k[i] = q[i]
    <3>1. n \in Nat /\ n <= Len(q)
      BY <2>3
    <3>2. SubSeq(q, 1, n) \in Seq(Signal) /\ Len(SubSeq(q, 1, n)) = n
      BY <3>1
    <3>3. \A i \in 1 .. n : SubSeq(q, 1, n)[i] = q[i]
      BY <3>1
    <3> QED BY <3>2, <3>3
  <2>6. PICK r \in Seq(Signal) :
           /\ r = Append(k, msg)
           /\ DOMAIN r = 1 .. n + 1
           /\ \A i \in 1 .. n : r[i] = q[i]
           /\ r[n + 1] = msg
    <3>1. Append(k, msg) \in Seq(Signal) /\ Len(Append(k, msg)) = n + 1
      BY <2>5
    <3>2. DOMAIN Append(k, msg) = 1 .. Len(Append(k, msg))
      BY <3>1
    <3>3. \A i \in 1 .. n : Append(k, msg)[i] = k[i]
      BY <2>5
    <3>4. Append(k, msg)[n + 1] = msg
      BY <2>5
    <3> QED BY <2>5, <3>1, <3>2, <3>3, <3>4
  <2>7. up' = [up EXCEPT ![p] = r]
    BY <2>3, <2>4, <2>5, <2>6
  <2>8. up' \in [Pages -> Seq(Signal)]
    BY <2>1, <2>7
  <2>9. CASE p # Host
    BY <2>1, <2>7, <2>8, <2>9 DEF UpTypeOK, Pages
  <2>10. CASE p = Host
    <3>1. up'[Host] = r /\ \A i \in DOMAIN q : q[i].type # "join"
      BY <2>1, <2>2, <2>7, <2>10 DEF Pages
    <3>2. n \in Nat /\ \A i \in 1 .. n : i \in DOMAIN q
      BY <2>2, <2>3
    <3>3. \A i \in 1 .. n + 1 : i \in 1 .. n \/ i = n + 1
      BY <3>2
    <3>4. \A i \in DOMAIN r : r[i].type # "join"
      BY <2>4, <2>6, <3>1, <3>2, <3>3
    <3> QED BY <2>8, <3>1, <3>4 DEF UpTypeOK
  <2> QED BY <2>9, <2>10
<1> QED BY <1>1, <1>2, <1>3 DEF TypeOK, DownTypeOK

\* A message that a page takes off its queue
LEMMA TakenTyped ==
    ASSUME TypeOK, NEW p \in Pages, down[p] # << >>, Taken(p)
    PROVE  DownTypeOK'
<1>1. down' = [down EXCEPT ![p] = Tail(@)]
  BY DEF Taken
<1>2. DOMAIN down' = Pages /\ \A v \in Pages : v # p => down'[v] = down[v]
  BY <1>1 DEF TypeOK, DownTypeOK
<1>3. ASSUME p \in Viewers
      PROVE  /\ down'[p] \in Seq(Signal)
             /\ \A i \in DOMAIN down'[p] :
                   down'[p][i].type = "clientsession" => down'[p][i].sid.viewer = p
  <2>1. PICK q \in Seq(Signal) : q = down[p] /\ q # << >>
    BY <1>3 DEF TypeOK, DownTypeOK
  <2>2. /\ Tail(q) \in Seq(Signal)
        /\ DOMAIN q = 1 .. Len(q) /\ Len(q) \in Nat \ {0}
        /\ DOMAIN Tail(q) = 1 .. Len(q) - 1
        /\ \A i \in 1 .. Len(q) - 1 : Tail(q)[i] = q[i + 1]
    BY <2>1, Rest
  <2>3. down'[p] = Tail(q)
    BY <1>1, <2>1 DEF TypeOK, DownTypeOK
  <2>4. \A i \in DOMAIN q : q[i].type = "clientsession" => q[i].sid.viewer = p
    BY <1>3, <2>1 DEF TypeOK, DownTypeOK
  <2>5. \A i \in 1 .. Len(q) - 1 : i + 1 \in 1 .. Len(q)
    BY <2>2
  <2> QED BY <2>2, <2>3, <2>4, <2>5
<1> QED BY <1>2, <1>3 DEF TypeOK, DownTypeOK, Pages

\* A step that leaves a viewer its queue, and gives it no session.
LEMMA Unaffected ==
    ASSUME NEW s \in Sid, Reported(s), UNCHANGED server,
           page'[s.viewer] # "gone" =>
              page[s.viewer] # "gone" /\ down'[s.viewer] = down[s.viewer],
           Live(s)' \/ s \in shown' => Live(s) \/ s \in shown
    PROVE  Reported(s)'
BY DEF Reported, Ended

\* A message about a session is taken: it may start it, and it may end it.
LEMMA TakenReports ==
    ASSUME TypeOK, NEW v \in Viewers, down[v] # << >>, Taken(v), UNCHANGED server,
           NEW s \in Sid, Reported(s),
           page'[s.viewer] # "gone" => page[s.viewer] # "gone",
           Live(s)' \/ s \in shown' =>
              \/ Head(down[v]) = [type |-> "clientsession", sid |-> s]
              \/ (Live(s) \/ s \in shown) /\ Head(down[v]) # [type |-> "endshare", sid |-> s]
    PROVE  Reported(s)'
<1>1. down' = [down EXCEPT ![v] = Tail(@)] /\ v \in DOMAIN down
  BY DEF Taken, TypeOK, DownTypeOK, Pages
<1>2. PICK q \in Seq(Signal) : q = down[v] /\ q # << >>
  BY DEF TypeOK, DownTypeOK
<1>3. /\ Tail(q) \in Seq(Signal) /\ Head(q) = q[1]
      /\ DOMAIN q = 1 .. Len(q) /\ Len(q) \in Nat \ {0}
      /\ DOMAIN Tail(q) = 1 .. Len(q) - 1
      /\ \A i \in 1 .. Len(q) - 1 : Tail(q)[i] = q[i + 1]
  BY <1>2, Rest
<1>4. Head(q) = [type |-> "clientsession", sid |-> s] => s.viewer = v
  <2>1. \A i \in DOMAIN q : q[i].type = "clientsession" => q[i].sid.viewer = v
    BY <1>2 DEF TypeOK, DownTypeOK
  <2> QED BY <1>3, <2>1
<1>5. CASE s.viewer # v
  <2>1. down'[s.viewer] = down[s.viewer]
    BY <1>1, <1>5
  <2> QED BY <1>2, <1>4, <1>5, <2>1, Unaffected
<1>6. CASE s.viewer = v
  <2>1. down'[v] = Tail(q)
    BY <1>1, <1>2
  <2> SUFFICES ASSUME page[v] # "gone"
               PROVE  Reported(s)'
    BY <1>6 DEF Reported
  <2>2. ASSUME NEW i \in 1 .. Len(q), Ended(s, i)
        PROVE  Ended(s, i - 1)'
    <3>1. PICK j \in 1 .. Len(q) : j > i /\ q[j] = [type |-> "endshare", sid |-> s]
      BY <1>2, <1>3, <1>6, <2>2 DEF Ended
    <3>2. PICK k \in 1 .. Len(q) - 1 : j = k + 1 /\ k > i - 1
      <4>1. j - 1 \in 1 .. Len(q) - 1 /\ j = (j - 1) + 1 /\ j - 1 > i - 1
        BY <1>3, <3>1
      <4> QED BY <4>1
    <3>3. Tail(q)[k] = [type |-> "endshare", sid |-> s]
      BY <1>3, <3>1, <3>2
    <3> QED BY <1>3, <1>6, <2>1, <3>2, <3>3 DEF Ended
  <2>3. 1 \in 1 .. Len(q) /\ 1 - 1 = 0
    BY <1>3
  <2>4. Live(s)' \/ s \in shown' => s \in server'.sessions \/ Ended(s, 0)'
    <3>1. CASE Head(q) = [type |-> "clientsession", sid |-> s]
      <4>1. s \in server.sessions \/ Ended(s, 1)
        BY <1>2, <1>3, <1>6, <2>3, <3>1 DEF Reported
      <4> QED BY <2>2, <2>3, <4>1
    <3>2. CASE (Live(s) \/ s \in shown) /\ Head(q) # [type |-> "endshare", sid |-> s]
      <4>1. s \in server.sessions \/ Ended(s, 0)
        BY <1>6, <3>2 DEF Reported
      <4>2. Ended(s, 0) => Ended(s, 1)
        <5> SUFFICES ASSUME Ended(s, 0)
                     PROVE  Ended(s, 1)
          OBVIOUS
        <5>1. PICK j \in 1 .. Len(q) : q[j] = [type |-> "endshare", sid |-> s]
          BY <1>2, <1>3, <1>6 DEF Ended
        <5>2. j > 1
          BY <1>3, <3>2, <5>1
        <5> QED BY <1>2, <1>3, <1>6, <5>1, <5>2 DEF Ended
      <4> QED BY <2>2, <2>3, <4>1, <4>2
    <3> QED BY <1>2, <3>1, <3>2
  <2>5. ASSUME NEW i \in DOMAIN down'[v],
               down'[v][i] = [type |-> "clientsession", sid |-> s]
        PROVE  s \in server'.sessions \/ Ended(s, i)'
    <3>1. PICK k \in 1 .. Len(q) : k = i + 1 /\ k - 1 = i /\ q[k] = Tail(q)[i]
      <4>1. i \in 1 .. Len(q) - 1
        BY <1>3, <2>1
      <4>2. i + 1 \in 1 .. Len(q) /\ (i + 1) - 1 = i /\ q[i + 1] = Tail(q)[i]
        BY <1>3, <4>1
      <4> QED BY <4>2
    <3>2. s \in server.sessions \/ Ended(s, k)
      BY <1>2, <1>3, <1>6, <2>1, <2>5, <3>1 DEF Reported
    <3> QED BY <2>2, <3>1, <3>2
  <2> QED BY <1>6, <2>4, <2>5 DEF Reported, Live
<1> QED BY <1>5, <1>6

-----------------------------------------------------------------------------
(* The steps of the pages *)

\* A step that leaves the viewers' queues and the server alone.
LEMMA Apart ==
    ASSUME IInv, UNCHANGED <<page, down, server>>, UpTypeOK',
           hostPeer' \in [Sid -> HostStates], viewerPeer' \in [Sid -> ViewerStates],
           shown' \subseteq Sid,
           \A s \in Sid : Live(s)' \/ s \in shown' => Live(s) \/ s \in shown
    PROVE  IInv'
<1>1. TypeOK'
  BY DEF IInv, TypeOK, ServerTypeOK, DownTypeOK
<1>2. ASSUME NEW s \in Sid
      PROVE  Reported(s)'
  BY Unaffected DEF IInv
<1> QED BY <1>1, <1>2 DEF IInv

\* The host takes a message: no viewer is affected.
LEMMA HostTakes ==
    ASSUME IInv, down[Host] # << >>, Taken(Host), UNCHANGED <<page, up, server, ViewerSide>>,
           hostPeer' \in [Sid -> HostStates]
    PROVE  IInv'
<1>1. DownTypeOK'
  BY TakenTyped DEF IInv, Pages
<1>2. TypeOK'
  BY <1>1 DEF IInv, TypeOK, ServerTypeOK, UpTypeOK, ViewerSide
<1>3. ASSUME NEW s \in Sid
      PROVE  Reported(s)'
  <2>1. s.viewer # Host /\ s.viewer \in Pages
    BY ViewersAssumption DEF Sid, Pages
  <2>2. down'[s.viewer] = down[s.viewer]
    BY <2>1 DEF Taken, IInv, TypeOK, DownTypeOK
  <2>3. Live(s)' \/ s \in shown' => Live(s) \/ s \in shown
    BY DEF Live, ViewerSide
  <2> QED BY <2>2, <2>3, Unaffected DEF IInv
<1> QED BY <1>2, <1>3 DEF IInv

\* The host's callbacks
LEMMA HostReceivesKeeps ==
    ASSUME IInv, HostReceives
    PROVE  IInv'
<1>1. hostPeer \in [Sid -> HostStates]
  BY DEF IInv, TypeOK
<1>2. down[Host] # << >> /\ Taken(Host) /\ UNCHANGED <<page, up, server, ViewerSide>>
  BY DEF HostReceives, TakeHostSession, TakeAnswer, TakeClientICE, HostTakesEndShare, Arrives
<1>3. hostPeer' \in [Sid -> HostStates]
  <2>1. CASE TakeHostSession
    BY <1>1, <2>1 DEF TakeHostSession, HostStates
  <2>2. CASE TakeAnswer
    BY <1>1, <2>2 DEF TakeAnswer, HostStates
  <2>3. CASE TakeClientICE
    BY <1>1, <2>3 DEF TakeClientICE, HostSide
  <2>4. CASE HostTakesEndShare
    BY <1>1, <2>4 DEF HostTakesEndShare, HostStates
  <2> QED BY <2>1, <2>2, <2>3, <2>4 DEF HostReceives
<1> QED BY <1>2, <1>3, HostTakes

\* What the host does of its own accord
LEMMA HostStepsKeep ==
    ASSUME IInv,
           \/ Share \/ StopShare
           \/ \E s \in Sid : OfferReady(s) \/ HostCandidate(s) \/ HostFails(s)
    PROVE  IInv'
<1>1. hostPeer \in [Sid -> HostStates] /\ Host \in Pages /\ TypeOK
  BY DEF IInv, TypeOK, Pages
<1>2. /\ UNCHANGED <<page, down, server, ViewerSide>>
      /\ viewerPeer \in [Sid -> ViewerStates] /\ shown \subseteq Sid
  BY DEF Share, StopShare, OfferReady, HostCandidate, HostFails, IInv, TypeOK
<1>3. \A s \in Sid : Live(s)' \/ s \in shown' => Live(s) \/ s \in shown
  BY <1>2 DEF Live, ViewerSide
<1>4. CASE Share
  <2>1. [type |-> "share"] \in Signal /\ [type |-> "share"].type # "join"
    BY DEF Signal
  <2>2. SendUp(Host, [type |-> "share"]) /\ UNCHANGED hostPeer
    BY <1>4 DEF Share
  <2>3. UpTypeOK'
    BY <1>1, <2>1, <2>2, SendTyped
  <2> QED BY <1>1, <1>2, <1>3, <2>2, <2>3, Apart DEF ViewerSide
<1>5. CASE StopShare
  <2>1. [type |-> "stopshare"] \in Signal /\ [type |-> "stopshare"].type # "join"
    BY DEF Signal
  <2>2. SendUp(Host, [type |-> "stopshare"])
    BY <1>5 DEF StopShare
  <2>3. UpTypeOK'
    BY <1>1, <2>1, <2>2, SendTyped
  <2>4. hostPeer' \in [Sid -> HostStates]
    BY <1>1, <1>5 DEF StopShare, ClosePeers, HostStates
  <2> QED BY <1>2, <1>3, <2>3, <2>4, Apart DEF ViewerSide
<1>6. ASSUME NEW s \in Sid, OfferReady(s) \/ HostCandidate(s)
      PROVE  IInv'
  <2>1. s \in Session
    BY DEF Sid, Session
  <2>2. PICK msg \in Signal : msg.type # "join" /\ SendUp(Host, msg)
    <3>1. /\ [type |-> "offer", sid |-> s] \in Signal
          /\ [type |-> "hostice", sid |-> s] \in Signal
      BY <2>1 DEF Signal
    <3>2. CASE OfferReady(s)
      BY <3>1, <3>2 DEF OfferReady
    <3>3. CASE HostCandidate(s)
      BY <3>1, <3>3 DEF HostCandidate
    <3> QED BY <1>6, <3>2, <3>3
  <2>3. UpTypeOK'
    BY <1>1, <2>2, SendTyped
  <2>4. hostPeer' \in [Sid -> HostStates]
    BY <1>1, <1>6 DEF OfferReady, HostCandidate, HostSide, HostStates
  <2> QED BY <1>2, <1>3, <2>3, <2>4, Apart DEF ViewerSide
<1>7. ASSUME NEW s \in Sid, HostFails(s)
      PROVE  IInv'
  <2>1. UpTypeOK'
    BY <1>7 DEF HostFails, IInv, TypeOK, UpTypeOK
  <2>2. hostPeer' \in [Sid -> HostStates]
    BY <1>1, <1>7 DEF HostFails, HostStates
  <2> QED BY <1>2, <1>3, <2>1, <2>2, Apart DEF ViewerSide
<1> QED BY <1>4, <1>5, <1>6, <1>7

\* Entering, and losing the socket
LEMMA ComingsKeep ==
    ASSUME IInv,
           \/ \E v \in Viewers : Enter(v) \/ FirstMessage(v)
           \/ \E p \in Pages : Lose(p)
    PROVE  IInv'
<1>1. /\ TypeOK /\ ServerTypeOK
      /\ hostPeer \in [Sid -> HostStates] /\ viewerPeer \in [Sid -> ViewerStates]
      /\ shown \subseteq Sid
      /\ page \in [Pages -> {"out", "joining", "in", "gone"}]
  BY DEF IInv, TypeOK
<1>2. \A s \in Sid : s.viewer \in Viewers /\ s.viewer \in Pages
  BY DEF Sid, Pages
<1>3. ASSUME NEW v \in Viewers, Enter(v)
      PROVE  IInv'
  <2>1. /\ page[v] = "out" /\ page' = [page EXCEPT ![v] = "joining"]
        /\ SendUp(v, [type |-> "join"])
        /\ UNCHANGED <<down, server, hostPeer, viewerPeer, shown>>
    BY <1>3 DEF Enter, HostSide, ViewerSide
  <2>2. [type |-> "join"] \in Signal /\ v # Host /\ v \in Pages
    BY ViewersAssumption DEF Signal, Pages
  <2>3. UpTypeOK'
    BY <1>1, <2>1, <2>2, SendTyped
  <2>4. page' \in [Pages -> {"out", "joining", "in", "gone"}]
    BY <1>1, <2>1
  <2>5. TypeOK'
    BY <1>1, <2>1, <2>3, <2>4 DEF TypeOK, ServerTypeOK, DownTypeOK
  <2>6. ASSUME NEW s \in Sid
        PROVE  Reported(s)'
    <3>1. page'[s.viewer] # "gone" => page[s.viewer] # "gone"
      BY <1>1, <1>2, <2>1
    <3>2. Live(s)' \/ s \in shown' => Live(s) \/ s \in shown
      BY <2>1 DEF Live
    <3> QED BY <2>1, <3>1, <3>2, Unaffected DEF IInv
  <2> QED BY <2>5, <2>6 DEF IInv
<1>4. ASSUME NEW p \in Pages, HangUp(p, down), shown' \subseteq shown,
             UNCHANGED <<server, hostPeer, viewerPeer>>
      PROVE  IInv'
  <2>1. /\ UpTypeOK' /\ DownTypeOK'
        /\ page' \in [Pages -> {"out", "joining", "in", "gone"}]
        /\ page'[p] = "gone"
        /\ \A v \in Pages : v # p => page'[v] = page[v] /\ down'[v] = down[v]
    BY <1>1, <1>4, HangUpTyped
  <2>2. TypeOK'
    BY <1>1, <1>4, <2>1 DEF TypeOK, ServerTypeOK
  <2>3. ASSUME NEW s \in Sid
        PROVE  Reported(s)'
    <3>1. page'[s.viewer] # "gone" =>
             page[s.viewer] # "gone" /\ down'[s.viewer] = down[s.viewer]
      BY <1>2, <2>1
    <3>2. Live(s)' \/ s \in shown' => Live(s) \/ s \in shown
      BY <1>4 DEF Live
    <3> QED BY <1>4, <3>1, <3>2, Unaffected DEF IInv
  <2> QED BY <2>2, <2>3 DEF IInv
<1>5. ASSUME NEW p \in Pages, Lose(p)
      PROVE  IInv'
  BY <1>4, <1>5 DEF Lose, HostSide
<1>6. ASSUME NEW v \in Viewers, FirstMessage(v)
      PROVE  IInv'
  <2>1. CASE HangUp(v, down)
    BY <1>4, <1>6, <2>1 DEF FirstMessage, HostSide, ViewerSide, Pages
  <2>2. CASE /\ Arrives(v, "room") /\ page' = [page EXCEPT ![v] = "in"]
             /\ Taken(v) /\ UNCHANGED up
    <3>1. /\ page[v] = "joining" /\ v \in Pages
          /\ UNCHANGED <<server, hostPeer, viewerPeer, shown>>
      BY <1>6 DEF FirstMessage, HostSide, ViewerSide, Pages
    <3>2. down[v] # << >> /\ Head(down[v]).type = "room"
      BY <2>2 DEF Arrives
    <3>3. DownTypeOK'
      BY <1>1, <2>2, <3>1, <3>2, TakenTyped
    <3>4. page' \in [Pages -> {"out", "joining", "in", "gone"}]
      BY <1>1, <2>2
    <3>5. TypeOK'
      BY <1>1, <2>2, <3>1, <3>3, <3>4 DEF TypeOK, ServerTypeOK, UpTypeOK
    <3>6. ASSUME NEW s \in Sid
          PROVE  Reported(s)'
      <4>1. page'[s.viewer] # "gone" => page[s.viewer] # "gone"
        BY <1>1, <1>2, <2>2, <3>1
      <4>2. Live(s)' \/ s \in shown' => Live(s) \/ s \in shown
        BY <3>1 DEF Live
      <4>3. Head(down[v]) # [type |-> "endshare", sid |-> s]
        BY <3>2
      <4> QED BY <1>1, <2>2, <3>1, <3>2, <4>1, <4>2, <4>3, TakenReports DEF IInv
    <3> QED BY <3>5, <3>6 DEF IInv
  <2> QED BY <1>6, <2>1, <2>2 DEF FirstMessage
<1> QED BY <1>3, <1>5, <1>6

\* The viewers' callbacks
LEMMA ViewerTakesKeeps ==
    ASSUME IInv, NEW v \in Viewers,
           TakeClientSession(v) \/ TakeOffer(v) \/ TakeHostICE(v) \/ TakeEndShare(v)
    PROVE  IInv'
<1>1. /\ TypeOK /\ ServerTypeOK /\ UpTypeOK
      /\ hostPeer \in [Sid -> HostStates] /\ viewerPeer \in [Sid -> ViewerStates]
      /\ shown \subseteq Sid
  BY DEF IInv, TypeOK
<1>2. down[v] # << >> /\ Taken(v) /\ UNCHANGED <<page, up, server, hostPeer>>
  BY DEF TakeClientSession, TakeOffer, TakeHostICE, TakeEndShare, Arrives, HostSide
<1>3. DownTypeOK'
  BY <1>1, <1>2, TakenTyped DEF Pages
<1>4. viewerPeer' \in [Sid -> ViewerStates] /\ shown' \subseteq Sid
  <2>1. CASE TakeClientSession(v)
    BY <1>1, <2>1 DEF TakeClientSession, ViewerStates
  <2>2. CASE TakeOffer(v)
    BY <1>1, <2>2 DEF TakeOffer, ViewerStates
  <2>3. CASE TakeHostICE(v)
    BY <1>1, <2>3 DEF TakeHostICE, ViewerSide
  <2>4. CASE TakeEndShare(v)
    BY <1>1, <2>4 DEF TakeEndShare, CloseView, ViewerStates
  <2> QED BY <2>1, <2>2, <2>3, <2>4
<1>5. TypeOK'
  BY <1>1, <1>2, <1>3, <1>4 DEF TypeOK, ServerTypeOK, UpTypeOK
<1>6. ASSUME NEW s \in Sid
      PROVE  Live(s)' \/ s \in shown' =>
                 \/ Head(down[v]) = [type |-> "clientsession", sid |-> s]
                 \/ (Live(s) \/ s \in shown) /\ Head(down[v]) # [type |-> "endshare", sid |-> s]
  <2>1. PICK m \in Signal : m = Head(down[v])
    <3>1. down[v] \in Seq(Signal)
      BY <1>1 DEF TypeOK, DownTypeOK
    <3> QED BY <1>2, <3>1, Rest
  <2>2. CASE TakeClientSession(v)
    <3>1. /\ m.type = "clientsession" /\ shown' = shown
          /\ viewerPeer' = [viewerPeer EXCEPT ![m.sid] = "new"]
      BY <2>1, <2>2 DEF TakeClientSession, Arrives
    <3>2. m = [type |-> "clientsession", sid |-> m.sid]
      BY <3>1 DEF Signal
    <3>3. m # [type |-> "endshare", sid |-> s]
      BY <3>1
    <3>4. m.sid # s => viewerPeer'[s] = viewerPeer[s]
      BY <1>1, <3>1
    <3> QED BY <2>1, <3>1, <3>2, <3>3, <3>4 DEF Live
  <2>3. CASE TakeOffer(v)
    <3>1. /\ m.type = "offer" /\ shown' = shown
          /\ viewerPeer' = IF viewerPeer[m.sid] = "new"
                           THEN [viewerPeer EXCEPT ![m.sid] = "applying"] ELSE viewerPeer
      BY <2>1, <2>3 DEF TakeOffer, Arrives
    <3>2. m # [type |-> "endshare", sid |-> s]
      BY <3>1
    <3>3. viewerPeer'[s] = viewerPeer[s] \/ viewerPeer[s] = "new"
      BY <1>1, <3>1
    <3> QED BY <2>1, <3>1, <3>2, <3>3 DEF Live
  <2>4. CASE TakeHostICE(v)
    <3>1. m.type = "hostice" /\ shown' = shown /\ viewerPeer' = viewerPeer
      BY <2>1, <2>4 DEF TakeHostICE, Arrives, ViewerSide
    <3>2. m # [type |-> "endshare", sid |-> s]
      BY <3>1
    <3> QED BY <2>1, <3>1, <3>2 DEF Live
  <2>5. CASE TakeEndShare(v)
    <3>1. /\ shown' = shown \ {m.sid}
          /\ viewerPeer' = [viewerPeer EXCEPT ![m.sid] = "closed"]
      BY <2>1, <2>5 DEF TakeEndShare, CloseView
    <3>2. CASE m = [type |-> "endshare", sid |-> s]
      <4>1. m.sid = s
        BY <3>2
      <4>2. viewerPeer'[s] = "closed" /\ s \notin shown'
        BY <1>1, <3>1, <4>1
      <4> QED BY <4>2 DEF Live
    <3>3. CASE m # [type |-> "endshare", sid |-> s]
      <4>1. viewerPeer'[s] = viewerPeer[s] \/ viewerPeer'[s] = "closed"
        BY <1>1, <3>1
      <4> QED BY <2>1, <3>1, <3>3, <4>1 DEF Live
    <3> QED BY <3>2, <3>3
  <2> QED BY <2>2, <2>3, <2>4, <2>5
<1>7. ASSUME NEW s \in Sid
      PROVE  Reported(s)'
  <2>1. Reported(s) /\ (page'[s.viewer] # "gone" => page[s.viewer] # "gone")
    BY <1>2 DEF IInv
  <2> QED BY <1>1, <1>2, <1>6, <2>1, TakenReports
<1> QED BY <1>5, <1>7 DEF IInv

\* What a viewer does of its own accord
LEMMA ViewerStepsKeep ==
    ASSUME IInv, NEW s \in Sid,
           Applied(s) \/ AnswerReady(s) \/ ViewerCandidate(s) \/ ViewerFails(s)
    PROVE  IInv'
<1>1. /\ TypeOK /\ UpTypeOK
      /\ hostPeer \in [Sid -> HostStates] /\ viewerPeer \in [Sid -> ViewerStates]
      /\ shown \subseteq Sid
  BY DEF IInv, TypeOK
<1>2. UNCHANGED <<page, down, server, hostPeer>>
  BY DEF Applied, AnswerReady, ViewerCandidate, ViewerFails, HostSide
<1>3. UpTypeOK'
  <2>1. CASE UNCHANGED up
    BY <1>1, <2>1 DEF UpTypeOK
  <2>2. CASE AnswerReady(s) \/ ViewerCandidate(s)
    <3>1. s \in Session /\ s.viewer \in Pages /\ s.viewer # Host
      BY ViewersAssumption DEF Sid, Session, Pages
    <3>2. /\ [type |-> "answer", sid |-> s] \in Signal
          /\ [type |-> "clientice", sid |-> s] \in Signal
      BY <3>1 DEF Signal
    <3>3. PICK msg \in Signal : SendUp(s.viewer, msg)
      BY <2>2, <3>2 DEF AnswerReady, ViewerCandidate
    <3> QED BY <1>1, <3>1, <3>3, SendTyped
  <2> QED BY <2>1, <2>2 DEF Applied, ViewerFails
<1>4. /\ viewerPeer' \in [Sid -> ViewerStates] /\ shown' \subseteq Sid
      /\ \A t \in Sid : Live(t)' \/ t \in shown' => Live(t) \/ t \in shown
  <2>1. CASE Applied(s)
    <3>1. /\ viewerPeer[s] = "applying" /\ viewerPeer' = [viewerPeer EXCEPT ![s] = "answering"]
          /\ shown' \subseteq shown \cup {s}
      BY <2>1 DEF Applied
    <3> QED BY <1>1, <3>1 DEF Live, ViewerStates
  <2>2. CASE AnswerReady(s)
    <3>1. /\ viewerPeer[s] = "answering" /\ viewerPeer' = [viewerPeer EXCEPT ![s] = "answered"]
          /\ shown' = shown
      BY <2>2 DEF AnswerReady
    <3> QED BY <1>1, <3>1 DEF Live, ViewerStates
  <2>3. CASE ViewerCandidate(s)
    BY <1>1, <2>3 DEF ViewerCandidate, ViewerSide, Live
  <2>4. CASE ViewerFails(s)
    <3>1. viewerPeer' = [viewerPeer EXCEPT ![s] = "closed"] /\ shown' \subseteq shown
      BY <2>4 DEF ViewerFails, Done, CloseView
    <3> QED BY <1>1, <3>1 DEF Live, ViewerStates
  <2> QED BY <2>1, <2>2, <2>3, <2>4
<1> QED BY <1>1, <1>2, <1>3, <1>4, Apart

-----------------------------------------------------------------------------
(* The invariant *)

\* It holds of the empty room.
LEMMA InitKeeps == Init => IInv
<1> SUFFICES ASSUME Init
             PROVE  IInv
  OBVIOUS
<1>1. Host \in Pages /\ << >> \in Seq(Signal) /\ DOMAIN << >> = {}
  BY DEF Pages
<1>2. ServerTypeOK
  <2>1. server = [streaming |-> FALSE, share |-> 0, members |-> {Host}, sessions |-> {}]
    BY DEF Init
  <2> QED BY <1>1, <2>1 DEF ServerTypeOK
<1>3. UpTypeOK /\ DownTypeOK
  BY <1>1 DEF Init, Silence, UpTypeOK, DownTypeOK, Pages
<1>4. TypeOK
  BY <1>2, <1>3 DEF Init, TypeOK, HostStates, ViewerStates
<1>5. \A s \in Sid : s.viewer \in Pages
  BY DEF Sid, Pages
<1>6. ASSUME NEW s \in Sid
      PROVE  Reported(s)
  BY <1>1, <1>5 DEF Init, Silence, Reported, Live
<1> QED BY <1>4, <1>6 DEF IInv

\* Every step keeps it.
LEMMA NextKeeps == IInv /\ [Next]_vars => IInv'
<1> SUFFICES ASSUME IInv, [Next]_vars
             PROVE  IInv'
  OBVIOUS
<1>1. CASE \E p \in Pages : Serve(p)
  BY <1>1, ServeKeeps
<1>2. CASE \E p \in Pages : Lose(p)
  BY <1>2, ComingsKeep
<1>3. CASE \E v \in Viewers : Enter(v) \/ ViewerReceives(v)
  BY <1>3, ComingsKeep, ViewerTakesKeeps DEF ViewerReceives
<1>4. CASE Share \/ StopShare
  BY <1>4, HostStepsKeep
<1>5. CASE HostReceives
  BY <1>5, HostReceivesKeeps
<1>6. CASE \E s \in Sid : HostWorks(s) \/ HostCandidate(s) \/ HostFails(s)
  BY <1>6, HostStepsKeep DEF HostWorks, HostNotices
<1>7. CASE \E s \in Sid : ViewerWorks(s) \/ ViewerCandidate(s) \/ ViewerFails(s)
  BY <1>7, ViewerStepsKeep DEF ViewerWorks, ViewerNotices
<1>8. CASE UNCHANGED vars
  <2>1. UNCHANGED <<page, up, down, server, hostPeer, viewerPeer, shown>>
    BY <1>8 DEF vars
  <2>2. /\ UpTypeOK' /\ hostPeer' \in [Sid -> HostStates]
        /\ viewerPeer' \in [Sid -> ViewerStates] /\ shown' \subseteq Sid
    BY <2>1 DEF IInv, TypeOK, UpTypeOK
  <2>3. \A s \in Sid : Live(s)' \/ s \in shown' => Live(s) \/ s \in shown
    BY <2>1 DEF Live
  <2> QED BY <2>1, <2>2, <2>3, Apart
<1> QED BY <1>1, <1>2, <1>3, <1>4, <1>5, <1>6, <1>7, <1>8 DEF Next

\* No frozen picture: what a page shows over a connection it still has is
\* served, or the message that takes it off is on its way, in whatever order
\* the awaits of the pages are resolved (useRoom.ts:263-294).
THEOREM ShownServed == Spec => []ShownAreServed
<1>1. IInv => ShownAreServed
  <2> SUFFICES ASSUME IInv, NEW s \in shown, page[s.viewer] = "in"
               PROVE  s \in server.sessions
                         \/ \E i \in DOMAIN down[s.viewer] :
                               down[s.viewer][i] = [type |-> "endshare", sid |-> s]
    BY DEF ShownAreServed
  <2>1. s \in Sid
    BY DEF IInv, TypeOK
  <2> QED BY <2>1 DEF IInv, Reported, Ended
<1> QED BY <1>1, InitKeeps, NextKeeps, PTL DEF Spec

-----------------------------------------------------------------------------
(* The host's peers *)

PeersInv ==
    /\ hostPeer \in [Sid -> HostStates]
    /\ OpenPeersAreRegistered

\* No peer of the host that has made an offer gets out of reach of
\* stopShare: every one that is not closed is in host.current
\* (useRoom.ts:204-217, 364-368).
THEOREM OpenPeersRegistered == Spec => []OpenPeersAreRegistered
<1>1. Init => PeersInv
  BY DEF Init, PeersInv, HostStates, OpenPeersAreRegistered
<1>2. PeersInv /\ [Next]_vars => PeersInv'
  <2> SUFFICES ASSUME PeersInv, [Next]_vars
               PROVE  PeersInv'
    OBVIOUS
  <2> USE DEF PeersInv, OpenPeersAreRegistered
  <2>1. CASE UNCHANGED <<hostPeer, registered>>
    BY <2>1
  <2>2. CASE StopShare
    BY <2>2 DEF StopShare, ClosePeers, HostStates
  <2>3. CASE TakeHostSession \/ TakeAnswer
    <3>1. CASE TakeHostSession
      BY <3>1 DEF TakeHostSession, HostStates
    <3>2. CASE TakeAnswer
      BY <3>2 DEF TakeAnswer, HostStates
    <3> QED BY <2>3, <3>1, <3>2
  <2>4. CASE HostTakesEndShare
    BY <2>4 DEF HostTakesEndShare, HostStates
  <2>5. ASSUME NEW s \in Sid, OfferReady(s)
        PROVE  PeersInv'
    BY <2>5 DEF OfferReady, HostStates
  <2>6. ASSUME NEW s \in Sid, HostFails(s)
        PROVE  PeersInv'
    BY <2>6 DEF HostFails, HostStates
  <2>7. \/ UNCHANGED <<hostPeer, registered>>
        \/ StopShare \/ TakeHostSession \/ TakeAnswer \/ HostTakesEndShare
        \/ \E s \in Sid : OfferReady(s) \/ HostFails(s)
    <3>1. CASE \E p \in Pages : Serve(p) \/ Lose(p)
      BY <3>1 DEF Serve, Lose, HostSide
    <3>2. CASE \E v \in Viewers : Enter(v) \/ ViewerReceives(v)
      BY <3>2
      DEF Enter, ViewerReceives, FirstMessage, TakeClientSession, TakeOffer, TakeHostICE,
          TakeEndShare, HostSide
    <3>3. CASE Share \/ StopShare \/ HostReceives
      BY <3>3 DEF Share, HostReceives, TakeClientICE, HostSide
    <3>4. CASE \E s \in Sid : HostWorks(s) \/ HostCandidate(s) \/ HostFails(s)
      BY <3>4 DEF HostWorks, HostNotices, HostCandidate, HostSide
    <3>5. CASE \E s \in Sid : ViewerWorks(s) \/ ViewerCandidate(s) \/ ViewerFails(s)
      BY <3>5
      DEF ViewerWorks, ViewerNotices, Applied, AnswerReady, ViewerCandidate, ViewerFails,
          HostSide
    <3>6. CASE UNCHANGED vars
      BY <3>6 DEF vars
    <3> QED BY <3>1, <3>2, <3>3, <3>4, <3>5, <3>6 DEF Next
  <2> QED BY <2>1, <2>2, <2>3, <2>4, <2>5, <2>6, <2>7
<1>3. PeersInv => OpenPeersAreRegistered
  BY DEF PeersInv
<1> QED BY <1>1, <1>2, <1>3, PTL DEF Spec

-----------------------------------------------------------------------------
(* Queues of messages, as far as one message and its order to another goes *)

Has(q, msg) == \E i \in DOMAIN q : q[i] = msg

Once(q, msg) == \A i, j \in DOMAIN q : q[i] = msg /\ q[j] = msg => i = j

\* Every msg of q has first somewhere before it.
Behind(q, msg, first) ==
    \A i \in DOMAIN q : q[i] = msg => \E j \in DOMAIN q : j < i /\ q[j] = first

\* In a queue without messages there is nothing out of order.
LEMMA EmptyHas ==
    /\ \A x : ~ Has(<< >>, x) /\ Once(<< >>, x)
    /\ \A x, y : Behind(<< >>, x, y)
BY DEF Has, Once, Behind

\* What is put behind a queue
LEMMA JoinedHas ==
    ASSUME NEW S, NEW a \in Seq(S), NEW b \in Seq(S)
    PROVE  /\ \A x : Has(a \o b, x) <=> Has(a, x) \/ Has(b, x)
           /\ \A x : Once(a, x) /\ Once(b, x) /\ ~ (Has(a, x) /\ Has(b, x))
                        => Once(a \o b, x)
           /\ \A x, y : Behind(a, x, y) /\ (Has(b, x) => Behind(b, x, y) \/ Has(a, y))
                        => Behind(a \o b, x, y)
<1>0. PICK m, n, c : m = Len(a) /\ n = Len(b) /\ c = a \o b
  OBVIOUS
<1>1. /\ c = a \o b
      /\ DOMAIN a = 1 .. m /\ m \in Nat /\ DOMAIN b = 1 .. n /\ n \in Nat
      /\ DOMAIN c = 1 .. m + n
      /\ \A i \in 1 .. m : c[i] = a[i]
      /\ \A i \in 1 .. n : c[m + i] = b[i]
  <2>1. /\ DOMAIN a = 1 .. Len(a) /\ Len(a) \in Nat
        /\ DOMAIN b = 1 .. Len(b) /\ Len(b) \in Nat
        /\ a \o b \in Seq(S)
        /\ DOMAIN (a \o b) = 1 .. Len(a) + Len(b)
        /\ \A i \in 1 .. Len(a) : (a \o b)[i] = a[i]
        /\ \A i \in 1 .. Len(b) : (a \o b)[Len(a) + i] = b[i]
    BY Joined
  <2> QED BY <1>0, <2>1
<1>2. ASSUME NEW i \in 1 .. m + n, i \notin 1 .. m
      PROVE  \E k \in 1 .. n : i = m + k
  <2>1. i - m \in 1 .. n /\ i = m + (i - m)
    BY <1>1, <1>2
  <2> QED BY <2>1
<1>3. /\ \A i \in 1 .. m : i \in 1 .. m + n
      /\ \A i \in 1 .. n : m + i \in 1 .. m + n
  BY <1>1
<1>4. ASSUME NEW x
      PROVE  Has(c, x) <=> Has(a, x) \/ Has(b, x)
  <2>1. ASSUME Has(c, x)
        PROVE  Has(a, x) \/ Has(b, x)
    <3>1. PICK i \in 1 .. m + n : c[i] = x
      BY <1>1, <2>1 DEF Has
    <3>2. CASE i \in 1 .. m
      BY <1>1, <3>1, <3>2 DEF Has
    <3>3. CASE i \notin 1 .. m
      <4>1. PICK k \in 1 .. n : i = m + k
        BY <1>2, <3>3
      <4>2. b[k] = x
        BY <1>1, <3>1, <4>1
      <4> QED BY <1>1, <4>2 DEF Has
    <3> QED BY <3>2, <3>3
  <2>2. Has(a, x) \/ Has(b, x) => Has(c, x)
    BY <1>1, <1>3 DEF Has
  <2> QED BY <2>1, <2>2
<1>5. ASSUME NEW x, Once(a, x), Once(b, x), ~ (Has(a, x) /\ Has(b, x))
      PROVE  Once(c, x)
  <2> SUFFICES ASSUME NEW i \in 1 .. m + n, NEW j \in 1 .. m + n, c[i] = x, c[j] = x
               PROVE  i = j
    BY <1>1 DEF Once
  <2>1. CASE i \in 1 .. m /\ j \in 1 .. m
    BY <1>1, <1>5, <2>1 DEF Once
  <2>2. CASE i \notin 1 .. m /\ j \notin 1 .. m
    <3>1. PICK k \in 1 .. n, l \in 1 .. n : i = m + k /\ j = m + l
      BY <1>2, <2>2
    <3>2. b[k] = x /\ b[l] = x
      BY <1>1, <3>1
    <3> QED BY <1>1, <1>5, <3>1, <3>2 DEF Once
  <2>3. CASE i \in 1 .. m /\ j \notin 1 .. m
    <3>1. PICK k \in 1 .. n : j = m + k
      BY <1>2, <2>3
    <3>2. a[i] = x /\ b[k] = x
      BY <1>1, <2>3, <3>1
    <3> QED BY <1>1, <1>5, <2>3, <3>2 DEF Has
  <2>4. CASE i \notin 1 .. m /\ j \in 1 .. m
    <3>1. PICK k \in 1 .. n : i = m + k
      BY <1>2, <2>4
    <3>2. a[j] = x /\ b[k] = x
      BY <1>1, <2>4, <3>1
    <3> QED BY <1>1, <1>5, <2>4, <3>2 DEF Has
  <2> QED BY <2>1, <2>2, <2>3, <2>4
<1>6. ASSUME NEW x, NEW y, Behind(a, x, y), Has(b, x) => Behind(b, x, y) \/ Has(a, y)
      PROVE  Behind(c, x, y)
  <2> SUFFICES ASSUME NEW i \in 1 .. m + n, c[i] = x
               PROVE  \E j \in 1 .. m + n : j < i /\ c[j] = y
    BY <1>1 DEF Behind
  <2>1. CASE i \in 1 .. m
    <3>1. PICK j \in 1 .. m : j < i /\ a[j] = y
      BY <1>1, <1>6, <2>1 DEF Behind
    <3> QED BY <1>1, <1>3, <3>1
  <2>2. CASE i \notin 1 .. m
    <3>1. PICK k \in 1 .. n : i = m + k
      BY <1>2, <2>2
    <3>2. b[k] = x /\ Has(b, x)
      BY <1>1, <3>1 DEF Has
    <3>3. CASE Behind(b, x, y)
      <4>1. PICK j \in 1 .. n : j < k /\ b[j] = y
        BY <1>1, <3>2, <3>3 DEF Behind
      <4>2. m + j \in 1 .. m + n /\ m + j < i /\ c[m + j] = y
        BY <1>1, <3>1, <4>1
      <4> QED BY <4>2
    <3>4. CASE Has(a, y)
      <4>1. PICK j \in 1 .. m : a[j] = y
        BY <1>1, <3>4 DEF Has
      <4>2. j \in 1 .. m + n /\ j < i /\ c[j] = y
        BY <1>1, <3>1, <4>1
      <4> QED BY <4>2
    <3> QED BY <1>6, <3>2, <3>3, <3>4
  <2> QED BY <2>1, <2>2
<1> QED BY <1>1, <1>4, <1>5, <1>6

\* One message more
LEMMA AppendedHas ==
    ASSUME NEW S, NEW q \in Seq(S), NEW msg \in S
    PROVE  /\ Append(q, msg) \in Seq(S)
           /\ \A x : Has(Append(q, msg), x) <=> Has(q, x) \/ x = msg
           /\ \A x : Once(q, x) /\ (x = msg => ~ Has(q, x)) => Once(Append(q, msg), x)
           /\ \A x, y : Behind(q, x, y) /\ (x = msg => Has(q, y))
                        => Behind(Append(q, msg), x, y)
<1>1. PICK b \in Seq(S) : b = << msg >> /\ DOMAIN b = {1} /\ b[1] = msg
  <2>1. << msg >> \in Seq(S) /\ DOMAIN << msg >> = {1} /\ << msg >>[1] = msg
    OBVIOUS
  <2> QED BY <2>1
<1>2. Append(q, msg) = q \o b /\ Append(q, msg) \in Seq(S)
  BY <1>1
<1>3. \A x : (Has(b, x) <=> x = msg) /\ Once(b, x)
  BY <1>1 DEF Has, Once
<1> QED BY <1>2, <1>3, JoinedHas

\* The first message is taken.
LEMMA RestHas ==
    ASSUME NEW S, NEW q \in Seq(S), q # << >>
    PROVE  /\ Tail(q) \in Seq(S) /\ Head(q) \in S
           /\ \A x : Has(q, x) <=> Has(Tail(q), x) \/ x = Head(q)
           /\ \A x : Once(q, x) => Once(Tail(q), x) /\ (x = Head(q) => ~ Has(Tail(q), x))
           /\ \A x, y : Behind(q, x, y) =>
                 x # Head(q) /\ (y # Head(q) => Behind(Tail(q), x, y))
<1>0. PICK n, r, h : n = Len(q) /\ r = Tail(q) /\ h = Head(q)
  OBVIOUS
<1>1. /\ r = Tail(q) /\ h = Head(q) /\ h = q[1]
      /\ r \in Seq(S) /\ h \in S
      /\ DOMAIN q = 1 .. n /\ n \in Nat \ {0}
      /\ DOMAIN r = 1 .. n - 1
      /\ \A i \in 1 .. n - 1 : r[i] = q[i + 1]
  <2>1. /\ Tail(q) \in Seq(S) /\ Head(q) \in S /\ Head(q) = q[1]
        /\ DOMAIN q = 1 .. Len(q) /\ Len(q) \in Nat \ {0}
        /\ DOMAIN Tail(q) = 1 .. Len(q) - 1
        /\ \A i \in 1 .. Len(q) - 1 : Tail(q)[i] = q[i + 1]
    BY Rest
  <2> QED BY <1>0, <2>1
<1>2. /\ \A i \in 1 .. n - 1 : i + 1 \in 1 .. n /\ i + 1 # 1
      /\ 1 \in 1 .. n
  BY <1>1
<1>3. ASSUME NEW i \in 1 .. n, i # 1
      PROVE  \E k \in 1 .. n - 1 : i = k + 1
  <2>1. i - 1 \in 1 .. n - 1 /\ i = (i - 1) + 1
    BY <1>1, <1>3
  <2> QED BY <2>1
<1>4. ASSUME NEW x
      PROVE  Has(q, x) <=> Has(r, x) \/ x = h
  <2>1. ASSUME Has(q, x), x # h
        PROVE  Has(r, x)
    <3>1. PICK i \in 1 .. n : q[i] = x /\ i # 1
      BY <1>1, <2>1 DEF Has
    <3>2. PICK k \in 1 .. n - 1 : i = k + 1
      BY <1>3, <3>1
    <3>3. r[k] = x
      BY <1>1, <3>1, <3>2
    <3> QED BY <1>1, <3>3 DEF Has
  <2>2. Has(r, x) \/ x = h => Has(q, x)
    BY <1>1, <1>2 DEF Has
  <2> QED BY <2>1, <2>2
<1>5. ASSUME NEW x, Once(q, x)
      PROVE  Once(r, x) /\ (x = h => ~ Has(r, x))
  <2>1. Once(r, x)
    <3> SUFFICES ASSUME NEW i \in 1 .. n - 1, NEW j \in 1 .. n - 1, r[i] = x, r[j] = x
                 PROVE  i = j
      BY <1>1 DEF Once
    <3>1. i + 1 = j + 1
      BY <1>1, <1>2, <1>5 DEF Once
    <3> QED BY <3>1
  <2>2. ASSUME x = h, NEW i \in 1 .. n - 1
        PROVE  r[i] # x
    BY <1>1, <1>2, <1>5, <2>2 DEF Once
  <2> QED BY <1>1, <2>1, <2>2 DEF Has
<1>6. ASSUME NEW x, NEW y, Behind(q, x, y)
      PROVE  x # h /\ (y # h => Behind(r, x, y))
  <2>1. x # h
    <3>1. ~ \E j \in 1 .. n : j < 1
      BY <1>1
    <3> QED BY <1>1, <1>2, <1>6, <3>1 DEF Behind
  <2>2. ASSUME y # h, NEW i \in 1 .. n - 1, r[i] = x
        PROVE  \E j \in 1 .. n - 1 : j < i /\ r[j] = y
    <3>1. PICK l \in 1 .. n : l < i + 1 /\ q[l] = y
      BY <1>1, <1>2, <1>6, <2>2 DEF Behind
    <3>2. PICK j \in 1 .. n - 1 : l = j + 1
      BY <1>1, <1>3, <2>2, <3>1
    <3>3. j < i /\ r[j] = y
      BY <1>1, <2>2, <3>1, <3>2
    <3> QED BY <3>3
  <2> QED BY <1>1, <2>1, <2>2 DEF Behind
<1> QED BY <1>1, <1>4, <1>5, <1>6

\* What was not sent yet is lost, and only the news of the loss is added.
CutAt(q, n, msg) == Append(SubSeq(q, 1, n), msg)

\* So there is no more in the queue than before, and in no other order.
LEMMA CutHas ==
    ASSUME NEW q \in Seq(Signal), NEW n \in 0 .. Len(q), NEW msg \in Signal,
           NEW r, r = CutAt(q, n, msg)
    PROVE  /\ r \in Seq(Signal)
           /\ \A x : x # msg /\ Has(r, x) => Has(q, x)
           /\ \A x : x # msg /\ Once(q, x) => Once(r, x)
           /\ \A x, y : x # msg /\ Behind(q, x, y) => Behind(r, x, y)
<1>1. PICK k \in Seq(Signal) :
         /\ k = SubSeq(q, 1, n)
         /\ DOMAIN k = 1 .. n /\ \A i \in 1 .. n : k[i] = q[i]
  <2>1. n \in Nat /\ n <= Len(q)
    OBVIOUS
  <2>2. SubSeq(q, 1, n) \in Seq(Signal) /\ Len(SubSeq(q, 1, n)) = n
    BY <2>1
  <2>3. \A i \in 1 .. n : SubSeq(q, 1, n)[i] = q[i]
    BY <2>1
  <2>4. DOMAIN SubSeq(q, 1, n) = 1 .. n
    BY <2>2
  <2> QED BY <2>2, <2>3, <2>4
<1>2. \A i \in 1 .. n : i \in DOMAIN q
  OBVIOUS
<1>3. /\ \A x : Has(k, x) => Has(q, x)
      /\ \A x : Once(q, x) => Once(k, x)
  BY <1>1, <1>2 DEF Has, Once
<1>4. ASSUME NEW x, NEW y, Behind(q, x, y)
      PROVE  Behind(k, x, y)
  <2> SUFFICES ASSUME NEW i \in 1 .. n, k[i] = x
               PROVE  \E j \in 1 .. n : j < i /\ k[j] = y
    BY <1>1 DEF Behind
  <2>1. PICK j \in DOMAIN q : j < i /\ q[j] = y
    BY <1>1, <1>2, <1>4 DEF Behind
  <2>2. j \in 1 .. n
    BY <2>1
  <2> QED BY <1>1, <2>1, <2>2
<1>5. /\ Append(k, msg) \in Seq(Signal)
      /\ \A x : Has(Append(k, msg), x) <=> Has(k, x) \/ x = msg
      /\ \A x : Once(k, x) /\ (x = msg => ~ Has(k, x)) => Once(Append(k, msg), x)
      /\ \A x, y : Behind(k, x, y) /\ (x = msg => Has(k, y)) => Behind(Append(k, msg), x, y)
  BY AppendedHas
<1>6. r = Append(k, msg)
  BY <1>1 DEF CutAt
<1> QED BY <1>3, <1>4, <1>5, <1>6

-----------------------------------------------------------------------------
(* The signals of a session.  Up and down name the queues of both its ends. *)

SignalTypes == {"hostsession", "clientsession", "offer", "answer",
                "hostice", "clientice", "endshare"}

Msg(type, s) == [type |-> type, sid |-> s]

Present(p) == page[p] # "gone"

UpHas(p, type, s) == Has(up[p], Msg(type, s))

DownHas(p, type, s) == Has(down[p], Msg(type, s))

\* Which end of s sends what, and which is sent it
UpFits(p, type, s) ==
    /\ type \in {"offer", "hostice"} => p = Host /\ s \in Sid
    /\ type \in {"answer", "clientice"} => p = s.viewer /\ s \in Sid

DownFits(p, type, s) ==
    /\ type \in {"offer", "hostice"} => p = s.viewer /\ s \in Sid
    /\ type \in {"answer", "clientice"} => p = Host /\ s \in Sid
    /\ type = "hostsession" => p = Host
    /\ type = "clientsession" => p = s.viewer
    /\ type = "endshare" => p \in {Host, s.viewer}

\* A signal is where it belongs.
Routed ==
    /\ down[Host] \in Seq(Signal)
    /\ \A p \in Pages : ~ Present(p) => down[p] = << >>
    /\ \A p \in Pages, type \in SignalTypes, s \in Session :
          /\ UpHas(p, type, s) => UpFits(p, type, s)
          /\ DownHas(p, type, s) => DownFits(p, type, s)

Joining(v) == Has(up[v], [type |-> "join"])

\* Who asks to join does so once, and is not a member before.
Joins ==
    /\ IsFiniteSet(server.members)
    /\ IsFiniteSet(server.sessions)
    /\ \A v \in Viewers :
          /\ Once(up[v], [type |-> "join"])
          /\ page[v] = "out" \/ v \in server.members => ~ Joining(v)
          /\ v \in server.members => page[v] # "out"

\* The server may still open s.
Unopened(s) == s.share > server.share \/ page[s.viewer] = "out" \/ Joining(s.viewer)

\* Nobody has heard of s.
Unheard(s) ==
    /\ s \notin server.sessions
    /\ s \notin registered
    /\ hostPeer[s] = "none" /\ viewerPeer[s] = "none"
    /\ \A type \in SignalTypes :
          /\ ~ UpHas(Host, type, s) /\ ~ DownHas(Host, type, s)
          /\ ~ UpHas(s.viewer, type, s) /\ ~ DownHas(s.viewer, type, s)

\* Both ends hear of s once, and not of its end before it ends.
Announced(s) ==
    /\ Once(down[Host], Msg("hostsession", s))
    /\ DownHas(Host, "hostsession", s) => hostPeer[s] = "none"
    /\ Once(down[s.viewer], Msg("clientsession", s))
    /\ DownHas(s.viewer, "clientsession", s) => viewerPeer[s] = "none"
    /\ Present(s.viewer) /\ viewerPeer[s] = "none" =>
          DownHas(s.viewer, "clientsession", s)
    /\ ~ DownHas(Host, "endshare", s) /\ ~ DownHas(s.viewer, "endshare", s)

OfferUnderway(s) == UpHas(Host, "offer", s) \/ DownHas(s.viewer, "offer", s)

\* There is one offer.  Before it there is nothing from the host, and while it
\* is under way the viewer waits for it.
OfferedOnce(s) ==
    /\ Once(up[Host], Msg("offer", s)) /\ Once(down[s.viewer], Msg("offer", s))
    /\ ~ (UpHas(Host, "offer", s) /\ DownHas(s.viewer, "offer", s))
    /\ OfferUnderway(s) => viewerPeer[s] \in {"none", "new"}
    /\ hostPeer[s] \in {"none", "offering"} =>
          /\ s \notin registered /\ viewerPeer[s] \in {"none", "new"}
          /\ ~ OfferUnderway(s)
          /\ ~ UpHas(Host, "hostice", s) /\ ~ DownHas(s.viewer, "hostice", s)

\* What comes from the host comes in order.
OfferFirst(s) ==
    /\ viewerPeer[s] = "none" =>
          Behind(down[s.viewer], Msg("offer", s), Msg("clientsession", s))
    /\ viewerPeer[s] \in {"none", "new"} =>
          Behind(down[s.viewer], Msg("hostice", s), Msg("offer", s))
    /\ Present(s.viewer) /\ viewerPeer[s] \in {"none", "new"} =>
          /\ \/ Behind(up[Host], Msg("hostice", s), Msg("offer", s))
             \/ DownHas(s.viewer, "offer", s)
          /\ Present(Host) /\ hostPeer[s] \in {"offered", "answered"} => OfferUnderway(s)

AnswerUnderway(s) == UpHas(s.viewer, "answer", s) \/ DownHas(Host, "answer", s)

\* There is one answer, and nothing from the viewer before it.
AnsweredOnce(s) ==
    /\ Once(up[s.viewer], Msg("answer", s)) /\ Once(down[Host], Msg("answer", s))
    /\ ~ (UpHas(s.viewer, "answer", s) /\ DownHas(Host, "answer", s))
    /\ viewerPeer[s] \in {"none", "new", "applying", "answering"} =>
          /\ ~ AnswerUnderway(s)
          /\ ~ UpHas(s.viewer, "clientice", s) /\ ~ DownHas(Host, "clientice", s)

\* The server has not heard that the host stopped.
Stopping == Has(up[Host], [type |-> "stopshare"])

Awaited(s) ==
    OfferUnderway(s) \/ viewerPeer[s] \in {"applying", "answering"} \/ AnswerUnderway(s)

\* While the host shares, its peer waits for the answer, and what comes from
\* the viewer comes in order.
AnswerFirst(s) ==
    Present(Host) /\ ~ Stopping =>
        /\ Awaited(s) => hostPeer[s] = "offered" /\ s \in registered
        /\ hostPeer[s] \notin {"answered", "closed"} =>
              /\ Behind(down[Host], Msg("clientice", s), Msg("answer", s))
              /\ \/ Behind(up[s.viewer], Msg("clientice", s), Msg("answer", s))
                 \/ DownHas(Host, "answer", s)
              /\ Present(s.viewer) /\ viewerPeer[s] \in {"answered", "closed"} =>
                    AnswerUnderway(s)

InOrder(s) ==
    /\ Announced(s)
    /\ OfferedOnce(s) /\ OfferFirst(s)
    /\ AnsweredOnce(s) /\ AnswerFirst(s)

Accounted(s) ==
    /\ Unopened(s) => Unheard(s)
    /\ s \in server.sessions => InOrder(s)

SignalsInv == Routed /\ Joins /\ \A s \in Sid : Accounted(s)

\* r is q as far as the messages about s are concerned.
Similar(q, r, s) ==
    \A type \in SignalTypes :
        /\ Has(r, Msg(type, s)) <=> Has(q, Msg(type, s))
        /\ Once(q, Msg(type, s)) => Once(r, Msg(type, s))
        /\ \A first \in SignalTypes :
              Behind(q, Msg(type, s), Msg(first, s)) => Behind(r, Msg(type, s), Msg(first, s))

\* r is q without its first message, which is of this type and about s.
Popped(q, r, type, s) ==
    \A t \in SignalTypes :
        /\ Has(q, Msg(t, s)) <=> Has(r, Msg(t, s)) \/ t = type
        /\ Once(q, Msg(t, s)) => Once(r, Msg(t, s)) /\ (t = type => ~ Has(r, Msg(t, s)))
        /\ \A first \in SignalTypes :
              Behind(q, Msg(t, s), Msg(first, s)) =>
                 t # type /\ (first # type => Behind(r, Msg(t, s), Msg(first, s)))

\* r is q with such a message put behind it.
Pushed(q, r, type, s) ==
    \A t \in SignalTypes :
        /\ Has(r, Msg(t, s)) <=> Has(q, Msg(t, s)) \/ t = type
        /\ Once(q, Msg(t, s)) /\ (t = type => ~ Has(q, Msg(t, s))) => Once(r, Msg(t, s))
        /\ \A first \in SignalTypes :
              Behind(q, Msg(t, s), Msg(first, s)) /\ (t = type => Has(q, Msg(first, s)))
                 => Behind(r, Msg(t, s), Msg(first, s))

HostStays(s) == hostPeer'[s] = hostPeer[s] /\ (s \in registered' <=> s \in registered)

ViewerStays(s) == viewerPeer'[s] = viewerPeer[s]

PagesStay(s) ==
    (Present(Host)' <=> Present(Host)) /\ (Present(s.viewer)' <=> Present(s.viewer))

\* Nothing happens to the peers of s and to the pages they are on.
Still(s) == HostStays(s) /\ ViewerStays(s) /\ PagesStay(s)

UpStays(p, s) == Similar(up[p], up'[p], s)

DownStays(p, s) == Similar(down[p], down'[p], s)

\* Nor to the messages between them
Calm(s) ==
    /\ Still(s)
    /\ UpStays(Host, s) /\ UpStays(s.viewer, s)
    /\ DownStays(Host, s) /\ DownStays(s.viewer, s)

\* A session that nothing happens to stays in order.
LEMMA CalmOrder ==
    ASSUME NEW s \in Sid, InOrder(s), Calm(s), Stopping => Stopping'
    PROVE  InOrder(s)'
<1>1. /\ \A p \in {Host, s.viewer} :
            /\ Present(p)' <=> Present(p)
            /\ \A type \in SignalTypes :
                  /\ UpHas(p, type, s)' <=> UpHas(p, type, s)
                  /\ DownHas(p, type, s)' <=> DownHas(p, type, s)
                  /\ Once(up[p], Msg(type, s)) => Once(up[p], Msg(type, s))'
                  /\ Once(down[p], Msg(type, s)) => Once(down[p], Msg(type, s))'
                  /\ \A first \in SignalTypes :
                        /\ Behind(up[p], Msg(type, s), Msg(first, s))
                              => Behind(up[p], Msg(type, s), Msg(first, s))'
                        /\ Behind(down[p], Msg(type, s), Msg(first, s))
                              => Behind(down[p], Msg(type, s), Msg(first, s))'
      /\ hostPeer'[s] = hostPeer[s] /\ viewerPeer'[s] = viewerPeer[s]
      /\ s \in registered' <=> s \in registered
  BY DEF Calm, Still, HostStays, ViewerStays, PagesStay, UpStays, DownStays, Similar,
         UpHas, DownHas
<1>2. \A type \in {"hostsession", "clientsession", "offer", "answer",
                   "hostice", "clientice", "endshare"} : type \in SignalTypes
  BY DEF SignalTypes
<1>3. Announced(s)'
  BY <1>1, <1>2 DEF InOrder, Announced
<1>4. OfferUnderway(s)' <=> OfferUnderway(s)
  BY <1>1, <1>2 DEF OfferUnderway
<1>5. AnswerUnderway(s)' <=> AnswerUnderway(s)
  BY <1>1, <1>2 DEF AnswerUnderway
<1>6. OfferedOnce(s)' /\ OfferFirst(s)'
  BY <1>1, <1>2, <1>4 DEF InOrder, OfferedOnce, OfferFirst
<1>7. AnsweredOnce(s)' /\ AnswerFirst(s)'
  BY <1>1, <1>2, <1>4, <1>5 DEF InOrder, AnsweredOnce, AnswerFirst, Awaited
<1> QED BY <1>3, <1>6, <1>7 DEF InOrder

\* One that nobody has heard of stays unheard of.
LEMMA CalmUnheard ==
    ASSUME NEW s \in Sid, Unheard(s), Calm(s), s \notin server'.sessions
    PROVE  Unheard(s)'
BY DEF Calm, Still, HostStays, ViewerStays, UpStays, DownStays, Similar, Unheard,
       UpHas, DownHas

\* What else may happen meanwhile
LEMMA CalmKeeps ==
    ASSUME NEW s \in Sid, Accounted(s), Calm(s),
           s \in server'.sessions => s \in server.sessions,
           Unopened(s)' => Unopened(s),
           s \in server'.sessions => (Stopping => Stopping')
    PROVE  Accounted(s)'
<1>1. ASSUME Unopened(s)'
      PROVE  Unheard(s)'
  <2>1. Unheard(s) /\ s \notin server'.sessions
    BY <1>1 DEF Accounted, Unheard
  <2> QED BY <2>1, CalmUnheard
<1>2. ASSUME s \in server'.sessions
      PROVE  InOrder(s)'
  BY <1>2, CalmOrder DEF Accounted
<1> QED BY <1>1, <1>2 DEF Accounted

\* A queue that is left alone
LEMMA SameSimilar ==
    ASSUME NEW q, NEW s
    PROVE  Similar(q, q, s)
BY DEF Similar

\* Another message is sent.
LEMMA AppendedSimilar ==
    ASSUME NEW q \in Seq(Signal), NEW msg \in Signal, NEW s,
           \A type \in SignalTypes : msg # Msg(type, s)
    PROVE  Similar(q, Append(q, msg), s)
<1>1. PICK r : r = Append(q, msg)
  OBVIOUS
<1>2. /\ \A x : Has(r, x) <=> Has(q, x) \/ x = msg
      /\ \A x : Once(q, x) /\ (x = msg => ~ Has(q, x)) => Once(r, x)
      /\ \A x, y : Behind(q, x, y) /\ (x = msg => Has(q, y)) => Behind(r, x, y)
  BY <1>1, AppendedHas
<1>3. Similar(q, r, s)
  BY <1>2 DEF Similar
<1> QED BY <1>1, <1>3

\* Another message is taken.
LEMMA RestSimilar ==
    ASSUME NEW q \in Seq(Signal), q # << >>, NEW s,
           \A type \in SignalTypes : Head(q) # Msg(type, s)
    PROVE  Similar(q, Tail(q), s)
<1>1. PICK r, h : r = Tail(q) /\ h = Head(q)
  OBVIOUS
<1>2. /\ \A x : Has(q, x) <=> Has(r, x) \/ x = h
      /\ \A x : Once(q, x) => Once(r, x) /\ (x = h => ~ Has(r, x))
      /\ \A x, y : Behind(q, x, y) => x # h /\ (y # h => Behind(r, x, y))
  BY <1>1, RestHas
<1>3. Similar(q, r, s)
  BY <1>1, <1>2 DEF Similar
<1> QED BY <1>1, <1>3

\* Other messages are delivered.
LEMMA JoinedSimilar ==
    ASSUME NEW a \in Seq(Signal), NEW b \in Seq(Signal), NEW s,
           \A type \in SignalTypes : ~ Has(b, Msg(type, s))
    PROVE  Similar(a, a \o b, s)
<1>1. PICK c : c = a \o b
  OBVIOUS
<1>2. /\ \A x : Has(c, x) <=> Has(a, x) \/ Has(b, x)
      /\ \A x : Once(a, x) /\ Once(b, x) /\ ~ (Has(a, x) /\ Has(b, x)) => Once(c, x)
      /\ \A x, y : Behind(a, x, y) /\ (Has(b, x) => Behind(b, x, y) \/ Has(a, y))
                      => Behind(c, x, y)
  BY <1>1, JoinedHas
<1>3. \A x : ~ Has(b, x) => Once(b, x)
  BY DEF Has, Once
<1>4. Similar(a, c, s)
  BY <1>2, <1>3 DEF Similar
<1> QED BY <1>1, <1>4

\* What is about s and is sent
LEMMA AppendedPushed ==
    ASSUME NEW q \in Seq(Signal), NEW type \in SignalTypes, NEW s, Msg(type, s) \in Signal
    PROVE  Pushed(q, Append(q, Msg(type, s)), type, s)
<1>1. PICK r, msg : msg = Msg(type, s) /\ r = Append(q, msg) /\ msg \in Signal
  OBVIOUS
<1>2. /\ \A x : Has(r, x) <=> Has(q, x) \/ x = msg
      /\ \A x : Once(q, x) /\ (x = msg => ~ Has(q, x)) => Once(r, x)
      /\ \A x, y : Behind(q, x, y) /\ (x = msg => Has(q, y)) => Behind(r, x, y)
  BY <1>1, AppendedHas
<1>3. \A t : Msg(t, s) = msg <=> t = type
  BY <1>1 DEF Msg
<1>4. Pushed(q, r, type, s)
  BY <1>2, <1>3 DEF Pushed
<1> QED BY <1>1, <1>4

\* What is about s and is taken
LEMMA RestPopped ==
    ASSUME NEW q \in Seq(Signal), q # << >>, NEW type \in SignalTypes, NEW s,
           Head(q) = Msg(type, s)
    PROVE  Popped(q, Tail(q), type, s)
<1>1. PICK r, msg : r = Tail(q) /\ msg = Head(q)
  OBVIOUS
<1>2. /\ \A x : Has(q, x) <=> Has(r, x) \/ x = msg
      /\ \A x : Once(q, x) => Once(r, x) /\ (x = msg => ~ Has(r, x))
      /\ \A x, y : Behind(q, x, y) => x # msg /\ (y # msg => Behind(r, x, y))
  BY <1>1, RestHas
<1>3. \A t : Msg(t, s) = msg <=> t = type
  BY <1>1 DEF Msg
<1>4. Popped(q, r, type, s)
  BY <1>2, <1>3 DEF Popped
<1> QED BY <1>1, <1>4

\* Messages that are about different sessions, or of different types, differ.
LEMMA MsgIs ==
    /\ \A type, t, s, u : Msg(type, s) = Msg(t, u) <=> type = t /\ s = u
    /\ \A type, s : Msg(type, s).type = type /\ Msg(type, s).sid = s
    /\ \A type \in SignalTypes : \A s \in Session : Msg(type, s) \in Signal
    /\ \A msg \in Signal : msg.type \in SignalTypes =>
          msg.sid \in Session /\ msg = Msg(msg.type, msg.sid)
BY DEF Msg, Signal, SignalTypes

-----------------------------------------------------------------------------
(* What may happen to an open session *)

\* All types of signals
LEMMA AllTypes ==
    \A type \in {"hostsession", "clientsession", "offer", "answer",
                 "hostice", "clientice", "endshare"} : type \in SignalTypes
BY DEF SignalTypes

\* The offer is passed on.
LEMMA OfferPassed ==
    ASSUME NEW s \in Sid, InOrder(s), Stopping => Stopping',
           Still(s),
           UpStays(s.viewer, s), DownStays(Host, s),
           Popped(up[Host], up'[Host], "offer", s),
           IF Present(s.viewer) THEN Pushed(down[s.viewer], down'[s.viewer], "offer", s)
           ELSE DownStays(s.viewer, s)
    PROVE  InOrder(s)'
<1> USE AllTypes DEF Still, HostStays, ViewerStays, PagesStay, UpStays, DownStays, UpHas, DownHas,
        Similar, Popped, Pushed, InOrder
<1>1. Announced(s)'
  BY DEF Announced, OfferedOnce, OfferUnderway
<1>2. OfferedOnce(s)'
  BY DEF Announced, OfferedOnce, OfferUnderway, AnsweredOnce
<1>3. OfferFirst(s)'
  BY DEF Announced, OfferedOnce, OfferUnderway, OfferFirst
<1>4. AnsweredOnce(s)'
  BY DEF OfferedOnce, OfferUnderway, AnsweredOnce, AnswerUnderway
<1>5. AnswerFirst(s)'
  BY DEF OfferedOnce, OfferUnderway, AnsweredOnce, AnswerUnderway, Awaited, AnswerFirst
<1> QED BY <1>1, <1>2, <1>3, <1>4, <1>5

\* A candidate of the host is passed on.
LEMMA HostICEPassed ==
    ASSUME NEW s \in Sid, InOrder(s), Stopping => Stopping',
           Still(s),
           UpStays(s.viewer, s), DownStays(Host, s),
           Popped(up[Host], up'[Host], "hostice", s),
           IF Present(s.viewer) THEN Pushed(down[s.viewer], down'[s.viewer], "hostice", s)
           ELSE DownStays(s.viewer, s)
    PROVE  InOrder(s)'
<1> USE AllTypes DEF Still, HostStays, ViewerStays, PagesStay, UpStays, DownStays, UpHas, DownHas,
        Similar, Popped, Pushed, InOrder
<1>1. Announced(s)'
  BY DEF Announced, OfferedOnce, OfferUnderway
<1>2. OfferedOnce(s)'
  BY DEF Announced, OfferedOnce, OfferUnderway, AnsweredOnce
<1>3. OfferFirst(s)'
  BY DEF Announced, OfferedOnce, OfferUnderway, OfferFirst
<1>4. AnsweredOnce(s)'
  BY DEF OfferedOnce, OfferUnderway, AnsweredOnce, AnswerUnderway
<1>5. AnswerFirst(s)'
  BY DEF OfferedOnce, OfferUnderway, AnsweredOnce, AnswerUnderway, Awaited, AnswerFirst
<1> QED BY <1>1, <1>2, <1>3, <1>4, <1>5

\* The answer is passed on.
LEMMA AnswerPassed ==
    ASSUME NEW s \in Sid, InOrder(s), Stopping => Stopping',
           Still(s),
           UpStays(Host, s), DownStays(s.viewer, s),
           Popped(up[s.viewer], up'[s.viewer], "answer", s),
           IF Present(Host) THEN Pushed(down[Host], down'[Host], "answer", s)
           ELSE DownStays(Host, s)
    PROVE  InOrder(s)'
<1> USE AllTypes DEF Still, HostStays, ViewerStays, PagesStay, UpStays, DownStays, UpHas, DownHas,
        Similar, Popped, Pushed, InOrder
<1>1. Announced(s)'
  BY DEF Announced, OfferedOnce, OfferUnderway
<1>2. OfferedOnce(s)'
  BY DEF Announced, OfferedOnce, OfferUnderway, AnsweredOnce
<1>3. OfferFirst(s)'
  BY DEF Announced, OfferedOnce, OfferUnderway, OfferFirst
<1>4. AnsweredOnce(s)'
  BY DEF OfferedOnce, OfferUnderway, AnsweredOnce, AnswerUnderway
<1>5. AnswerFirst(s)'
  BY DEF OfferedOnce, OfferUnderway, AnsweredOnce, AnswerUnderway, Awaited, AnswerFirst
<1> QED BY <1>1, <1>2, <1>3, <1>4, <1>5

\* A candidate of the viewer is passed on.
LEMMA ClientICEPassed ==
    ASSUME NEW s \in Sid, InOrder(s), Stopping => Stopping',
           Still(s),
           UpStays(Host, s), DownStays(s.viewer, s),
           Popped(up[s.viewer], up'[s.viewer], "clientice", s),
           IF Present(Host) THEN Pushed(down[Host], down'[Host], "clientice", s)
           ELSE DownStays(Host, s)
    PROVE  InOrder(s)'
<1> USE AllTypes DEF Still, HostStays, ViewerStays, PagesStay, UpStays, DownStays, UpHas, DownHas,
        Similar, Popped, Pushed, InOrder
<1>1. Announced(s)'
  BY DEF Announced, OfferedOnce, OfferUnderway
<1>2. OfferedOnce(s)'
  BY DEF Announced, OfferedOnce, OfferUnderway, AnsweredOnce
<1>3. OfferFirst(s)'
  BY DEF Announced, OfferedOnce, OfferUnderway, OfferFirst
<1>4. AnsweredOnce(s)'
  BY DEF OfferedOnce, OfferUnderway, AnsweredOnce, AnswerUnderway
<1>5. AnswerFirst(s)'
  BY DEF OfferedOnce, OfferUnderway, AnsweredOnce, AnswerUnderway, Awaited, AnswerFirst
<1> QED BY <1>1, <1>2, <1>3, <1>4, <1>5

\* The host makes its peer, or has stopped sharing.
LEMMA HostSessionTaken ==
    ASSUME NEW s \in Sid, InOrder(s), Stopping => Stopping',
           PagesStay(s),
           ViewerStays(s),
           s \in registered' <=> s \in registered,
           hostPeer'[s] \in {hostPeer[s], "offering"},
           UpStays(Host, s), UpStays(s.viewer, s), DownStays(s.viewer, s),
           Popped(down[Host], down'[Host], "hostsession", s)
    PROVE  InOrder(s)'
<1> USE AllTypes DEF Still, HostStays, ViewerStays, PagesStay, UpStays, DownStays, UpHas, DownHas,
        Similar, Popped, InOrder
<1>1. Announced(s)'
  BY DEF Announced, OfferedOnce, OfferUnderway
<1>2. OfferedOnce(s)'
  BY DEF Announced, OfferedOnce, OfferUnderway, AnsweredOnce
<1>3. OfferFirst(s)'
  BY DEF Announced, OfferedOnce, OfferUnderway, OfferFirst
<1>4. AnsweredOnce(s)'
  BY DEF OfferedOnce, OfferUnderway, AnsweredOnce, AnswerUnderway
<1>5. AnswerFirst(s)'
  BY DEF Announced, OfferedOnce, OfferUnderway, AnsweredOnce, AnswerUnderway, Awaited,
         AnswerFirst
<1> QED BY <1>1, <1>2, <1>3, <1>4, <1>5

\* The host's offer is ready.
LEMMA OfferSent ==
    ASSUME NEW s \in Sid, InOrder(s), Stopping => Stopping',
           PagesStay(s),
           ViewerStays(s),
           s \in registered',
           hostPeer[s] = "offering",
           hostPeer'[s] = "offered",
           UpStays(s.viewer, s), DownStays(Host, s), DownStays(s.viewer, s),
           IF Present(Host) THEN Pushed(up[Host], up'[Host], "offer", s) ELSE UpStays(Host, s)
    PROVE  InOrder(s)'
<1> USE AllTypes DEF Still, HostStays, ViewerStays, PagesStay, UpStays, DownStays, UpHas, DownHas,
        Similar, Pushed, InOrder
<1>1. Announced(s)'
  BY DEF Announced, OfferedOnce, OfferUnderway
<1>2. OfferedOnce(s)'
  BY DEF Announced, OfferedOnce, OfferUnderway, AnsweredOnce
<1>3. OfferFirst(s)'
  BY DEF Announced, OfferedOnce, OfferUnderway, OfferFirst
<1>4. AnsweredOnce(s)'
  BY DEF OfferedOnce, OfferUnderway, AnsweredOnce, AnswerUnderway
<1>5. AnswerFirst(s)'
  BY DEF OfferedOnce, OfferUnderway, AnsweredOnce, AnswerUnderway, Awaited, AnswerFirst
<1> QED BY <1>1, <1>2, <1>3, <1>4, <1>5

\* The host has the answer.
LEMMA AnswerTaken ==
    ASSUME NEW s \in Sid, InOrder(s), Stopping => Stopping',
           PagesStay(s),
           ViewerStays(s),
           s \in registered' <=> s \in registered,
           hostPeer'[s] = IF s \in registered /\ hostPeer[s] = "offered"
                          THEN "answered" ELSE hostPeer[s],
           UpStays(Host, s), UpStays(s.viewer, s), DownStays(s.viewer, s),
           Popped(down[Host], down'[Host], "answer", s)
    PROVE  InOrder(s)'
<1> USE AllTypes DEF Still, HostStays, ViewerStays, PagesStay, UpStays, DownStays, UpHas, DownHas,
        Similar, Popped, InOrder
<1>1. Announced(s)'
  BY DEF Announced, OfferedOnce, OfferUnderway
<1>2. OfferedOnce(s)'
  BY DEF Announced, OfferedOnce, OfferUnderway, AnsweredOnce
<1>3. OfferFirst(s)'
  BY DEF Announced, OfferedOnce, OfferUnderway, OfferFirst
<1>4. AnsweredOnce(s)'
  BY DEF OfferedOnce, OfferUnderway, AnsweredOnce, AnswerUnderway
<1>5. AnswerFirst(s)'
  BY DEF OfferedOnce, OfferUnderway, AnsweredOnce, AnswerUnderway, Awaited, AnswerFirst
<1> QED BY <1>1, <1>2, <1>3, <1>4, <1>5

\* The host finds a candidate.
LEMMA HostICESent ==
    ASSUME NEW s \in Sid, InOrder(s), Stopping => Stopping',
           Still(s), hostPeer[s] \in {"offered", "answered"},
           UpStays(s.viewer, s), DownStays(Host, s), DownStays(s.viewer, s),
           IF Present(Host) THEN Pushed(up[Host], up'[Host], "hostice", s) ELSE UpStays(Host, s)
    PROVE  InOrder(s)'
<1> USE AllTypes DEF Still, HostStays, ViewerStays, PagesStay, UpStays, DownStays, UpHas, DownHas,
        Similar, Pushed, InOrder
<1>1. Announced(s)'
  BY DEF Announced, OfferedOnce, OfferUnderway
<1>2. OfferedOnce(s)'
  BY DEF Announced, OfferedOnce, OfferUnderway, AnsweredOnce
<1>3. OfferFirst(s)'
  BY DEF Announced, OfferedOnce, OfferUnderway, OfferFirst
<1>4. AnsweredOnce(s)'
  BY DEF OfferedOnce, OfferUnderway, AnsweredOnce, AnswerUnderway
<1>5. AnswerFirst(s)'
  BY DEF OfferedOnce, OfferUnderway, AnsweredOnce, AnswerUnderway, Awaited, AnswerFirst
<1> QED BY <1>1, <1>2, <1>3, <1>4, <1>5

\* The host takes a candidate.
LEMMA ClientICETaken ==
    ASSUME NEW s \in Sid, InOrder(s), Stopping => Stopping',
           Still(s),
           UpStays(Host, s), UpStays(s.viewer, s), DownStays(s.viewer, s),
           Popped(down[Host], down'[Host], "clientice", s)
    PROVE  InOrder(s)'
<1> USE AllTypes DEF Still, HostStays, ViewerStays, PagesStay, UpStays, DownStays, UpHas, DownHas,
        Similar, Popped, InOrder
<1>1. Announced(s)'
  BY DEF Announced, OfferedOnce, OfferUnderway
<1>2. OfferedOnce(s)'
  BY DEF Announced, OfferedOnce, OfferUnderway, AnsweredOnce
<1>3. OfferFirst(s)'
  BY DEF Announced, OfferedOnce, OfferUnderway, OfferFirst
<1>4. AnsweredOnce(s)'
  BY DEF OfferedOnce, OfferUnderway, AnsweredOnce, AnswerUnderway
<1>5. AnswerFirst(s)'
  BY DEF OfferedOnce, OfferUnderway, AnsweredOnce, AnswerUnderway, Awaited, AnswerFirst
<1> QED BY <1>1, <1>2, <1>3, <1>4, <1>5

\* The host's connection fails.
LEMMA HostFailed ==
    ASSUME NEW s \in Sid, InOrder(s), Stopping => Stopping',
           PagesStay(s),
           ViewerStays(s),
           hostPeer[s] = "answered",
           hostPeer'[s] = "closed",
           UpStays(Host, s), UpStays(s.viewer, s), DownStays(Host, s), DownStays(s.viewer, s)
    PROVE  InOrder(s)'
<1> USE AllTypes DEF Still, HostStays, ViewerStays, PagesStay, UpStays, DownStays, UpHas, DownHas,
        Similar, InOrder
<1>1. Announced(s)'
  BY DEF Announced, OfferedOnce, OfferUnderway
<1>2. OfferedOnce(s)'
  BY DEF Announced, OfferedOnce, OfferUnderway, AnsweredOnce
<1>3. OfferFirst(s)'
  BY DEF Announced, OfferedOnce, OfferUnderway, OfferFirst
<1>4. AnsweredOnce(s)'
  BY DEF OfferedOnce, OfferUnderway, AnsweredOnce, AnswerUnderway
<1>5. AnswerFirst(s)'
  BY DEF OfferedOnce, OfferUnderway, AnsweredOnce, AnswerUnderway, Awaited, AnswerFirst
<1> QED BY <1>1, <1>2, <1>3, <1>4, <1>5

\* The host stops, and closes its peer, if it is registered.
LEMMA SharingStopped ==
    ASSUME NEW s \in Sid, InOrder(s), Present(Host) => Stopping',
           PagesStay(s),
           ViewerStays(s),
           s \notin registered',
           hostPeer'[s] = IF s \in registered THEN "closed" ELSE hostPeer[s],
           UpStays(Host, s), UpStays(s.viewer, s), DownStays(Host, s), DownStays(s.viewer, s)
    PROVE  InOrder(s)'
<1> USE AllTypes DEF Still, HostStays, ViewerStays, PagesStay, UpStays, DownStays, UpHas, DownHas,
        Similar, InOrder
<1>1. Announced(s)'
  BY DEF Announced, OfferedOnce, OfferUnderway
<1>2. OfferedOnce(s)'
  BY DEF Announced, OfferedOnce, OfferUnderway, AnsweredOnce
<1>3. OfferFirst(s)'
  BY DEF Announced, OfferedOnce, OfferUnderway, OfferFirst
<1>4. AnsweredOnce(s)'
  BY DEF OfferedOnce, OfferUnderway, AnsweredOnce, AnswerUnderway
<1>5. AnswerFirst(s)'
  BY DEF OfferedOnce, OfferUnderway, AnsweredOnce, AnswerUnderway, Awaited, AnswerFirst
<1> QED BY <1>1, <1>2, <1>3, <1>4, <1>5

\* The viewer makes its peer.
LEMMA ClientSessionTaken ==
    ASSUME NEW s \in Sid, InOrder(s), Stopping => Stopping',
           PagesStay(s), HostStays(s), viewerPeer'[s] = "new",
           UpStays(Host, s), UpStays(s.viewer, s), DownStays(Host, s),
           Popped(down[s.viewer], down'[s.viewer], "clientsession", s)
    PROVE  InOrder(s)'
<1> USE AllTypes DEF Still, HostStays, ViewerStays, PagesStay, UpStays, DownStays, UpHas, DownHas,
        Similar, Popped, InOrder
<1>1. Announced(s)'
  BY DEF Announced, OfferedOnce, OfferUnderway
<1>2. OfferedOnce(s)'
  BY DEF Announced, OfferedOnce, OfferUnderway, AnsweredOnce
<1>3. OfferFirst(s)'
  BY DEF Announced, OfferedOnce, OfferUnderway, OfferFirst
<1>4. AnsweredOnce(s)'
  BY DEF Announced, OfferedOnce, OfferUnderway, AnsweredOnce, AnswerUnderway
<1>5. AnswerFirst(s)'
  BY DEF OfferedOnce, OfferUnderway, AnsweredOnce, AnswerUnderway, Awaited, AnswerFirst
<1> QED BY <1>1, <1>2, <1>3, <1>4, <1>5

\* The viewer begins to apply the offer.
LEMMA OfferTaken ==
    ASSUME NEW s \in Sid, InOrder(s), Stopping => Stopping',
           PagesStay(s),
           HostStays(s),
           viewerPeer'[s] = IF viewerPeer[s] = "new" THEN "applying" ELSE viewerPeer[s],
           UpStays(Host, s), UpStays(s.viewer, s), DownStays(Host, s),
           Popped(down[s.viewer], down'[s.viewer], "offer", s)
    PROVE  InOrder(s)'
<1> USE AllTypes DEF Still, HostStays, ViewerStays, PagesStay, UpStays, DownStays, UpHas, DownHas,
        Similar, Popped, InOrder
<1>1. Announced(s)'
  BY DEF Announced, OfferedOnce, OfferUnderway
<1>2. OfferedOnce(s)'
  BY DEF Announced, OfferedOnce, OfferUnderway, AnsweredOnce
<1>3. OfferFirst(s)'
  BY DEF Announced, OfferedOnce, OfferUnderway, OfferFirst
<1>4. AnsweredOnce(s)'
  BY DEF OfferedOnce, OfferUnderway, AnsweredOnce, AnswerUnderway
<1>5. AnswerFirst(s)'
  BY DEF OfferedOnce, OfferUnderway, AnsweredOnce, AnswerUnderway, Awaited, AnswerFirst
<1> QED BY <1>1, <1>2, <1>3, <1>4, <1>5

\* The offer is applied.
LEMMA OfferApplied ==
    ASSUME NEW s \in Sid, InOrder(s), Stopping => Stopping',
           PagesStay(s),
           HostStays(s),
           viewerPeer[s] = "applying",
           viewerPeer'[s] = "answering",
           UpStays(Host, s), UpStays(s.viewer, s), DownStays(Host, s), DownStays(s.viewer, s)
    PROVE  InOrder(s)'
<1> USE AllTypes DEF Still, HostStays, ViewerStays, PagesStay, UpStays, DownStays, UpHas, DownHas,
        Similar, InOrder
<1>1. Announced(s)'
  BY DEF Announced, OfferedOnce, OfferUnderway
<1>2. OfferedOnce(s)'
  BY DEF Announced, OfferedOnce, OfferUnderway, AnsweredOnce
<1>3. OfferFirst(s)'
  BY DEF Announced, OfferedOnce, OfferUnderway, OfferFirst
<1>4. AnsweredOnce(s)'
  BY DEF OfferedOnce, OfferUnderway, AnsweredOnce, AnswerUnderway
<1>5. AnswerFirst(s)'
  BY DEF OfferedOnce, OfferUnderway, AnsweredOnce, AnswerUnderway, Awaited, AnswerFirst
<1> QED BY <1>1, <1>2, <1>3, <1>4, <1>5

\* The viewer's answer is ready.
LEMMA AnswerSent ==
    ASSUME NEW s \in Sid, InOrder(s), Stopping => Stopping',
           PagesStay(s),
           HostStays(s),
           viewerPeer[s] = "answering",
           viewerPeer'[s] = "answered",
           UpStays(Host, s), DownStays(Host, s), DownStays(s.viewer, s),
           IF Present(s.viewer) THEN Pushed(up[s.viewer], up'[s.viewer], "answer", s)
           ELSE UpStays(s.viewer, s)
    PROVE  InOrder(s)'
<1> USE AllTypes DEF Still, HostStays, ViewerStays, PagesStay, UpStays, DownStays, UpHas, DownHas,
        Similar, Pushed, InOrder
<1>1. Announced(s)'
  BY DEF Announced, OfferedOnce, OfferUnderway
<1>2. OfferedOnce(s)'
  BY DEF Announced, OfferedOnce, OfferUnderway, AnsweredOnce
<1>3. OfferFirst(s)'
  BY DEF Announced, OfferedOnce, OfferUnderway, OfferFirst
<1>4. AnsweredOnce(s)'
  BY DEF OfferedOnce, OfferUnderway, AnsweredOnce, AnswerUnderway
<1>5. AnswerFirst(s)'
  BY DEF OfferedOnce, OfferUnderway, AnsweredOnce, AnswerUnderway, Awaited, AnswerFirst
<1> QED BY <1>1, <1>2, <1>3, <1>4, <1>5

\* The viewer finds a candidate.
LEMMA ClientICESent ==
    ASSUME NEW s \in Sid, InOrder(s), Stopping => Stopping',
           Still(s), viewerPeer[s] = "answered",
           UpStays(Host, s), DownStays(Host, s), DownStays(s.viewer, s),
           IF Present(s.viewer) THEN Pushed(up[s.viewer], up'[s.viewer], "clientice", s)
           ELSE UpStays(s.viewer, s)
    PROVE  InOrder(s)'
<1> USE AllTypes DEF Still, HostStays, ViewerStays, PagesStay, UpStays, DownStays, UpHas, DownHas,
        Similar, Pushed, InOrder
<1>1. Announced(s)'
  BY DEF Announced, OfferedOnce, OfferUnderway
<1>2. OfferedOnce(s)'
  BY DEF Announced, OfferedOnce, OfferUnderway, AnsweredOnce
<1>3. OfferFirst(s)'
  BY DEF Announced, OfferedOnce, OfferUnderway, OfferFirst
<1>4. AnsweredOnce(s)'
  BY DEF OfferedOnce, OfferUnderway, AnsweredOnce, AnswerUnderway
<1>5. AnswerFirst(s)'
  BY DEF OfferedOnce, OfferUnderway, AnsweredOnce, AnswerUnderway, Awaited, AnswerFirst
<1> QED BY <1>1, <1>2, <1>3, <1>4, <1>5

\* The viewer takes a candidate.
LEMMA HostICETaken ==
    ASSUME NEW s \in Sid, InOrder(s), Stopping => Stopping',
           Still(s),
           UpStays(Host, s), UpStays(s.viewer, s), DownStays(Host, s),
           Popped(down[s.viewer], down'[s.viewer], "hostice", s)
    PROVE  InOrder(s)'
<1> USE AllTypes DEF Still, HostStays, ViewerStays, PagesStay, UpStays, DownStays, UpHas, DownHas,
        Similar, Popped, InOrder
<1>1. Announced(s)'
  BY DEF Announced, OfferedOnce, OfferUnderway
<1>2. OfferedOnce(s)'
  BY DEF Announced, OfferedOnce, OfferUnderway, AnsweredOnce
<1>3. OfferFirst(s)'
  BY DEF Announced, OfferedOnce, OfferUnderway, OfferFirst
<1>4. AnsweredOnce(s)'
  BY DEF OfferedOnce, OfferUnderway, AnsweredOnce, AnswerUnderway
<1>5. AnswerFirst(s)'
  BY DEF OfferedOnce, OfferUnderway, AnsweredOnce, AnswerUnderway, Awaited, AnswerFirst
<1> QED BY <1>1, <1>2, <1>3, <1>4, <1>5

\* The viewer's connection fails.
LEMMA ViewerFailed ==
    ASSUME NEW s \in Sid, InOrder(s), Stopping => Stopping',
           PagesStay(s),
           HostStays(s),
           viewerPeer[s] = "answered",
           viewerPeer'[s] = "closed",
           UpStays(Host, s), UpStays(s.viewer, s), DownStays(Host, s), DownStays(s.viewer, s)
    PROVE  InOrder(s)'
<1> USE AllTypes DEF Still, HostStays, ViewerStays, PagesStay, UpStays, DownStays, UpHas, DownHas,
        Similar, InOrder
<1>1. Announced(s)'
  BY DEF Announced, OfferedOnce, OfferUnderway
<1>2. OfferedOnce(s)'
  BY DEF Announced, OfferedOnce, OfferUnderway, AnsweredOnce
<1>3. OfferFirst(s)'
  BY DEF Announced, OfferedOnce, OfferUnderway, OfferFirst
<1>4. AnsweredOnce(s)'
  BY DEF OfferedOnce, OfferUnderway, AnsweredOnce, AnswerUnderway
<1>5. AnswerFirst(s)'
  BY DEF OfferedOnce, OfferUnderway, AnsweredOnce, AnswerUnderway, Awaited, AnswerFirst
<1> QED BY <1>1, <1>2, <1>3, <1>4, <1>5

\* What is left of a queue that was cut has no more of s than it had before.
Cut(q, r, s) ==
    \A t \in SignalTypes :
        /\ Has(r, Msg(t, s)) => Has(q, Msg(t, s))
        /\ Once(q, Msg(t, s)) => Once(r, Msg(t, s))
        /\ \A first \in SignalTypes :
              Behind(q, Msg(t, s), Msg(first, s)) => Behind(r, Msg(t, s), Msg(first, s))

\* The socket of the host is gone.
LEMMA HostHungUp ==
    ASSUME NEW s \in Sid, InOrder(s), HostStays(s), ViewerStays(s),
           ~ Present(Host)', Present(s.viewer)' <=> Present(s.viewer),
           UpStays(s.viewer, s), DownStays(s.viewer, s),
           Cut(up[Host], up'[Host], s), down'[Host] = << >>
    PROVE  InOrder(s)'
<1> USE AllTypes DEF HostStays, ViewerStays, UpStays, DownStays, UpHas, DownHas, Similar, Cut,
        InOrder
<1>0. /\ \A x : ~ Has(down'[Host], x) /\ Once(down'[Host], x)
      /\ \A x, y : Behind(down'[Host], x, y)
  BY EmptyHas
<1>1. Announced(s)'
  BY <1>0 DEF Announced
<1>2. OfferedOnce(s)'
  BY <1>0 DEF OfferedOnce, OfferUnderway
<1>3. OfferFirst(s)'
  BY <1>0 DEF OfferedOnce, OfferUnderway, OfferFirst
<1>4. AnsweredOnce(s)'
  BY <1>0 DEF AnsweredOnce, AnswerUnderway
<1>5. AnswerFirst(s)'
  BY DEF AnswerFirst
<1> QED BY <1>1, <1>2, <1>3, <1>4, <1>5

\* That of the viewer is gone.
LEMMA ViewerHungUp ==
    ASSUME NEW s \in Sid, InOrder(s), Stopping => Stopping', HostStays(s), ViewerStays(s),
           ~ Present(s.viewer)', Present(Host)' <=> Present(Host),
           UpStays(Host, s), DownStays(Host, s),
           Cut(up[s.viewer], up'[s.viewer], s), down'[s.viewer] = << >>
    PROVE  InOrder(s)'
<1> USE AllTypes DEF HostStays, ViewerStays, UpStays, DownStays, UpHas, DownHas, Similar, Cut,
        InOrder
<1>0. /\ \A x : ~ Has(down'[s.viewer], x) /\ Once(down'[s.viewer], x)
      /\ \A x, y : Behind(down'[s.viewer], x, y)
  BY EmptyHas
<1>1. Announced(s)'
  BY <1>0 DEF Announced
<1>2. OfferedOnce(s)'
  BY <1>0 DEF OfferedOnce, OfferUnderway
<1>3. OfferFirst(s)'
  BY <1>0 DEF OfferFirst
<1>4. AnsweredOnce(s)'
  BY <1>0 DEF AnsweredOnce, AnswerUnderway
<1>5. AnswerFirst(s)'
  BY <1>0 DEF AnswerFirst, Awaited, OfferUnderway, AnswerUnderway
<1> QED BY <1>1, <1>2, <1>3, <1>4, <1>5

\* The server opens the session, and tells who is there of it.
LEMMA SessionOpened ==
    ASSUME NEW s \in Sid, Unheard(s), Still(s), UpStays(Host, s), UpStays(s.viewer, s),
           Once(down'[Host], Msg("hostsession", s)),
           Once(down'[s.viewer], Msg("clientsession", s)),
           Present(s.viewer) => DownHas(s.viewer, "clientsession", s)',
           \A type \in SignalTypes :
              /\ type # "hostsession" => ~ DownHas(Host, type, s)'
              /\ type # "clientsession" => ~ DownHas(s.viewer, type, s)'
    PROVE  InOrder(s)'
<1> USE AllTypes DEF Still, HostStays, ViewerStays, PagesStay, UpStays, UpHas, DownHas, Similar,
        Unheard, InOrder
<1>0. \A q, x : ~ Has(q, x) => Once(q, x) /\ \A y : Behind(q, x, y)
  BY DEF Has, Once, Behind
<1>1. Announced(s)'
  BY DEF Announced
<1>2. OfferedOnce(s)'
  BY <1>0 DEF OfferedOnce, OfferUnderway
<1>3. OfferFirst(s)'
  BY <1>0 DEF OfferFirst
<1>4. AnsweredOnce(s)'
  BY <1>0 DEF AnsweredOnce, AnswerUnderway
<1>5. AnswerFirst(s)'
  BY <1>0 DEF AnswerFirst, Awaited, OfferUnderway, AnswerUnderway
<1> QED BY <1>1, <1>2, <1>3, <1>4, <1>5

-----------------------------------------------------------------------------
(* What the pages do to the queues *)

\* The queues are queues of messages.
LEMMA Queues ==
    ASSUME TypeOK, Routed
    PROVE  /\ \A p \in Pages : up[p] \in Seq(Signal) /\ down[p] \in Seq(Signal)
           /\ DOMAIN up = Pages /\ DOMAIN down = Pages
           /\ Host \in Pages /\ Viewers \subseteq Pages /\ Host \notin Viewers
           /\ Sid \subseteq Session
           /\ \A s \in Session : s.viewer \in Viewers /\ s.viewer \in Pages /\ s.viewer # Host
<1>1. Host \in Pages /\ Viewers \subseteq Pages /\ Host \notin Viewers
  BY ViewersAssumption DEF Pages
<1>2. up \in [Pages -> Seq(Signal)] /\ DOMAIN down = Pages
  BY DEF TypeOK, UpTypeOK, DownTypeOK
<1>3. \A p \in Pages : down[p] \in Seq(Signal)
  BY DEF TypeOK, DownTypeOK, Routed, Pages
<1>4. Sid \subseteq Session
  BY BoundsAssumption DEF Sid, Session
<1>5. \A s \in Session : s.viewer \in Viewers
  BY DEF Session
<1> QED BY <1>1, <1>2, <1>3, <1>4, <1>5

\* Nobody begins to join, and nobody is new.
NoNewcomer ==
    \A v \in Viewers :
        /\ Once(up[v], [type |-> "join"]) => Once(up'[v], [type |-> "join"])
        /\ Joining(v)' => Joining(v)
        /\ page'[v] = "out" <=> page[v] = "out"

\* So the server may not open more than before.
LEMMA NoNewcomerJoins ==
    ASSUME Joins, NoNewcomer, UNCHANGED server
    PROVE  Joins' /\ \A s \in Sid : Unopened(s)' => Unopened(s)
BY DEF Joins, NoNewcomer, Unopened, Joining, Sid

\* A signal is sent by the end that it fits.
LEMMA SendIs ==
    ASSUME TypeOK, Routed, Joins, NEW p \in Pages, NEW msg \in Signal,
           msg.type # "join",
           msg.type \in SignalTypes => UpFits(p, msg.type, msg.sid),
           SendUp(p, msg), UNCHANGED <<page, down, server>>
    PROVE  /\ Routed' /\ Joins'
           /\ \A s \in Sid :
                 /\ Unopened(s)' => Unopened(s)
                 /\ PagesStay(s) /\ DownStays(Host, s) /\ DownStays(s.viewer, s)
                 /\ \A w \in {Host, s.viewer} : w # p => UpStays(w, s)
                 /\ (\A type \in SignalTypes : msg # Msg(type, s)) => UpStays(p, s)
                 /\ \A type \in SignalTypes : msg = Msg(type, s) =>
                       IF Present(p) THEN Pushed(up[p], up'[p], type, s) ELSE UpStays(p, s)
           /\ Stopping => Stopping'
           /\ p = Host /\ msg = [type |-> "stopshare"] /\ Present(Host) => Stopping'
<1>1. PICK q \in Seq(Signal) : q = up[p]
  BY Queues
<1>2. PICK r : r = Append(q, msg)
  OBVIOUS
<1>3. /\ r \in Seq(Signal)
      /\ \A x : Has(r, x) <=> Has(q, x) \/ x = msg
      /\ \A x : Once(q, x) /\ (x = msg => ~ Has(q, x)) => Once(r, x)
  BY <1>2, AppendedHas
<1>4. /\ up' = [up EXCEPT ![p] = IF Present(p) THEN r ELSE q]
      /\ UNCHANGED <<page, down, server>>
  BY <1>1, <1>2 DEF SendUp, Present
<1>5. /\ \A w \in Pages : w # p => up'[w] = up[w]
      /\ Present(p) => up'[p] = r
      /\ ~ Present(p) => up'[p] = q
      /\ \A w \in Pages : Present(w)' <=> Present(w)
  BY <1>4, Queues DEF Present
<1>6. Routed'
  <2>1. ASSUME NEW w \in Pages, NEW type \in SignalTypes, NEW s \in Session
        PROVE  /\ UpHas(w, type, s)' => UpFits(w, type, s)
               /\ DownHas(w, type, s)' => DownFits(w, type, s)
    <3>1. Msg(type, s) = msg => UpFits(p, type, s)
      BY MsgIs
    <3>2. UpHas(w, type, s)' => UpHas(w, type, s) \/ (w = p /\ Msg(type, s) = msg)
      BY <1>1, <1>3, <1>5 DEF UpHas
    <3>3. DownHas(w, type, s)' => DownHas(w, type, s)
      BY <1>4 DEF DownHas
    <3> QED BY <3>1, <3>2, <3>3 DEF Routed
  <2>2. /\ down'[Host] \in Seq(Signal)
        /\ \A w \in Pages : ~ Present(w)' => down'[w] = << >>
    BY <1>4, <1>5 DEF Routed
  <2> QED BY <2>1, <2>2 DEF Routed, UpFits, DownFits
<1>7. [type |-> "join"] # msg
  OBVIOUS
<1>8. NoNewcomer
  BY <1>1, <1>3, <1>4, <1>5, <1>7, Queues DEF NoNewcomer, Joining
<1>9. Joins' /\ \A s \in Sid : Unopened(s)' => Unopened(s)
  BY <1>4, <1>8, NoNewcomerJoins
<1>10. ASSUME NEW s \in Sid
       PROVE  /\ PagesStay(s) /\ DownStays(Host, s) /\ DownStays(s.viewer, s)
              /\ \A w \in {Host, s.viewer} : w # p => UpStays(w, s)
  BY <1>4, <1>5, SameSimilar, Queues DEF PagesStay, DownStays, UpStays, Present
<1>11. ASSUME NEW s \in Sid, \A type \in SignalTypes : msg # Msg(type, s)
       PROVE  UpStays(p, s)
  <2>1. Similar(q, r, s)
    BY <1>2, <1>11, AppendedSimilar
  <2> QED BY <1>1, <1>5, <2>1, SameSimilar DEF UpStays
<1>12. ASSUME NEW s \in Sid, NEW type \in SignalTypes, msg = Msg(type, s)
       PROVE  IF Present(p) THEN Pushed(up[p], up'[p], type, s) ELSE UpStays(p, s)
  <2>1. Pushed(q, r, type, s)
    BY <1>2, <1>12, AppendedPushed
  <2> QED BY <1>1, <1>5, <2>1, SameSimilar DEF UpStays
<1>13. /\ Stopping => Stopping'
       /\ p = Host /\ msg = [type |-> "stopshare"] /\ Present(Host) => Stopping'
  BY <1>1, <1>3, <1>5, Queues DEF Stopping
<1> QED BY <1>6, <1>9, <1>10, <1>11, <1>12, <1>13

\* A message is taken off the queue of p.
LEMMA TakeIs ==
    ASSUME TypeOK, Routed, Joins, NEW p \in Pages, down[p] # << >>,
           Taken(p), UNCHANGED <<up, server>>,
           \A w \in Pages : page'[w] # page[w] => page[w] = "joining" /\ page'[w] = "in"
    PROVE  /\ Routed' /\ Joins'
           /\ Head(down[p]) \in Signal
           /\ \A s \in Sid :
                 /\ Unopened(s)' => Unopened(s)
                 /\ PagesStay(s) /\ UpStays(Host, s) /\ UpStays(s.viewer, s)
                 /\ \A w \in {Host, s.viewer} : w # p => DownStays(w, s)
                 /\ (\A type \in SignalTypes : Head(down[p]) # Msg(type, s)) => DownStays(p, s)
                 /\ \A type \in SignalTypes : Head(down[p]) = Msg(type, s) =>
                       /\ Popped(down[p], down'[p], type, s)
                       /\ DownHas(p, type, s) /\ DownFits(p, type, s)
           /\ Stopping => Stopping'
<1>1. PICK q \in Seq(Signal) : q = down[p] /\ q # << >>
  BY Queues
<1>2. PICK r, msg : r = Tail(q) /\ msg = Head(q)
  OBVIOUS
<1>3. /\ r \in Seq(Signal) /\ msg \in Signal
      /\ \A x : Has(q, x) <=> Has(r, x) \/ x = msg
  BY <1>1, <1>2, RestHas
<1>4. down' = [down EXCEPT ![p] = r] /\ UNCHANGED <<up, server>>
  BY <1>1, <1>2 DEF Taken
<1>5. /\ \A w \in Pages : w # p => down'[w] = down[w]
      /\ down'[p] = r
      /\ \A w \in Pages : Present(w)' <=> Present(w)
      /\ \A w \in Pages : page'[w] = "out" <=> page[w] = "out"
  BY <1>4, Queues DEF Present
<1>6. Routed'
  <2>1. ASSUME NEW w \in Pages, NEW type \in SignalTypes, NEW s \in Session
        PROVE  /\ UpHas(w, type, s)' => UpHas(w, type, s)
               /\ DownHas(w, type, s)' => DownHas(w, type, s)
    BY <1>1, <1>3, <1>4, <1>5 DEF UpHas, DownHas
  <2>2. /\ down'[Host] \in Seq(Signal)
        /\ \A w \in Pages : ~ Present(w)' => down'[w] = << >>
    <3>1. Present(p)
      BY <1>1 DEF Routed
    <3>2. Host \in Pages
      BY DEF Pages
    <3> QED BY <1>3, <1>5, <3>1, <3>2 DEF Routed
  <2> QED BY <2>1, <2>2 DEF Routed, UpFits, DownFits
<1>7. NoNewcomer
  BY <1>4, <1>5, Queues DEF NoNewcomer, Joining
<1>8. Joins' /\ \A s \in Sid : Unopened(s)' => Unopened(s)
  BY <1>4, <1>7, NoNewcomerJoins
<1>9. ASSUME NEW s \in Sid
      PROVE  /\ PagesStay(s) /\ UpStays(Host, s) /\ UpStays(s.viewer, s)
             /\ \A w \in {Host, s.viewer} : w # p => DownStays(w, s)
  BY <1>4, <1>5, SameSimilar, Queues DEF PagesStay, DownStays, UpStays
<1>10. ASSUME NEW s \in Sid, \A type \in SignalTypes : msg # Msg(type, s)
       PROVE  DownStays(p, s)
  <2>1. Similar(q, r, s)
    BY <1>1, <1>2, <1>10, RestSimilar
  <2> QED BY <1>1, <1>5, <2>1 DEF DownStays
<1>11. ASSUME NEW s \in Sid, NEW type \in SignalTypes, msg = Msg(type, s)
       PROVE  /\ Popped(down[p], down'[p], type, s)
              /\ DownHas(p, type, s) /\ DownFits(p, type, s)
  <2>1. Popped(q, r, type, s)
    BY <1>1, <1>2, <1>11, RestPopped
  <2>2. DownHas(p, type, s)
    BY <1>1, <1>3, <1>11 DEF DownHas
  <2>3. s \in Session
    BY Queues
  <2> QED BY <1>1, <1>5, <2>1, <2>2, <2>3 DEF Routed
<1>12. Stopping => Stopping'
  BY <1>4 DEF Stopping
<1> QED BY <1>1, <1>2, <1>3, <1>6, <1>8, <1>9, <1>10, <1>11, <1>12

\* The socket of p is gone.
LEMMA HangUpIs ==
    ASSUME TypeOK, Routed, Joins, NEW p \in Pages, page[p] # "out", HangUp(p, down),
           UNCHANGED server
    PROVE  /\ Routed' /\ Joins'
           /\ ~ Present(p)' /\ down'[p] = << >>
           /\ \A w \in Pages : w # p =>
                 (Present(w)' <=> Present(w)) /\ up'[w] = up[w] /\ down'[w] = down[w]
           /\ \A s \in Sid : (Unopened(s)' => Unopened(s)) /\ Cut(up[p], up'[p], s)
<1>1. PICK q \in Seq(Signal) : q = up[p]
  BY Queues
<1>2. PICK n, msg, r :
         /\ n \in 0 .. Len(q)
         /\ msg = [type |-> "disconnected"]
         /\ r = CutAt(q, n, msg)
         /\ up' = [up EXCEPT ![p] = r]
  BY <1>1, Queues DEF HangUp, CutAt
<1>3. msg \in Signal /\ msg # [type |-> "join"]
  BY <1>2 DEF Signal
<1>4. /\ r \in Seq(Signal)
      /\ \A x : x # msg /\ Has(r, x) => Has(q, x)
      /\ \A x : x # msg /\ Once(q, x) => Once(r, x)
      /\ \A x, y : x # msg /\ Behind(q, x, y) => Behind(r, x, y)
  BY <1>2, <1>3, CutHas
<1>5. /\ page' = [page EXCEPT ![p] = "gone"]
      /\ down' = [down EXCEPT ![p] = << >>]
  BY DEF HangUp
<1>6. /\ \A w \in Pages : w # p =>
            page'[w] = page[w] /\ up'[w] = up[w] /\ down'[w] = down[w]
      /\ page'[p] = "gone" /\ up'[p] = r /\ down'[p] = << >>
  BY <1>2, <1>5, Queues DEF TypeOK
<1>7. \A type \in SignalTypes : \A s : Msg(type, s) # msg
  BY <1>2 DEF Msg, SignalTypes
<1>8. Routed'
  <2>1. ASSUME NEW w \in Pages, NEW type \in SignalTypes, NEW s \in Session
        PROVE  /\ UpHas(w, type, s)' => UpHas(w, type, s)
               /\ DownHas(w, type, s)' => DownHas(w, type, s)
    BY <1>1, <1>4, <1>6, <1>7, EmptyHas DEF UpHas, DownHas
  <2>2. << >> \in Seq(Signal) /\ Host \in Pages
    BY DEF Pages
  <2>3. /\ down'[Host] \in Seq(Signal)
        /\ \A w \in Pages : ~ Present(w)' => down'[w] = << >>
    BY <1>6, <2>2 DEF Routed, Present
  <2> QED BY <2>1, <2>3 DEF Routed, UpFits, DownFits
<1>9. NoNewcomer
  BY <1>1, <1>3, <1>4, <1>6, Queues DEF NoNewcomer, Joining
<1>10. Joins' /\ \A s \in Sid : Unopened(s)' => Unopened(s)
  BY <1>9, NoNewcomerJoins
<1>11. ASSUME NEW s \in Sid
       PROVE  Cut(up[p], up'[p], s)
  BY <1>1, <1>4, <1>6, <1>7 DEF Cut
<1> QED BY <1>6, <1>8, <1>10, <1>11 DEF Present

-----------------------------------------------------------------------------
(* The pages *)

\* What is to be shown of a step that does not open or end a session
LEMMA StepKeeps ==
    ASSUME SignalsInv, Routed', Joins', UNCHANGED server,
           \A s \in Sid :
              /\ Unopened(s)' => Unopened(s)
              /\ Unheard(s) => Unheard(s)'
              /\ InOrder(s) => InOrder(s)'
    PROVE  SignalsInv'
BY DEF SignalsInv, Accounted

\* A page sends a signal about t.
LEMMA SentKeeps ==
    ASSUME TypeOK, SignalsInv, NEW p \in Pages, NEW t \in Sid,
           NEW type \in {"offer", "answer", "hostice", "clientice"},
           p = IF type \in {"offer", "hostice"} THEN Host ELSE t.viewer,
           SendUp(p, Msg(type, t)), UNCHANGED <<page, down, server>>,
           ~ Unheard(t),
           \A s \in Sid : s # t => HostStays(s) /\ ViewerStays(s),
           /\ InOrder(t) /\ (Stopping => Stopping') /\ PagesStay(t)
           /\ DownStays(Host, t) /\ DownStays(t.viewer, t)
           /\ \A w \in {Host, t.viewer} : w # p => UpStays(w, t)
           /\ IF Present(p) THEN Pushed(up[p], up'[p], type, t) ELSE UpStays(p, t)
           => InOrder(t)'
    PROVE  SignalsInv'
<1>1. Routed /\ Joins
  BY DEF SignalsInv
<1>2. type \in SignalTypes /\ t \in Session
  BY Queues, <1>1 DEF SignalTypes
<1>3. PICK msg \in Signal : msg = Msg(type, t)
  BY <1>2, MsgIs
<1>4. msg.type = type /\ msg.sid = t
  BY <1>3, MsgIs
<1>5. UpFits(p, type, t)
  BY DEF UpFits
<1>6. msg.type # "join" /\ (msg.type \in SignalTypes => UpFits(p, msg.type, msg.sid))
  BY <1>4, <1>5
<1>7. SendUp(p, msg)
  BY <1>3
<1>8. /\ Routed' /\ Joins'
      /\ \A s \in Sid :
            /\ Unopened(s)' => Unopened(s)
            /\ PagesStay(s) /\ DownStays(Host, s) /\ DownStays(s.viewer, s)
            /\ \A w \in {Host, s.viewer} : w # p => UpStays(w, s)
            /\ (\A k \in SignalTypes : msg # Msg(k, s)) => UpStays(p, s)
            /\ \A k \in SignalTypes : msg = Msg(k, s) =>
                  IF Present(p) THEN Pushed(up[p], up'[p], k, s) ELSE UpStays(p, s)
      /\ Stopping => Stopping'
  BY <1>1, <1>6, <1>7, SendIs
<1>9. ASSUME NEW s \in Sid
      PROVE  /\ Unheard(s) => Unheard(s)'
             /\ InOrder(s) => InOrder(s)'
  <2>1. CASE s = t
    BY <1>2, <1>3, <1>8, <2>1
  <2>2. CASE s # t
    <3>1. \A k \in SignalTypes : msg # Msg(k, s)
      BY <1>3, <2>2, MsgIs
    <3>2. Calm(s)
      BY <1>8, <2>2, <3>1 DEF Calm, Still
    <3>3. Unheard(s) => s \notin server'.sessions
      BY DEF Unheard
    <3> QED BY <1>8, <3>2, <3>3, CalmUnheard, CalmOrder
  <2> QED BY <2>1, <2>2
<1> QED BY <1>8, <1>9, StepKeeps

\* A page takes a signal about t.
LEMMA TakenKeeps ==
    ASSUME TypeOK, SignalsInv, NEW p \in Pages, NEW type \in SignalTypes, NEW t \in Session,
           down[p] # << >>, Head(down[p]) = Msg(type, t),
           Taken(p), UNCHANGED <<page, up, server>>,
           \A s \in Sid : s # t => HostStays(s) /\ ViewerStays(s),
           /\ t \in Sid /\ InOrder(t) /\ (Stopping => Stopping') /\ PagesStay(t)
           /\ DownHas(p, type, t) /\ DownFits(p, type, t)
           /\ UpStays(Host, t) /\ UpStays(t.viewer, t)
           /\ \A w \in {Host, t.viewer} : w # p => DownStays(w, t)
           /\ Popped(down[p], down'[p], type, t)
           => InOrder(t)'
    PROVE  SignalsInv'
<1>1. Routed /\ Joins
  BY DEF SignalsInv
<1>2. PICK msg : msg = Head(down[p]) /\ msg = Msg(type, t)
  OBVIOUS
<1>3. /\ Routed' /\ Joins'
      /\ \A s \in Sid :
            /\ Unopened(s)' => Unopened(s)
            /\ PagesStay(s) /\ UpStays(Host, s) /\ UpStays(s.viewer, s)
            /\ \A w \in {Host, s.viewer} : w # p => DownStays(w, s)
            /\ (\A k \in SignalTypes : msg # Msg(k, s)) => DownStays(p, s)
            /\ \A k \in SignalTypes : msg = Msg(k, s) =>
                  /\ Popped(down[p], down'[p], k, s)
                  /\ DownHas(p, k, s) /\ DownFits(p, k, s)
      /\ Stopping => Stopping'
  BY <1>1, <1>2, TakeIs
<1>4. ASSUME NEW s \in Sid
      PROVE  /\ Unheard(s) => Unheard(s)'
             /\ InOrder(s) => InOrder(s)'
  <2>1. CASE s = t
    <3>1. DownHas(p, type, s) /\ DownFits(p, type, s) /\ Popped(down[p], down'[p], type, s)
      BY <1>2, <1>3, <2>1
    <3>2. p \in {Host, s.viewer}
      BY <3>1 DEF DownFits, SignalTypes
    <3>3. ~ Unheard(s)
      BY <3>1, <3>2 DEF Unheard
    <3> QED BY <1>3, <2>1, <3>1, <3>3
  <2>2. CASE s # t
    <3>1. \A k \in SignalTypes : msg # Msg(k, s)
      BY <1>2, <2>2, MsgIs
    <3>2. Calm(s)
      BY <1>3, <2>2, <3>1 DEF Calm, Still
    <3>3. Unheard(s) => s \notin server'.sessions
      BY DEF Unheard
    <3> QED BY <1>3, <3>2, <3>3, CalmUnheard, CalmOrder
  <2> QED BY <2>1, <2>2
<1> QED BY <1>3, <1>4, StepKeeps

\* Only the peers of t change.
LEMMA QuietKeeps ==
    ASSUME TypeOK, SignalsInv, NEW t \in Sid, UNCHANGED <<page, up, down, server>>,
           ~ Unheard(t),
           \A s \in Sid : s # t => HostStays(s) /\ ViewerStays(s),
           /\ InOrder(t) /\ (Stopping => Stopping') /\ PagesStay(t)
           /\ UpStays(Host, t) /\ UpStays(t.viewer, t)
           /\ DownStays(Host, t) /\ DownStays(t.viewer, t)
           => InOrder(t)'
    PROVE  SignalsInv'
<1>1. Routed' /\ Joins' /\ (Stopping => Stopping')
  BY DEF SignalsInv, Routed, Joins, Present, UpHas, DownHas, UpFits, DownFits, Joining,
         Stopping
<1>2. \A s \in Sid : Unopened(s)' => Unopened(s)
  BY DEF Unopened, Joining
<1>3. \A s \in Sid :
         /\ PagesStay(s) /\ UpStays(Host, s) /\ UpStays(s.viewer, s)
         /\ DownStays(Host, s) /\ DownStays(s.viewer, s)
  BY SameSimilar DEF PagesStay, UpStays, DownStays, Present
<1>4. ASSUME NEW s \in Sid
      PROVE  /\ Unheard(s) => Unheard(s)'
             /\ InOrder(s) => InOrder(s)'
  <2>1. CASE s = t
    BY <1>1, <1>3, <2>1
  <2>2. CASE s # t
    <3>1. Calm(s)
      BY <1>3, <2>2 DEF Calm, Still
    <3>2. Unheard(s) => s \notin server'.sessions
      BY DEF Unheard
    <3> QED BY <1>1, <3>1, <3>2, CalmUnheard, CalmOrder
  <2> QED BY <2>1, <2>2
<1> QED BY <1>1, <1>2, <1>4, StepKeeps

\* A message that arrives
LEMMA ArrivesIs ==
    ASSUME TypeOK, SignalsInv, NEW p \in Pages, NEW type \in SignalTypes, Arrives(p, type)
    PROVE  /\ down[p] # << >>
           /\ \E t \in Session : Head(down[p]) = Msg(type, t) /\ Head(down[p]).sid = t
<1>1. PICK q \in Seq(Signal) : q = down[p] /\ q # << >> /\ Head(q).type = type
  BY Queues DEF SignalsInv, Arrives
<1>2. PICK m \in Signal : m = Head(q)
  BY <1>1, Rest
<1>3. m.sid \in Session /\ m = Msg(type, m.sid)
  BY <1>1, <1>2, MsgIs
<1> QED BY <1>1, <1>2, <1>3

\* The host takes a message.
LEMMA HostTakesInOrder ==
    ASSUME TypeOK, SignalsInv, HostReceives
    PROVE  SignalsInv'
<1>1. Host \in Pages /\ hostPeer \in [Sid -> HostStates]
  BY DEF Pages, TypeOK
<1>2. /\ "hostsession" \in SignalTypes /\ "answer" \in SignalTypes
      /\ "clientice" \in SignalTypes /\ "endshare" \in SignalTypes
  BY DEF SignalTypes
<1>3. CASE TakeHostSession
  <2>1. PICK t \in Session :
           /\ Head(down[Host]) = Msg("hostsession", t) /\ Head(down[Host]).sid = t
           /\ down[Host] # << >>
    BY <1>1, <1>2, <1>3, ArrivesIs DEF TakeHostSession
  <2>2. /\ Taken(Host) /\ UNCHANGED <<page, up, server, registered, viewerPeer>>
        /\ hostPeer' = IF stream = 0 THEN hostPeer ELSE [hostPeer EXCEPT ![t] = "offering"]
    BY <1>3, <2>1 DEF TakeHostSession, ViewerSide
  <2>3. /\ \A s \in Sid : s # t => HostStays(s) /\ ViewerStays(s)
        /\ t \in Sid => /\ hostPeer'[t] \in {hostPeer[t], "offering"}
                        /\ t \in registered' <=> t \in registered
                        /\ ViewerStays(t)
    BY <1>1, <2>2 DEF HostStays, ViewerStays
  <2>4. t \in Sid => t.viewer # Host
    BY ViewersAssumption DEF Sid
  <2> QED BY <1>1, <1>2, <2>1, <2>2, <2>3, <2>4, TakenKeeps, HostSessionTaken
<1>4. CASE TakeAnswer
  <2>1. PICK t \in Session :
           /\ Head(down[Host]) = Msg("answer", t) /\ Head(down[Host]).sid = t
           /\ down[Host] # << >>
    BY <1>1, <1>2, <1>4, ArrivesIs DEF TakeAnswer
  <2>2. /\ Taken(Host) /\ UNCHANGED <<page, up, server, registered, viewerPeer>>
        /\ hostPeer' = IF t \in registered /\ hostPeer[t] = "offered"
                       THEN [hostPeer EXCEPT ![t] = "answered"] ELSE hostPeer
    BY <1>4, <2>1 DEF TakeAnswer, ViewerSide
  <2>3. /\ \A s \in Sid : s # t => HostStays(s) /\ ViewerStays(s)
        /\ t \in Sid => /\ hostPeer'[t] = IF t \in registered /\ hostPeer[t] = "offered"
                                          THEN "answered" ELSE hostPeer[t]
                        /\ t \in registered' <=> t \in registered
                        /\ ViewerStays(t)
    BY <1>1, <2>2 DEF HostStays, ViewerStays
  <2>4. t \in Sid => t.viewer # Host
    BY ViewersAssumption DEF Sid
  <2> QED BY <1>1, <1>2, <2>1, <2>2, <2>3, <2>4, TakenKeeps, AnswerTaken
<1>5. CASE TakeClientICE
  <2>1. PICK t \in Session :
           Head(down[Host]) = Msg("clientice", t) /\ down[Host] # << >>
    BY <1>1, <1>2, <1>5, ArrivesIs DEF TakeClientICE
  <2>2. /\ Taken(Host) /\ UNCHANGED <<page, up, server, hostPeer, registered, viewerPeer>>
    BY <1>5, <2>1 DEF TakeClientICE, HostSide, ViewerSide
  <2>3. \A s \in Sid : HostStays(s) /\ ViewerStays(s)
    BY <2>2 DEF HostStays, ViewerStays
  <2>4. t \in Sid => t.viewer # Host
    BY ViewersAssumption DEF Sid
  <2> QED BY <1>1, <1>2, <2>1, <2>2, <2>3, <2>4, TakenKeeps, ClientICETaken DEF Still
<1>6. CASE HostTakesEndShare
  <2>1. PICK t \in Session :
           /\ Head(down[Host]) = Msg("endshare", t) /\ Head(down[Host]).sid = t
           /\ down[Host] # << >>
    BY <1>1, <1>2, <1>6, ArrivesIs DEF HostTakesEndShare
  <2>2. /\ Taken(Host) /\ UNCHANGED <<page, up, server, registered, viewerPeer>>
        /\ hostPeer' = IF t \in registered THEN [hostPeer EXCEPT ![t] = "closed"]
                       ELSE hostPeer
    BY <1>6, <2>1 DEF HostTakesEndShare, ViewerSide
  <2>3. \A s \in Sid : s # t => HostStays(s) /\ ViewerStays(s)
    BY <1>1, <2>2 DEF HostStays, ViewerStays
  <2>4. ~ (InOrder(t) /\ DownHas(Host, "endshare", t))
    BY DEF InOrder, Announced
  <2> QED BY <1>1, <1>2, <2>1, <2>2, <2>3, <2>4, TakenKeeps
<1> QED BY <1>3, <1>4, <1>5, <1>6 DEF HostReceives

\* A viewer takes a message.
LEMMA ViewerTakesInOrder ==
    ASSUME TypeOK, SignalsInv, NEW v \in Viewers,
           TakeClientSession(v) \/ TakeOffer(v) \/ TakeHostICE(v) \/ TakeEndShare(v)
    PROVE  SignalsInv'
<1>1. v \in Pages /\ v # Host /\ viewerPeer \in [Sid -> ViewerStates]
  BY ViewersAssumption DEF Pages, TypeOK
<1>2. /\ "clientsession" \in SignalTypes /\ "offer" \in SignalTypes
      /\ "hostice" \in SignalTypes /\ "endshare" \in SignalTypes
  BY DEF SignalTypes
<1>3. CASE TakeClientSession(v)
  <2>1. PICK t \in Session :
           /\ Head(down[v]) = Msg("clientsession", t) /\ Head(down[v]).sid = t
           /\ down[v] # << >>
    BY <1>1, <1>2, <1>3, ArrivesIs DEF TakeClientSession
  <2>2. /\ Taken(v) /\ UNCHANGED <<page, up, server, hostPeer, registered>>
        /\ viewerPeer' = [viewerPeer EXCEPT ![t] = "new"]
    BY <1>3, <2>1 DEF TakeClientSession, HostSide
  <2>3. /\ \A s \in Sid : s # t => HostStays(s) /\ ViewerStays(s)
        /\ t \in Sid => HostStays(t) /\ viewerPeer'[t] = "new"
    BY <1>1, <2>2 DEF HostStays, ViewerStays
  <2>4. DownFits(v, "clientsession", t) => t.viewer = v
    BY DEF DownFits
  <2> QED BY <1>1, <1>2, <2>1, <2>2, <2>3, <2>4, TakenKeeps, ClientSessionTaken
<1>4. CASE TakeOffer(v)
  <2>1. PICK t \in Session :
           /\ Head(down[v]) = Msg("offer", t) /\ Head(down[v]).sid = t
           /\ down[v] # << >>
    BY <1>1, <1>2, <1>4, ArrivesIs DEF TakeOffer
  <2>2. /\ Taken(v) /\ UNCHANGED <<page, up, server, hostPeer, registered>>
        /\ viewerPeer' = IF viewerPeer[t] = "new"
                         THEN [viewerPeer EXCEPT ![t] = "applying"] ELSE viewerPeer
    BY <1>4, <2>1 DEF TakeOffer, HostSide
  <2>3. /\ \A s \in Sid : s # t => HostStays(s) /\ ViewerStays(s)
        /\ t \in Sid => /\ HostStays(t)
                        /\ viewerPeer'[t] = IF viewerPeer[t] = "new" THEN "applying"
                                            ELSE viewerPeer[t]
    BY <1>1, <2>2 DEF HostStays, ViewerStays
  <2>4. DownFits(v, "offer", t) => t.viewer = v
    BY DEF DownFits
  <2> QED BY <1>1, <1>2, <2>1, <2>2, <2>3, <2>4, TakenKeeps, OfferTaken
<1>5. CASE TakeHostICE(v)
  <2>1. PICK t \in Session : Head(down[v]) = Msg("hostice", t) /\ down[v] # << >>
    BY <1>1, <1>2, <1>5, ArrivesIs DEF TakeHostICE
  <2>2. Taken(v) /\ UNCHANGED <<page, up, server, hostPeer, registered, viewerPeer>>
    BY <1>5, <2>1 DEF TakeHostICE, HostSide, ViewerSide
  <2>3. \A s \in Sid : HostStays(s) /\ ViewerStays(s)
    BY <2>2 DEF HostStays, ViewerStays
  <2>4. DownFits(v, "hostice", t) => t.viewer = v
    BY DEF DownFits
  <2> QED BY <1>1, <1>2, <2>1, <2>2, <2>3, <2>4, TakenKeeps, HostICETaken DEF Still
<1>6. CASE TakeEndShare(v)
  <2>1. PICK t \in Session :
           /\ Head(down[v]) = Msg("endshare", t) /\ Head(down[v]).sid = t
           /\ down[v] # << >>
    BY <1>1, <1>2, <1>6, ArrivesIs DEF TakeEndShare
  <2>2. /\ Taken(v) /\ UNCHANGED <<page, up, server, hostPeer, registered>>
        /\ viewerPeer' = [viewerPeer EXCEPT ![t] = "closed"]
    BY <1>6, <2>1 DEF TakeEndShare, CloseView, HostSide
  <2>3. \A s \in Sid : s # t => HostStays(s) /\ ViewerStays(s)
    BY <1>1, <2>2 DEF HostStays, ViewerStays
  <2>4. ~ (InOrder(t) /\ DownHas(v, "endshare", t) /\ DownFits(v, "endshare", t))
    BY <1>1 DEF InOrder, Announced, DownFits
  <2> QED BY <1>1, <1>2, <2>1, <2>2, <2>3, <2>4, TakenKeeps
<1> QED BY <1>3, <1>4, <1>5, <1>6

\* The peers of the host
LEMMA HostPeersInOrder ==
    ASSUME TypeOK, SignalsInv, NEW t \in Sid,
           OfferReady(t) \/ HostCandidate(t) \/ HostFails(t)
    PROVE  SignalsInv'
<1>1. Host \in Pages /\ hostPeer \in [Sid -> HostStates] /\ t.viewer # Host
  BY ViewersAssumption DEF Pages, TypeOK, Sid
<1>2. hostPeer[t] # "none" => ~ Unheard(t)
  BY DEF Unheard
<1>3. CASE OfferReady(t)
  <2>1. /\ hostPeer[t] = "offering" /\ hostPeer' = [hostPeer EXCEPT ![t] = "offered"]
        /\ registered' = registered \cup {t} /\ SendUp(Host, Msg("offer", t))
        /\ UNCHANGED <<page, down, server, viewerPeer>>
    BY <1>3 DEF OfferReady, ViewerSide, Msg
  <2>2. /\ \A s \in Sid : s # t => HostStays(s) /\ ViewerStays(s)
        /\ ViewerStays(t) /\ t \in registered' /\ hostPeer'[t] = "offered"
    BY <1>1, <2>1 DEF HostStays, ViewerStays
  <2> QED BY <1>1, <1>2, <2>1, <2>2, SentKeeps, OfferSent
<1>4. CASE HostCandidate(t)
  <2>1. /\ hostPeer[t] \in {"offered", "answered"} /\ SendUp(Host, Msg("hostice", t))
        /\ UNCHANGED <<page, down, server, hostPeer, registered, viewerPeer>>
    BY <1>4 DEF HostCandidate, HostSide, ViewerSide, Msg
  <2>2. \A s \in Sid : HostStays(s) /\ ViewerStays(s)
    BY <2>1 DEF HostStays, ViewerStays
  <2> QED BY <1>1, <1>2, <2>1, <2>2, SentKeeps, HostICESent DEF Still
<1>5. CASE HostFails(t)
  <2>1. /\ hostPeer[t] = "answered" /\ hostPeer' = [hostPeer EXCEPT ![t] = "closed"]
        /\ registered' = registered \ {t}
        /\ UNCHANGED <<page, up, down, server, viewerPeer>>
    BY <1>5 DEF HostFails, ViewerSide
  <2>2. /\ \A s \in Sid : s # t => HostStays(s) /\ ViewerStays(s)
        /\ ViewerStays(t) /\ hostPeer'[t] = "closed"
    BY <1>1, <2>1 DEF HostStays, ViewerStays
  <2> QED BY <1>1, <1>2, <2>1, <2>2, QuietKeeps, HostFailed
<1> QED BY <1>3, <1>4, <1>5

\* The peers of the viewers
LEMMA ViewerPeersInOrder ==
    ASSUME TypeOK, SignalsInv, NEW t \in Sid,
           Applied(t) \/ AnswerReady(t) \/ ViewerCandidate(t) \/ ViewerFails(t)
    PROVE  SignalsInv'
<1>1. t.viewer \in Pages /\ t.viewer # Host /\ viewerPeer \in [Sid -> ViewerStates]
  BY ViewersAssumption DEF Pages, TypeOK, Sid
<1>2. viewerPeer[t] # "none" => ~ Unheard(t)
  BY DEF Unheard
<1>3. CASE Applied(t)
  <2>1. /\ viewerPeer[t] = "applying"
        /\ viewerPeer' = [viewerPeer EXCEPT ![t] = "answering"]
        /\ UNCHANGED <<page, up, down, server, hostPeer, registered>>
    BY <1>3 DEF Applied, HostSide
  <2>2. /\ \A s \in Sid : s # t => HostStays(s) /\ ViewerStays(s)
        /\ HostStays(t) /\ viewerPeer'[t] = "answering"
    BY <1>1, <2>1 DEF HostStays, ViewerStays
  <2> QED BY <1>1, <1>2, <2>1, <2>2, QuietKeeps, OfferApplied
<1>4. CASE AnswerReady(t)
  <2>1. /\ viewerPeer[t] = "answering"
        /\ viewerPeer' = [viewerPeer EXCEPT ![t] = "answered"]
        /\ SendUp(t.viewer, Msg("answer", t))
        /\ UNCHANGED <<page, down, server, hostPeer, registered>>
    BY <1>4 DEF AnswerReady, HostSide, Msg
  <2>2. /\ \A s \in Sid : s # t => HostStays(s) /\ ViewerStays(s)
        /\ HostStays(t) /\ viewerPeer'[t] = "answered"
    BY <1>1, <2>1 DEF HostStays, ViewerStays
  <2> QED BY <1>1, <1>2, <2>1, <2>2, SentKeeps, AnswerSent
<1>5. CASE ViewerCandidate(t)
  <2>1. /\ viewerPeer[t] = "answered" /\ SendUp(t.viewer, Msg("clientice", t))
        /\ UNCHANGED <<page, down, server, hostPeer, registered, viewerPeer>>
    BY <1>5 DEF ViewerCandidate, HostSide, ViewerSide, Msg
  <2>2. \A s \in Sid : HostStays(s) /\ ViewerStays(s)
    BY <2>1 DEF HostStays, ViewerStays
  <2> QED BY <1>1, <1>2, <2>1, <2>2, SentKeeps, ClientICESent DEF Still
<1>6. CASE ViewerFails(t)
  <2>1. /\ viewerPeer[t] = "answered"
        /\ viewerPeer' = [viewerPeer EXCEPT ![t] = "closed"]
        /\ UNCHANGED <<page, up, down, server, hostPeer, registered>>
    BY <1>6 DEF ViewerFails, Done, CloseView, HostSide
  <2>2. /\ \A s \in Sid : s # t => HostStays(s) /\ ViewerStays(s)
        /\ HostStays(t) /\ viewerPeer'[t] = "closed"
    BY <1>1, <2>1 DEF HostStays, ViewerStays
  <2> QED BY <1>1, <1>2, <2>1, <2>2, QuietKeeps, ViewerFailed
<1> QED BY <1>3, <1>4, <1>5, <1>6

\* The host begins and stops to share.
LEMMA SharingInOrder ==
    ASSUME TypeOK, SignalsInv, Share \/ StopShare
    PROVE  SignalsInv'
<1>1. PICK msg \in Signal :
         msg = IF StopShare THEN [type |-> "stopshare"] ELSE [type |-> "share"]
  <2>1. [type |-> "stopshare"] \in Signal /\ [type |-> "share"] \in Signal
    BY DEF Signal
  <2> QED BY <2>1
<1>2. /\ msg.type # "join" /\ msg.type \notin SignalTypes
      /\ \A type \in SignalTypes : \A s : msg # Msg(type, s)
  BY <1>1 DEF SignalTypes, Msg
<1>3. /\ SendUp(Host, msg) /\ UNCHANGED <<page, down, server, viewerPeer>>
      /\ StopShare \/ UNCHANGED <<hostPeer, registered>>
  BY <1>1 DEF Share, StopShare, ViewerSide
<1>4. Host \in Pages /\ Routed /\ Joins
  BY DEF Pages, SignalsInv
<1>5. /\ Routed' /\ Joins'
      /\ \A s \in Sid :
            /\ Unopened(s)' => Unopened(s)
            /\ PagesStay(s) /\ DownStays(Host, s) /\ DownStays(s.viewer, s)
            /\ \A w \in {Host, s.viewer} : w # Host => UpStays(w, s)
            /\ (\A type \in SignalTypes : msg # Msg(type, s)) => UpStays(Host, s)
      /\ Stopping => Stopping'
      /\ msg = [type |-> "stopshare"] /\ Present(Host) => Stopping'
  BY <1>2, <1>3, <1>4, SendIs
<1>6. \A s \in Sid : ViewerStays(s) /\ UpStays(Host, s) /\ UpStays(s.viewer, s)
  BY <1>2, <1>3, <1>5 DEF ViewerStays
<1>7. CASE UNCHANGED <<hostPeer, registered>>
  <2>1. \A s \in Sid : Calm(s)
    BY <1>5, <1>6, <1>7 DEF Calm, Still, HostStays
  <2>2. \A s \in Sid : Unheard(s) => s \notin server'.sessions
    BY <1>3 DEF Unheard
  <2> QED BY <1>3, <1>5, <2>1, <2>2, CalmUnheard, CalmOrder, StepKeeps
<1>8. CASE StopShare
  <2>1. /\ registered' = {}
        /\ \A s \in Sid : hostPeer'[s] = IF s \in registered THEN "closed" ELSE hostPeer[s]
        /\ Present(Host) => Stopping'
    BY <1>1, <1>5, <1>8 DEF StopShare, ClosePeers
  <2>2. ASSUME NEW s \in Sid
        PROVE  /\ Unheard(s) => Unheard(s)'
               /\ InOrder(s) => InOrder(s)'
    <3>1. InOrder(s) => InOrder(s)'
      BY <1>5, <1>6, <2>1, SharingStopped
    <3>2. ASSUME Unheard(s)
          PROVE  Unheard(s)'
      <4>1. Calm(s)
        BY <1>5, <1>6, <2>1, <3>2 DEF Calm, Still, HostStays, Unheard
      <4> QED BY <1>3, <3>2, <4>1, CalmUnheard DEF Unheard
    <3> QED BY <3>1, <3>2
  <2> QED BY <1>3, <1>5, <2>2, StepKeeps
<1> QED BY <1>3, <1>7, <1>8

\* A page enters.
LEMMA EnterInOrder ==
    ASSUME TypeOK, SignalsInv, NEW v \in Viewers, Enter(v)
    PROVE  SignalsInv'
<1>1. /\ page[v] = "out" /\ page' = [page EXCEPT ![v] = "joining"]
      /\ SendUp(v, [type |-> "join"])
      /\ UNCHANGED <<down, server, hostPeer, registered, viewerPeer>>
  BY DEF Enter, HostSide, ViewerSide
<1>2. PICK msg \in Signal : msg = [type |-> "join"]
  BY DEF Signal
<1>3. \A type \in SignalTypes : \A s : msg # Msg(type, s)
  BY <1>2 DEF SignalTypes, Msg
<1>4. v \in Pages /\ v # Host /\ Host \in Pages
  BY ViewersAssumption DEF Pages
<1>5. PICK q \in Seq(Signal) : q = up[v]
  BY <1>4, Queues DEF SignalsInv
<1>6. PICK r : r = Append(q, msg)
  OBVIOUS
<1>7. /\ r \in Seq(Signal)
      /\ \A x : Has(r, x) <=> Has(q, x) \/ x = msg
      /\ \A x : Once(q, x) /\ (x = msg => ~ Has(q, x)) => Once(r, x)
  BY <1>6, AppendedHas
<1>8. up' = [up EXCEPT ![v] = r]
  BY <1>1, <1>2, <1>5, <1>6 DEF SendUp
<1>9. DOMAIN up = Pages /\ DOMAIN page = Pages
  BY DEF TypeOK, UpTypeOK
<1>10. /\ \A w \in Pages : w # v => up'[w] = up[w] /\ page'[w] = page[w]
       /\ up'[v] = r /\ page'[v] = "joining"
       /\ \A w \in Pages : Present(w)' <=> Present(w)
  BY <1>1, <1>4, <1>8, <1>9 DEF Present
<1>11. Routed'
  <2>1. ASSUME NEW w \in Pages, NEW type \in SignalTypes, NEW s \in Session
        PROVE  /\ UpHas(w, type, s)' => UpHas(w, type, s)
               /\ DownHas(w, type, s)' => DownHas(w, type, s)
    BY <1>1, <1>3, <1>5, <1>7, <1>10 DEF UpHas, DownHas
  <2>2. /\ down'[Host] \in Seq(Signal)
        /\ \A w \in Pages : ~ Present(w)' => down'[w] = << >>
    BY <1>1, <1>10 DEF Routed, SignalsInv
  <2> QED BY <2>1, <2>2 DEF SignalsInv, Routed, UpFits, DownFits
<1>12. Joins'
  <2>1. Once(up'[v], msg)
    BY <1>1, <1>2, <1>5, <1>7, <1>10 DEF SignalsInv, Joins, Joining
  <2>2. v \notin server.members
    BY <1>1 DEF SignalsInv, Joins
  <2>3. ASSUME NEW w \in Viewers
        PROVE  /\ Once(up[w], [type |-> "join"])'
               /\ page'[w] = "out" \/ w \in server'.members => ~ Joining(w)'
               /\ w \in server'.members => page'[w] # "out"
    <3>1. CASE w = v
      BY <1>1, <1>2, <1>10, <2>1, <2>2, <3>1
    <3>2. CASE w # v
      BY <1>1, <1>10, <3>2 DEF SignalsInv, Joins, Joining, Pages
    <3> QED BY <3>1, <3>2
  <2> QED BY <1>1, <2>3 DEF SignalsInv, Joins
<1>13. ASSUME NEW s \in Sid
       PROVE  Calm(s) /\ (Unopened(s)' => Unopened(s))
  <2>1. s.viewer \in Pages
    BY DEF Sid, Pages
  <2>2. Similar(q, r, s)
    BY <1>3, <1>6, AppendedSimilar
  <2>3. UpStays(Host, s) /\ UpStays(s.viewer, s)
    BY <1>4, <1>5, <1>10, <2>1, <2>2, SameSimilar DEF UpStays
  <2>4. DownStays(Host, s) /\ DownStays(s.viewer, s)
    BY <1>1, SameSimilar DEF DownStays
  <2>5. Still(s)
    BY <1>1, <1>4, <1>10, <2>1 DEF Still, HostStays, ViewerStays, PagesStay
  <2>6. Unopened(s)' => Unopened(s)
    BY <1>1, <1>10, <2>1 DEF Unopened, Joining
  <2> QED BY <2>3, <2>4, <2>5, <2>6 DEF Calm
<1>14. Stopping => Stopping'
  BY <1>4, <1>10 DEF Stopping
<1>15. \A s \in Sid : Unheard(s) => s \notin server'.sessions
  BY <1>1 DEF Unheard
<1> QED BY <1>1, <1>11, <1>12, <1>13, <1>14, <1>15, CalmUnheard, CalmOrder, StepKeeps

\* The socket of a page is gone.
LEMMA HangUpInOrder ==
    ASSUME TypeOK, SignalsInv, NEW p \in Pages, page[p] # "out", HangUp(p, down),
           UNCHANGED <<server, hostPeer, registered, viewerPeer>>
    PROVE  SignalsInv'
<1>1. Routed /\ Joins /\ Host \in Pages
  BY DEF SignalsInv, Pages
<1>2. /\ Routed' /\ Joins'
      /\ ~ Present(p)' /\ down'[p] = << >>
      /\ \A w \in Pages : w # p =>
            (Present(w)' <=> Present(w)) /\ up'[w] = up[w] /\ down'[w] = down[w]
      /\ \A s \in Sid : (Unopened(s)' => Unopened(s)) /\ Cut(up[p], up'[p], s)
  BY <1>1, HangUpIs
<1>3. ASSUME NEW s \in Sid
      PROVE  /\ Unheard(s) => Unheard(s)'
             /\ InOrder(s) => InOrder(s)'
  <2>1. s.viewer \in Pages /\ s.viewer # Host
    BY ViewersAssumption DEF Sid, Pages
  <2>2. HostStays(s) /\ ViewerStays(s)
    BY DEF HostStays, ViewerStays
  <2>3. \A w \in {Host, s.viewer} : w # p => UpStays(w, s) /\ DownStays(w, s)
    BY <1>1, <1>2, <2>1, SameSimilar DEF UpStays, DownStays
  <2>4. Unheard(s) => Unheard(s)'
    <3>1. \A w \in {Host, s.viewer} : \A type \in SignalTypes :
             /\ UpHas(w, type, s)' => UpHas(w, type, s)
             /\ DownHas(w, type, s)' => DownHas(w, type, s)
      BY <1>1, <1>2, <2>1, EmptyHas DEF UpHas, DownHas, Cut
    <3> QED BY <3>1 DEF Unheard
  <2>5. InOrder(s) => InOrder(s)'
    <3>1. CASE p = Host
      BY <1>2, <2>1, <2>2, <2>3, <3>1, HostHungUp
    <3>2. CASE p = s.viewer
      <4>1. Stopping => Stopping'
        BY <1>1, <1>2, <2>1, <3>2 DEF Stopping
      <4> QED BY <1>1, <1>2, <2>1, <2>2, <2>3, <3>2, <4>1, ViewerHungUp
    <3>3. CASE p # Host /\ p # s.viewer
      <4>1. Stopping => Stopping'
        BY <1>1, <1>2, <3>3 DEF Stopping
      <4>2. PagesStay(s)
        BY <1>1, <1>2, <2>1, <3>3 DEF PagesStay
      <4>3. Calm(s)
        BY <2>2, <2>3, <3>3, <4>2 DEF Calm, Still
      <4> QED BY <4>1, <4>3, CalmOrder
    <3> QED BY <3>1, <3>2, <3>3
  <2> QED BY <2>4, <2>5
<1> QED BY <1>2, <1>3, StepKeeps

\* Losing the socket, and the first message
LEMMA ComingsInOrder ==
    ASSUME TypeOK, SignalsInv,
           \/ \E v \in Viewers : FirstMessage(v)
           \/ \E p \in Pages : Lose(p)
    PROVE  SignalsInv'
<1>1. ASSUME NEW p \in Pages, Lose(p)
      PROVE  SignalsInv'
  BY <1>1, HangUpInOrder DEF Lose, HostSide
<1>2. ASSUME NEW v \in Viewers, FirstMessage(v)
      PROVE  SignalsInv'
  <2>1. v \in Pages /\ page[v] = "joining" /\ down[v] # << >>
        /\ UNCHANGED <<server, hostPeer, registered, viewerPeer>>
    BY <1>2 DEF FirstMessage, HostSide, ViewerSide, Pages
  <2>2. CASE HangUp(v, down)
    BY <2>1, <2>2, HangUpInOrder
  <2>3. CASE /\ Arrives(v, "room") /\ page' = [page EXCEPT ![v] = "in"]
             /\ Taken(v) /\ UNCHANGED up
    <3>1. PICK msg : msg = Head(down[v]) /\ msg.type = "room"
      BY <2>3 DEF Arrives
    <3>2. \A type \in SignalTypes : \A s : msg # Msg(type, s)
      BY <3>1 DEF SignalTypes, Msg
    <3>3. \A w \in Pages : page'[w] # page[w] => page[w] = "joining" /\ page'[w] = "in"
      BY <2>1, <2>3 DEF TypeOK
    <3>4. Routed /\ Joins
      BY DEF SignalsInv
    <3>5. /\ Routed' /\ Joins'
          /\ \A s \in Sid :
                /\ Unopened(s)' => Unopened(s)
                /\ PagesStay(s) /\ UpStays(Host, s) /\ UpStays(s.viewer, s)
                /\ \A w \in {Host, s.viewer} : w # v => DownStays(w, s)
                /\ (\A type \in SignalTypes : msg # Msg(type, s)) => DownStays(v, s)
          /\ Stopping => Stopping'
      BY <2>1, <2>3, <3>1, <3>3, <3>4, TakeIs
    <3>6. \A s \in Sid : Calm(s) /\ (Unheard(s) => s \notin server'.sessions)
      BY <2>1, <3>2, <3>5 DEF Calm, Still, HostStays, ViewerStays, Unheard
    <3> QED BY <2>1, <3>5, <3>6, CalmUnheard, CalmOrder, StepKeeps
  <2> QED BY <1>2, <2>2, <2>3 DEF FirstMessage
<1> QED BY <1>1, <1>2

-----------------------------------------------------------------------------
(* The server *)

\* SetToSeq lists nothing twice.
LEMMA SetToSeqOnce ==
    ASSUME NEW S, IsFiniteSet(S)
    PROVE  /\ SetToSeq(S) \in Seq(S)
           /\ \A x : Once(SetToSeq(S), x)
           /\ \A x : Has(SetToSeq(S), x) <=> x \in S
<1> DEFINE n == Cardinality(S)
           f == SetToSeq(S)
<1>1. n \in Nat /\ ExistsBijection(1 .. n, S)
  BY FS_CardinalityType
<1>2. PICK g : g \in Bijection(1 .. n, S)
  BY <1>1 DEF ExistsBijection
<1>3. g \in [1 .. n -> S] /\ IsInjective(g)
  BY <1>2 DEF Bijection, Injection
<1>4. f \in [1 .. n -> S] /\ IsInjective(f)
  BY <1>3 DEF SetToSeq
<1>5. /\ f \in Seq(S) /\ DOMAIN f = 1 .. n
      /\ \A x \in S : \E i \in 1 .. n : f[i] = x
  BY SetToSeqLists
<1> HIDE DEF f
<1>6. \A x : Once(f, x)
  BY <1>4, <1>5 DEF IsInjective, Once
<1>7. \A x : Has(f, x) <=> x \in S
  BY <1>4, <1>5 DEF Has
<1> QED BY <1>5, <1>6, <1>7 DEF f

\* out tells the host and the viewers once of every session of sids, and of
\* nothing else.
ToldOnce(out, sids, toHost, toViewer) ==
    /\ DOMAIN out = Pages
    /\ \A p \in Pages : out[p] \in Seq(Signal) /\ \A x : Once(out[p], x)
    /\ \A x : Has(out[Host], x) <=> \E s \in sids : x = Msg(toHost, s)
    /\ \A v \in Viewers : \A x :
          Has(out[v], x) <=> \E s \in sids : s.viewer = v /\ x = Msg(toViewer, s)

\* That, too, is what Tell does.
LEMMA TellOnce ==
    ASSUME NEW sids, sids \subseteq Session, IsFiniteSet(sids),
           NEW toHost \in SignalTypes, NEW toViewer \in SignalTypes,
           NEW out, out = Tell(sids, toHost, toViewer)
    PROVE  ToldOnce(out, sids, toHost, toViewer)
<1>1. DOMAIN out = Pages /\ Host \in Pages
  BY DEF Tell, Pages
<1>2. /\ out[Host] \in Seq(Signal)
      /\ \A x : Once(out[Host], x)
      /\ \A x : Has(out[Host], x) <=> \E s \in sids : x = Msg(toHost, s)
  <2>1. PICK list, n : list = SetToSeq(sids) /\ n = Cardinality(sids)
    OBVIOUS
  <2>2. /\ DOMAIN list = 1 .. n /\ list \in Seq(sids)
        /\ \A x : Once(list, x)
        /\ \A x : Has(list, x) <=> x \in sids
    BY <2>1, SetToSeqLists, SetToSeqOnce
  <2>3. n \in Nat /\ \A i \in 1 .. n : list[i] \in sids
    BY <2>1, <2>2, FS_CardinalityType
  <2>4. PICK msgs : msgs = [i \in 1 .. n |-> Msg(toHost, list[i])]
    OBVIOUS
  <2>5. out[Host] = msgs
    BY <1>1, <2>1, <2>4 DEF Tell, Msg
  <2>6. DOMAIN msgs = 1 .. n /\ \A i \in 1 .. n : msgs[i] = Msg(toHost, list[i])
    BY <2>4
  <2>7. \A i \in 1 .. n : Msg(toHost, list[i]) \in Signal
    BY <2>3, MsgIs
  <2>8. msgs \in Seq(Signal)
    BY <2>3, <2>4, <2>7
  <2>9. \A x : Once(msgs, x)
    <3> SUFFICES ASSUME NEW i \in 1 .. n, NEW j \in 1 .. n, msgs[i] = msgs[j]
                 PROVE  i = j
      BY <2>6 DEF Once
    <3>1. list[i] = list[j]
      BY <2>6, MsgIs
    <3> QED BY <2>2, <3>1 DEF Once
  <2>10. \A x : Has(msgs, x) <=> \E s \in sids : x = Msg(toHost, s)
    BY <2>2, <2>3, <2>6 DEF Has
  <2> QED BY <2>5, <2>8, <2>9, <2>10
<1>3. ASSUME NEW v \in Viewers
      PROVE  /\ out[v] \in Seq(Signal)
             /\ \A x : Once(out[v], x)
             /\ \A x : Has(out[v], x) <=>
                          \E s \in sids : s.viewer = v /\ x = Msg(toViewer, s)
  <2>1. PICK own : own = {s \in sids : s.viewer = v}
    OBVIOUS
  <2>2. PICK msgs : msgs = {Msg(toViewer, s) : s \in own}
    OBVIOUS
  <2>3. out[v] = SetToSeq(msgs)
    BY <2>1, <2>2, ViewersAssumption DEF Tell, Msg, Pages
  <2>4. IsFiniteSet(msgs)
    <3>1. IsFiniteSet(own)
      BY <2>1, FS_Subset
    <3>2. PICK f : f = [s \in own |-> Msg(toViewer, s)]
      OBVIOUS
    <3>3. f \in Surjection(own, msgs)
      BY <2>2, <3>2 DEF Surjection
    <3> QED BY <3>1, <3>3, FS_Surjection
  <2>5. msgs \subseteq Signal
    BY <2>1, <2>2, MsgIs
  <2>6. \A x : x \in msgs <=> \E s \in sids : s.viewer = v /\ x = Msg(toViewer, s)
    BY <2>1, <2>2
  <2>7. PICK list : list = SetToSeq(msgs)
    OBVIOUS
  <2>8. /\ list \in Seq(msgs)
        /\ \A x : Once(list, x)
        /\ \A x : Has(list, x) <=> x \in msgs
    BY <2>4, <2>7, SetToSeqOnce
  <2>9. list \in Seq(Signal)
    BY <2>5, <2>8
  <2> QED BY <2>3, <2>6, <2>7, <2>8, <2>9
<1>4. \A p \in Pages : out[p] \in Seq(Signal) /\ \A x : Once(out[p], x)
  BY <1>2, <1>3 DEF Pages
<1> QED BY <1>1, <1>2, <1>3, <1>4 DEF ToldOnce

\* msgs is put behind what is on its way to a page that is still there.
Delivered(p, msgs) ==
    /\ Present(p) => down'[p] = down[p] \o msgs
    /\ ~ Present(p) => down[p] = << >> /\ down'[p] = << >>

\* The server takes the next message of p, and delivers out.
LEMMA ServeIs ==
    ASSUME TypeOK, Routed, Joins, NEW p \in Pages, up[p] # << >>,
           up' = [up EXCEPT ![p] = Tail(@)],
           UNCHANGED <<page, hostPeer, registered, viewerPeer>>,
           NEW out, \A w \in Pages : out[w] \in Seq(Signal), Deliver(out),
           \A w \in Pages, type \in SignalTypes, s \in Session :
              Has(out[w], Msg(type, s)) => DownFits(w, type, s)
    PROVE  /\ Routed'
           /\ \A v \in Viewers :
                 (Joining(v)' => Joining(v)) /\ Once(up'[v], [type |-> "join"])
           /\ Head(up[p]) = [type |-> "join"] => p \in Viewers /\ Joining(p) /\ ~ Joining(p)'
           /\ Head(up[p]) # [type |-> "stopshare"] => (Stopping => Stopping')
           /\ \A s \in Sid :
                 /\ Still(s)
                 /\ \A w \in {Host, s.viewer} :
                       /\ w # p => UpStays(w, s)
                       /\ (\A type \in SignalTypes : Head(up[p]) # Msg(type, s)) => UpStays(w, s)
                       /\ (\A type \in SignalTypes : ~ Has(out[w], Msg(type, s)))
                             => DownStays(w, s)
                 /\ \A type \in SignalTypes : Head(up[p]) = Msg(type, s) =>
                       UpHas(p, type, s) /\ Popped(up[p], up'[p], type, s)
           /\ \A w \in Pages : Delivered(w, out[w])
<1>1. PICK q \in Seq(Signal) : q = up[p] /\ q # << >>
  BY Queues
<1>2. PICK r, msg : r = Tail(q) /\ msg = Head(q)
  OBVIOUS
<1>3. /\ r \in Seq(Signal) /\ msg \in Signal
      /\ \A x : Has(q, x) <=> Has(r, x) \/ x = msg
      /\ \A x : Once(q, x) => Once(r, x) /\ (x = msg => ~ Has(r, x))
  BY <1>1, <1>2, RestHas
<1>4. Host \in Pages /\ Viewers \subseteq Pages /\ DOMAIN up = Pages
  BY Queues
<1>5. /\ \A w \in Pages : w # p => up'[w] = up[w]
      /\ up'[p] = r
      /\ \A w \in Pages : Present(w)' <=> Present(w)
  BY <1>1, <1>2, <1>4 DEF Present
<1>6. \A w \in Pages : Delivered(w, out[w])
  BY DEF Deliver, Present, Routed, Delivered
<1>7. ASSUME NEW w \in Pages
      PROVE  /\ down'[w] \in Seq(Signal)
             /\ \A x : Has(down'[w], x) => Has(down[w], x) \/ Has(out[w], x)
             /\ \A s : (\A type \in SignalTypes : ~ Has(out[w], Msg(type, s)))
                          => DownStays(w, s)
  <2>1. PICK a \in Seq(Signal), b \in Seq(Signal) : a = down[w] /\ b = out[w]
    BY Queues
  <2>2. CASE Present(w)
    <3>1. PICK c : c = a \o b
      OBVIOUS
    <3>2. /\ c \in Seq(Signal)
          /\ \A x : Has(c, x) <=> Has(a, x) \/ Has(b, x)
      BY <3>1, JoinedHas
    <3>3. ASSUME NEW s, \A type \in SignalTypes : ~ Has(b, Msg(type, s))
          PROVE  Similar(a, c, s)
      BY <3>1, <3>3, JoinedSimilar
    <3>4. down'[w] = c
      BY <1>6, <2>1, <2>2, <3>1 DEF Delivered
    <3> QED BY <2>1, <3>2, <3>3, <3>4 DEF DownStays
  <2>3. CASE ~ Present(w)
    <3>1. down[w] = << >> /\ down'[w] = << >>
      BY <1>6, <2>3 DEF Delivered
    <3>2. << >> \in Seq(Signal)
      OBVIOUS
    <3> QED BY <3>1, <3>2, EmptyHas, SameSimilar DEF DownStays
  <2> QED BY <2>2, <2>3
<1>8. Routed'
  <2>1. ASSUME NEW w \in Pages, NEW type \in SignalTypes, NEW s \in Session
        PROVE  /\ UpHas(w, type, s)' => UpHas(w, type, s)
               /\ DownHas(w, type, s)' => DownHas(w, type, s) \/ DownFits(w, type, s)
    BY <1>1, <1>3, <1>5, <1>7 DEF UpHas, DownHas
  <2>2. /\ down'[Host] \in Seq(Signal)
        /\ \A w \in Pages : ~ Present(w)' => down'[w] = << >>
    BY <1>4, <1>5, <1>6, <1>7 DEF Delivered
  <2> QED BY <2>1, <2>2 DEF Routed, UpFits, DownFits
<1>9. \A v \in Viewers :
         (Joining(v)' => Joining(v)) /\ Once(up'[v], [type |-> "join"])
  BY <1>1, <1>3, <1>4, <1>5 DEF Joins, Joining
<1>10. ASSUME msg = [type |-> "join"]
       PROVE  p \in Viewers /\ Joining(p) /\ ~ Joining(p)'
  <2>1. p # Host
    <3>1. q[1] = msg /\ 1 \in DOMAIN q
      BY <1>1, <1>2, Rest
    <3> QED BY <1>1, <1>10, <3>1 DEF TypeOK, UpTypeOK
  <2>2. p \in Viewers
    BY <2>1 DEF Pages
  <2>3. Joining(p)
    BY <1>1, <1>3, <1>10 DEF Joining
  <2>4. ~ Has(r, msg)
    BY <1>1, <1>3, <1>10, <2>2 DEF Joins
  <2> QED BY <1>5, <1>10, <2>2, <2>3, <2>4 DEF Joining
<1>11. msg # [type |-> "stopshare"] => (Stopping => Stopping')
  BY <1>1, <1>3, <1>4, <1>5 DEF Stopping
<1>12. ASSUME NEW s \in Sid
       PROVE  /\ Still(s)
              /\ \A w \in {Host, s.viewer} :
                    /\ w # p => UpStays(w, s)
                    /\ (\A type \in SignalTypes : msg # Msg(type, s)) => UpStays(w, s)
              /\ \A type \in SignalTypes : msg = Msg(type, s) =>
                    UpHas(p, type, s) /\ Popped(up[p], up'[p], type, s)
  <2>1. s.viewer \in Pages
    BY DEF Sid, Pages
  <2>2. Still(s)
    BY <1>4, <1>5, <2>1 DEF Still, HostStays, ViewerStays, PagesStay
  <2>3. \A w \in {Host, s.viewer} : w # p => UpStays(w, s)
    BY <1>4, <1>5, <2>1, SameSimilar DEF UpStays
  <2>4. ASSUME \A type \in SignalTypes : msg # Msg(type, s)
        PROVE  UpStays(p, s)
    <3>1. Similar(q, r, s)
      BY <1>1, <1>2, <2>4, RestSimilar
    <3> QED BY <1>1, <1>5, <3>1 DEF UpStays
  <2>5. ASSUME NEW type \in SignalTypes, msg = Msg(type, s)
        PROVE  UpHas(p, type, s) /\ Popped(up[p], up'[p], type, s)
    <3>1. Popped(q, r, type, s)
      BY <1>1, <1>2, <2>5, RestPopped
    <3> QED BY <1>1, <1>3, <1>5, <2>5, <3>1 DEF UpHas
  <2> QED BY <2>2, <2>3, <2>4, <2>5
<1> QED BY <1>1, <1>2, <1>4, <1>6, <1>7, <1>8, <1>9, <1>10, <1>11, <1>12, Queues

\* The server opens the sessions new.
LEMMA OpenKeeps ==
    ASSUME TypeOK, SignalsInv, NEW p \in Pages, up[p] # << >>,
           up' = [up EXCEPT ![p] = Tail(@)],
           UNCHANGED <<page, hostPeer, registered, viewerPeer>>,
           Head(up[p]).type \in {"join", "share"},
           NEW new, NEW told, ToldOnce(told, new, "hostsession", "clientsession"),
           NEW out, Deliver(out),
           \A w \in Pages :
              /\ out[w] \in Seq(Signal)
              /\ \A type \in SignalTypes : \A s :
                    Has(out[w], Msg(type, s)) <=> Has(told[w], Msg(type, s))
              /\ \A type \in SignalTypes : \A s : Once(out[w], Msg(type, s)),
           server'.sessions = server.sessions \cup new, Joins',
           \A s \in Sid : IF s \in new THEN Unopened(s) /\ ~ Unopened(s)'
                          ELSE Unopened(s)' => Unopened(s)
    PROVE  SignalsInv'
<1>1. Routed /\ Joins
  BY DEF SignalsInv
<1>2. /\ "hostsession" \in SignalTypes /\ "clientsession" \in SignalTypes
      /\ Host \in Pages /\ Viewers \subseteq Pages /\ Host \notin Viewers
      /\ \A s \in Sid : s.viewer \in Viewers /\ s \in Session
      /\ \A s \in Session : s.viewer \in Viewers
      /\ \A w \in Pages : down[w] \in Seq(Signal)
  BY <1>1, Queues DEF SignalTypes
<1>3. /\ \A type \in SignalTypes : \A s :
            Has(out[Host], Msg(type, s)) <=> type = "hostsession" /\ s \in new
      /\ \A v \in Viewers : \A type \in SignalTypes : \A s :
            Has(out[v], Msg(type, s)) <=> type = "clientsession" /\ s \in new /\ s.viewer = v
  <2>1. ASSUME NEW type \in SignalTypes, NEW s
        PROVE  Has(out[Host], Msg(type, s)) <=> type = "hostsession" /\ s \in new
    <3>1. Has(out[Host], Msg(type, s)) <=> Has(told[Host], Msg(type, s))
      BY <1>2
    <3>2. Has(told[Host], Msg(type, s)) <=> \E t \in new : Msg(type, s) = Msg("hostsession", t)
      BY DEF ToldOnce
    <3> QED BY <3>1, <3>2, MsgIs
  <2>2. ASSUME NEW v \in Viewers, NEW type \in SignalTypes, NEW s
        PROVE  Has(out[v], Msg(type, s)) <=> type = "clientsession" /\ s \in new /\ s.viewer = v
    <3>1. Has(out[v], Msg(type, s)) <=> Has(told[v], Msg(type, s))
      BY <1>2
    <3>2. Has(told[v], Msg(type, s)) <=>
             \E t \in new : t.viewer = v /\ Msg(type, s) = Msg("clientsession", t)
      <4>1. \A x : Has(told[v], x) <=>
                      \E t \in new : t.viewer = v /\ x = Msg("clientsession", t)
        BY DEF ToldOnce
      <4> QED BY <4>1
    <3> QED BY <3>1, <3>2, MsgIs
  <2> QED BY <2>1, <2>2
<1>4. \A w \in Pages, type \in SignalTypes, s \in Session :
         Has(out[w], Msg(type, s)) => DownFits(w, type, s)
  BY <1>3 DEF DownFits, Pages
<1>5. PICK msg : msg = Head(up[p])
  OBVIOUS
<1>6. /\ \A type \in SignalTypes : \A s : msg # Msg(type, s)
      /\ msg # [type |-> "stopshare"]
  <2>1. msg.type \in {"join", "share"}
    BY <1>5
  <2> QED BY <2>1, MsgIs DEF SignalTypes
<1>7. /\ Routed'
      /\ Stopping => Stopping'
      /\ \A s \in Sid :
            /\ Still(s)
            /\ \A w \in {Host, s.viewer} :
                  /\ UpStays(w, s)
                  /\ (\A type \in SignalTypes : ~ Has(out[w], Msg(type, s))) => DownStays(w, s)
      /\ \A w \in Pages : Delivered(w, out[w])
  <2>1. /\ Routed'
        /\ Head(up[p]) # [type |-> "stopshare"] => (Stopping => Stopping')
        /\ \A s \in Sid :
              /\ Still(s)
              /\ \A w \in {Host, s.viewer} :
                    /\ (\A type \in SignalTypes : Head(up[p]) # Msg(type, s)) => UpStays(w, s)
                    /\ (\A type \in SignalTypes : ~ Has(out[w], Msg(type, s))) => DownStays(w, s)
        /\ \A w \in Pages : Delivered(w, out[w])
    <3>1. \A w \in Pages : out[w] \in Seq(Signal)
      OBVIOUS
    <3>2. UNCHANGED <<page, hostPeer, registered, viewerPeer>> /\ Deliver(out)
      OBVIOUS
    <3>3. p \in Pages /\ up[p] # << >> /\ up' = [up EXCEPT ![p] = Tail(@)]
      OBVIOUS
    <3> QED BY ONLY TypeOK, <1>1, <1>4, <3>1, <3>2, <3>3, ServeIs
  <2> QED BY <1>5, <1>6, <2>1
<1>8. ASSUME NEW s \in Sid, s \in new
      PROVE  Accounted(s)'
  <2>1. Unheard(s) /\ ~ Unopened(s)'
    BY <1>8 DEF SignalsInv, Accounted
  <2>2. ASSUME NEW w \in {Host, s.viewer}
        PROVE  /\ \A type \in SignalTypes :
                     /\ Once(down'[w], Msg(type, s))
                     /\ DownHas(w, type, s)' => Has(out[w], Msg(type, s))
                     /\ Present(w) /\ Has(out[w], Msg(type, s)) => DownHas(w, type, s)'
    <3>1. w \in Pages
      BY <1>2
    <3>2. CASE Present(w)
      <4>1. PICK a, b, c :
               /\ a \in Seq(Signal) /\ b \in Seq(Signal)
               /\ a = down[w] /\ b = out[w] /\ c = a \o b
        BY <1>2, <3>1
      <4>2. /\ \A x : Has(c, x) <=> Has(a, x) \/ Has(b, x)
            /\ \A x : Once(a, x) /\ Once(b, x) /\ ~ (Has(a, x) /\ Has(b, x)) => Once(c, x)
        BY <4>1, JoinedHas
      <4>3. \A type \in SignalTypes : ~ Has(a, Msg(type, s)) /\ Once(b, Msg(type, s))
        BY <2>1, <2>2, <3>1, <4>1 DEF Unheard, DownHas
      <4>4. \A x : ~ Has(a, x) => Once(a, x)
        BY DEF Has, Once
      <4>5. down'[w] = c
        BY <1>7, <3>1, <3>2, <4>1 DEF Delivered
      <4> QED BY <4>1, <4>2, <4>3, <4>4, <4>5 DEF DownHas
    <3>3. CASE ~ Present(w)
      BY <1>7, <3>1, <3>3, EmptyHas DEF DownHas, Delivered
    <3> QED BY <3>2, <3>3
  <2>3. /\ \A type \in SignalTypes : Has(out[Host], Msg(type, s)) <=> type = "hostsession"
        /\ \A type \in SignalTypes :
              Has(out[s.viewer], Msg(type, s)) <=> type = "clientsession"
    BY <1>2, <1>3, <1>8
  <2>4. InOrder(s)'
    BY <1>2, <1>7, <2>1, <2>2, <2>3, SessionOpened
  <2> QED BY <2>1, <2>4 DEF Accounted
<1>9. ASSUME NEW s \in Sid, s \notin new
      PROVE  Accounted(s)'
  <2>1. Calm(s)
    BY <1>2, <1>3, <1>7, <1>9 DEF Calm
  <2>2. Accounted(s)
    BY DEF SignalsInv
  <2> QED BY <1>7, <1>9, <2>1, <2>2, CalmKeeps
<1> QED BY <1>7, <1>8, <1>9 DEF SignalsInv

\* The server takes a join.
LEMMA JoinInOrder ==
    ASSUME TypeOK, SignalsInv, NEW p \in Pages, up[p] # << >>,
           up' = [up EXCEPT ![p] = Tail(@)],
           UNCHANGED <<page, hostPeer, registered, viewerPeer>>,
           Head(up[p]).type = "join", OnJoin(p)
    PROVE  SignalsInv'
<1>1. PICK new : new = IF server.streaming THEN SessionsOf({p}, server.share) ELSE {}
  OBVIOUS
<1>2. PICK told : told = Tell(new, "hostsession", "clientsession")
  OBVIOUS
<1>3. PICK out : out = [told EXCEPT ![p] = << [type |-> "room"] >> \o @]
  OBVIOUS
<1>4. /\ server' = [server EXCEPT !.members = @ \cup {p}, !.sessions = @ \cup new]
      /\ Deliver(out)
  BY <1>1, <1>2, <1>3 DEF OnJoin
<1>5. /\ DOMAIN server = {"streaming", "share", "members", "sessions"} /\ server.share \in Nat
  BY DEF TypeOK, ServerTypeOK
<1>6. /\ server'.share = server.share
      /\ server'.members = server.members \cup {p}
      /\ server'.sessions = server.sessions \cup new
  BY <1>4, <1>5
<1>7. Routed /\ Joins
  BY DEF SignalsInv
<1>8. PICK msg : msg = Head(up[p]) /\ msg = [type |-> "join"]
  <2>1. PICK q \in Seq(Signal) : q = up[p] /\ q # << >>
    BY <1>7, Queues
  <2>2. Head(q) \in Signal /\ Head(q).type = "join"
    BY <2>1, Rest
  <2>3. Head(q) = [type |-> "join"]
    BY <2>2 DEF Signal
  <2> QED BY <2>1, <2>3
<1>9. PICK room \in Seq(Signal) :
         /\ out = [told EXCEPT ![p] = room \o @]
         /\ \A type \in SignalTypes : \A s : ~ Has(room, Msg(type, s))
  <2>1. PICK m \in Signal : m = [type |-> "room"]
    BY DEF Signal
  <2>2. \A type \in SignalTypes : \A s : m # Msg(type, s)
    BY <2>1 DEF Msg, SignalTypes
  <2>3. PICK room \in Seq(Signal) : room = << m >> /\ DOMAIN room = {1} /\ room[1] = m
    <3>1. << m >> \in Seq(Signal) /\ DOMAIN << m >> = {1} /\ << m >>[1] = m
      OBVIOUS
    <3> QED BY <3>1
  <2>4. \A type \in SignalTypes : \A s : ~ Has(room, Msg(type, s))
    BY <2>2, <2>3 DEF Has
  <2> QED BY <1>3, <2>1, <2>3, <2>4
<1>10. \A x : Once(up[p], x) => Once(Tail(up[p]), x)
  <2>1. PICK q \in Seq(Signal) : q = up[p] /\ q # << >>
    BY <1>7, Queues
  <2> QED BY <2>1, RestHas
<1>11. p \in Viewers /\ Joining(p)
  <2>1. PICK q \in Seq(Signal) : q = up[p] /\ q # << >>
    BY <1>7, Queues
  <2>2. 1 \in DOMAIN q /\ q[1] = msg
    BY <1>8, <2>1, Rest
  <2>3. p # Host
    BY <1>8, <2>1, <2>2 DEF TypeOK, UpTypeOK
  <2> QED BY <1>8, <2>1, <2>2, <2>3 DEF Pages, Joining, Has
<1>12. new \subseteq Session /\ IsFiniteSet(new)
  <2>1. new = {} \/ new = {[viewer |-> p, share |-> server.share]}
    BY <1>1 DEF SessionsOf
  <2>2. [viewer |-> p, share |-> server.share] \in Session
    BY <1>5, <1>11 DEF Session
  <2> QED BY <2>1, <2>2, FS_EmptySet, FS_Singleton
<1>13. \A s \in new : s.viewer = p /\ s.share = server.share
  BY <1>1 DEF SessionsOf
<1>14. ToldOnce(told, new, "hostsession", "clientsession")
  BY <1>2, <1>12, TellOnce DEF SignalTypes
<1>15. ASSUME NEW w \in Pages
       PROVE  /\ out[w] \in Seq(Signal)
              /\ \A type \in SignalTypes : \A s :
                    /\ Has(out[w], Msg(type, s)) <=> Has(told[w], Msg(type, s))
                    /\ Once(out[w], Msg(type, s))
  <2>1. PICK b \in Seq(Signal) : b = told[w] /\ \A x : Once(b, x)
    BY <1>14 DEF ToldOnce
  <2>2. CASE w # p
    BY <1>9, <1>14, <2>1, <2>2 DEF ToldOnce
  <2>3. CASE w = p
    <3>1. PICK c : c = room \o b
      OBVIOUS
    <3>2. /\ c \in Seq(Signal)
          /\ \A x : Has(c, x) <=> Has(room, x) \/ Has(b, x)
          /\ \A x : Once(room, x) /\ Once(b, x) /\ ~ (Has(room, x) /\ Has(b, x))
                       => Once(c, x)
      BY <3>1, JoinedHas
    <3>3. \A x : ~ Has(room, x) => Once(room, x)
      BY DEF Has, Once
    <3>4. out[w] = c
      BY <1>9, <1>14, <2>1, <2>3, <3>1 DEF ToldOnce
    <3> QED BY <1>9, <2>1, <3>2, <3>3, <3>4
  <2> QED BY <2>2, <2>3
<1>16. /\ \A v \in Viewers :
             (Joining(v)' => Joining(v)) /\ Once(up'[v], [type |-> "join"])
       /\ ~ Joining(p)'
  <2>1. \A w \in Pages, type \in SignalTypes, s \in Session :
           Has(out[w], Msg(type, s)) => DownFits(w, type, s)
    <3>1. ASSUME NEW w \in Pages, NEW type \in SignalTypes, NEW s \in Session,
                 Has(told[w], Msg(type, s))
          PROVE  DownFits(w, type, s)
      BY <3>1, <1>14, MsgIs DEF ToldOnce, DownFits, Pages
    <3> QED BY <1>15, <3>1
  <2>2. \A w \in Pages : out[w] \in Seq(Signal)
    BY <1>15
  <2>3. /\ \A v \in Viewers :
              (Joining(v)' => Joining(v)) /\ Once(up'[v], [type |-> "join"])
        /\ Head(up[p]) = [type |-> "join"] => p \in Viewers /\ Joining(p) /\ ~ Joining(p)'
    BY <1>4, <1>7, <2>1, <2>2, ServeIs
  <2> QED BY <1>8, <2>3
<1>17. Joins'
  <2>1. IsFiniteSet(server'.members) /\ IsFiniteSet(server'.sessions)
    <3>1. IsFiniteSet(server.members \cup {p})
      BY <1>7, FS_AddElement DEF Joins
    <3>2. IsFiniteSet(server.sessions \cup new)
      BY <1>7, <1>12, FS_Union DEF Joins
    <3> QED BY <1>6, <3>1, <3>2
  <2>2. page[p] # "out"
    BY <1>7, <1>11 DEF Joins
  <2> QED BY <1>6, <1>7, <1>16, <2>1, <2>2 DEF Joins
<1>18. ASSUME NEW s \in Sid
       PROVE  IF s \in new THEN Unopened(s) /\ ~ Unopened(s)' ELSE Unopened(s)' => Unopened(s)
  <2>1. CASE s \in new
    <3>1. Unopened(s)
      BY <1>11, <1>13, <2>1 DEF Unopened
    <3>2. page'[s.viewer] # "out" /\ ~ Joining(s.viewer)' /\ ~ s.share > server'.share
      BY <1>5, <1>6, <1>7, <1>11, <1>13, <1>16, <2>1 DEF Joins
    <3> QED BY <2>1, <3>1, <3>2 DEF Unopened
  <2>2. s.viewer \in Viewers
    BY DEF Sid
  <2> QED BY <1>6, <1>16, <2>1, <2>2 DEF Unopened
<1>19. Head(up[p]).type \in {"join", "share"}
  OBVIOUS
<1> QED BY <1>4, <1>6, <1>14, <1>15, <1>17, <1>18, <1>19, OpenKeeps

\* The server takes the news of a share.
LEMMA ShareInOrder ==
    ASSUME TypeOK, SignalsInv, NEW p \in Pages, up[p] # << >>,
           up' = [up EXCEPT ![p] = Tail(@)],
           UNCHANGED <<page, hostPeer, registered, viewerPeer>>,
           Head(up[p]).type = "share", OnShare
    PROVE  SignalsInv'
<1>1. PICK new : new = SessionsOf(server.members \ {Host}, server.share + 1)
  OBVIOUS
<1>2. PICK out : out = Tell(new, "hostsession", "clientsession")
  OBVIOUS
<1>3. /\ server' = [server EXCEPT !.streaming = TRUE, !.share = @ + 1,
                                  !.sessions = @ \cup new]
      /\ Deliver(out)
  BY <1>1, <1>2 DEF OnShare
<1>4. /\ DOMAIN server = {"streaming", "share", "members", "sessions"}
      /\ server.share \in Nat /\ server.members \subseteq Pages
  BY DEF TypeOK, ServerTypeOK
<1>5. /\ server'.share = server.share + 1
      /\ server'.members = server.members
      /\ server'.sessions = server.sessions \cup new
  BY <1>3, <1>4
<1>6. Routed /\ Joins
  BY DEF SignalsInv
<1>7. \A s \in new : s.viewer \in server.members \ {Host} /\ s.share = server.share + 1
  BY <1>1 DEF SessionsOf
<1>8. new \subseteq Session /\ IsFiniteSet(new)
  <2>1. PICK others : others = server.members \ {Host}
    OBVIOUS
  <2>2. IsFiniteSet(others) /\ others \subseteq Viewers
    <3>1. others \in SUBSET server.members
      BY <2>1
    <3> QED BY <1>4, <1>6, <2>1, <3>1, FS_Subset DEF Joins, Pages
  <2>3. PICK n \in Nat : n = server.share + 1
    BY <1>4
  <2>4. PICK f : f = [v \in others |-> [viewer |-> v, share |-> n]]
    OBVIOUS
  <2>5. new = {[viewer |-> v, share |-> n] : v \in others}
    BY <1>1, <2>1, <2>3 DEF SessionsOf
  <2>6. f \in Surjection(others, new)
    BY <2>4, <2>5 DEF Surjection
  <2>7. IsFiniteSet(new)
    BY <2>2, <2>6, FS_Surjection
  <2> QED BY <2>2, <2>3, <2>5, <2>7 DEF Session
<1>9. ToldOnce(out, new, "hostsession", "clientsession")
  BY <1>2, <1>8, TellOnce DEF SignalTypes
<1>10. \A w \in Pages :
          /\ out[w] \in Seq(Signal)
          /\ \A type \in SignalTypes : \A s : Once(out[w], Msg(type, s))
  BY <1>9 DEF ToldOnce
<1>11. \A v \in Viewers : (Joining(v)' => Joining(v)) /\ Once(up'[v], [type |-> "join"])
  <2>1. PICK q \in Seq(Signal) : q = up[p] /\ q # << >>
    BY <1>6, Queues
  <2>2. PICK r : r = Tail(q)
    OBVIOUS
  <2>3. /\ \A x : Has(r, x) => Has(q, x)
        /\ \A x : Once(q, x) => Once(r, x)
    BY <2>1, <2>2, RestHas
  <2>4. up'[p] = r /\ \A w \in Pages : w # p => up'[w] = up[w]
    BY <1>6, <2>1, <2>2, Queues
  <2> QED BY <1>6, <2>1, <2>3, <2>4 DEF Joins, Joining, Pages
<1>12. Joins'
  <2>1. IsFiniteSet(server.sessions \cup new)
    BY <1>6, <1>8, FS_Union DEF Joins
  <2> QED BY <1>5, <1>6, <1>11, <2>1 DEF Joins
<1>13. ASSUME NEW s \in Sid
       PROVE  IF s \in new THEN Unopened(s) /\ ~ Unopened(s)' ELSE Unopened(s)' => Unopened(s)
  <2>1. s.viewer \in Viewers /\ s.share \in Int
    BY DEF Sid
  <2>2. CASE s \in new
    <3>1. s.share > server.share /\ ~ s.share > server'.share
      BY <1>4, <1>5, <1>7, <2>2
    <3>2. page'[s.viewer] # "out" /\ ~ Joining(s.viewer)'
      BY <1>6, <1>7, <1>11, <2>1, <2>2 DEF Joins
    <3> QED BY <2>2, <3>1, <3>2 DEF Unopened
  <2>3. CASE s \notin new
    <3>1. s.share > server'.share => s.share > server.share
      BY <1>4, <1>5, <2>1
    <3> QED BY <1>11, <2>1, <2>3, <3>1 DEF Unopened
  <2> QED BY <2>2, <2>3
<1>14. Head(up[p]).type \in {"join", "share"}
  OBVIOUS
<1> QED BY <1>3, <1>5, <1>9, <1>10, <1>12, <1>13, <1>14, OpenKeeps

\* The server ends the sessions ended.
LEMMA EndKeeps ==
    ASSUME TypeOK, SignalsInv, NEW p \in Pages, up[p] # << >>,
           up' = [up EXCEPT ![p] = Tail(@)],
           UNCHANGED <<page, hostPeer, registered, viewerPeer>>,
           NEW ended, ended \subseteq server.sessions, NEW tellHost,
           Deliver(EndShareTo(ended, tellHost)),
           server'.sessions = server.sessions \ ended,
           server'.members \subseteq server.members, server'.share = server.share,
           Head(up[p]).type \in {"stopshare", "disconnected"},
           Head(up[p]).type = "stopshare" => server'.sessions = {}
    PROVE  SignalsInv'
<1>1. Routed /\ Joins
  BY DEF SignalsInv
<1>2. ended \subseteq Session /\ IsFiniteSet(ended)
  <2>1. ended \in SUBSET server.sessions
    OBVIOUS
  <2> QED BY <1>1, <2>1, FS_Subset DEF Joins, TypeOK, ServerTypeOK
<1>3. PICK told : told = Tell(ended, "endshare", "endshare")
  OBVIOUS
<1>4. ToldOnce(told, ended, "endshare", "endshare")
  BY <1>2, <1>3, TellOnce DEF SignalTypes
<1>5. PICK out : out = EndShareTo(ended, tellHost)
  OBVIOUS
<1>6. /\ \A v \in Viewers : out[v] = told[v]
      /\ out[Host] = IF tellHost THEN told[Host] ELSE << >>
  BY <1>3, <1>4, <1>5, ViewersAssumption DEF EndShareTo, ToldOnce, Pages
<1>7. /\ out[Host] \in Seq(Signal)
      /\ \A x : Has(out[Host], x) => Has(told[Host], x)
  <2>1. << >> \in Seq(Signal) /\ Host \in Pages
    BY DEF Pages
  <2>2. \A x : ~ Has(<< >>, x)
    BY EmptyHas
  <2>3. told[Host] \in Seq(Signal)
    BY <1>4, <2>1 DEF ToldOnce
  <2>4. CASE tellHost
    BY <1>6, <2>3, <2>4
  <2>5. CASE ~ tellHost
    BY <1>6, <2>1, <2>2, <2>5
  <2> QED BY <2>4, <2>5
<1>8. \A w \in Pages : out[w] \in Seq(Signal)
  BY <1>4, <1>6, <1>7 DEF ToldOnce, Pages
<1>9. ASSUME NEW w \in Pages, NEW type \in SignalTypes, NEW s, Has(out[w], Msg(type, s))
      PROVE  /\ type = "endshare" /\ s \in ended
             /\ w \in {Host, s.viewer}
  <2>1. CASE w = Host
    <3>1. Has(told[Host], Msg(type, s))
      BY <1>7, <1>9, <2>1
    <3>2. \A x : Has(told[Host], x) <=> \E t \in ended : x = Msg("endshare", t)
      BY <1>4 DEF ToldOnce
    <3> QED BY <2>1, <3>1, <3>2, MsgIs
  <2>2. CASE w \in Viewers
    <3>1. Has(told[w], Msg(type, s))
      BY <1>6, <1>9, <2>2
    <3>2. \A x : Has(told[w], x) <=> \E t \in ended : t.viewer = w /\ x = Msg("endshare", t)
      BY <1>4, <2>2 DEF ToldOnce
    <3> QED BY <3>1, <3>2, MsgIs
  <2> QED BY <2>1, <2>2 DEF Pages
<1>10. \A w \in Pages, type \in SignalTypes, s \in Session :
          Has(out[w], Msg(type, s)) => DownFits(w, type, s)
  BY <1>9 DEF DownFits
<1>11. PICK msg : msg = Head(up[p])
  OBVIOUS
<1>12. /\ Routed'
       /\ \A v \in Viewers :
             (Joining(v)' => Joining(v)) /\ Once(up'[v], [type |-> "join"])
       /\ Head(up[p]) # [type |-> "stopshare"] => (Stopping => Stopping')
       /\ \A s \in Sid :
             /\ Still(s)
             /\ \A w \in {Host, s.viewer} :
                   /\ w # p => UpStays(w, s)
                   /\ (\A type \in SignalTypes : Head(up[p]) # Msg(type, s)) => UpStays(w, s)
                   /\ (\A type \in SignalTypes : ~ Has(out[w], Msg(type, s)))
                         => DownStays(w, s)
  BY <1>1, <1>5, <1>8, <1>10, ServeIs
<1>13. \A type \in SignalTypes : \A s : msg # Msg(type, s)
  <2>1. msg.type \in {"stopshare", "disconnected"}
    BY <1>11
  <2> QED BY <2>1, MsgIs DEF SignalTypes
<1>14. server'.sessions # {} => (Stopping => Stopping')
  <2>1. ASSUME msg = [type |-> "stopshare"]
        PROVE  server'.sessions = {}
    <3>1. msg.type = "stopshare"
      BY <2>1
    <3> QED BY <1>11, <3>1
  <2> QED BY <1>11, <1>12, <2>1
<1>15. Joins'
  <2>1. IsFiniteSet(server'.members)
    <3>1. server'.members \in SUBSET server.members
      OBVIOUS
    <3> QED BY <1>1, <3>1, FS_Subset DEF Joins
  <2>2. IsFiniteSet(server'.sessions)
    <3>1. server'.sessions \in SUBSET server.sessions
      OBVIOUS
    <3> QED BY <1>1, <3>1, FS_Subset DEF Joins
  <2> QED BY <1>1, <1>12, <2>1, <2>2 DEF Joins
<1>16. ASSUME NEW s \in Sid
       PROVE  Accounted(s)'
  <2>1. Accounted(s) /\ s.viewer \in Viewers /\ s.viewer \in Pages /\ Host \in Pages
    BY DEF SignalsInv, Sid, Pages
  <2>2. Unopened(s)' => Unopened(s)
    BY <1>12, <2>1 DEF Unopened
  <2>3. CASE s \in ended
    BY <2>1, <2>2, <2>3 DEF Accounted, Unheard
  <2>4. CASE s \notin ended
    <3>1. \A w \in {Host, s.viewer} : UpStays(w, s) /\ DownStays(w, s)
      BY <1>9, <1>11, <1>12, <1>13, <2>1, <2>4
    <3>2. Calm(s)
      BY <1>12, <3>1 DEF Calm
    <3> QED BY <1>14, <2>1, <2>2, <3>2, CalmKeeps
  <2> QED BY <2>3, <2>4
<1> QED BY <1>12, <1>15, <1>16 DEF SignalsInv

\* The server passes a message on.
LEMMA PassInOrder ==
    ASSUME TypeOK, SignalsInv, NEW p \in Pages, up[p] # << >>,
           up' = [up EXCEPT ![p] = Tail(@)],
           UNCHANGED <<page, hostPeer, registered, viewerPeer>>,
           NEW type \in {"offer", "answer", "hostice", "clientice"},
           Head(up[p]).type = type,
           NEW to, to = IF type \in {"offer", "hostice"} THEN Head(up[p]).sid.viewer ELSE Host,
           PassOn(Head(up[p]), to)
    PROVE  SignalsInv'
<1>1. Routed /\ Joins
  BY DEF SignalsInv
<1>2. type \in SignalTypes /\ Host \in Pages
  BY DEF SignalTypes, Pages
<1>3. PICK q \in Seq(Signal) : q = up[p] /\ q # << >>
  BY <1>1, Queues
<1>4. PICK msg \in Signal : msg = Head(q) /\ msg.type = type
  BY <1>3, Rest
<1>5. PICK t \in Session : t = msg.sid /\ msg = Msg(type, t)
  BY <1>2, <1>4, MsgIs
<1>6. UpHas(p, type, t)
  BY <1>3, <1>4, <1>5, RestHas DEF UpHas
<1>7. UpFits(p, type, t)
  BY <1>1, <1>2, <1>6 DEF Routed
<1>8. t \in Sid /\ t.viewer \in Viewers /\ t.viewer \in Pages /\ t.viewer # Host
  BY <1>7, ViewersAssumption DEF UpFits, Sid, Pages
<1>9. /\ p = IF type \in {"offer", "hostice"} THEN Host ELSE t.viewer
      /\ to = IF type \in {"offer", "hostice"} THEN t.viewer ELSE Host
  BY <1>3, <1>4, <1>5, <1>7 DEF UpFits
<1>10. PICK single : single = << msg >>
  OBVIOUS
<1>11. single \in Seq(Signal) /\ \A x : Has(single, x) <=> x = msg
  <2>1. single \in Seq(Signal) /\ DOMAIN single = {1} /\ single[1] = msg
    BY <1>10
  <2> QED BY <2>1 DEF Has
<1>12. PICK out : out = IF t \in server.sessions THEN [Silence EXCEPT ![to] = single] ELSE Silence
  OBVIOUS
<1>13. UNCHANGED server /\ Deliver(out)
  BY <1>3, <1>4, <1>5, <1>10, <1>12 DEF PassOn
<1>14. /\ \A w \in Pages : out[w] = IF t \in server.sessions /\ w = to THEN single ELSE << >>
  BY <1>8, <1>9, <1>12 DEF Silence
<1>15. /\ \A w \in Pages : out[w] \in Seq(Signal)
       /\ \A w \in Pages : \A x : Has(out[w], x) => w = to /\ x = msg
  <2>1. << >> \in Seq(Signal)
    OBVIOUS
  <2> QED BY <1>11, <1>14, <2>1, EmptyHas
<1>16. \A w \in Pages, k \in SignalTypes, s \in Session :
          Has(out[w], Msg(k, s)) => DownFits(w, k, s)
  <2>1. DownFits(to, type, t)
    BY <1>8, <1>9 DEF DownFits
  <2>2. ASSUME NEW w \in Pages, NEW k \in SignalTypes, NEW s \in Session,
               Has(out[w], Msg(k, s))
        PROVE  w = to /\ k = type /\ s = t
    <3>1. w = to /\ Msg(k, s) = msg
      BY ONLY <1>15, <2>2, w \in Pages
    <3> QED BY <1>5, <3>1, MsgIs
  <2> QED BY <2>1, <2>2
<1>17. /\ Routed'
       /\ \A v \in Viewers :
             (Joining(v)' => Joining(v)) /\ Once(up'[v], [type |-> "join"])
       /\ Head(up[p]) # [type |-> "stopshare"] => (Stopping => Stopping')
       /\ \A s \in Sid :
             /\ Still(s)
             /\ \A w \in {Host, s.viewer} :
                   /\ w # p => UpStays(w, s)
                   /\ (\A k \in SignalTypes : Head(up[p]) # Msg(k, s)) => UpStays(w, s)
                   /\ (\A k \in SignalTypes : ~ Has(out[w], Msg(k, s))) => DownStays(w, s)
             /\ \A k \in SignalTypes : Head(up[p]) = Msg(k, s) =>
                   UpHas(p, k, s) /\ Popped(up[p], up'[p], k, s)
       /\ \A w \in Pages : Delivered(w, out[w])
  BY <1>1, <1>13, <1>15, <1>16, ServeIs
<1>18. Stopping => Stopping'
  <2>1. msg # [type |-> "stopshare"]
    BY <1>4
  <2> QED BY <1>3, <1>4, <1>17, <2>1
<1>19. Joins' /\ \A s \in Sid : Unopened(s)' => Unopened(s)
  <2>1. NoNewcomer
    BY <1>17 DEF NoNewcomer
  <2> QED BY <1>1, <1>13, <2>1, NoNewcomerJoins
<1>20. ASSUME NEW s \in Sid, s # t
       PROVE  /\ Unheard(s) => Unheard(s)'
              /\ InOrder(s) => InOrder(s)'
  <2>1. \A k \in SignalTypes : msg # Msg(k, s)
    BY <1>5, <1>20, MsgIs
  <2>2. s.viewer \in Pages
    BY DEF Sid, Pages
  <2>3. \A w \in {Host, s.viewer} : UpStays(w, s) /\ DownStays(w, s)
    BY <1>2, <1>3, <1>4, <1>15, <1>17, <2>1, <2>2
  <2>4. Calm(s)
    BY <1>17, <2>3 DEF Calm
  <2> QED BY <1>13, <1>18, <2>4, CalmUnheard, CalmOrder DEF Unheard
<1>21. ASSUME t \in server.sessions, InOrder(t)
       PROVE  InOrder(t)'
  <2>1. Popped(up[p], up'[p], type, t)
    BY <1>2, <1>3, <1>4, <1>5, <1>8, <1>17
  <2>2. IF Present(to) THEN Pushed(down[to], down'[to], type, t) ELSE DownStays(to, t)
    <3>1. PICK a \in Seq(Signal) : a = down[to]
      BY <1>1, <1>8, <1>9, Queues
    <3>0. to \in Pages
      BY <1>2, <1>8, <1>9
    <3>2. out[to] = single
      BY <1>14, <1>21, <3>0
    <3>3. a \o single = Append(a, msg)
      BY <1>10
    <3>4. Present(to) => down'[to] = Append(a, msg)
      BY <1>17, <3>0, <3>1, <3>2, <3>3 DEF Delivered
    <3>5. ~ Present(to) => down'[to] = down[to]
      BY <1>17, <3>0 DEF Delivered
    <3>6. Pushed(a, Append(a, msg), type, t)
      BY <1>2, <1>5, AppendedPushed
    <3> QED BY <3>1, <3>4, <3>5, <3>6, SameSimilar DEF DownStays
  <2>3. \A w \in {Host, t.viewer} : w # p => UpStays(w, t)
    BY <1>17, <1>8
  <2>4. \A w \in {Host, t.viewer} : w # to => DownStays(w, t)
    BY <1>2, <1>8, <1>15, <1>17
  <2>5. Still(t)
    BY <1>8, <1>17
  <2>6. CASE type = "offer"
    BY <1>8, <1>9, <1>18, <1>21, <2>1, <2>2, <2>3, <2>4, <2>5, <2>6, OfferPassed
  <2>7. CASE type = "hostice"
    BY <1>8, <1>9, <1>18, <1>21, <2>1, <2>2, <2>3, <2>4, <2>5, <2>7, HostICEPassed
  <2>8. CASE type = "answer"
    BY <1>8, <1>9, <1>18, <1>21, <2>1, <2>2, <2>3, <2>4, <2>5, <2>8, AnswerPassed
  <2>9. CASE type = "clientice"
    BY <1>8, <1>9, <1>18, <1>21, <2>1, <2>2, <2>3, <2>4, <2>5, <2>9, ClientICEPassed
  <2> QED BY <2>6, <2>7, <2>8, <2>9
<1>22. ~ Unheard(t)
  BY <1>2, <1>6, <1>9 DEF Unheard
<1>23. \A s \in Sid : Accounted(s)'
  BY <1>13, <1>19, <1>20, <1>21, <1>22 DEF SignalsInv, Accounted
<1> QED BY <1>17, <1>19, <1>23 DEF SignalsInv

\* The server takes a message.
LEMMA ServeInOrder ==
    ASSUME TypeOK, SignalsInv, NEW p \in Pages, Serve(p)
    PROVE  SignalsInv'
<1>1. /\ up[p] # << >> /\ up' = [up EXCEPT ![p] = Tail(@)]
      /\ UNCHANGED <<page, hostPeer, registered, viewerPeer>>
  BY DEF Serve, HostSide, ViewerSide
<1>2. PICK msg : msg = Head(up[p])
  OBVIOUS
<1>3. \/ msg.type = "join" /\ OnJoin(p)
      \/ msg.type = "share" /\ OnShare
      \/ msg.type = "stopshare" /\ OnStopShare
      \/ msg.type = "offer" /\ OnHostOffer(msg)
      \/ msg.type = "answer" /\ OnClientAnswer(msg)
      \/ msg.type = "hostice" /\ OnHostICE(msg)
      \/ msg.type = "clientice" /\ OnClientICE(msg)
      \/ msg.type = "disconnected" /\ OnDisconnected(p)
  BY <1>2 DEF Serve
<1>4. DOMAIN server = {"streaming", "share", "members", "sessions"}
  BY DEF TypeOK, ServerTypeOK
<1>5. CASE msg.type = "join" /\ OnJoin(p)
  BY <1>1, <1>2, <1>5, JoinInOrder
<1>6. CASE msg.type = "share" /\ OnShare
  BY <1>1, <1>2, <1>6, ShareInOrder
<1>7. CASE msg.type = "stopshare" /\ OnStopShare
  <2>1. PICK ended : ended = server.sessions
    OBVIOUS
  <2>2. /\ Deliver(EndShareTo(ended, FALSE))
        /\ server'.sessions = {} /\ server'.sessions = server.sessions \ ended
        /\ server'.members = server.members /\ server'.share = server.share
    BY <1>4, <1>7, <2>1 DEF OnStopShare
  <2>3. /\ Head(up[p]).type \in {"stopshare", "disconnected"}
        /\ ended \subseteq server.sessions /\ server'.members \subseteq server.members
    BY <1>2, <1>7, <2>1, <2>2
  <2> QED BY <1>1, <2>2, <2>3, EndKeeps
<1>8. CASE msg.type = "disconnected" /\ OnDisconnected(p)
  <2>1. PICK ended : ended = {s \in server.sessions : p \in {Host, s.viewer}}
    OBVIOUS
  <2>2. /\ Deliver(EndShareTo(ended, p # Host))
        /\ server'.sessions = server.sessions \ ended
        /\ server'.members = server.members \ {p} /\ server'.share = server.share
    BY <1>4, <1>8, <2>1 DEF OnDisconnected
  <2>3. /\ Head(up[p]).type \in {"stopshare", "disconnected"}
        /\ Head(up[p]).type = "stopshare" => server'.sessions = {}
        /\ ended \subseteq server.sessions /\ server'.members \subseteq server.members
    BY <1>2, <1>8, <2>1, <2>2
  <2> QED BY <1>1, <2>2, <2>3, EndKeeps
<1>9. CASE msg.type = "offer" /\ OnHostOffer(msg)
  BY <1>1, <1>2, <1>9, PassInOrder DEF OnHostOffer
<1>10. CASE msg.type = "answer" /\ OnClientAnswer(msg)
  BY <1>1, <1>2, <1>10, PassInOrder DEF OnClientAnswer
<1>11. CASE msg.type = "hostice" /\ OnHostICE(msg)
  BY <1>1, <1>2, <1>11, PassInOrder DEF OnHostICE
<1>12. CASE msg.type = "clientice" /\ OnClientICE(msg)
  BY <1>1, <1>2, <1>12, PassInOrder DEF OnClientICE
<1> QED BY <1>3, <1>5, <1>6, <1>7, <1>8, <1>9, <1>10, <1>11, <1>12

-----------------------------------------------------------------------------
(* Signals find their peer *)

\* Nothing is under way in the empty room.
LEMMA InitInOrder == Init => SignalsInv
<1> SUFFICES ASSUME Init
             PROVE  SignalsInv
  OBVIOUS
<1>1. /\ \A p \in Pages : up[p] = << >> /\ down[p] = << >>
      /\ server = [streaming |-> FALSE, share |-> 0, members |-> {Host}, sessions |-> {}]
      /\ registered = {}
      /\ \A s \in Sid : hostPeer[s] = "none" /\ viewerPeer[s] = "none"
      /\ \A p \in Pages : page[p] = IF p = Host THEN "in" ELSE "out"
  BY DEF Init, Silence
<1>2. /\ Host \in Pages /\ Viewers \subseteq Pages /\ Host \notin Viewers
      /\ \A s \in Sid : s.viewer \in Pages
  BY ViewersAssumption DEF Pages, Sid
<1>3. /\ server.members = {Host} /\ server.sessions = {}
      /\ IsFiniteSet(server.members) /\ IsFiniteSet(server.sessions)
  BY <1>1, FS_EmptySet, FS_Singleton
<1>4. /\ \A x : ~ Has(<< >>, x) /\ Once(<< >>, x)
      /\ << >> \in Seq(Signal)
  <2>1. << >> \in Seq(Signal)
    OBVIOUS
  <2> QED BY <2>1, EmptyHas
<1>5. Routed
  BY <1>1, <1>2, <1>4 DEF Routed, UpHas, DownHas, Present
<1>6. Joins
  BY <1>1, <1>2, <1>3, <1>4 DEF Joins, Joining
<1>7. ASSUME NEW s \in Sid
      PROVE  Unheard(s)
  BY <1>1, <1>2, <1>3, <1>4 DEF Unheard, UpHas, DownHas
<1> QED BY <1>5, <1>6, <1>7 DEF SignalsInv, Accounted, Unheard

\* Every step keeps the signals in order.
LEMMA NextInOrder == TypeOK /\ SignalsInv /\ [Next]_vars => SignalsInv'
<1> SUFFICES ASSUME TypeOK, SignalsInv, [Next]_vars
             PROVE  SignalsInv'
  OBVIOUS
<1>1. CASE \E p \in Pages : Serve(p)
  BY <1>1, ServeInOrder
<1>2. CASE \E p \in Pages : Lose(p)
  BY <1>2, ComingsInOrder
<1>3. CASE \E v \in Viewers : Enter(v) \/ ViewerReceives(v)
  BY <1>3, EnterInOrder, ComingsInOrder, ViewerTakesInOrder DEF ViewerReceives
<1>4. CASE Share \/ StopShare
  BY <1>4, SharingInOrder
<1>5. CASE HostReceives
  BY <1>5, HostTakesInOrder
<1>6. CASE \E s \in Sid : HostWorks(s) \/ HostCandidate(s) \/ HostFails(s)
  BY <1>6, HostPeersInOrder DEF HostWorks, HostNotices
<1>7. CASE \E s \in Sid : ViewerWorks(s) \/ ViewerCandidate(s) \/ ViewerFails(s)
  BY <1>7, ViewerPeersInOrder DEF ViewerWorks, ViewerNotices
<1>8. CASE UNCHANGED vars
  <2>1. UNCHANGED <<page, up, down, server, hostPeer, registered, viewerPeer>>
    BY <1>8 DEF vars
  <2>2. Routed' /\ Joins' /\ (Stopping => Stopping')
    BY <2>1 DEF SignalsInv, Routed, Joins, Present, UpHas, DownHas, UpFits, DownFits, Joining,
           Stopping
  <2>3. ASSUME NEW s \in Sid
        PROVE  Calm(s) /\ (Unopened(s)' => Unopened(s))
    BY <2>1, SameSimilar
    DEF Calm, Still, HostStays, ViewerStays, PagesStay, UpStays, DownStays, Present,
        Unopened, Joining
  <2>4. \A s \in Sid : Unheard(s) => s \notin server'.sessions
    BY <2>1 DEF Unheard
  <2> QED BY <2>1, <2>2, <2>3, <2>4, CalmUnheard, CalmOrder, StepKeeps
<1> QED BY <1>1, <1>2, <1>3, <1>4, <1>5, <1>6, <1>7, <1>8 DEF Next

\* What has a message before it follows it.
LEMMA BehindFollows ==
    ASSUME TypeOK, Routed, NEW p \in Pages, NEW i \in DOMAIN down[p], NEW type, NEW first,
           NEW s, down[p][i] = Msg(type, s), Behind(down[p], Msg(type, s), Msg(first, s))
    PROVE  Follows(p, i, first)
<1>1. PICK q \in Seq(Signal) : q = down[p]
  BY Queues
<1>2. PICK j \in DOMAIN q : j < i /\ q[j] = Msg(first, s)
  BY <1>1 DEF Behind
<1>3. j \in 1 .. i - 1
  BY <1>1, <1>2
<1>4. down[p][j] = [type |-> first, sid |-> down[p][i].sid]
  <2>1. down[p][i].sid = s
    BY MsgIs
  <2> QED BY <1>1, <1>2, <2>1 DEF Msg
<1> QED BY <1>3, <1>4 DEF Follows

\* Whatever the awaits of the pages and the joins, losses and restarts of the
\* share in between: an offer, an answer or a candidate of an open session
\* is never dropped by the `?.' of useRoom.ts:255-281, and comes after the
\* description it needs.
THEOREM SignalsFound == Spec => []SignalsFindTheirPeer
<1>1. TypeOK /\ SignalsInv => SignalsFindTheirPeer
  <2> SUFFICES ASSUME TypeOK, SignalsInv
               PROVE  SignalsFindTheirPeer
    OBVIOUS
  <2>1. Routed /\ Host \in Pages /\ Viewers \subseteq Pages
    BY DEF SignalsInv, Pages
  <2>2. ASSUME NEW p \in Pages, NEW i \in DOMAIN down[p],
               NEW type \in {"offer", "answer", "hostice", "clientice"},
               Signals(down[p][i], type)
        PROVE  \E s \in Sid : /\ down[p][i] = Msg(type, s) /\ down[p][i].sid = s
                              /\ DownHas(p, type, s) /\ InOrder(s) /\ Present(p)
                              /\ p = IF type \in {"offer", "hostice"} THEN s.viewer ELSE Host
    <3>1. PICK q, msg : q \in Seq(Signal) /\ q = down[p] /\ msg = q[i]
      BY <2>1, Queues
    <3>2. msg \in Signal /\ i \in DOMAIN q
      BY <2>2, <3>1
    <3>3. type \in SignalTypes /\ msg.type = type /\ msg.sid \in server.sessions
      BY <2>2, <3>1 DEF Signals, SignalTypes
    <3>4. PICK s \in Session : s = msg.sid /\ msg = Msg(type, s)
      BY <3>2, <3>3, MsgIs
    <3>5. DownHas(p, type, s)
      BY <3>1, <3>2, <3>4 DEF DownHas, Has
    <3>6. DownFits(p, type, s)
      BY <2>1, <3>3, <3>5 DEF Routed
    <3>7. s \in Sid /\ p = IF type \in {"offer", "hostice"} THEN s.viewer ELSE Host
      BY <3>6 DEF DownFits
    <3>8. Present(p)
      <4>1. ASSUME ~ Present(p)
            PROVE  FALSE
        <5>1. down[p] = << >>
          BY <2>1, <4>1 DEF Routed
        <5> QED BY <3>5, <5>1, EmptyHas DEF DownHas
      <4> QED BY <4>1
    <3>9. InOrder(s)
      BY <3>3, <3>4, <3>7 DEF SignalsInv, Accounted
    <3> QED BY <3>1, <3>4, <3>5, <3>7, <3>8, <3>9
  <2>3. ASSUME [type |-> "stopshare"] \notin ToSet(up[Host])
        PROVE  ~ Stopping
    BY <2>3 DEF ToSet, Stopping, Has
  <2>4. ASSUME ~ Stopping, NEW i \in DOMAIN down[Host], Signals(down[Host][i], "answer")
        PROVE  /\ down[Host][i].sid \in registered
               /\ hostPeer[down[Host][i].sid] = "offered"
    <3>1. PICK s \in Sid : /\ down[Host][i].sid = s /\ DownHas(Host, "answer", s)
                           /\ InOrder(s) /\ Present(Host)
      BY <2>1, <2>2, <2>4
    <3> QED BY <2>4, <3>1 DEF InOrder, AnswerFirst, Awaited, AnswerUnderway
  <2>5. ASSUME ~ Stopping, NEW i \in DOMAIN down[Host], Signals(down[Host][i], "clientice")
        PROVE  Follows(Host, i, "answer")
                  \/ hostPeer[down[Host][i].sid] \in {"answered", "closed"}
    <3>1. PICK s \in Sid : /\ down[Host][i] = Msg("clientice", s) /\ down[Host][i].sid = s
                           /\ InOrder(s) /\ Present(Host)
      BY <2>1, <2>2, <2>5
    <3>2. hostPeer[s] \notin {"answered", "closed"} =>
             Behind(down[Host], Msg("clientice", s), Msg("answer", s))
      BY <2>5, <3>1 DEF InOrder, AnswerFirst
    <3> QED BY <2>1, <3>1, <3>2, BehindFollows
  <2>6. ASSUME NEW v \in Viewers, NEW i \in DOMAIN down[v], Signals(down[v][i], "offer")
        PROVE  Follows(v, i, "clientsession") \/ viewerPeer[down[v][i].sid] = "new"
    <3>1. PICK s \in Sid : /\ down[v][i] = Msg("offer", s) /\ down[v][i].sid = s
                           /\ DownHas(v, "offer", s) /\ InOrder(s) /\ v = s.viewer
      BY <2>1, <2>2, <2>6
    <3>2. /\ viewerPeer[s] \in {"none", "new"}
          /\ viewerPeer[s] = "none" =>
                Behind(down[v], Msg("offer", s), Msg("clientsession", s))
      BY <3>1 DEF InOrder, OfferedOnce, OfferUnderway, OfferFirst
    <3> QED BY <2>1, <3>1, <3>2, BehindFollows
  <2>7. ASSUME NEW v \in Viewers, NEW i \in DOMAIN down[v], Signals(down[v][i], "hostice")
        PROVE  Follows(v, i, "offer") \/ viewerPeer[down[v][i].sid] \notin {"none", "new"}
    <3>1. PICK s \in Sid : /\ down[v][i] = Msg("hostice", s) /\ down[v][i].sid = s
                           /\ InOrder(s) /\ v = s.viewer
      BY <2>1, <2>2, <2>7
    <3>2. viewerPeer[s] \in {"none", "new"} =>
             Behind(down[v], Msg("hostice", s), Msg("offer", s))
      BY <3>1 DEF InOrder, OfferFirst
    <3> QED BY <2>1, <3>1, <3>2, BehindFollows
  <2> QED BY <2>3, <2>4, <2>5, <2>6, <2>7 DEF SignalsFindTheirPeer
<1>2. IInv => TypeOK
  BY DEF IInv
<1> QED BY <1>1, <1>2, InitKeeps, NextKeeps, InitInOrder, NextInOrder, PTL DEF Spec

=============================================================================
