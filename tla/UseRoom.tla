------------------------------ MODULE UseRoom ------------------------------
(***************************************************************************)
(* The pages of one room (ui/src/useRoom.ts) setting up their peer          *)
(* connections through the server.  One page shares its screen, the others *)
(* watch.  The callbacks of a page run one at a time, but every await of    *)
(* useRoom lets others in between, and the messages between a page and the *)
(* server are in flight meanwhile.                                         *)
(*                                                                         *)
(* The server is reduced to what module Rooms proves of it: which of the    *)
(* pages are in the room, who shares, and the open sessions.  The browser's *)
(* RTCPeerConnection is external.  A viewer that has lost its connection    *)
(* may come back with a new one, and finds the peers of the old one still   *)
(* at work; the host does not come back.                                   *)
(***************************************************************************)
EXTENDS Naturals, Sequences, SequencesExt

CONSTANTS
    Host,      \* the page that shares
    Viewers,   \* the connections of those who watch, numbered
    Tab,       \* viewer -> the page whose connection it is
    MaxShares, \* bound: how often the host starts to share
    MaxTurns,  \* bound: shares and viewers' connections together
    MaxTrickle \* bound: how many ICE candidates are found

ASSUME ViewersAssumption == Viewers \subseteq Nat /\ Host \notin Viewers
ASSUME TabAssumption == DOMAIN Tab = Viewers
ASSUME BoundsAssumption == {MaxShares, MaxTurns, MaxTrickle} \subseteq Nat

VARIABLES
    page,       \* of a connection: "out", "joining", "in" the room, or "gone"
    up,         \* page -> messages on their way to the server
    down,       \* page -> messages on their way from the server
    server,     \* what the server knows of the room
    stream,     \* stream.current: number of the captured stream, 0 if none
    captures,   \* how many streams were captured so far
    hostPeer,   \* session -> the host's RTCPeerConnection
    registered, \* the sessions host.current has a peer for
    viewerPeer, \* session -> the viewer's RTCPeerConnection
    shown,      \* the sessions in the viewers' clientStreams
    trickled    \* how many ICE candidates have been found

vars == <<page, up, down, server, stream, captures, hostPeer, registered,
          viewerPeer, shown, trickled>>

Pages == Viewers \cup {Host}

\* newSession is called at most once for a viewer while a screen is shared.
Sid == [viewer : Viewers, share : 1 .. MaxShares]

Message ==
    [type : {"room", "join", "share", "stopshare", "disconnected"}]
        \cup [type : {"hostsession", "clientsession", "offer", "answer",
                      "hostice", "clientice", "endshare"}, sid : Sid]

HostSide == <<stream, captures, hostPeer, registered>>

ViewerSide == <<viewerPeer, shown>>

\* Connections of one page
SameTab(v, w) == v = w \/ (v \in Viewers /\ w \in Viewers /\ Tab[v] = Tab[w])

\* state, as setState's callbacks see it, is that of a room.
InRoom(v) == \E w \in Viewers : SameTab(v, w) /\ page[w] = "in"

-----------------------------------------------------------------------------
(* The server *)

\* What the handlers write reaches the pages that are still connected.
Deliver(out) ==
    down' = [p \in Pages |-> IF page[p] = "gone" THEN << >> ELSE down[p] \o out[p]]

Silence == [p \in Pages |-> << >>]

\* For every session of sids: first for the host, last for its viewer.
Tell(sids, toHost, toViewer) ==
    [p \in Pages |->
        IF p = Host
        THEN [i \in 1 .. Cardinality(sids) |->
                [type |-> toHost, sid |-> SetToSeq(sids)[i]]]
        ELSE SetToSeq({[type |-> toViewer, sid |-> s] :
                        s \in {t \in sids : t.viewer = p}})]

EndShareTo(sids, tellHost) ==
    [Tell(sids, "endshare", "endshare") EXCEPT
        ![Host] = IF tellHost THEN @ ELSE << >>]

SessionsOf(viewers, share) ==
    {[viewer |-> v, share |-> share] : v \in viewers}

\* Broken: a screen that is already shared is not offered to who joins.
OnJoinLate(p) ==
    /\ server' = [server EXCEPT !.members = @ \cup {p}]
    /\ Deliver([Silence EXCEPT ![p] = << [type |-> "room"] >>])

\* Join: the room first, then a session with the sharing user.
OnJoin(p) ==
    LET new == IF server.streaming THEN SessionsOf({p}, server.share) ELSE {}
        out == Tell(new, "hostsession", "clientsession")
    IN  /\ server' = [server EXCEPT !.members = @ \cup {p}, !.sessions = @ \cup new]
        /\ Deliver([out EXCEPT ![p] = << [type |-> "room"] >> \o @])

\* StartShare: a session with every other user.
OnShare ==
    LET new == SessionsOf(server.members \ {Host}, server.share + 1)
    IN  /\ server' = [server EXCEPT !.streaming = TRUE, !.share = @ + 1,
                                    !.sessions = @ \cup new]
        /\ Deliver(Tell(new, "hostsession", "clientsession"))

\* StopShare: the viewers are told, the host is not.
OnStopShare ==
    /\ server' = [server EXCEPT !.streaming = FALSE, !.sessions = {}]
    /\ Deliver(EndShareTo(server.sessions, FALSE))

\* What one end of a session sends is passed on while the session is open.
PassOn(msg, to) ==
    /\ UNCHANGED server
    /\ Deliver(IF msg.sid \in server.sessions
               THEN [Silence EXCEPT ![to] = << msg >>] ELSE Silence)

OnHostOffer(msg) == PassOn(msg, msg.sid.viewer)

OnClientAnswer(msg) == PassOn(msg, Host)

OnHostICE(msg) == PassOn(msg, msg.sid.viewer)

OnClientICE(msg) == PassOn(msg, Host)

\* Disconnected: the sessions of who leaves end, the other side is told.
OnDisconnected(p) ==
    LET ended == {s \in server.sessions : p \in {Host, s.viewer}}
    IN  /\ server' = [server EXCEPT !.members = @ \ {p},
                                    !.sessions = @ \ ended,
                                    !.streaming = @ /\ p # Host]
        /\ Deliver(EndShareTo(ended, p # Host))

\* The server takes the next message of p.
Serve(p) ==
    /\ up[p] # << >>
    /\ up' = [up EXCEPT ![p] = Tail(@)]
    /\ LET msg == Head(up[p])
       IN  \/ msg.type = "join" /\ OnJoin(p)
           \/ msg.type = "share" /\ OnShare
           \/ msg.type = "stopshare" /\ OnStopShare
           \/ msg.type = "offer" /\ OnHostOffer(msg)
           \/ msg.type = "answer" /\ OnClientAnswer(msg)
           \/ msg.type = "hostice" /\ OnHostICE(msg)
           \/ msg.type = "clientice" /\ OnClientICE(msg)
           \/ msg.type = "disconnected" /\ OnDisconnected(p)
    /\ UNCHANGED <<page, HostSide, ViewerSide, trickled>>

-----------------------------------------------------------------------------
(* The connection of a page *)

\* send: only while the socket is open.
SendUp(p, msg) ==
    up' = [up EXCEPT ![p] = IF page[p] = "gone" THEN @ ELSE Append(@, msg)]

Turns == captures + Cardinality({v \in Viewers : page[v] # "out"})

\* room: connect and ask to join.  The page offers to while it is in no room.
Enter(v) ==
    /\ page[v] = "out"
    /\ \A w \in Viewers : SameTab(v, w) /\ w < v => page[w] = "gone"
    /\ Turns < MaxTurns
    /\ page' = [page EXCEPT ![v] = "joining"]
    /\ SendUp(v, [type |-> "join"])
    /\ UNCHANGED <<down, server, HostSide, ViewerSide, trickled>>

\* The socket of p is gone: what was not read yet is lost with it.
HangUp(p, queue) ==
    /\ page' = [page EXCEPT ![p] = "gone"]
    /\ \E n \in 0 .. Len(up[p]) :
          up' = [up EXCEPT ![p] = Append(SubSeq(@, 1, n), [type |-> "disconnected"])]
    /\ down' = [queue EXCEPT ![p] = << >>]

\* ws.onclose: the page forgets its state, not its peers and its stream.
Lose(p) ==
    /\ page[p] \in {"joining", "in"}
    /\ HangUp(p, down)
    /\ shown' = {s \in shown : ~ SameTab(p, s.viewer)}
    /\ UNCHANGED <<server, HostSide, viewerPeer, trickled>>

Arrives(p, type) == down[p] # << >> /\ Head(down[p]).type = type

Taken(p) == down' = [down EXCEPT ![p] = Tail(@)]

\* The first message has to be the room, or the page hangs up.
FirstMessage(v) ==
    /\ page[v] = "joining"
    /\ down[v] # << >>
    /\ \/ /\ Arrives(v, "room")
          /\ page' = [page EXCEPT ![v] = "in"]
          /\ Taken(v)
          /\ UNCHANGED up
       \/ /\ ~ Arrives(v, "room")
          /\ HangUp(v, down)
    /\ UNCHANGED <<server, HostSide, ViewerSide, trickled>>

-----------------------------------------------------------------------------
(* The host *)

\* share, once the user has chosen a screen.  The button is there only while
\* nothing is shared, and the browser's picker keeps it from being pressed
\* twice.
Share ==
    /\ page[Host] = "in"
    /\ stream = 0
    /\ captures < MaxShares
    /\ Turns < MaxTurns
    /\ captures' = captures + 1
    /\ stream' = captures + 1
    /\ SendUp(Host, [type |-> "share"])
    /\ UNCHANGED <<page, down, server, hostPeer, registered, ViewerSide, trickled>>

\* Broken: the peers are forgotten before they are closed.
ForgetPeers == UNCHANGED hostPeer /\ registered' = {}

\* stopShare closes every peer of host.current.
ClosePeers ==
    /\ hostPeer' = [s \in Sid |-> IF s \in registered THEN "closed" ELSE hostPeer[s]]
    /\ registered' = {}

\* stopShare: the button, or the browser says that the capture has ended.
StopShare ==
    /\ stream # 0
    /\ ClosePeers
    /\ stream' = 0
    /\ SendUp(Host, [type |-> "stopshare"])
    /\ UNCHANGED <<page, down, server, captures, ViewerSide, trickled>>

\* hostsession: nothing to do if the share was stopped meanwhile; otherwise
\* a peer is made, and createOffer is awaited before host.current knows it.
TakeHostSession ==
    /\ Arrives(Host, "hostsession")
    /\ hostPeer' = IF stream = 0 THEN hostPeer
                   ELSE [hostPeer EXCEPT ![Head(down[Host]).sid] = "offering"]
    /\ Taken(Host)
    /\ UNCHANGED <<page, up, server, stream, captures, registered, ViewerSide, trickled>>

\* Broken: the peer is not put into host.current.
OfferReadyUnregistered(s) ==
    /\ hostPeer[s] = "offering"
    /\ hostPeer' = [hostPeer EXCEPT ![s] = "offered"]
    /\ SendUp(Host, [type |-> "offer", sid |-> s])
    /\ UNCHANGED <<page, down, server, stream, captures, registered, ViewerSide, trickled>>

\* hostSession resolves: the offer is sent and the peer is registered, with
\* no other callback in between.
OfferReady(s) ==
    /\ hostPeer[s] = "offering"
    /\ hostPeer' = [hostPeer EXCEPT ![s] = "offered"]
    /\ registered' = registered \cup {s}
    /\ SendUp(Host, [type |-> "offer", sid |-> s])
    /\ UNCHANGED <<page, down, server, stream, captures, ViewerSide, trickled>>

\* clientanswer: for the peer of host.current, if there is one.
TakeAnswer ==
    /\ Arrives(Host, "answer")
    /\ LET s == Head(down[Host]).sid
       IN  hostPeer' = IF s \in registered /\ hostPeer[s] = "offered"
                       THEN [hostPeer EXCEPT ![s] = "answered"] ELSE hostPeer
    /\ Taken(Host)
    /\ UNCHANGED <<page, up, server, stream, captures, registered, ViewerSide, trickled>>

\* endshare: the peer is closed, and stays in host.current.
HostTakesEndShare ==
    /\ Arrives(Host, "endshare")
    /\ LET s == Head(down[Host]).sid
       IN  hostPeer' = IF s \in registered THEN [hostPeer EXCEPT ![s] = "closed"]
                       ELSE hostPeer
    /\ Taken(Host)
    /\ UNCHANGED <<page, up, server, stream, captures, registered, ViewerSide, trickled>>

\* onicecandidate: candidates come once the local description is set, and
\* hostSession goes on at once when it is.
HostCandidate(s) ==
    /\ hostPeer[s] \in {"offered", "answered"}
    /\ trickled < MaxTrickle
    /\ trickled' = trickled + 1
    /\ SendUp(Host, [type |-> "hostice", sid |-> s])
    /\ UNCHANGED <<page, down, server, HostSide, ViewerSide>>

\* clientice: addIceCandidate changes nothing that useRoom keeps.
TakeClientICE ==
    /\ Arrives(Host, "clientice")
    /\ Taken(Host)
    /\ UNCHANGED <<page, up, server, HostSide, ViewerSide, trickled>>

\* onconnectionstatechange: the connection fails; done() unregisters.
HostFails(s) ==
    /\ hostPeer[s] = "answered"
    /\ hostPeer' = [hostPeer EXCEPT ![s] = "closed"]
    /\ registered' = registered \ {s}
    /\ UNCHANGED <<page, up, down, server, stream, captures, ViewerSide, trickled>>

\* It does so if the other end has closed.
HostNotices(s) == viewerPeer[s] = "closed" /\ HostFails(s)

-----------------------------------------------------------------------------
(* The viewers *)

\* clientsession: the peer is in client.current before any other message.
TakeClientSession(v) ==
    /\ page[v] = "in"
    /\ Arrives(v, "clientsession")
    /\ viewerPeer' = [viewerPeer EXCEPT ![Head(down[v]).sid] = "new"]
    /\ Taken(v)
    /\ UNCHANGED <<page, up, server, HostSide, shown, trickled>>

\* hostoffer: setRemoteDescription begins; a closed peer never finishes it.
TakeOffer(v) ==
    /\ page[v] = "in"
    /\ Arrives(v, "offer")
    /\ LET s == Head(down[v]).sid
       IN  viewerPeer' = IF viewerPeer[s] = "new"
                         THEN [viewerPeer EXCEPT ![s] = "applying"] ELSE viewerPeer
    /\ Taken(v)
    /\ UNCHANGED <<page, up, server, HostSide, shown, trickled>>

\* The offer is applied: ontrack shows the stream if the page is in a room.
Applied(s) ==
    /\ viewerPeer[s] = "applying"
    /\ viewerPeer' = [viewerPeer EXCEPT ![s] = "answering"]
    /\ shown' = IF InRoom(s.viewer) THEN shown \cup {s} ELSE shown
    /\ UNCHANGED <<page, up, down, server, HostSide, trickled>>

\* createAnswer and setLocalDescription are done.
AnswerReady(s) ==
    /\ viewerPeer[s] = "answering"
    /\ viewerPeer' = [viewerPeer EXCEPT ![s] = "answered"]
    /\ SendUp(s.viewer, [type |-> "answer", sid |-> s])
    /\ UNCHANGED <<page, down, server, HostSide, shown, trickled>>

ViewerCandidate(s) ==
    /\ viewerPeer[s] = "answered"
    /\ trickled < MaxTrickle
    /\ trickled' = trickled + 1
    /\ SendUp(s.viewer, [type |-> "clientice", sid |-> s])
    /\ UNCHANGED <<page, down, server, HostSide, ViewerSide>>

TakeHostICE(v) ==
    /\ page[v] = "in"
    /\ Arrives(v, "hostice")
    /\ Taken(v)
    /\ UNCHANGED <<page, up, server, HostSide, ViewerSide, trickled>>

\* Broken: the stream is taken off, the peer is not closed.
EndView(s) == shown' = shown \ {s} /\ UNCHANGED viewerPeer

\* close(), and the stream is filtered out of clientStreams.
CloseView(s) ==
    /\ shown' = shown \ {s}
    /\ viewerPeer' = [viewerPeer EXCEPT ![s] = "closed"]

TakeEndShare(v) ==
    /\ page[v] = "in"
    /\ Arrives(v, "endshare")
    /\ CloseView(Head(down[v]).sid)
    /\ Taken(v)
    /\ UNCHANGED <<page, up, server, HostSide, trickled>>

\* Broken: the peer is dropped, its stream is not filtered out.
DoneUnseen(s) ==
    /\ viewerPeer' = [viewerPeer EXCEPT ![s] = "closed"]
    /\ UNCHANGED shown

Done(s) == CloseView(s)

\* onconnectionstatechange: the connection fails; close() and done().
ViewerFails(s) ==
    /\ viewerPeer[s] = "answered"
    /\ Done(s)
    /\ UNCHANGED <<page, up, down, server, HostSide, trickled>>

\* The answer was lost with the connection it was sent on.
Unanswered(s) ==
    /\ hostPeer[s] = "offered"
    /\ [type |-> "answer", sid |-> s] \notin ToSet(up[s.viewer]) \cup ToSet(down[Host])

\* It does so if the other end has closed, or never hears of this one.
ViewerNotices(s) == (hostPeer[s] = "closed" \/ Unanswered(s)) /\ ViewerFails(s)

-----------------------------------------------------------------------------

Init ==
    /\ page = [p \in Pages |-> IF p = Host THEN "in" ELSE "out"]
    /\ up = Silence
    /\ down = Silence
    /\ server = [streaming |-> FALSE, share |-> 0, members |-> {Host}, sessions |-> {}]
    /\ stream = 0
    /\ captures = 0
    /\ hostPeer = [s \in Sid |-> "none"]
    /\ registered = {}
    /\ viewerPeer = [s \in Sid |-> "none"]
    /\ shown = {}
    /\ trickled = 0

HostReceives ==
    TakeHostSession \/ TakeAnswer \/ TakeClientICE \/ HostTakesEndShare

ViewerReceives(v) ==
    \/ FirstMessage(v)
    \/ TakeClientSession(v) \/ TakeOffer(v) \/ TakeHostICE(v) \/ TakeEndShare(v)

HostWorks(s) == OfferReady(s) \/ HostNotices(s)

ViewerWorks(s) == Applied(s) \/ AnswerReady(s) \/ ViewerNotices(s)

Next ==
    \/ \E p \in Pages : Serve(p) \/ Lose(p)
    \/ \E v \in Viewers : Enter(v) \/ ViewerReceives(v)
    \/ Share \/ StopShare \/ HostReceives
    \/ \E s \in Sid :
          \/ HostWorks(s) \/ ViewerWorks(s)
          \/ HostCandidate(s) \/ ViewerCandidate(s)
          \/ HostFails(s) \/ ViewerFails(s)

Spec == Init /\ [][Next]_vars

\* Messages arrive, and the browser settles what it is asked for.  What the
\* users and the network do (Enter, Share, StopShare, Lose, the candidates and
\* failures of peers) nobody can rely on.
Fairness ==
    /\ \A p \in Pages : WF_vars(Serve(p))
    /\ WF_vars(HostReceives)
    /\ \A v \in Viewers : WF_vars(ViewerReceives(v))
    /\ \A s \in Sid : WF_vars(HostWorks(s)) /\ WF_vars(ViewerWorks(s))

FairSpec == Spec /\ Fairness

-----------------------------------------------------------------------------
(* Properties *)

\* No frozen picture: a page shows a stream of its connection only while the
\* session is open or the message that it has ended is still on its way.  An
\* offer that is being applied when the share ends must not bring the stream
\* back (useRoom.ts:263-294).
ShownAreServed ==
    \A s \in shown : page[s.viewer] = "in" =>
        s \in server.sessions
            \/ \E i \in DOMAIN down[s.viewer] :
                  down[s.viewer][i] = [type |-> "endshare", sid |-> s]

\* Who comes back may be shown the stream of a session of the connection that
\* was lost: its peer outlives ws.onclose (useRoom.ts:297-304), nobody tells
\* the new connection that the session has ended, and ontrack takes the new
\* room for its own.  Such a picture goes when the peer gives up.
FrozenPicturesGo == (shown \ server.sessions # {}) ~> (shown \subseteq server.sessions)

\* A peer that has sent an offer and is not closed is in host.current: the
\* next stopShare will close it, even one whose session had ended before the
\* offer was ready (useRoom.ts:204-217, 364-368).
OpenPeersAreRegistered ==
    \A s \in Sid : hostPeer[s] \in {"offered", "answered"} => s \in registered

\* Of an open session
Signals(msg, type) == msg.type = type /\ msg.sid \in server.sessions

Follows(p, i, type) ==
    \E j \in 1 .. i - 1 : down[p][j] = [type |-> type, sid |-> down[p][i].sid]

\* Offers, answers and candidates of an open session are never dropped by the
\* `?.' of useRoom.ts:255-281, and none comes before the description it needs:
\* each finds the peer it is for, or one whose connection has failed, unless
\* the host has stopped sharing meanwhile.
SignalsFindTheirPeer ==
    /\ [type |-> "stopshare"] \notin ToSet(up[Host]) =>
          \A i \in DOMAIN down[Host] :
             LET msg == down[Host][i]
             IN  /\ Signals(msg, "answer") =>
                       msg.sid \in registered /\ hostPeer[msg.sid] = "offered"
                 /\ Signals(msg, "clientice") =>
                       Follows(Host, i, "answer")
                          \/ hostPeer[msg.sid] \in {"answered", "closed"}
    /\ \A v \in Viewers : \A i \in DOMAIN down[v] :
          LET msg == down[v][i]
          IN  /\ Signals(msg, "offer") =>
                    Follows(v, i, "clientsession") \/ viewerPeer[msg.sid] = "new"
              /\ Signals(msg, "hostice") =>
                    Follows(v, i, "offer") \/ viewerPeer[msg.sid] \notin {"none", "new"}

\* Who is in a room whose screen is shared gets to see it, unless the share
\* ends, the page leaves, or the connection to the host fails first.  It holds
\* whether the viewer joined before the share or after, came back, and however
\* often the share was restarted.
SharesAreSeen ==
    \A v \in Viewers :
        page[v] = "in" /\ server.streaming
            ~> \/ \E s \in shown : s.viewer = v
               \/ page[v] # "in"
               \/ ~ server.streaming
               \/ \E s \in Sid : /\ s.viewer = v
                                  /\ s.share = server.share
                                  /\ "closed" \in {hostPeer[s], viewerPeer[s]}
=============================================================================
