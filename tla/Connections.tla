---------------------------- MODULE Connections ----------------------------
(***************************************************************************)
(* The goroutines around the room registry (ws/client.go, Upgrade, Start   *)
(* and writeTimeout): per connection the HTTP handler that announces it, a *)
(* read loop, a write loop with a channel of capacity one, and the         *)
(* goroutine CloseOnError starts to report a failure; and the one hub      *)
(* goroutine they all send to over an unbuffered channel.                  *)
(*                                                                         *)
(* What the handlers send is abstracted to what module RoomViews shows of  *)
(* them: they send to connected clients only, take clients out only with   *)
(* the one whose message is handled, and CloseWriter is the last thing a   *)
(* client is sent and goes to exactly those taken out.                     *)
(***************************************************************************)
EXTENDS Naturals, Sequences, FiniteSets

CONSTANTS
    Clients,
    MaxSends,  \* bound: messages one handler sends
    MayDrop    \* a send may time out because the write loop is in a write

ASSUME MaxSendsAssumption == MaxSends \in Nat
ASSUME MayDropAssumption == MayDrop \in BOOLEAN

VARIABLES
    upgrade,   \* Upgrade: "sending" Connected, "sent", loops "running"
    conn,      \* the socket: "open", "broken" by peer or net, "closed" by us
    reader,    \* startReading
    writer,    \* startWriteHandler
    once,      \* Client.once.done
    disc,      \* the goroutine of CloseOnError: "none", "sending", "done"
    buf,       \* ClientInfo.Write, a channel of capacity one
    connected, \* the clients in Rooms.connected
    pending    \* what the running handler has yet to send; empty: hub idle

vars == <<upgrade, conn, reader, writer, once, disc, buf, connected, pending>>

Kinds == {"message", "closewriter"}

-----------------------------------------------------------------------------
(* once.Do(f) runs f for the first caller only; the others return at once,  *)
(* even while f is still running.                                           *)

\* Broken: the hub is not told of the failure.
CloseOnErrorUnreported(c) ==
    /\ once' = [once EXCEPT ![c] = TRUE]
    /\ UNCHANGED disc

\* The first part of CloseOnError: the report is under way.
CloseOnError(c) ==
    /\ once' = [once EXCEPT ![c] = TRUE]
    /\ disc' = IF once[c] THEN disc ELSE [disc EXCEPT ![c] = "sending"]

\* ... and the second, by the loop that came first: close frame and Close.
AfterError(c, loop, rest) == [loop EXCEPT ![c] = IF once[c] THEN rest ELSE "closing"]

CloseConn(c) == conn' = [conn EXCEPT ![c] = "closed"]

-----------------------------------------------------------------------------
(* Opening *)

\* Upgrade sends Connected to the hub and then starts the loops.
StartLoops(c) ==
    /\ upgrade[c] = "sent"
    /\ upgrade' = [upgrade EXCEPT ![c] = "running"]
    /\ reader' = [reader EXCEPT ![c] = "reading"]
    /\ writer' = [writer EXCEPT ![c] = "idle"]
    /\ UNCHANGED <<conn, once, disc, buf, connected, pending>>

\* The peer or the network: the next read fails at the latest when the read
\* deadline is over.
Break(c) ==
    /\ conn[c] = "open"
    /\ conn' = [conn EXCEPT ![c] = "broken"]
    /\ UNCHANGED <<upgrade, reader, writer, once, disc, buf, connected, pending>>

-----------------------------------------------------------------------------
(* The read loop *)

Read(c) ==
    /\ reader[c] = "reading"
    /\ conn[c] = "open"
    /\ reader' = [reader EXCEPT ![c] = "sending"]
    /\ UNCHANGED <<upgrade, conn, writer, once, disc, buf, connected, pending>>

\* A read error, a binary message or a malformed one.
ReadFails(c) ==
    /\ reader[c] = "reading"
    /\ CloseOnError(c)
    /\ reader' = AfterError(c, reader, "done")
    /\ UNCHANGED <<upgrade, conn, writer, buf, connected, pending>>

ReaderCloses(c) ==
    /\ reader[c] = "closing"
    /\ CloseConn(c)
    /\ reader' = [reader EXCEPT ![c] = "done"]
    /\ UNCHANGED <<upgrade, writer, once, disc, buf, connected, pending>>

-----------------------------------------------------------------------------
(* The write loop *)

TakeMessage(c) ==
    /\ writer[c] = "idle"
    /\ buf[c] # << >>
    /\ buf' = [buf EXCEPT ![c] = Tail(@)]
    /\ Head(buf[c]) = "message"
    /\ writer' = [writer EXCEPT ![c] = "writing"]
    /\ UNCHANGED <<upgrade, conn, reader, once, disc, connected, pending>>

\* CloseOnDone: nobody needs to be told.
TakeCloseWriter(c) ==
    /\ writer[c] = "idle"
    /\ buf[c] # << >>
    /\ buf' = [buf EXCEPT ![c] = Tail(@)]
    /\ Head(buf[c]) = "closewriter"
    /\ once' = [once EXCEPT ![c] = TRUE]
    /\ writer' = [writer EXCEPT ![c] = "finishing"]
    /\ UNCHANGED <<upgrade, conn, reader, disc, connected, pending>>

Written(c) ==
    /\ writer[c] = "writing"
    /\ conn[c] # "closed"
    /\ writer' = [writer EXCEPT ![c] = "idle"]
    /\ UNCHANGED <<upgrade, conn, reader, once, disc, buf, connected, pending>>

\* Broken: a write error ends the loop.
WriteFailureEnds(c) ==
    /\ writer[c] = "writing"
    /\ CloseOnError(c)
    /\ CloseConn(c)
    /\ writer' = [writer EXCEPT ![c] = "done"]
    /\ UNCHANGED <<upgrade, reader, buf, connected, pending>>

\* The message cannot be written, or not within two seconds.  The loop goes
\* on: it ends with CloseWriter only.
WriteFails(c) ==
    /\ writer[c] = "writing"
    /\ CloseOnError(c)
    /\ writer' = AfterError(c, writer, "idle")
    /\ UNCHANGED <<upgrade, conn, reader, buf, connected, pending>>

\* (Once the failure has been reported, later ones change nothing.)
PingFails(c) ==
    /\ writer[c] = "idle"
    /\ ~once[c]
    /\ CloseOnError(c)
    /\ writer' = AfterError(c, writer, "idle")
    /\ UNCHANGED <<upgrade, conn, reader, buf, connected, pending>>

WriterCloses(c) ==
    /\ writer[c] = "closing"
    /\ CloseConn(c)
    /\ writer' = [writer EXCEPT ![c] = "idle"]
    /\ UNCHANGED <<upgrade, reader, once, disc, buf, connected, pending>>

\* Broken: the socket is left open.
WriterLeaves(c) ==
    /\ writer[c] = "finishing"
    /\ writer' = [writer EXCEPT ![c] = "done"]
    /\ UNCHANGED <<upgrade, conn, reader, once, disc, buf, connected, pending>>

WriterEnds(c) ==
    /\ writer[c] = "finishing"
    /\ CloseConn(c)
    /\ writer' = [writer EXCEPT ![c] = "done"]
    /\ UNCHANGED <<upgrade, reader, once, disc, buf, connected, pending>>

-----------------------------------------------------------------------------
(* The hub *)

HubIdle == pending = << >>

Plans == UNION {[1..n -> Clients \X Kinds] : n \in 0..MaxSends}

\* Broken: only the client whose message is handled is sent CloseWriter.
AllowedSilently(c, leaves, plan, out) ==
    /\ out # {} => c \in out
    /\ leaves => plan # << >> /\ plan[1] = <<c, "closewriter">>
    /\ c \in out => \E i \in DOMAIN plan : plan[i] = <<c, "closewriter">>
    /\ \A i \in DOMAIN plan :
          plan[i][1] \in connected /\ (plan[i][2] = "closewriter" => plan[i][1] = c)

\* The handler of a message of c may send plan and take the clients of out
\* from the registry; if c has failed, closing c is the first it does.
Allowed(c, leaves, plan, out) ==
    /\ out # {} => c \in out
    /\ leaves => plan # << >> /\ plan[1] = <<c, "closewriter">>
    /\ \A i \in DOMAIN plan :
          /\ plan[i][1] \in connected
          /\ plan[i][2] = "closewriter" => plan[i][1] \in out
          /\ \A j \in 1..i-1 : plan[j] # <<plan[i][1], "closewriter">>
    /\ \A d \in out : \E i \in DOMAIN plan : plan[i] = <<d, "closewriter">>

\* The message of a client that is not connected any more is ignored.
Handle(c, leaves) ==
    IF c \notin connected
    THEN UNCHANGED <<connected, pending>>
    ELSE \E plan \in Plans, out \in SUBSET connected :
            /\ Allowed(c, leaves, plan, out)
            /\ connected' = connected \ out
            /\ pending' = plan

AcceptConnected(c) ==
    /\ HubIdle
    /\ upgrade[c] = "sending"
    /\ upgrade' = [upgrade EXCEPT ![c] = "sent"]
    /\ connected' = connected \cup {c}
    /\ UNCHANGED <<conn, reader, writer, once, disc, buf, pending>>

AcceptMessage(c) ==
    /\ HubIdle
    /\ reader[c] = "sending"
    /\ reader' = [reader EXCEPT ![c] = "reading"]
    /\ Handle(c, FALSE)
    /\ UNCHANGED <<upgrade, conn, writer, once, disc, buf>>

AcceptDisconnected(c) ==
    /\ HubIdle
    /\ disc[c] = "sending"
    /\ disc' = [disc EXCEPT ![c] = "done"]
    /\ Handle(c, TRUE)
    /\ UNCHANGED <<upgrade, conn, reader, writer, once, buf>>

\* writeTimeout: the channel takes the message ...
HubSends ==
    /\ ~HubIdle
    /\ LET c == pending[1][1]
       IN  /\ buf[c] = << >>
           /\ buf' = [buf EXCEPT ![c] = <<pending[1][2]>>]
    /\ pending' = Tail(pending)
    /\ UNCHANGED <<upgrade, conn, reader, writer, once, disc, connected>>

\* ... or two seconds are over first.  An idle write loop would have made
\* room by then.
HubDrops ==
    /\ MayDrop
    /\ ~HubIdle
    /\ buf[pending[1][1]] # << >>
    /\ writer[pending[1][1]] # "idle"
    /\ pending' = Tail(pending)
    /\ UNCHANGED <<upgrade, conn, reader, writer, once, disc, buf, connected>>

-----------------------------------------------------------------------------
Ended(c) == conn[c] = "closed" /\ reader[c] = "done" /\ writer[c] = "done"

\* All connections are over; the hub waits for the next.
Rest ==
    /\ HubIdle
    /\ \A c \in Clients : Ended(c) /\ disc[c] # "sending"
    /\ UNCHANGED vars

Init ==
    /\ upgrade = [c \in Clients |-> "sending"]
    /\ conn = [c \in Clients |-> "open"]
    /\ reader = [c \in Clients |-> "none"]
    /\ writer = [c \in Clients |-> "none"]
    /\ once = [c \in Clients |-> FALSE]
    /\ disc = [c \in Clients |-> "none"]
    /\ buf = [c \in Clients |-> << >>]
    /\ connected = {}
    /\ pending = << >>

\* The steps of one goroutine.
Reading(c) == StartLoops(c) \/ ReadFails(c) \/ ReaderCloses(c)

Writing(c) ==
    \/ TakeMessage(c) \/ TakeCloseWriter(c)
    \/ Written(c) \/ WriteFails(c)
    \/ WriterCloses(c) \/ WriterEnds(c)

Next ==
    \/ \E c \in Clients :
          \/ Break(c) \/ Read(c) \/ PingFails(c)
          \/ Reading(c) \/ Writing(c)
          \/ AcceptConnected(c) \/ AcceptMessage(c) \/ AcceptDisconnected(c)
    \/ HubSends
    \/ HubDrops
    \/ Rest

\* A goroutine that can go on does so.  Senders that block queue up at
\* Incoming in order, so each is served although the hub is busy again and
\* again.  A read returns only if the peer sends or the socket is not open;
\* peers promise nothing, and no ping has to fail.
Fairness ==
    /\ \A c \in Clients :
          /\ WF_vars(Reading(c) /\ (reader[c] = "reading" => conn[c] # "open"))
          /\ WF_vars(Writing(c))
          /\ SF_vars(AcceptConnected(c) \/ AcceptMessage(c))
          /\ SF_vars(AcceptDisconnected(c))
    /\ WF_vars(HubSends \/ HubDrops)

Spec == Init /\ [][Next]_vars

FairSpec == Spec /\ Fairness

-----------------------------------------------------------------------------
(* Properties *)

AddressedTo(c) == \E i \in DOMAIN pending : pending[i][1] = c

\* A write loop that has ended is never missed: nothing is waiting for it and
\* the hub will not send to it again, so the hub cannot hang on a client that
\* is gone.
NothingForTheDead ==
    \A c \in Clients :
        writer[c] \in {"finishing", "done"} =>
            c \notin connected /\ buf[c] = << >> /\ ~AddressedTo(c)

\* A client leaves the registry for good, and none stays in it whose read
\* loop has given up without a report to the hub being on its way.
FailuresAreReported ==
    \A c \in Clients :
        (c \in connected /\ reader[c] \in {"closing", "done"}) => disc[c] = "sending"

\* A connection that breaks, or that is closed, leaves the registry.
BrokenConnectionsLeave ==
    \A c \in Clients :
        (conn[c] # "open") ~> (upgrade[c] = "running" /\ c \notin connected)

\* Every handler comes to its end without any of its sends timing out, if
\* writes end: no two goroutines wait for each other.  (CloseOnError is called
\* by a write loop the hub may be waiting for; hence the goroutine in it.)
HubReturns == []<>HubIdle

\* A client that is taken from the registry is closed and both its loops end:
\* no goroutine and no socket is left behind.
RemovedClientsEnd ==
    \A c \in Clients : (upgrade[c] = "running" /\ c \notin connected) ~> Ended(c)

\* The write loop ends after an error ("on errors exit the loop",
\* ws/client.go:133): if not at once, then when the hub has reacted.
WriteLoopExitsOnErrors ==
    \A c \in Clients : (writer[c] = "closing") ~> (writer[c] = "done")
=============================================================================
