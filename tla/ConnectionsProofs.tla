-------------------------- MODULE ConnectionsProofs --------------------------
(***************************************************************************)
(* For any number of connections, and whatever the goroutines around them  *)
(* do: no failure goes unreported, and the hub never waits for a write     *)
(* loop that has ended.                                                    *)
(***************************************************************************)
EXTENDS Connections, TLAPS

TypeOK ==
    /\ upgrade \in [Clients -> {"sending", "sent", "running"}]
    /\ conn \in [Clients -> {"open", "broken", "closed"}]
    /\ reader \in [Clients -> {"none", "reading", "sending", "closing", "done"}]
    /\ writer \in [Clients -> {"none", "idle", "writing", "closing", "finishing", "done"}]
    /\ once \in [Clients -> BOOLEAN]
    /\ disc \in [Clients -> {"none", "sending", "done"}]
    /\ buf \in [Clients -> {<< >>, <<"message">>, <<"closewriter">>}]
    /\ connected \subseteq Clients
    /\ pending \in Seq(Clients \X Kinds)

\* A client that is not announced yet has nothing to lose.
Fresh(c) ==
    upgrade[c] = "sending" =>
        /\ reader[c] = "none" /\ writer[c] = "none"
        /\ ~once[c] /\ disc[c] = "none"
        /\ c \notin connected /\ buf[c] = << >> /\ ~AddressedTo(c)

\* CloseWriter is the last message of a client, and has it for one only that
\* is not connected any more: in the running handler and in the channel.
CloseWriterIsLast ==
    \A i \in DOMAIN pending :
        pending[i][2] = "closewriter" =>
            /\ pending[i][1] \notin connected
            /\ \A j \in DOMAIN pending : j > i => pending[j][1] # pending[i][1]

ChannelEnds(c) ==
    buf[c] = <<"closewriter">> => c \notin connected /\ ~AddressedTo(c)

\* once.Do was called for a failure that is being reported, or for a client
\* that the hub has let go.
OnceIsReported(c) ==
    /\ once[c] /\ c \in connected => disc[c] = "sending"
    /\ reader[c] \in {"closing", "done"} => once[c]

Dead(c) ==
    writer[c] \in {"finishing", "done"} =>
        c \notin connected /\ buf[c] = << >> /\ ~AddressedTo(c)

IInv ==
    /\ TypeOK
    /\ CloseWriterIsLast
    /\ \A c \in Clients : Fresh(c) /\ ChannelEnds(c) /\ OnceIsReported(c) /\ Dead(c)

-----------------------------------------------------------------------------
(* The goroutines of a connection *)

\* The steps that concern one connection and leave the hub alone.
Local(c) ==
    \/ Break(c) \/ Read(c) \/ PingFails(c) \/ Reading(c) \/ Writing(c)

\* They keep the types.
LEMMA LocalTyped ==
    ASSUME TypeOK, NEW c \in Clients, Local(c)
    PROVE  TypeOK'
<1> DEFINE errors == ReadFails(c) \/ WriteFails(c) \/ PingFails(c)
<1>1. CASE Break(c) \/ Read(c)
  BY <1>1 DEF TypeOK, Break, Read
<1>2. CASE StartLoops(c) \/ ReaderCloses(c)
  <2>1. CASE StartLoops(c)
    BY <2>1 DEF TypeOK, StartLoops
  <2>2. CASE ReaderCloses(c)
    BY <2>2 DEF TypeOK, ReaderCloses, CloseConn
  <2>3. QED BY <1>2, <2>1, <2>2
<1>3. CASE errors
  <2>1. CloseOnError(c)
    BY <1>3 DEF ReadFails, WriteFails, PingFails
  <2>2. once' \in [Clients -> BOOLEAN]
        /\ disc' \in [Clients -> {"none", "sending", "done"}]
    BY <2>1 DEF TypeOK, CloseOnError
  <2>3. reader' \in [Clients -> {"none", "reading", "sending", "closing", "done"}]
    BY <1>3 DEF TypeOK, ReadFails, WriteFails, PingFails, AfterError
  <2>4. writer' \in [Clients -> {"none", "idle", "writing", "closing", "finishing", "done"}]
    BY <1>3 DEF TypeOK, ReadFails, WriteFails, PingFails, AfterError
  <2>5. UNCHANGED <<upgrade, conn, buf, connected, pending>>
    BY <1>3 DEF ReadFails, WriteFails, PingFails
  <2>6. QED
    BY <2>2, <2>3, <2>4, <2>5 DEF TypeOK
<1>4. CASE TakeMessage(c) \/ TakeCloseWriter(c)
  <2>1. buf[c] \in {<<"message">>, <<"closewriter">>}
    BY <1>4 DEF TypeOK, TakeMessage, TakeCloseWriter
  <2>2. Tail(<<"message">>) = << >> /\ Tail(<<"closewriter">>) = << >>
    OBVIOUS
  <2>3. buf' = [buf EXCEPT ![c] = << >>]
    BY <1>4, <2>1, <2>2 DEF TakeMessage, TakeCloseWriter
  <2>4. buf' \in [Clients -> {<< >>, <<"message">>, <<"closewriter">>}]
    BY <2>3 DEF TypeOK
  <2>5. QED
    BY <1>4, <2>4 DEF TypeOK, TakeMessage, TakeCloseWriter
<1>5. CASE Written(c) \/ WriterCloses(c) \/ WriterEnds(c)
  BY <1>5 DEF TypeOK, Written, WriterCloses, WriterEnds, CloseConn
<1>6. QED
  BY <1>1, <1>2, <1>3, <1>4, <1>5 DEF Local, Reading, Writing

\* They change nothing of another connection.
LEMMA LocalElsewhere ==
    ASSUME TypeOK, NEW c \in Clients, Local(c), NEW d \in Clients, d # c
    PROVE  /\ upgrade'[d] = upgrade[d] /\ reader'[d] = reader[d]
           /\ writer'[d] = writer[d] /\ once'[d] = once[d]
           /\ disc'[d] = disc[d] /\ buf'[d] = buf[d]
<1>1. CASE Break(c) \/ Read(c) \/ StartLoops(c) \/ ReaderCloses(c)
  BY <1>1 DEF TypeOK, Break, Read, StartLoops, ReaderCloses
<1>2. CASE ReadFails(c) \/ WriteFails(c) \/ PingFails(c)
  BY <1>2 DEF TypeOK, ReadFails, WriteFails, PingFails, CloseOnError, AfterError
<1>3. CASE TakeMessage(c) \/ TakeCloseWriter(c)
  BY <1>3 DEF TypeOK, TakeMessage, TakeCloseWriter
<1>4. CASE Written(c) \/ WriterCloses(c) \/ WriterEnds(c)
  BY <1>4 DEF TypeOK, Written, WriterCloses, WriterEnds
<1>5. QED
  BY <1>1, <1>2, <1>3, <1>4 DEF Local, Reading, Writing

\* What the invariant says of one connection.
Well(c) == Fresh(c) /\ ChannelEnds(c) /\ OnceIsReported(c) /\ Dead(c)

\* A connection of which nothing changes stays well.
LEMMA SameIsWell ==
    ASSUME NEW d \in Clients, Well(d),
           upgrade'[d] = upgrade[d], reader'[d] = reader[d],
           writer'[d] = writer[d], once'[d] = once[d],
           disc'[d] = disc[d], buf'[d] = buf[d],
           d \in connected' <=> d \in connected,
           AddressedTo(d)' => AddressedTo(d)
    PROVE  Well(d)'
BY DEF Well, Fresh, ChannelEnds, OnceIsReported, Dead

\* A failure is reported by whoever sees it first, and CloseWriter comes when
\* the hub has let go already.
LEMMA LocalWell ==
    ASSUME TypeOK, NEW c \in Clients, Well(c), Local(c)
    PROVE  Well(c)'
<1>1. UNCHANGED <<connected, pending>>
  BY DEF Local, Reading, Writing, Break, Read, PingFails, StartLoops, ReadFails,
         ReaderCloses, TakeMessage, TakeCloseWriter, Written, WriteFails,
         WriterCloses, WriterEnds
<1>2. (AddressedTo(c)' <=> AddressedTo(c)) /\ (c \in connected' <=> c \in connected)
  BY <1>1 DEF AddressedTo
<1>3. CASE Break(c)
  BY <1>2, <1>3 DEF Break, Well, Fresh, ChannelEnds, OnceIsReported, Dead
<1>4. CASE Read(c)
  BY <1>2, <1>4 DEF TypeOK, Read, Well, Fresh, ChannelEnds, OnceIsReported, Dead
<1>5. CASE StartLoops(c)
  BY <1>2, <1>5 DEF TypeOK, StartLoops, Well, Fresh, ChannelEnds, OnceIsReported, Dead
<1>6. CASE ReaderCloses(c)
  BY <1>2, <1>6 DEF TypeOK, ReaderCloses, Well, Fresh, ChannelEnds, OnceIsReported, Dead
<1>7. CASE ReadFails(c)
  BY <1>2, <1>7 DEF TypeOK, ReadFails, CloseOnError, AfterError, Well, Fresh,
                    ChannelEnds, OnceIsReported, Dead
<1>8. CASE WriteFails(c)
  BY <1>2, <1>8 DEF TypeOK, WriteFails, CloseOnError, AfterError, Well, Fresh,
                    ChannelEnds, OnceIsReported, Dead
<1>9. CASE PingFails(c)
  BY <1>2, <1>9 DEF TypeOK, PingFails, CloseOnError, AfterError, Well, Fresh,
                    ChannelEnds, OnceIsReported, Dead
<1>10. CASE TakeMessage(c) \/ TakeCloseWriter(c)
  <2>1. buf[c] \in {<<"message">>, <<"closewriter">>}
    BY <1>10 DEF TypeOK, TakeMessage, TakeCloseWriter
  <2>2. Tail(<<"message">>) = << >> /\ Tail(<<"closewriter">>) = << >>
    OBVIOUS
  <2>3. buf'[c] = << >> /\ << >> # <<"closewriter">>
    <3>1. buf' = [buf EXCEPT ![c] = << >>]
      BY <1>10, <2>1, <2>2 DEF TakeMessage, TakeCloseWriter
    <3>2. Len(<< >>) # Len(<<"closewriter">>)
      OBVIOUS
    <3>3. QED BY <3>1, <3>2 DEF TypeOK
  <2>4. CASE TakeMessage(c)
    BY <1>2, <2>3, <2>4 DEF TypeOK, TakeMessage, Well, Fresh, ChannelEnds,
                            OnceIsReported, Dead
  <2>5. CASE TakeCloseWriter(c)
    <3>1. buf[c] = <<"closewriter">>
      BY <2>1, <2>5 DEF TakeCloseWriter
    <3>2. c \notin connected /\ ~AddressedTo(c) /\ upgrade[c] # "sending"
      BY <3>1 DEF Well, ChannelEnds, Fresh
    <3>3. /\ upgrade' = upgrade /\ reader' = reader /\ once'[c] = TRUE
          /\ disc' = disc
      BY <2>5 DEF TypeOK, TakeCloseWriter
    <3>4. QED
      BY <1>2, <2>3, <3>2, <3>3 DEF Well, Fresh, ChannelEnds, OnceIsReported, Dead
  <2>6. QED BY <1>10, <2>4, <2>5
<1>11. CASE Written(c)
  BY <1>2, <1>11 DEF TypeOK, Written, Well, Fresh, ChannelEnds, OnceIsReported, Dead
<1>12. CASE WriterCloses(c)
  BY <1>2, <1>12 DEF TypeOK, WriterCloses, Well, Fresh, ChannelEnds, OnceIsReported, Dead
<1>13. CASE WriterEnds(c)
  BY <1>2, <1>13 DEF TypeOK, WriterEnds, Well, Fresh, ChannelEnds, OnceIsReported, Dead
<1>14. QED
  BY <1>3, <1>4, <1>5, <1>6, <1>7, <1>8, <1>9, <1>10, <1>11, <1>12, <1>13
     DEF Local, Reading, Writing

\* So they keep the invariant.
LEMMA LocalStep ==
    ASSUME IInv, NEW c \in Clients, Local(c)
    PROVE  IInv'
<1>1. TypeOK /\ TypeOK'
  BY LocalTyped DEF IInv
<1>2. UNCHANGED <<connected, pending>>
  BY DEF Local, Reading, Writing, Break, Read, PingFails, StartLoops, ReadFails,
         ReaderCloses, TakeMessage, TakeCloseWriter, Written, WriteFails,
         WriterCloses, WriterEnds
<1>3. CloseWriterIsLast'
  BY <1>2 DEF IInv, CloseWriterIsLast
<1>4. ASSUME NEW d \in Clients
      PROVE  Well(d)'
  <2>1. Well(d)
    BY DEF IInv, Well
  <2>2. CASE d = c
    BY <1>1, <2>1, <2>2, LocalWell
  <2>3. CASE d # c
    <3>1. (AddressedTo(d)' <=> AddressedTo(d)) /\ (d \in connected' <=> d \in connected)
      BY <1>2 DEF AddressedTo
    <3>2. QED BY <1>1, <2>1, <2>3, <3>1, LocalElsewhere, SameIsWell
  <2>4. QED BY <2>2, <2>3
<1>5. QED
  BY <1>1, <1>3, <1>4 DEF IInv, Well

-----------------------------------------------------------------------------
(* The hub *)

\* A new client is told nothing yet, and nothing is wrong with it.
LEMMA AcceptConnectedStep ==
    ASSUME IInv, NEW c \in Clients, AcceptConnected(c)
    PROVE  IInv'
<1>1. TypeOK /\ Well(c) /\ Fresh(c) /\ upgrade[c] = "sending" /\ pending = << >>
  BY DEF IInv, Well, AcceptConnected, HubIdle
<1>2. TypeOK'
  BY <1>1 DEF TypeOK, AcceptConnected
<1>3. pending' = << >> /\ ~AddressedTo(c)' /\ CloseWriterIsLast'
  BY <1>1 DEF AcceptConnected, AddressedTo, CloseWriterIsLast
<1>4. ASSUME NEW d \in Clients
      PROVE  Well(d)'
  <2>1. Well(d) /\ (AddressedTo(d)' <=> AddressedTo(d))
    BY <1>1, <1>3 DEF IInv, Well, AddressedTo
  <2>2. CASE d # c
    BY <1>1, <2>1, <2>2, SameIsWell DEF AcceptConnected, TypeOK
  <2>3. CASE d = c
    <3>1. << >> # <<"closewriter">>
      <4>1. Len(<< >>) # Len(<<"closewriter">>)
        OBVIOUS
      <4>2. QED BY <4>1
    <3>2. /\ upgrade'[c] = "sent" /\ reader'[c] = "none" /\ writer'[c] = "none"
          /\ ~once'[c] /\ buf'[c] = << >>
      BY <1>1 DEF AcceptConnected, TypeOK, Fresh
    <3>3. QED
      BY <2>3, <3>1, <3>2 DEF Well, Fresh, ChannelEnds, OnceIsReported, Dead
  <2>4. QED BY <2>2, <2>3
<1>5. QED
  BY <1>2, <1>3, <1>4 DEF IInv, Well

\* A handler lets go of those it sends CloseWriter, and sends to clients only
\* that were connected when it began.
LEMMA HandleStep ==
    ASSUME TypeOK, NEW c \in Clients, c \in connected,
           NEW leaves \in BOOLEAN, HubIdle, Handle(c, leaves)
    PROVE  /\ pending' \in Seq(Clients \X Kinds)
           /\ connected' \subseteq connected
           /\ \A d \in Clients : AddressedTo(d)' => d \in connected
           /\ CloseWriterIsLast'
           /\ leaves => c \notin connected'
<1>1. PICK plan \in Plans, out \in SUBSET connected :
         /\ Allowed(c, leaves, plan, out)
         /\ connected' = connected \ out
         /\ pending' = plan
  BY DEF Handle
<1>2. PICK n \in 0..MaxSends : plan \in [1..n -> Clients \X Kinds]
  BY DEF Plans
<1>3. n \in Nat
  BY MaxSendsAssumption
<1>4. plan \in Seq(Clients \X Kinds) /\ DOMAIN plan = 1..n
  BY <1>2, <1>3
<1>5. \A i \in 1..n : /\ plan[i] \in Clients \X Kinds
                      /\ plan[i][1] \in connected
                      /\ plan[i][2] = "closewriter" => plan[i][1] \in out
                      /\ \A j \in 1..i-1 : plan[j] # <<plan[i][1], "closewriter">>
  BY <1>1, <1>2, <1>4 DEF Allowed
<1>6. \A d \in Clients : AddressedTo(d)' => d \in connected
  BY <1>1, <1>4, <1>5 DEF AddressedTo
<1>7. CloseWriterIsLast'
  <2> SUFFICES ASSUME NEW i \in 1..n, plan[i][2] = "closewriter"
               PROVE  /\ plan[i][1] \notin connected \ out
                      /\ \A j \in 1..n : j > i => plan[j][1] # plan[i][1]
    BY <1>1, <1>4 DEF CloseWriterIsLast
  <2>1. plan[i] = <<plan[i][1], "closewriter">>
    BY <1>5
  <2>2. ASSUME NEW j \in 1..n, j > i, plan[j][1] = plan[i][1]
        PROVE  FALSE
    <3>1. i \in 1..j-1
      BY <1>3, <2>2
    <3>2. QED BY <1>5, <2>1, <2>2, <3>1
  <2>3. QED BY <1>5, <2>2
<1>8. leaves => c \notin connected'
  <2> SUFFICES ASSUME leaves PROVE c \in out
    BY <1>1
  <2>1. plan # << >> /\ plan[1] = <<c, "closewriter">>
    BY <1>1 DEF Allowed
  <2>2. 1 \in 1..n
    BY <1>3, <1>4, <2>1
  <2>3. QED BY <1>5, <2>1, <2>2
<1>9. QED
  BY <1>1, <1>4, <1>6, <1>7, <1>8

\* A connection the hub has let go of, or sends to, stays well: it was
\* connected when the handler began, so its write loop has not ended.
LEMMA HandledWell ==
    ASSUME TypeOK, HubIdle, NEW d \in Clients, Well(d),
           upgrade'[d] = upgrade[d], writer'[d] = writer[d],
           once'[d] = once[d], buf'[d] = buf[d],
           reader'[d] = reader[d] \/ (reader[d] = "sending" /\ reader'[d] = "reading"),
           disc'[d] = disc[d] \/ (disc[d] = "sending" /\ d \notin connected'),
           connected' \subseteq connected,
           AddressedTo(d)' => d \in connected
    PROVE  Well(d)'
<1>1. Fresh(d)'
  BY DEF Well, Fresh
<1>2. ChannelEnds(d)'
  BY DEF Well, ChannelEnds
<1>3. OnceIsReported(d)'
  BY DEF Well, OnceIsReported
<1>4. Dead(d)'
  BY DEF Well, Dead
<1>5. QED
  BY <1>1, <1>2, <1>3, <1>4 DEF Well

\* A handler keeps the invariant.
LEMMA HandlerStep ==
    ASSUME IInv, NEW c \in Clients, AcceptMessage(c) \/ AcceptDisconnected(c)
    PROVE  IInv'
<1>1. TypeOK /\ HubIdle /\ pending = << >> /\ CloseWriterIsLast
      /\ \A d \in Clients : Well(d) /\ ~AddressedTo(d)
  <2>1. HubIdle /\ pending = << >>
    BY DEF AcceptMessage, AcceptDisconnected, HubIdle
  <2>2. \A d \in Clients : ~AddressedTo(d)
    BY <2>1 DEF AddressedTo
  <2>3. QED BY <2>1, <2>2 DEF IInv, Well
<1>2. /\ UNCHANGED <<upgrade, conn, writer, once, buf>>
      /\ \/ /\ reader[c] = "sending"
            /\ reader' = [reader EXCEPT ![c] = "reading"]
            /\ disc' = disc
            /\ Handle(c, FALSE)
         \/ /\ disc[c] = "sending"
            /\ disc' = [disc EXCEPT ![c] = "done"]
            /\ reader' = reader
            /\ Handle(c, TRUE)
  BY DEF AcceptMessage, AcceptDisconnected
<1>3. /\ pending' \in Seq(Clients \X Kinds)
      /\ connected' \subseteq connected
      /\ \A d \in Clients : AddressedTo(d)' => d \in connected
      /\ CloseWriterIsLast'
      /\ disc' = disc \/ c \notin connected'
  <2>1. CASE c \in connected
    <3>1. CASE Handle(c, FALSE) /\ disc' = disc
      <4>1. FALSE \in BOOLEAN
        OBVIOUS
      <4>2. QED BY <1>1, <2>1, <3>1, <4>1, HandleStep
    <3>2. CASE Handle(c, TRUE)
      <4>1. TRUE \in BOOLEAN
        OBVIOUS
      <4>2. QED BY <1>1, <2>1, <3>2, <4>1, HandleStep
    <3>3. QED BY <1>2, <3>1, <3>2
  <2>2. CASE c \notin connected
    <3>1. UNCHANGED <<connected, pending>>
      BY <1>2, <2>2 DEF Handle
    <3>2. QED BY <1>1, <2>2, <3>1 DEF TypeOK, AddressedTo, CloseWriterIsLast
  <2>3. QED BY <2>1, <2>2
<1>4. TypeOK'
  BY <1>1, <1>2, <1>3 DEF TypeOK
<1>5. ASSUME NEW d \in Clients
      PROVE  Well(d)'
  <2>1. /\ upgrade'[d] = upgrade[d] /\ writer'[d] = writer[d]
        /\ once'[d] = once[d] /\ buf'[d] = buf[d]
    BY <1>2
  <2>2. reader'[d] = reader[d] \/ (reader[d] = "sending" /\ reader'[d] = "reading")
    BY <1>1, <1>2 DEF TypeOK
  <2>3. disc'[d] = disc[d] \/ (disc[d] = "sending" /\ d \notin connected')
    BY <1>1, <1>2, <1>3 DEF TypeOK
  <2>4. QED
    BY <1>1, <1>3, <2>1, <2>2, <2>3, HandledWell
<1>6. QED
  BY <1>3, <1>4, <1>5 DEF IInv, Well

\* What is left to send when the first message is sent or dropped.
LEMMA Rest1 ==
    ASSUME TypeOK, ~HubIdle, pending' = Tail(pending)
    PROVE  /\ pending' \in Seq(Clients \X Kinds)
           /\ pending[1] \in Clients \X Kinds
           /\ 1 \in DOMAIN pending
           /\ \A i \in DOMAIN pending' :
                 /\ i + 1 \in DOMAIN pending
                 /\ i \in Nat /\ i >= 1
                 /\ pending'[i] = pending[i + 1]
<1>1. pending \in Seq(Clients \X Kinds) /\ pending # << >>
  BY DEF TypeOK, HubIdle
<1>2. QED
  BY <1>1

\* Sending, or giving up on it, keeps the invariant: after CloseWriter there
\* is nothing else for that client.
LEMMA SendStep ==
    ASSUME IInv, HubSends \/ HubDrops
    PROVE  IInv'
<1>1. TypeOK /\ CloseWriterIsLast /\ (\A d \in Clients : Well(d))
      /\ ~HubIdle /\ pending' = Tail(pending)
      /\ UNCHANGED <<upgrade, conn, reader, writer, once, disc, connected>>
  BY DEF IInv, Well, HubSends, HubDrops
<1>2. /\ pending' \in Seq(Clients \X Kinds)
      /\ pending[1] \in Clients \X Kinds
      /\ 1 \in DOMAIN pending
      /\ \A i \in DOMAIN pending' :
            /\ i + 1 \in DOMAIN pending
            /\ i \in Nat /\ i >= 1
            /\ pending'[i] = pending[i + 1]
  BY <1>1, Rest1
<1>3. PICK c \in Clients, kind \in Kinds : pending[1] = <<c, kind>>
  BY <1>2
<1>4. pending[1][1] = c /\ pending[1][2] = kind
  BY <1>3
<1>5. buf' = buf \/ (buf[c] = << >> /\ buf' = [buf EXCEPT ![c] = <<kind>>])
  BY <1>4 DEF HubSends, HubDrops
<1>6. TypeOK'
  <2>1. <<kind>> \in {<< >>, <<"message">>, <<"closewriter">>}
    BY <1>3 DEF Kinds
  <2>2. buf' \in [Clients -> {<< >>, <<"message">>, <<"closewriter">>}]
    BY <1>1, <1>5, <2>1 DEF TypeOK
  <2>3. QED BY <1>1, <1>2, <2>2 DEF TypeOK
<1>7. CloseWriterIsLast'
  <2> SUFFICES ASSUME NEW i \in DOMAIN pending', pending'[i][2] = "closewriter"
               PROVE  /\ pending'[i][1] \notin connected
                      /\ \A j \in DOMAIN pending' : j > i => pending'[j][1] # pending'[i][1]
    BY <1>1 DEF CloseWriterIsLast
  <2>1. pending[i + 1][2] = "closewriter" /\ i + 1 \in DOMAIN pending
    BY <1>2
  <2>2. /\ pending[i + 1][1] \notin connected
        /\ \A j \in DOMAIN pending : j > i + 1 => pending[j][1] # pending[i + 1][1]
    BY <1>1, <2>1 DEF CloseWriterIsLast
  <2>3. pending'[i][1] = pending[i + 1][1]
    BY <1>2
  <2>4. ASSUME NEW j \in DOMAIN pending', j > i
        PROVE  pending'[j][1] # pending'[i][1]
    <3>1. j + 1 \in DOMAIN pending /\ j + 1 > i + 1 /\ pending'[j] = pending[j + 1]
      BY <1>2, <2>4
    <3>2. QED BY <2>2, <2>3, <3>1
  <2>5. QED BY <2>2, <2>3, <2>4
<1>8. \A d \in Clients : AddressedTo(d)' => AddressedTo(d)
  BY <1>2 DEF AddressedTo
<1>9. AddressedTo(c)
  BY <1>2, <1>4 DEF AddressedTo
<1>10. kind = "closewriter" => c \notin connected /\ ~AddressedTo(c)'
  <2> SUFFICES ASSUME kind = "closewriter"
               PROVE  c \notin connected /\ ~AddressedTo(c)'
    OBVIOUS
  <2>1. /\ c \notin connected
        /\ \A j \in DOMAIN pending : j > 1 => pending[j][1] # c
    BY <1>1, <1>2, <1>4 DEF CloseWriterIsLast
  <2>2. \A i \in DOMAIN pending' : pending'[i][1] # c
    <3>1. ASSUME NEW i \in DOMAIN pending'
          PROVE  pending'[i][1] # c
      <4>1. i + 1 \in DOMAIN pending /\ i + 1 > 1 /\ pending'[i] = pending[i + 1]
        BY <1>2
      <4>2. QED BY <2>1, <4>1
    <3>2. QED BY <3>1
  <2>3. QED BY <2>1, <2>2 DEF AddressedTo
<1>11. ASSUME NEW d \in Clients
       PROVE  Well(d)'
  <2>1. Well(d)
    BY <1>1
  <2>2. CASE buf'[d] = buf[d]
    BY <1>1, <1>8, <2>1, <2>2, SameIsWell
  <2>3. CASE buf'[d] # buf[d]
    <3>1. d = c /\ buf'[c] = <<kind>>
      BY <1>1, <1>5, <2>3 DEF TypeOK
    <3>2. upgrade[c] # "sending" /\ writer[c] \notin {"finishing", "done"}
      BY <1>9, <2>1, <3>1 DEF Well, Fresh, Dead
    <3>3. <<kind>> = <<"closewriter">> => kind = "closewriter"
      OBVIOUS
    <3>4. ChannelEnds(c)'
      BY <1>1, <1>10, <3>1, <3>3 DEF ChannelEnds
    <3>5. OnceIsReported(c)'
      BY <1>1, <2>1, <3>1 DEF Well, OnceIsReported
    <3>6. QED
      BY <1>1, <3>1, <3>2, <3>4, <3>5 DEF Well, Fresh, Dead
  <2>4. QED BY <2>2, <2>3
<1>12. QED
  BY <1>6, <1>7, <1>11 DEF IInv, Well

-----------------------------------------------------------------------------
(* The theorems *)

\* The inductive invariant of the connections.
THEOREM ConnectionsWell == Spec => []IInv
<1>1. Init => IInv
  <2> SUFFICES ASSUME Init PROVE IInv
    OBVIOUS
  <2>1. TypeOK
    BY DEF Init, TypeOK
  <2>2. DOMAIN pending = {}
    BY DEF Init
  <2>3. << >> # <<"closewriter">>
    <3>1. Len(<< >>) # Len(<<"closewriter">>)
      OBVIOUS
    <3>2. QED BY <3>1
  <2>4. CloseWriterIsLast /\ \A d \in Clients : ~AddressedTo(d)
    BY <2>2 DEF CloseWriterIsLast, AddressedTo
  <2>5. \A d \in Clients : Fresh(d) /\ ChannelEnds(d) /\ OnceIsReported(d) /\ Dead(d)
    BY <2>3, <2>4 DEF Init, Fresh, ChannelEnds, OnceIsReported, Dead
  <2>6. QED BY <2>1, <2>4, <2>5 DEF IInv
<1>2. IInv /\ [Next]_vars => IInv'
  <2> SUFFICES ASSUME IInv, [Next]_vars
               PROVE  IInv'
    OBVIOUS
  <2>1. CASE UNCHANGED vars
    BY <2>1 DEF vars, IInv, TypeOK, CloseWriterIsLast, Fresh, ChannelEnds,
                OnceIsReported, Dead, AddressedTo
  <2>2. ASSUME NEW c \in Clients,
               Break(c) \/ Read(c) \/ PingFails(c) \/ Reading(c) \/ Writing(c)
        PROVE  IInv'
    BY <2>2, LocalStep DEF Local
  <2>3. ASSUME NEW c \in Clients, AcceptConnected(c)
        PROVE  IInv'
    BY <2>3, AcceptConnectedStep
  <2>4. ASSUME NEW c \in Clients, AcceptMessage(c) \/ AcceptDisconnected(c)
        PROVE  IInv'
    BY <2>4, HandlerStep
  <2>5. CASE HubSends \/ HubDrops
    BY <2>5, SendStep
  <2>6. CASE Rest
    BY <2>1, <2>6 DEF Rest
  <2>7. QED
    BY <2>1, <2>2, <2>3, <2>4, <2>5, <2>6 DEF Next
<1>3. QED
  BY <1>1, <1>2, PTL DEF Spec

\* The hub never sends to a write loop that has ended, nor leaves anything in
\* its channel: it cannot hang on a connection that is gone.
THEOREM NothingForTheDeadHolds == Spec => []NothingForTheDead
<1>1. IInv => NothingForTheDead
  BY DEF IInv, Dead, NothingForTheDead
<1>2. QED
  BY <1>1, ConnectionsWell, PTL

\* A client that is still connected although its read loop has given up has
\* its failure on the way to the hub, whichever loop saw it first.
THEOREM FailuresReported == Spec => []FailuresAreReported
<1>1. IInv => FailuresAreReported
  BY DEF IInv, OnceIsReported, FailuresAreReported
<1>2. QED
  BY <1>1, ConnectionsWell, PTL
=============================================================================
