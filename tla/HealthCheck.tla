---------------------------- MODULE HealthCheck ----------------------------
(***************************************************************************)
(* GET /health: Rooms.Count asks the hub for the number of its clients and *)
(* waits five seconds in all, first for the hub to take the question, then *)
(* for the answer (ws/rooms.go, ws/event_health.go, router/router.go).     *)
(*                                                                         *)
(* The hub is busy with other messages for as long as it likes: nothing is *)
(* assumed about it.  Of the registry (module Rooms) only the number of    *)
(* connected clients is kept.                                              *)
(***************************************************************************)
EXTENDS Startup

CONSTANT MaxClients \* bound: how many clients are connected at a time

ASSUME ClientsAssumption == MaxClients \in Nat

VARIABLES
    hub,     \* Rooms.Start: "idle" at Incoming, "busy", or executing "health"
    clients, \* len(rooms.connected)
    call,    \* Count: "none", or which of its two selects it is in
    box,     \* the Response channel of the call, of capacity one
    owed,    \* whose question the hub is at: "nobody", this "call", a "gone" one
    seen     \* history: the numbers of clients there were during the call

healthvars == <<hub, clients, call, box, owed, seen>>

HealthInit ==
    /\ hub = "idle"
    /\ clients = 0
    /\ call = "none"
    /\ box = << >>
    /\ owed = "nobody"
    /\ seen = {}

\* Hub and callers end with the process.
HealthGone ==
    /\ hub' = "idle"
    /\ clients' = 0
    /\ call' = "none"
    /\ box' = << >>
    /\ owed' = "nobody"
    /\ seen' = {}

-----------------------------------------------------------------------------
(* The hub: go rooms.Start() comes before the server is started. *)

HubRuns == main \in {"registering", "waiting"}

\* It takes another message ...
TakeMessage ==
    /\ HubRuns
    /\ hub = "idle"
    /\ hub' = "busy"
    /\ UNCHANGED <<procvars, clients, call, box, owed, seen>>

\* ... which adds one client at most, and may remove the users of a room.
MessageDone ==
    /\ hub = "busy"
    /\ hub' = "idle"
    /\ clients' \in {n \in 0 .. MaxClients : n <= clients + 1}
    /\ seen' = IF call = "none" THEN seen ELSE seen \cup {clients'}
    /\ UNCHANGED <<procvars, call, box, owed>>

\* It takes the question that Count offers.
TakeHealth ==
    /\ hub = "idle"
    /\ call = "offering"
    /\ hub' = "health"
    /\ owed' = "call"
    /\ call' = "awaiting"
    /\ UNCHANGED <<procvars, clients, box, seen>>

\* Health.Execute: there is room in the channel, whoever still reads it.
Execute ==
    /\ hub = "health"
    /\ hub' = "idle"
    /\ box' = IF owed = "call" THEN << clients >> ELSE box
    /\ owed' = "nobody"
    /\ UNCHANGED <<procvars, clients, call, seen>>

-----------------------------------------------------------------------------
(* The handler of /health *)

\* Broken: one channel for all calls.
ResponseOfRooms == box

\* make(chan int, 1)
Response == << >>

BeginCount ==
    /\ Open
    /\ call = "none"
    /\ call' = "offering"
    /\ box' = Response
    /\ seen' = {clients}
    /\ active' = TRUE
    /\ UNCHANGED <<boots, said, conf, main, serve, intr, pressed, exit>>
    /\ UNCHANGED <<hub, clients, owed>>

Return ==
    /\ call' = "none"
    /\ active' = FALSE
    /\ seen' = {}
    /\ UNCHANGED <<boots, said, conf, main, serve, intr, pressed, exit>>
    /\ UNCHANGED <<hub, clients>>

\* "up", with the number
CountReturns ==
    /\ call = "awaiting"
    /\ box # << >>
    /\ box' = << >>
    /\ Return
    /\ UNCHANGED owed

\* Broken: the second select waits for the answer only.
TimedUnanswered == {"offering"}

\* The selects that also wait for the timer, which is the same for both
Timed == {"offering", "awaiting"}

\* "down": the timer fires; a select with an answer at hand may still take it.
GiveUp ==
    /\ call \in Timed
    /\ Return
    /\ owed' = IF owed = "call" THEN "gone" ELSE owed
    /\ UNCHANGED box

HealthNext ==
    TakeMessage \/ MessageDone \/ TakeHealth \/ Execute
        \/ BeginCount \/ CountReturns \/ GiveUp
=============================================================================
