----------------------------- MODULE TurnRelay -----------------------------
(***************************************************************************)
(* The built-in TURN server (turn/server.go, turn/portrange.go,             *)
(* turn/none.go) over the provider of its external address.  The hub enters *)
(* and removes credentials; the goroutines of the TURN library authenticate *)
(* a request, listen on a relay port and announce an address for it, one    *)
(* after the other, while credentials and addresses may change in between.  *)
(*                                                                         *)
(* The library (pion/turn) is external: it calls authenticate for every     *)
(* request, holds one allocation per client, and ends an allocation that is *)
(* not refreshed in time.  What is relayed is not modelled.                *)
(***************************************************************************)
EXTENDS ExternalIP, FiniteSets

CONSTANTS
    Hub,       \* the goroutine of Rooms.Start, a caller of Get too
    Users,     \* TURN user names: a session id with "host" or "client"
    PortSpace, \* ports are numbers modulo this one (2^16: uint16)
    MaxTries   \* how many ports are tried (10)

Workers == Callers \ {Hub}

Ports == 1 .. PortSpace - 1

ASSUME HubAssumption == Hub \in Callers
ASSUME PortsAssumption == PortSpace \in Nat \ {0} /\ MaxTries \in Nat \ {0}

VARIABLES
    range,     \* config.TurnPortRange: <<min, max>>, <<0, 0>> if none is set
    dualStack, \* the sockets of this machine listen on "::", not on 0.0.0.0
    issued,    \* the user names that ever had a credential
    lookup,    \* the user names in InternalServer.lookup
    bound,     \* the ports this process listens on
    request,   \* worker -> the Allocate request it serves
    relay      \* user name -> its allocation, if it has one

turnvars == <<range, dualStack, issued, lookup, bound, request, relay>>

vars == <<ipvars, turnvars>>

NoRequest == [step |-> "none"]

NoRelay == [open |-> FALSE]

-----------------------------------------------------------------------------
(* Ports *)

\* Broken: a range with its ends swapped is accepted.
RangeUnordered(min, max) == (min = 0) <=> (max = 0)

\* parsePortRange, and what Get accepts of it.
RangeAccepted(min, max) ==
    /\ (min = 0) <=> (max = 0)
    /\ min <= max

UseRange == range[1] # 0 /\ range[2] # 0

\* (r.MaxPort+1)-r.MinPort in uint16
Span == (((range[2] + 1) % PortSpace) - range[1]) % PortSpace

\* Broken: the offset is added to a port that may already be the last one.
PortsOfRangePlusOne == {(range[1] + k + 1) % PortSpace : k \in 0 .. Span - 1}

PortsOfRange == {(range[1] + k) % PortSpace : k \in 0 .. Span - 1}

-----------------------------------------------------------------------------
(* The hub *)

\* Credentials: newSession names the users of a session once and for all.
Credentials(u) ==
    /\ u \notin issued
    /\ issued' = issued \cup {u}
    /\ lookup' = lookup \cup {u}
    /\ UNCHANGED <<ipvars, range, dualStack, bound, request, relay>>

Disallow(u) ==
    /\ u \in lookup
    /\ lookup' = lookup \ {u}
    /\ UNCHANGED <<ipvars, range, dualStack, issued, bound, request, relay>>

-----------------------------------------------------------------------------
(* A request for a relay *)

\* Broken: a user name that was good once stays good.
AuthenticatedOnce(u) == u \in issued

\* authenticate finds the key of the user, and the client knows it.
Authenticate(u) == u \in lookup

Idle(w) == request[w] = NoRequest /\ call[w] = "idle"

Request(w, u) ==
    /\ Idle(w)
    /\ relay[u] = NoRelay
    /\ \A x \in Workers : request[x].step # "none" => request[x].user # u
    /\ Authenticate(u)
    /\ request' = [request EXCEPT ![w] = [step |-> "listen", user |-> u, tries |-> 0]]
    /\ UNCHANGED <<ipvars, range, dualStack, issued, lookup, bound, relay>>

Listening(w, port) ==
    /\ bound' = bound \cup {port}
    /\ request' = [request EXCEPT ![w] =
                      [step |-> "resolve", user |-> @.user, port |-> port]]

\* AllocatePacketConn for one certain port: no range is looked at.  The TURN
\* library asks for one for EVEN-PORT, a port that this same generator gave it
\* before and that it has closed; somebody may have taken it meanwhile.
ListenRequested(w) ==
    /\ request[w].step = "listen"
    /\ request[w].tries = 0
    /\ \E port \in IF UseRange THEN PortsOfRange ELSE Ports :
          IF port \notin bound
          THEN Listening(w, port)
          ELSE /\ request' = [request EXCEPT ![w] = NoRequest]
               /\ UNCHANGED bound
    /\ UNCHANGED <<ipvars, range, dualStack, issued, lookup, relay>>

\* AllocatePacketConn of the port range: a port at random, up to MaxTries
\* times; the TURN library answers with an error when none was free.
ListenInRange(w) ==
    /\ request[w].step = "listen"
    /\ UseRange
    /\ \E port \in PortsOfRange :
          IF port \notin bound
          THEN Listening(w, port)
          ELSE /\ request' = IF request[w].tries + 1 = MaxTries
                             THEN [request EXCEPT ![w] = NoRequest]
                             ELSE [request EXCEPT ![w].tries = @ + 1]
               /\ UNCHANGED bound
    /\ UNCHANGED <<ipvars, range, dualStack, issued, lookup, relay>>

\* AllocatePacketConn without a range: the system picks a free port.
ListenAnywhere(w) ==
    /\ request[w].step = "listen"
    /\ ~ UseRange
    /\ \/ \E port \in Ports \ bound : Listening(w, port)
       \/ /\ Ports \subseteq bound
          /\ request' = [request EXCEPT ![w] = NoRequest]
          /\ UNCHANGED bound
    /\ UNCHANGED <<ipvars, range, dualStack, issued, lookup, relay>>

\* Generator.AllocatePacketConn asks for the external address ...
Resolve(w) ==
    /\ request[w].step = "resolve"
    /\ Get(w)
    /\ UNCHANGED turnvars

\* Broken: an IPv6 address is preferred, whatever the socket is.
RelayIPSocketIgnored(a) == IF a.v6 = Nil THEN a.v4 ELSE a.v6

RelayIP(a) ==
    IF a.v6 = Nil \/ (~ dualStack /\ a.v4 # Nil) THEN a.v4 ELSE a.v6

\* ... and announces the port under it.  When the provider has failed, the
\* client gets an error, and the connection that listens is never closed.
Announce(w) ==
    /\ request[w].step = "resolve"
    /\ LET a == answer[w]
           r == request[w]
       IN  relay' = IF a.failed THEN relay
                    ELSE [relay EXCEPT ![r.user] =
                            [open |-> TRUE, port |-> r.port, ip |-> RelayIP(a),
                             due |-> FALSE]]
    /\ request' = [request EXCEPT ![w] = NoRequest]
    /\ Leave(w)
    /\ UNCHANGED <<range, dualStack, issued, lookup, bound>>

-----------------------------------------------------------------------------
(* The lifetime of a relay: the TURN library *)

Lapse(u) ==
    /\ relay[u].open
    /\ ~ relay[u].due
    /\ relay' = [relay EXCEPT ![u].due = TRUE]
    /\ UNCHANGED <<ipvars, range, dualStack, issued, lookup, bound, request>>

\* A refresh is authenticated like any request.
Refresh(u) ==
    /\ relay[u].open
    /\ relay[u].due
    /\ Authenticate(u)
    /\ relay' = [relay EXCEPT ![u].due = FALSE]
    /\ UNCHANGED <<ipvars, range, dualStack, issued, lookup, bound, request>>

Expire(u) ==
    /\ relay[u].open
    /\ relay[u].due
    /\ bound' = bound \ {relay[u].port}
    /\ relay' = [relay EXCEPT ![u] = NoRelay]
    /\ UNCHANGED <<ipvars, range, dualStack, issued, lookup, request>>

-----------------------------------------------------------------------------

Init ==
    /\ IPInit
    /\ range \in {<<min, max>> : min, max \in 0 .. PortSpace - 1}
    /\ RangeAccepted(range[1], range[2])
    /\ dualStack \in BOOLEAN
    /\ issued = {}
    /\ lookup = {}
    /\ bound = {}
    /\ request = [w \in Workers |-> NoRequest]
    /\ relay = [u \in Users |-> NoRelay]

\* The provider on its own: the clock, the hub, and the calls under way.
Provider ==
    /\ \/ Tick \/ Get(Hub) \/ Leave(Hub)
       \/ \E c \in Callers : Lock(c) \/ LookedUp(c)
    /\ UNCHANGED turnvars

Serve(w) ==
    \/ ListenRequested(w) \/ ListenInRange(w) \/ ListenAnywhere(w)
    \/ Resolve(w) \/ Announce(w)

Next ==
    \/ Provider
    \/ \E u \in Users : Credentials(u) \/ Disallow(u)
    \/ \E w \in Workers : Serve(w) \/ \E u \in Users : Request(w, u)
    \/ \E u \in Users : Lapse(u) \/ Refresh(u) \/ Expire(u)

Spec == Init /\ [][Next]_vars

\* The TURN library works off its requests and its timers run out.
Fairness ==
    /\ \A c \in Callers : SF_vars(Lock(c) /\ UNCHANGED turnvars)
                            /\ WF_vars(LookedUp(c) /\ UNCHANGED turnvars)
    /\ \A w \in Workers : WF_vars(Serve(w))
    /\ \A u \in Users : WF_vars(Lapse(u)) /\ WF_vars(Expire(u))

FairSpec == Spec /\ Fairness

-----------------------------------------------------------------------------
(* Properties *)

\* Every variable of the TURN server has its type, and an open relay has a
\* port of its own that the process listens on.
TypeOK ==
    /\ IPTypeOK
    /\ range \in (0 .. PortSpace - 1) \X (0 .. PortSpace - 1)
    /\ lookup \subseteq issued
    /\ issued \subseteq Users
    /\ bound \subseteq Ports
    /\ \A w \in Workers : request[w].step \in {"none", "listen", "resolve"}
    /\ \A u \in Users : relay[u].open => relay[u].port \in bound
    /\ \A u, v \in Users :
          relay[u].open /\ relay[v].open /\ relay[u].port = relay[v].port => u = v

\* SCREEGO_TURN_PORT_RANGE limits the relays: the arithmetic on uint16 never
\* leaves the range, not even when MaxPort + 1 wraps around, and always has a
\* port to choose (portrange.go:35-44, where Intn(0) would panic).
RelaysStayInRange ==
    UseRange => /\ bound \subseteq range[1] .. range[2]
                /\ PortsOfRange # {}

OwnFamily == IF dualStack THEN V6 ELSE V4

Given(a) == {a.v4, a.v6} \ {Nil}

\* A relay is announced under an address that the provider gave for this very
\* request, never under the nil address of a family it does not know, and
\* under the one of the socket's own family whenever it gave that one
\* (server.go:53-62).
AnnouncedAddressesFit ==
    [][\A w \in Workers, u \in Users :
          /\ relay[u] = NoRelay
          /\ relay'[u].open
          /\ request[w].step = "resolve"
          /\ request[w].user = u
          => /\ relay'[u].ip \in Given(answer[w])
             /\ Given(answer[w]) \cap OwnFamily # {} => relay'[u].ip \in OwnFamily]_vars

\* The end of a session is the end of its relays: once Disallow was called,
\* the user's relay goes and no other comes, even if the request for it had
\* been authenticated before (server.go:147-171, room.go:85-92).
RelaysEndWithSessions ==
    \A u \in Users : [](u \in issued \ lookup => <>[](relay[u] = NoRelay))
=============================================================================
