# Screego, in TLA+

Screego lets people share their screens in a browser. A Go server keeps rooms
and users, pairs each sharing user with each other user of the room, and
passes on what two browsers need to set up a WebRTC connection; it also runs a
TURN server for browsers that cannot reach each other. The modules in this
directory model that server, from its configuration to its end, and the part of
the browser client that talks to it. TLC checks them on small instances. For
every instance, TLAPS proves the invariants of the room registry and its
refinement of what users are promised; that the hub learns of every failed
connection and waits for none; that no browser shows a frozen picture; that the
address provider is current and paced, and relays are in range; and the promises
about logins, health checks and the exit status.

    tlc -workers 2 -config RoomsTurn.cfg MCRooms.tla      # one run (table below)
    tlapm RoomsProofs.tla                                 # the proofs of a module

## 1. The system

| Part | State it keeps | Operations | Hard because |
|---|---|---|---|
| Room registry `ws/rooms.go`, `ws/room.go`, `ws/event_*.go` | `Rooms.connected` (client → room or `""`), `Rooms.Rooms` (users, sessions, owner), Prometheus counters | one handler per message, run one at a time by `Rooms.Start` (the *hub*) | two registries and the TURN server are changed together; a handler may fail half-way (the address lookup) and is then undone by a disconnect; closing a room removes users whose messages are still waiting |
| Client connections `ws/client.go`, `ws/once.go`, `Rooms.Upgrade`, `writeTimeout` | per connection a socket, two loops, a channel of capacity one, a `once` | `Upgrade`, `startReading`, `startWriteHandler`, `CloseOnError`, `CloseOnDone` | loops send to the hub while the hub sends to them; both may fail at once; sends are dropped after two seconds |
| Browser side `ui/src/useRoom.ts` | captured stream, `host.current`, `client.current`, shown streams | `room`, `share`, `stopShare`, a callback per message, `onclose` | every `await` lets other callbacks in; messages cross; connections fail and come back |
| TURN server `turn/` | user name → key; sockets and allocations in pion/turn | `Credentials`, `Disallow`, `authenticate`, `AllocatePacketConn` | credentials are revoked while a request is served; port arithmetic in `uint16`; address of the right family |
| External address `config/ip.go`, `config/ipdns/` | cached answer, time of the next lookup, a mutex | `Get`, `lookup`, `parseIPProvider` | hub and TURN goroutines share one lock, held during a lookup; failures |
| Configuration `config/config.go` | `Config`, once per start | `Get` | the first occurrence counts, also an empty one; every complaint must reach the end of the start |
| Start-up and end `cmd/serve.go`, `server/server.go` | three goroutines and an unbuffered channel | `serveCmd`, `Start`, `shutdownOnInterruptSignal`, `waitForServerToClose` | each step may fail; `Serve` and `Shutdown` both report the end |
| Login `auth/` | nothing on the server: a signed cookie in the browser | `Authenticate`, `Logout`, `CurrentUser` | what a cookie is worth after time, restarts and another configuration |
| Health check `Rooms.Count`, `ws/event_health.go` | a channel per call | `Count`, `Execute` | one timer for the question and the answer; late answers |
| Logging, random names, the `hash` command, UI components | | | not modelled, section 8 |

How they interact. A browser's messages reach the hub through the read loop and
the unbuffered channel `Rooms.Incoming`; answers go through the client's
channel to its write loop. A handler asks the external address provider when it
makes sessions, and enters or revokes the credentials of their two ends in the
TURN server. `CloseOnError` reports a failed connection to the hub as a
`Disconnected` message; the hub ends a connection with `CloseWriter`. The two
browsers of a session exchange offer, answer and ICE candidates through the
hub's relay handlers. `serveCmd` reads the configuration and starts everything
else in turn; a WebSocket is opened as the user of the cookie that comes with
it; `/health` puts a question of its own on `Rooms.Incoming`.

What makes each part correct: the registry — both maps agree, sessions are what
the streams call for, credentials are what the sessions call for, rooms end as
their creator chose; the connections — every failure reaches the hub once, no
goroutine waits for ever, removed clients end; the browser — what is shown is
served, what is shared gets seen; the TURN server — ports in range, addresses
that fit the socket, no relay without a session; the address provider — current answers,
paced lookups; the process — the configuration is the one that was
written, nothing is served under one that cannot work, an interrupt ends it, and
its exit status says why it ended; logins — they last as configured;
health checks — they return, with a number that was true. `PROJECT.json` lists the hazards line by line with the
properties that address each.

## 2. The modules

| Module | Models | Built on |
|---|---|---|
| `Rooms` | the registry and all its handlers | |
| `RoomViews` | what a client can conclude from the messages sent to it (history variables) | `Rooms` |
| `ScreenShare` | abstract: what users are promised | |
| `RoomsPromise` | the refinement mapping from `Rooms` to `ScreenShare` | `Rooms`, `ScreenShare` |
| `Connections` | the goroutines around the hub | |
| `UseRoom` | the browser client of one sharing page and its viewers, with the server between | |
| `ExternalIP` | the address provider with its configuration | |
| `TurnRelay` | the TURN server over the provider | `ExternalIP` |
| `Startup` | configuration, start-up, serving and the end of the process | |
| `Logins` | the session cookie | `Startup` |
| `HealthCheck` | `/health` and what it needs of the hub | `Startup` |
| `Service` | the process with its logins and health checks | `Logins`, `HealthCheck` |
| `RoomsProofs` | proofs: the lemmas about the functions of the registry, its types and its inductive invariant | `Rooms`, TLAPS |
| `RoomsAccess` | proofs: who is thrown out, credentials, who is let in, counters | `RoomsProofs` |
| `RoomsPromiseProofs` | proofs: the registry implements `ScreenShare` | `RoomsProofs`, `RoomsPromise` |
| `RoomViewsProofs` | proofs: what is sent, followed through the functions of the hub, and what clients can conclude from it | `RoomsProofs`, `RoomViews` |
| `ConnectionsProofs`, `UseRoomProofs`, `ServiceProofs` | proofs about the module so named | that module, TLAPS |
| `TurnProofs` | proofs about `ExternalIP` and `TurnRelay` | `TurnRelay`, TLAPS |
| `MCRooms`, `MCRoomViews`, `MCUseRoom`, `MCService` | symmetry sets and values of constants for TLC; `MCRooms` extends `RoomsPromise`, so that one run checks invariants and refinement | |

Operators named like a mapped one and introduced by a comment that starts with
"Broken:" are not part of the model. Each is a bug the code might have had;
replacing the definition that follows it by the broken one makes TLC report
the property `PROJECT.json` names under "mutants".

### Rooms

One handler is one step, because the hub runs one at a time and only the hub
touches the registry. `hub` collects the variables into a record; each function
of the code (`notifyInfoChanged`, `newSession`, `closeSession`, `closeRoom`,
`removeUserFromRoom`, ...) is an operator from such a record to the next, which
also appends what it sends to `out`; a handler is their composition, and
`Become` makes the result the next state. The body of a failing handler is
followed by `Disconnect`, as in `Rooms.Start`; in particular
`TurnIPProvider.Get` may fail in `Join` and `StartShare`, after the user was
entered or marked as streaming.

- Sessions made by one handler differ in host or client, so a session is named
  by the number of the batch and that pair instead of an `xid`.
- `lookup` holds the credentials the TURN server accepts. With an external
  TURN server nothing can be revoked, and credentials only grow; their expiry
  after a day is not modelled.
- `panicked` says that a handler has used `room.Users[u]` for a user that is
  not there (a nil pointer in Go). After a panic nothing happens any more.
- Names are chosen freely from `Names`: the requested name, the account's, or a
  random one are not told apart.
- `outbox` is what the last handler sent: a sequence of *sets* of messages,
  since Go iterates over maps in no order.
- Closing frames with their codes and reasons, ICE server lists and the content
  of relayed messages are left out.

### RoomViews

`view`, `told` and `closed` are computed from `outbox'` alone. The host of a
session is not told when it stops sharing itself; it drops the session when a
room message says it does not share any more, which is when the UI has closed
its peers (`stopShare`). Comparing these views with the registry checks the
notifications: a handler that forgets one, or sends it to the wrong client or
in the wrong order, makes a view differ.

### ScreenShare and RoomsPromise

`ScreenShare` knows neither sessions nor messages nor handlers: visitors enter
at most one room, and watch exactly those who share there. Under the mapping
(`watching` is the set of host/client pairs of the sessions, `keepers` the
owners of rooms that close with them) every handler of `Rooms` is one step of
`ScreenShare` or a stutter. A `Join` whose address lookup fails appears
simply as that visitor's `Leave`.

### Connections

Per connection: the socket, the program counters of the three goroutines (HTTP
handler in `Upgrade`, read loop, write loop), the goroutine started in
`CloseOnError`, `once`, and the channel. `once.Do` lets the second caller go on
while the first is still running `f`, so `CloseOnError` is two steps:
`CloseOnError` (the flag, and the report is under way) and closing the socket.

What a handler sends is abstracted to what `RoomViews` shows of all of them
(`ClosedAreGone`, `NothingAfterClose`, `SessionsAreTold`) and `OnlyOwnersEvict`
restricts: a *plan* addressed to connected clients, in which `CloseWriter` goes
to exactly those taken out and is the last for each. The hub then works
off the plan, one `writeTimeout` at a time. Deadlines, pings and network
failures are choices; a write ends or fails, whatever the peer does, because of
the two-second write deadline.

### UseRoom

Pages are connected with the server by two queues each. The server part is the
registry reduced to one room in which one page shares; that a reduction of this
kind is right is what the properties of `Rooms` say. A page's callbacks are
atomic up to their next `await`:

- `TakeHostSession` starts `createOffer`; `OfferReady` is its end, and sends the
  offer *and* registers the peer, because the promise's `.then` runs before
  any other callback;
- `TakeOffer`, `Applied` (`setRemoteDescription`; `ontrack` shows the stream) and
  `AnswerReady` are the awaits of the viewer; a closed peer goes no further,
  as the WebRTC standard says;
- `HostCandidate` and `ViewerCandidate` are `onicecandidate`: a candidate is sent
  through the same queues and looked up by its session at the other end
  (`TakeClientICE`, `TakeHostICE`), where it may come before the peer is known or
  after it was closed;
- `HostNotices` and `ViewerNotices` are `onconnectionstatechange` after the other
  end has closed; with `HostFails` and `ViewerFails` one end gives up while the
  other is open, and nobody sets that connection up again;
- `Lose` is `onclose`, which forgets the room but closes neither
  peers nor stream. A viewer that comes back does so on a new connection in the
  same page (`Tab`): the peers of the old connection are still there, and a
  picture may stay for as long as the old connection lasts.

Not modelled: a failing address lookup (the page sees a lost connection,
`Lose`), a host that comes back, pressing share twice while the browser's picker
is open.

### ExternalIP and TurnRelay

`ExternalIP` starts from every list of up to three entries that
`parseIPProvider` accepts. A call of `DNS.Get` waits for the mutex, and then
either returns the cache or starts a lookup, which ends later, at any time.
The clock is an integer; `refetch.Before(now)` is `refetch < now`.

`TurnRelay` adds credentials, ports and allocations. An Allocate request is
authenticated, opens a port (each attempt is a step), asks the provider, and
is announced — four points between which the hub may revoke the credential.
A client that asks for an even port makes pion/turn draw a port from the generator,
close it, and ask the generator for that very port, which `portrange.go:26-33` opens
without a look at the range (`ListenRequested`).
The arithmetic of `portrange.go` is done modulo `PortSpace` (65536 in the code); the initial states have every range that `config.Get` accepts.
If the provider fails, the port stays open with no one to close it: that is
what `server.go:53-56` does. pion/turn is external: one allocation per client,
every request is authenticated, an allocation that is not refreshed expires.

### Startup, Logins, HealthCheck and Service

Three modules for the parts of a process that share its fate. `Startup` has the
process itself; its steps say which variables of the process they change, and
`Service` adds what happens to the rest (`Memory`): health checks end with the
process, cookies do not.

*Configuration.* A setting has a class of values: what `Get` tells apart (`"bad"`
cannot be parsed, `"ip"` can, `""` is set to nothing). An environment or a file is
a map from the settings it sets; `MCService` has fifteen such maps, and `Boot`
chooses one for the environment and one, or an error, for each file, freely at
each start. `Merge` is `godotenv.Load`, which leaves alone what is set, were it to
`""`; `Get` adds `envconfig`'s defaults to what is not set at all. `Logs` is the list
of messages in the order of the code, and `Refused` the loop of `serveCmd` over
it. `said` is a history variable: what the documentation calls the first
occurrence.

*Start-up and end.* `main` walks through `serveCmd`; each call that may end in
`log.Fatal` may. `serve` and `intr` are the two goroutines of `server.Start`; in the
states `"closed"` and `"failed"` they are at the send to the unbuffered channel that
`waitForServerToClose` reads once. `Serve` refuses to begin, or returns, as soon as
`Shutdown` was entered, whether or not that has finished: so `net/http` documents it.
Before `signal.Notify` an interrupt kills the process. A crash is possible at any
time.

*Logins.* One user of the users file and one browser. The cookie has its user,
the key that signed it (the configured secret, or the bytes of this start), its
`Max-Age` and its age. `Seconds` gives each class of timeouts (zero, two kinds of
positive ones, negative) an integer, any integer: `Get` accepts them all, and
`Authenticate` makes each a `Max-Age`. A browser forgets a cookie at once if that is
negative (`Taken`), with itself if it is 0, and in time if it is positive; and
`gorilla/sessions` refuses cookies older than 30 days (`CodecMaxAge`) whatever their
`Max-Age`. `grant`, a history variable, is the login the cookie should stand for;
`Lasts` is what the documentation promises of it, without the 30 days, and is
compared with the cookie twice: `LoginsLastAsPromised` fails (finding 4), and
`LoginsAreHonoured` is what holds instead. Nothing is looked up in the users file after
the login: a cookie stays good for a user that was removed from the file.

*Health checks.* `call` is the handler of one `/health` request at a time, in the first
or the second `select` of `Count`; `GiveUp` is the timer, at any moment. The hub is
reduced to the number of its clients and to what it is at; it may be at the
question of a call that has given up, whose answer then goes to a channel
nobody reads. A running `/health` is also the request a `Shutdown` waits for.

## 3. The runs

| Run | Instance | Distinct states | What it shows |
|---|---|---|---|
| `RoomsTurn` | 3 clients (1 guest), 2 rooms, modes stun/turn, AuthMode turn, ≤ 3 batches of sessions | 40 000 | types; memberships, ownership, sessions, credentials and counters agree; no nil dereference; only owners take others along; refinement of `ScreenShare` |
| `RoomsEmptyName` | as `RoomsTurn`, `""` is a room name | violation | finding 1 |
| `RoomViews` | 4 clients (1 guest), 1 room, 2 names, an unknown mode, AuthMode all, ≤ 3 batches | 36 000 | clients know what they must know, in a usable order; guests get in nowhere |
| `ConnectionsSlow` | 2 connections, ≤ 2 sends per handler, sends may be dropped | 160 000 | failures reported once, nothing sent to a loop that has ended; broken connections leave |
| `ConnectionsLive` | the same, no send is dropped | 98 000 | removed clients end, the hub comes back, no deadlock |
| `ConnectionsLeak` | 1 connection, ≤ 3 sends | violation | finding 2 |
| `UseRoom` | host, 1 viewer page with 2 connections in turn, ≤ 2 shares, ≤ 3 turns, ≤ 1 candidate | 148 000 | no frozen picture for good, no peer out of reach, signals find their peer, shares get seen |
| `ExternalIP` | 3 callers, 2 + 1 addresses, clock 0–5 | 13 000 | pacing, currency, callers are answered |
| `TurnRelay` | 1 TURN goroutine + hub, 2 users, 4 port numbers, 2 tries | 340 000 | ports in range, announced addresses fit the socket, relays end with their sessions |
| `Service` | 15 contents of the environment and 2 files, 2 starts, 1 client, timeouts 0, 1, 3 and −1, codec age 1 | 548 000 | first occurrences win, nothing is served under a bad configuration, interrupts end the process, exit statuses are right, logins are honoured, health checks return true numbers |
| `ServiceLogins` | the same, 1 file, 1 start | violation | finding 4 |
| `ServiceShutdown` | the same, no file, 1 start | violation | finding 3 |

**Bounds.** Three clients are the least with which an owner, a second streaming
user and a viewer meet in a room, or with which one room empties while another
is in use. `MaxBatches` bounds how often sessions are *created*; everything else in
`Rooms` is finite. Three batches allow share, stop and share again with a joiner
in between. `MaxSends = 2` is the shortest plan that closes one client and
then sends to another; a channel of capacity one needs one more to be full
(`ConnectionsLeak`). In `UseRoom` two shares let an offer of the first, its
leftovers and the second share be under way together; `MaxTurns` (3) bounds the shares
and the viewers' connections together, so that a restarted share does not meet
two connections in the same behaviour, and one
candidate (`MaxTrickle`) can overtake or miss every other message once. A
viewer's messages do not depend on other viewers, so one page suffices, and a
second connection of it is one that comes back. Four port numbers
(`PortSpace`) are enough for ranges of one to three ports, the wrap-around of `MaxPort + 1`,
and ranges whose ends would be swapped. In `TurnRelay` `Second` is 0 and
`Minute` 1: with a clock of two values, an answer is used again within a tick
and a failure is repeated at the next. In `Service` two files and the environment
are the least with which a first, a middle and a last place differ; two starts
(`MaxBoots`) are what a restart needs. The fifteen contents have every setting that
is tested for, right and wrong, and in such combinations that a message which is
not fatal comes after one that is; timeouts below and
above the codec's age let cookies end by either, and two secrets let a restart
keep the secret, lose it or change it. In `RoomViews` three of the four clients are
logged in and the fourth must stay out whatever it asks for; it takes part in no
session, so the other three show what they showed without it. The registry with an
external TURN server (`TurnExternal`) is left to the proofs, which are for both.

**Symmetry** is used where only safety is checked (`Permutations` of clients
that agree on being logged in, of rooms, of names).

**Deadlock** is checked in `ConnectionsLive`, `ExternalIP` and `TurnRelay`. The other
systems really may stop: when all ids or batches of the instance are used up,
when all pages have left, when all starts are used up (`Service`), or (in
`ConnectionsSlow`) when a dropped `CloseWriter`
leaves a write loop waiting for ever.

## 4. Fairness

- `Rooms` and `RoomViews` state safety only.
- `Connections`: a goroutine that can go on does so (weak fairness). Goroutines that
  block on `Rooms.Incoming` queue in order, so each is served although the hub
  is busy again and again (strong fairness of the accepting steps). Nobody
  promises that a peer sends anything, that a ping fails or that a socket
  breaks: a read ends only because the socket is no longer open. Writes end
  because each has a deadline.
- `UseRoom`: messages in the queues are taken, the browser settles the promises
  of open peers, and it notices in the end that the other end of a connection is
  gone. What users do, and the loss of connections, is not fair.
- `ExternalIP`: a lookup ends (with an answer or an error; the resolver gives up at
  last) and `sync.Mutex` does not starve a waiter — it hands itself over after a
  millisecond — hence strong fairness of `Lock`. The clock need not move.
- `TurnRelay`: the same, TURN goroutines work off their requests, and the timers of
  allocations run out. Clients need not refresh.
- `Service`: the goroutines of a process that waits for its end go on, and the five
  seconds of `Count` pass (weak fairness). Start-up is not fair (an address lookup or
  a listener may hang), and neither is the hub: that a health check returns must not
  depend on it.

## 5. Findings

1. `RoomsEmptyName`. `create` accepts `""` as the name of a room, and
   `connected[client] = ""` means "in no room" (`event_create.go:24`, `:65`). The
   creator may go on to create or join another room, and when it leaves,
   `event_disconnected.go:22` returns early: the room `""` stays, with a user
   that is gone, against `rooms.go:137`, "Last user leaves (room empty) → destroy
   room". Nobody can use that name again, and whoever joins it stays in it.
2. `ConnectionsLeak`. `client.go:133` says of the write loop "on errors exit the
   loop"; the code goes on and relies on a `CloseWriter` from the hub. When the two
   seconds for sending that are over first (`room.go:213`), the loop runs for ever.
3. `ServiceShutdown`. `waitForServerToClose` (`server.go:81`) takes the first value on
   the channel. `Serve` returns `ErrServerClosed` as soon as `Shutdown` has begun, so
   `Start` returns nil and the process ends with success while `Shutdown` still waits
   for a running request: neither its two seconds (`server.go:26`) nor the error of
   a `Shutdown` that fails ever count, although `server_test.go:34` expects `Start` to
   return that error. (The test's `Shutdown` is a function that does not make `Serve`
   return.)
4. `ServiceLogins`. `screego.config.example:104-105` says of the session timeout "Defines
   how long a user session is valid in seconds" and "0 = session invalides after browser
   session ends". The timeout only becomes the `Max-Age` of the cookie
   (`auth.go:116`); the cookie store is made with the defaults of `gorilla/sessions`
   (`auth.go:52`), whose codec refuses any cookie after 30 days. A browser that stays
   open is logged out then, and a longer timeout is cut to that. `LoginsAreHonoured`
   shows that there is no other difference.

## 6. Proofs

| Module (obligations) | Theorem | States |
|---|---|---|
| `RoomsProofs` (2029) | `TypeCorrect` | `Spec => []TypeOK` |
| | `RegistrySound` | `Spec => []Sound(hub)`, the inductive invariant |
| | `MembershipHolds` | `Spec => []MembershipAgrees` |
| | `OwnershipHolds` | `Spec => []RoomsAreOwned` |
| | `StreamsHold` | `Spec => []StreamsAreSessions` |
| | `PanicFree` | `Spec => []NeverPanics` |
| `RoomsAccess` (2902) | `EvictionHolds` | `Spec => OnlyOwnersEvict` |
| | `CredentialsHold` | `Spec => []CredentialsMatchSessions` |
| | `AdmissionHolds` | `Spec => []Admitted(hub)`, who has passed `checkAuth` |
| | `GuestsStayOutHolds` | `Spec => []GuestsStayOut` |
| | `CredentialsAreForUsers` | `Spec => []CredentialsNeedLogin` |
| | `CountersHold` | `Spec => []GaugesBalance` |
| `RoomsPromiseProofs` (1243) | `PromiseHolds` | `Spec => KeepsPromise`, the refinement of `ScreenShare` |
| `RoomViewsProofs` (2582) | `ViewsAreCurrent` | `ViewSpec => []ViewIsCurrent` |
| | `EndsAreTold` | `ViewSpec => []SessionsAreTold` |
| | `ClosedLeft` | `ViewSpec => []ClosedAreGone` |
| | `CloseIsLast` | `ViewSpec => NothingAfterClose` |
| | `RoomIsFirst` | `ViewSpec => RoomComesFirst` |
| `ConnectionsProofs` (464) | `ConnectionsWell` | `Spec => []IInv`, the inductive invariant |
| | `NothingForTheDeadHolds` | `Spec => []NothingForTheDead` |
| | `FailuresReported` | `Spec => []FailuresAreReported` |
| `UseRoomProofs` (4033) | `ShownServed` | `Spec => []ShownAreServed` |
| | `SignalsFound` | `Spec => []SignalsFindTheirPeer` |
| | `OpenPeersRegistered` | `Spec => []OpenPeersAreRegistered` |
| `TurnProofs` (865) | `AnswersCurrent` | `IPSpec => AnswersAreCurrent` |
| | `LookupsPaced` | `IPSpec => LookupsArePaced` |
| | `TurnTyped` | `Spec => []TypeOK` of `TurnRelay` |
| | `RelaysInRange` | `Spec => []RelaysStayInRange` |
| | `AnnouncedFit` | `Spec => AnnouncedAddressesFit` |
| | `ProviderInUse` | both properties of the provider, under the TURN server |
| `ServiceProofs` (1201) | `CountsHold` | `Spec => []CountsAnswerTheQuestion` |
| | `ExitsHold` | `Spec => ExitTellsOutcome` |
| | `LoginsHold` | `Spec => []LoginsAreHonoured` |
| | `FirstWins` | `Spec => []FirstOccurrenceWins` |
| | `ReadyHolds` | `Spec => []ServesOnlyWhenReady` |

Each holds for arbitrary values of the constants that satisfy the assumptions of
the module (which TLC evaluates in every run of it): any clients, rooms, names and
modes, any number of batches, sends, shares, turns, tries or starts. Of the
theorems about `Rooms` and `RoomViews` all but `TypeCorrect` and `CredentialsHold`
assume besides that `NoRoom \notin RoomIDs`: clients do not ask for the room `""`. That assumption is
needed; finding 1 is what happens without it.

**The registry.** None of the three registry invariants is inductive alone. That no
handler panics needs that the ends of every session are in its room; that needs
that sessions are those of the streaming users; that needs, for joiners, that a
client in no room according to `connected` is in the users of none. `Sound(h)`
therefore says of a hub state `h` all of it at once: `Placed` (the two maps
agree), and for every room `OwnedRoom` (not empty, at most one owner, an owner if
it closes with its owner) and `StreamedRoom` (sessions are the pairs of a
streaming user and another). It is a predicate of a hub *record*, not of the
variables, so that it can be followed through the composition of the functions
of the code: there is a lemma for each function, and one for each
handler. Between two functions of one handler the invariant may be broken for a
room or a user under way; the lemmas speak of that room or user. `SoundBut(h, c)`
is what holds when a failed address lookup hands over to `Disconnect`: all of
`Sound`, except that the sessions `c` takes part in need not agree with who
streams; `DepartSound` shows that removing `c` repairs that. `PanicFree`
follows because `Deref` finds its user in every state with `Sound(hub)`.
`EvictionHolds` is about pairs of states: of each handler it is shown which
connections it takes. Lemmas about `Put`, `Drop`, `IsMap` (Go maps) stand at the
beginning of `RoomsProofs` and are cited by name everywhere else.

**Credentials and admission.** `CredentialsHold` has an invariant of its own,
`Covered`: the credentials in `lookup` are
those in use, and no two rooms share a session. The second part is what makes it safe
that `closeSession` revokes by the id of the session alone; it holds because new
sessions have a name that no session of any room has (`s.batch < batch` in `TypeOK`).
`Admitted` says that everyone in a room has passed `checkAuth` for its mode, and the two
ends of each credential the check of a turn room. Nearly all functions only take away
(`NoMore`), so what is left to show are the three ways in, and that `StartShare` makes
sessions only with users of the room: that its client is one of them is where
`Sound` is used.

**Counters.** `GaugesBalance` counts pairs (`Entries`: a room and one of its users, or
one of its sessions), so that no sum over rooms has to be taken apart. `Balanced`
adds that these sets are finite, which every step needs of the one before. Each
function gives to, or takes from, what one room has, and `MoreCounted`, `LessCounted`
and their kin say what that does to the number of pairs. `closeRoom` must count
users and sessions out by the size of what goes; `+1` for a newcomer is right
because the newcomer was not in the room (`Placed`). This too fails for the room
`""`: its creator, asking for it again with `joinIfExist`, is counted a second time
and is still one user.

**The refinement.** In a sound registry everything `ScreenShare` speaks of is decided,
user by user, by the user's place in `Rooms.connected` and its record in that room:
who shares, who keeps the room open, and (because sessions are the pairs of
`StreamedRoom`) who watches whom. That is `SoundViewed`, and it reduces the
three sets of the mapping to places and records. For each handler it is then
enough to know whose place changes and whose record does (`Kept`); there is one
lemma for each step of `ScreenShare` saying that a change of that kind is that step
(`LeaveView`, `EnterView`, `ShareView`, ...), and one for each handler saying which
change it makes: a handler that fails is `Leave`, whatever it did first, and one which
touches neither places nor flags (`Name`, the relays) stutters.

**What the clients know.** The properties compare the registry after a handler with what
was concluded from all messages so far, so the invariant `ViewInv` is those about
states and `Forgotten` (nothing is remembered of who is gone), beside `Sound(hub)`. The
work is within a handler, whose functions append to `out` while the registry changes.
`LastSeen`, `Heard` and `Post` say of the messages appended so far which room a client
saw last, of which sessions it has heard, and that they go only to who was still
connected, `CloseWriter` exactly to who is not. There is one lemma for what each
function does to them, and predicates for the places within a handler at which
somebody is still to be told: `InformedBut(h, q)`, the users of `q` of their room
(before `notifyInfoChanged`); `Underway(h, c)`, where `c` is about to be disconnected
because its request has failed, and those in its room will hear of that instead;
`Informed(h)`, nobody. `Delivered` is what all handlers end with (`HandlersDeliver`): a
client that stops sharing is the one that is not sent the end of its sessions, which
it ends by itself. `Observed` and `NewcomerObserved` carry that over to the history
variables. `CloseIsLast` and `RoomIsFirst` are about the order within one handler, given
what was known before it, and follow from `Post`.

**Connections.** `IInv` ties three things to the places of a client's goroutines. A
client that is not yet announced to the hub has nothing on the way (`Fresh`). `CloseWriter`
is for somebody who is not connected any more, and nothing for that client comes
after it, neither in the rest of the running handler nor in its channel
(`CloseWriterIsLast`, `ChannelEnds`). Whoever called `once.Do` for a client that is still
connected is on the way to the hub with it (`OnceIsReported`), which is
`FailuresAreReported` and a bit more. A write loop that has ended (`Dead`) has taken
a `CloseWriter`, so nothing follows.

**The browser.** A picture is served if its session is the server's or the end of the
session is still to be read. That is not inductive: a session may be announced,
end, and be taken up by the viewer only then. `Reported` says of every session which
the viewer has open *or will read of* that the server has it or its end waits
*behind* that announcement in the same queue; it is the order of a queue that
makes this inductive. The proof distinguishes the steps of the server, which
append to all queues (`DeliverReports`: what a handler sends fits the sessions it
leaves, `Fits`), from those of a page, which take one message and change one peer
(`TakenReports`; `Apart`: other sessions do not notice). That `Tell` sends each
message, in some order, rests on `SetToSeq` of the community modules, for
which `SetToSeqLists` is proved. `OpenPeersRegistered` needs no more than the
states a peer can be in; the invariant is inductive by itself.

**The order of signals.** `SignalsFindTheirPeer` compares positions in a queue with peers
at its end; `SignalsInv` says of each session where its one offer and its one answer
are. Until the host's peer has made the offer there is nothing of the host; then the
offer is on its way up, on its way down, or the viewer's peer has it, and its candidates
come behind it in either queue (`OfferedOnce`, `OfferFirst`); the same for the answer
(`AnsweredOnce`, `AnswerFirst`). So the host's peer must be registered and waiting as
long as the offer or the answer is anywhere on that way (`Awaited`), which holds only
while no `stopshare` of the host is on its way up: that is the exception in the
property. A session has to be told of once and not be over before it ends (`Announced`),
and nobody may have heard of one that the server may still open (`Unopened`, `Unheard`).
Who asks to join does so once (`Joins`): a viewer that asked twice would be in two
sessions of the same name. `Routed` says which end a signal comes from and goes to. The proofs
do not speak of positions: `Has`, `Once` and `Behind` are all that is said of a queue, four
lemmas say what appending, joining, taking and cutting do to them, and `Similar`,
`Popped`, `Pushed` and `Cut` reduce a step to what it does to the messages about one
session. There is one lemma for each step in the life of a session (`OfferPassed`,
`AnswerTaken`, `HostHungUp`, ...), `CalmOrder` for the steps that are about another one, and one
for each action and handler that says which of these it is. TLC checked `SignalsInv`
on three small instances (up to 258 thousand states) before it was proved.

**Addresses and relays.** `CacheIsLast`: after the first lookup the cache is the answer
to the last one, the next lookup is due a pause after it that this answer calls
for, and an answer has an address unless it is an error. Before the first lookup
`refetch` is before every time, so the cache is not used. The composition changes the
provider by steps of its own only (`StepOfProvider`), so `IPInv` holds there as well.
For the relays, the arithmetic of a range that `config.Get` accepts stays in the range for
every `PortSpace` (`PortsOfRangeAre`: the range with end `PortSpace - 1` too, where
`MaxPort + 1` is 0 and the difference taken modulo `PortSpace` is still the number of
ports). `OwnPorts` says that no two relays, in set-up or announced, share a port: a step
that frees a port would else take it from another relay. `OneRequest` (no user has two
requests under way) makes the request that `AnnouncedAddressesFit` speaks of the one
that is announced, and `RelayIPFits` compares the address with those given, for the four
cases of what is known and what the socket is.

**The process.** `ProcessFrame`, `HealthFrame` and `LoginFrame` say which part leaves
which variables alone; each theorem then has an invariant of its own. `CountInv`:
the present number of clients belongs to the call under way, and the channel of a
call is empty as long as the hub has its question. `EndInv`: `Shutdown` is entered for
an interrupt only, that is not listened for before start-up is over, and only
`Shutdown` makes `Serve` return `ErrServerClosed`. `LoginInv`: a cookie of a user tells the
same as the user's last login (`Tells`: age, `Max-Age`, key, and the configuration if
it was this process that signed it), a guest's cookie means that there is none, and
where there is no cookie the login has run out (`Expired`: by its timeout or by the age
of the codec, whichever is less; at once if the timeout is negative). That the timeout is
an integer, and not what could not be parsed, comes from `ReadyInv` (below). With
`LoginInv` the property is a comparison of two keys. The only assumptions are
`SecondsAssumption` (0 stands for 0, every class for some integer) and `CodecAssumption`
(the codec's age is a number): nothing relates the two.

**Configuration.** `Get` folds `Merge` over the environment and the files, `Logs`
flattens what is said of each file, and both hold for any number of files
(`NumFiles`) by induction. The library's induction theorems take a predicate as a
parameter, which the provers cannot instantiate; `Induction` is about a set instead,
and follows from `WFMin` (every set of numbers has a least element). A recursive
function is first shown to exist (`FoldExists`, `FlattenExists`: the one for `n + 1`
extends the one for `n`), which makes its equation available. `ReadInTurn` has the steps of
the fold, and `ReadFirst` says what it is for: reading all sources in turn, each
leaving alone what is set, gives what the first to say something says, which is how the
documentation puts it (`FirstSaid`). `FirstOccurrenceWins` is then inductive as it
stands. For `ServesOnlyWhenReady`, `JoinedLogs` says that a list of messages is refused
exactly if a part of it is, so a configuration that is accepted has none of the
faults that `Logs` looks for (`AcceptedIsSound`), wherever in the order its message
would be. `ReadyInv` carries that from `Boot` to the server: the configuration stays
sound as long as the process runs (its session timeout a number, too), it names no missing file once `LoadUsers` is
past, and nothing is served before `StartServer`. `AddressAssumption` gives the classes of
the two addresses: unset, parsed, or not.

**Only model-checked:** all liveness under fairness, which TLAPS does not handle. Every
invariant and every action property of the passing runs is proved.

## 7. Plan

Done: registry, its views, its promise; connections; browser with candidates,
failures and a viewer that comes back; address provider; TURN server;
configuration, start-up, end, logins and health checks. Proved: what section 6 lists.

1. Model: a host that comes back and two simultaneous viewer pages in `UseRoom`.
2. State: the client's view when sends are dropped (`RoomViews` over the channel of
   `Connections`).

## 8. Not modelled

- **Routes without state**: CORS and the origins allowed for WebSockets, `/metrics`, the
  files of the UI. `/config` is modelled by the user it reports.
- **The `hash` command**, the choice of the command, the places where config files are
  looked for (their number and order count, not their names), options that are only
  passed on (log level, addresses to listen on, proxy headers).
- **Certificates**: `startServer` serves TLS whenever a certificate or a key is set,
  also if `SCREEGO_SERVER_TLS` is false; that is in `CertificateMayLoad`, and no
  property is about it.
- **Logging, random names and passwords, rendering**: no state of their own. The
  messages of `Get` are modelled by their level.
- **The format of the users file and bcrypt**: right or wrong.
- **Message encoding**: a message that does not parse is `ReadFails` in `Connections`.
- **The TURN and WebRTC protocols, net/http, godotenv, envconfig, gorilla**: libraries;
  modelled only as far as the code relies on them, and marked external in
  `PROJECT.json`.
- **Addresses and time limits of real size**: two-second and five-second limits are
  choices between "in time" and "too late".
