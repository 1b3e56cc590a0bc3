------------------------------ MODULE Service ------------------------------
(***************************************************************************)
(* The service as its operator sees it: a process that is configured,      *)
(* started, interrupted and restarted (Startup), the logins that are to    *)
(* outlive it or not (Logins), and the health checks in whose midst it may *)
(* end (HealthCheck).                                                      *)
(***************************************************************************)
EXTENDS Logins, HealthCheck

vars == <<procvars, loginvars, healthvars>>

Init == ProcInit /\ LoginInit /\ HealthInit

\* What the process keeps in memory ends with it; what the browser keeps stays.
Memory ==
    /\ IF main' = "off" THEN HealthGone ELSE UNCHANGED healthvars
    /\ UNCHANGED loginvars

ProcessStep ==
    /\ Start \/ Receive \/ Listen \/ Break \/ ServeReturns
          \/ Interrupt \/ Crash \/ BeginShutdown \/ EndShutdown
    /\ Memory

Next ==
    \/ ProcessStep
    \/ HealthNext /\ UNCHANGED loginvars
    \/ LoginNext /\ UNCHANGED healthvars

Spec == Init /\ [][Next]_vars

\* The goroutines of a process that has reached waitForServerToClose run on
\* until it ends; start-up may block for ever, and so may the hub.
ProcessFairness ==
    /\ WF_vars(Receive /\ Memory)
    /\ WF_vars(Listen /\ Memory)
    /\ WF_vars(ServeReturns /\ Memory)
    /\ WF_vars(BeginShutdown /\ Memory)
    /\ WF_vars(EndShutdown /\ Memory)

\* The five seconds of Count pass, too.
FairSpec == Spec /\ ProcessFairness /\ WF_vars(GiveUp /\ UNCHANGED loginvars)

-----------------------------------------------------------------------------
(* Configuration and start-up *)

\* Every setting has the value that the first of the environment and the files
\* gives it, and its default if none does: docs/config.md:7, "Properties will
\* never be overridden.  Thus, the first occurrence of a setting will be used."
\* (A setting that is set to the empty string has occurred.)
FirstOccurrenceWins ==
    main = "configured" =>
        \A k \in Setting : conf[k] = IF k \in DOMAIN said THEN said[k] ELSE Default[k]

\* What is needed to serve at all, in the words of screego.config.example
Usable(c) ==
    /\ \/ c.external_ip = "ip" /\ c.turn_external_ip = ""
       \/ c.external_ip = "" /\ c.turn_external_ip = "ip" /\ c.turn_external_secret # ""
    /\ c.auth_mode \in {"turn", "all", "none"}
    /\ c.users_file # "missing"
    /\ c.server_tls = "true" => c.tls_cert_file # "" /\ c.tls_key_file # ""
    /\ "bad" \notin {c.turn_port_range, c.turn_deny_peers, c.cors_allowed_origins}

\* Nobody is served under a configuration that cannot work, however many
\* messages it gives rise to and wherever in their order the fatal one is: all
\* complaints of Get are collected first (cmd/serve.go:22-32), and the users
\* file is read after that (39-42).
ServesOnlyWhenReady == Open => Usable(conf)

-----------------------------------------------------------------------------
(* The end *)

\* An exit status of success means that the operator asked for the end, and
\* that the server ended for that reason (server/server.go:81-87).
ExitTellsOutcome ==
    [][exit' = "success" /\ main # "off" /\ main' = "off" =>
        pressed /\ ShutDown /\ serve = "closed"]_vars

\* An interrupt that reaches a waiting process ends it, whatever its requests
\* and its hub are doing: one of the three goroutines that meet at the channel
\* always has something to send, and main is there to take it.
InterruptsEnd == pressed ~> main = "off"

\* VIOLATED.  An orderly end leaves no request half-way: Shutdown waits for the
\* running ones up to the two seconds of server.go:26 and fails if they are not
\* done by then, and the error of a Shutdown that fails is what Start returns
\* (TestShutdownOnErrorWhileShutdown, server_test.go:18-36).
SuccessMeansDrained ==
    [][exit' = "success" /\ main # "off" /\ main' = "off" => ~ active]_vars

-----------------------------------------------------------------------------
(* Logins *)

\* How long the example configuration lets a login last: for the seconds that
\* are set, with 0 until the browser is closed (which ends the grant), and over
\* restarts if the secret is configured and stays.
Lasts(g) ==
    /\ Seconds[g.timeout] # 0 => g.age < Seconds[g.timeout]
    /\ \/ g.boot = boots
       \/ g.secret # "" /\ g.secret = conf.secret

\* VIOLATED.  A running server takes the browser's user for logged in exactly
\* as long as the documentation lets the login last (screego.config.example:104,
\* "Defines how long a user session is valid in seconds. / 0 = session
\* invalides after browser session ends"; config.go:178, "SCREEGO_SECRET unset,
\* user logins will be invalidated on restart").
LoginsLastAsPromised ==
    Open => (CurrentUser = "name" <=> grant # None /\ Lasts(grant))

\* What is true of it: a login counts exactly if it is to last and is not older
\* than the 30 days of the codec in gorilla/sessions, which no document tells of
\* and no timeout changes.  So it ends in time, with a logout, and with a
\* restart without a configured secret or with another one, and never before.
LoginsAreHonoured ==
    Open => (CurrentUser = "name" <=>
                grant # None /\ Lasts(grant) /\ grant.age <= CodecMaxAge)

-----------------------------------------------------------------------------
(* Health *)

\* The number /health reports was the number of clients at some time during
\* that very request, though the hub may be at the question of an earlier one.
CountsAnswerTheQuestion == call = "awaiting" /\ box # << >> => box[1] \in seen

\* /health is answered, even if the hub never comes back to its queue.
HealthReturns == call # "none" ~> call = "none"
=============================================================================
