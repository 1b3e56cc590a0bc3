------------------------------ MODULE Startup ------------------------------
(***************************************************************************)
(* The process: reading its configuration (config/config.go), starting its *)
(* parts one after the other (cmd/serve.go), and serving HTTP until an     *)
(* interrupt (server/server.go).  Three goroutines meet on one unbuffered  *)
(* channel when it ends: main, the one that serves, and the one that waits *)
(* for the interrupt.  The process may be started again, by then with      *)
(* another configuration.                                                  *)
(*                                                                         *)
(* Values of settings are classes of strings: what the code tells apart.   *)
(* net/http, godotenv and envconfig are external.  The module has no Next: *)
(* Service says what else happens at each of these steps.                  *)
(***************************************************************************)
EXTENDS Naturals, Sequences, SequencesExt

CONSTANTS
    NumFiles, \* in how many places a config file is looked for (getFiles)
    Contents, \* what the environment, or one file, may set
    MaxBoots  \* bound: how often the process is started

ASSUME FilesAssumption == NumFiles \in Nat
ASSUME BootsAssumption == MaxBoots \in Nat

\* Of an address it matters whether it is set, and whether it can be parsed.
ASSUME AddressAssumption ==
    \A sets \in Contents : \A k \in DOMAIN sets \cap {"external_ip", "turn_external_ip"} :
        sets[k] \in {"", "ip", "bad"}

VARIABLES
    boots,   \* how often the process was started
    said,    \* history: what the first to say something says, until main goes on
    conf,    \* the Config of the running process
    main,    \* serveCmd's Action: "off" if there is no process
    serve,   \* the goroutine of startServer, and what it returns
    intr,    \* the goroutine of shutdownOnInterruptSignal
    pressed, \* an interrupt was delivered to this process
    active,  \* an HTTP request is being served
    exit     \* how the last process ended

procvars == <<boots, said, conf, main, serve, intr, pressed, active, exit>>

-----------------------------------------------------------------------------
(* Settings: a map without the settings that are not set at all, which is   *)
(* different from being set to the empty string.                           *)

Default ==
    [external_ip |-> "", turn_external_ip |-> "", turn_external_secret |-> "",
     turn_port_range |-> "", turn_deny_peers |-> "ok", auth_mode |-> "turn",
     server_tls |-> "false", tls_cert_file |-> "", tls_key_file |-> "",
     cors_allowed_origins |-> "", secret |-> "", users_file |-> "",
     session_timeout |-> "0"]

Setting == DOMAIN Default

\* The classes of integers that SCREEGO_SESSION_TIMEOUT_SECONDS may be: any
\* number is accepted, also a negative one.
Timeouts == {"0", "short", "long", "negative"}

NoConf == << >>

\* godotenv.Load sets what is not set yet, were it to the empty string.
Merge(first, later) ==
    [k \in DOMAIN first \cup DOMAIN later |->
        IF k \in DOMAIN first THEN first[k] ELSE later[k]]

\* A place where a config file is looked for; osStat and godotenv.Load.
File ==
    [found : {"absent", "unreadable", "malformed"}, sets : {NoConf}]
        \cup [found : {"loaded"}, sets : Contents]

\* The environment, then the files in the order of getFiles.
Sources(env, files) == << env >> \o [i \in DOMAIN files |-> files[i].sets]

\* Broken: godotenv.Overload, which lets the later file win.
GetOverloading(sources) ==
    Merge(FoldLeft(LAMBDA read, next : Merge(next, read), NoConf, sources), Default)

\* envconfig.Process adds the defaults of what is not set.
Get(sources) == Merge(FoldLeft(Merge, NoConf, sources), Default)

-----------------------------------------------------------------------------
(* What Get complains of, in the order of the code *)

Fatal(wrong) == IF wrong THEN << "fatal" >> ELSE << >>

FileLogs(f) ==
    CASE f.found = "malformed"  -> << "fatal" >>
      [] f.found = "unreadable" -> << "warn" >>
      [] f.found = "loaded"     -> << "debug" >>
      [] f.found = "absent"     -> << >>

\* A bool or a number cannot be read from the empty string.
EnvLogs(c) ==
    Fatal(c.server_tls \notin {"true", "false"} \/ c.session_timeout \notin Timeouts)

TLSLogs(c) ==
    IF c.server_tls = "true"
    THEN Fatal(c.tls_cert_file = "") \o Fatal(c.tls_key_file = "")
    ELSE << >>

SecretLogs(c) == IF c.secret = "" THEN << "info" >> ELSE << >>

\* (What parseIPProvider accepts is in module ExternalIP.)
AddressLogs(c) ==
    IF c.turn_external_ip # ""
    THEN Fatal(c.external_ip # "") \o Fatal(c.turn_external_ip = "bad")
            \o Fatal(c.turn_external_secret = "")
    ELSE Fatal(c.external_ip \in {"", "bad"})

\* (What is accepted as a range of ports is in module TurnRelay.)
RangeLogs(c) ==
    IF c.turn_port_range = "narrow" THEN << "warn" >> ELSE Fatal(c.turn_port_range = "bad")

Logs(files, c) ==
    FlattenSeq([i \in DOMAIN files |-> FileLogs(files[i])])
        \o EnvLogs(c)
        \o Fatal(c.auth_mode \notin {"turn", "all", "none"})
        \o TLSLogs(c)
        \o Fatal(c.cors_allowed_origins = "bad")
        \o SecretLogs(c)
        \o AddressLogs(c)
        \o RangeLogs(c)
        \o Fatal(c.turn_deny_peers = "bad")
        \o << "info" >>

\* Broken: the last message decides.
RefusedByLast(logs) == logs[Len(logs)] = "fatal"

\* serveCmd: exit = exit || err.Level == FatalLevel
Refused(logs) == "fatal" \in ToSet(logs)

External(c) == c.turn_external_ip # ""

-----------------------------------------------------------------------------
(* The end of the process takes everything along. *)

Exit(status) ==
    /\ exit' = status
    /\ main' = "off"
    /\ serve' = "none"
    /\ intr' = "none"
    /\ pressed' = FALSE
    /\ active' = FALSE
    /\ conf' = NoConf
    /\ said' = NoConf
    /\ UNCHANGED boots

\* main goes on, or ends the process with log.Fatal.
Proceed(from, to) ==
    /\ main = from
    /\ main' = to
    /\ UNCHANGED <<boots, conf, serve, intr, pressed, active, exit>>

-----------------------------------------------------------------------------
(* The documentation's account of it (docs/config.md), for the history. *)

FirstSaid(sources) ==
    [k \in UNION {DOMAIN sources[i] : i \in DOMAIN sources} |->
        LET first == CHOOSE i \in DOMAIN sources :
                        /\ k \in DOMAIN sources[i]
                        /\ \A j \in 1 .. i - 1 : k \notin DOMAIN sources[j]
        IN  sources[first][k]]

-----------------------------------------------------------------------------
(* serveCmd *)

\* config.Get, and what serveCmd makes of its messages
Boot ==
    /\ main = "off"
    /\ boots < MaxBoots
    /\ boots' = boots + 1
    /\ \E env \in Contents, files \in [1 .. NumFiles -> File] :
          LET sources == Sources(env, files)
          IN  IF Refused(Logs(files, Get(sources)))
              THEN /\ exit' = "failure"
                   /\ UNCHANGED <<said, conf, main>>
              ELSE /\ exit' = "none"
                   /\ main' = "configured"
                   /\ conf' = Get(sources)
                   /\ said' = FirstSaid(sources)
    /\ UNCHANGED <<serve, intr, pressed, active>>

\* The external address has to be known once before anything is started.
Resolve ==
    /\ main = "configured"
    /\ \/ Proceed("configured", "resolved") /\ said' = NoConf
       \/ Exit("failure")

\* auth.ReadPasswordsFile
LoadUsers ==
    /\ main = "resolved"
    /\ IF conf.users_file \in {"", "users"}
       THEN Proceed("resolved", "loaded") /\ UNCHANGED said
       ELSE Exit("failure")

\* turn.Start: our own server listens for UDP and TCP, or fails.
StartTurn ==
    /\ main = "loaded"
    /\ \/ Proceed("loaded", "turned") /\ UNCHANGED said
       \/ ~ External(conf) /\ Exit("failure")

\* go rooms.Start(), and startServer
StartServer ==
    /\ main = "turned"
    /\ main' = "registering"
    /\ serve' = "starting"
    /\ UNCHANGED <<boots, said, conf, intr, pressed, active, exit>>

\* shutdownOnInterruptSignal
Register ==
    /\ main = "registering"
    /\ main' = "waiting"
    /\ intr' = "waiting"
    /\ UNCHANGED <<boots, said, conf, serve, pressed, active, exit>>

\* Broken: whatever ends the server counts as an orderly end.
OrderlyAlways(end) == TRUE

\* waitForServerToClose
Orderly(end) == end = "closed"

\* The channel is unbuffered: main takes what one of the two sends to it.
Receive ==
    /\ main = "waiting"
    /\ \/ /\ serve \in {"closed", "failed"}
          /\ Exit(IF Orderly(serve) THEN "success" ELSE "failure")
       \/ intr = "failed" /\ Exit("failure")

-----------------------------------------------------------------------------
(* The goroutine that serves: a state "closed" (http.ErrServerClosed) or    *)
(* "failed" means that it is sending that to main.                         *)

ShutDown == intr \in {"shutting", "failed", "done"}

TLS == conf.tls_cert_file # "" \/ conf.tls_key_file # ""

CertificateMayLoad == ~ TLS \/ (conf.tls_cert_file # "" /\ conf.tls_key_file # "")

\* listenAndServe begins: Serve refuses to when the server was shut down.
Listen ==
    /\ serve = "starting"
    /\ \/ serve' = "failed"
       \/ CertificateMayLoad /\ serve' = IF ShutDown THEN "closed" ELSE "serving"
    /\ UNCHANGED <<boots, said, conf, main, intr, pressed, active, exit>>

\* Accept fails for good.
Break ==
    /\ serve = "serving"
    /\ ~ ShutDown
    /\ serve' = "failed"
    /\ UNCHANGED <<boots, said, conf, main, intr, pressed, active, exit>>

\* Broken: an orderly end is not worth a message.
ServeReturnsSilently ==
    /\ serve = "serving"
    /\ ShutDown
    /\ serve' = "none"
    /\ UNCHANGED <<boots, said, conf, main, intr, pressed, active, exit>>

\* Serve returns as soon as Shutdown has closed the listener.
ServeReturns ==
    /\ serve = "serving"
    /\ ShutDown
    /\ serve' = "closed"
    /\ UNCHANGED <<boots, said, conf, main, intr, pressed, active, exit>>

-----------------------------------------------------------------------------
(* The interrupt *)

\* Until Notify is called an interrupt ends the process; afterwards the
\* channel keeps one.
Interrupt ==
    /\ main # "off"
    /\ IF intr = "none"
       THEN Exit("killed")
       ELSE /\ pressed' = TRUE
            /\ UNCHANGED <<boots, said, conf, main, serve, intr, active, exit>>

\* The process is killed, or it crashes.
Crash ==
    /\ main # "off"
    /\ Exit("killed")

\* Shutdown closes the listener, then waits for the requests.
BeginShutdown ==
    /\ intr = "waiting"
    /\ pressed
    /\ intr' = "shutting"
    /\ UNCHANGED <<boots, said, conf, main, serve, pressed, active, exit>>

\* Shutdown returns: nil, or an error after two seconds.
EndShutdown ==
    /\ intr = "shutting"
    /\ \/ ~ active /\ intr' = "done"
       \/ intr' = "failed"
    /\ UNCHANGED <<boots, said, conf, main, serve, pressed, active, exit>>

-----------------------------------------------------------------------------
ProcInit ==
    /\ boots = 0
    /\ said = NoConf
    /\ conf = NoConf
    /\ main = "off"
    /\ serve = "none"
    /\ intr = "none"
    /\ pressed = FALSE
    /\ active = FALSE
    /\ exit = "none"

Start == Boot \/ Resolve \/ LoadUsers \/ StartTurn \/ StartServer \/ Register

\* The server takes requests.
Open == serve = "serving" /\ ~ ShutDown
=============================================================================
