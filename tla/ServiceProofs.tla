--------------------------- MODULE ServiceProofs ----------------------------
(***************************************************************************)
(* The promises of Service, for every bound, any number of files, every    *)
(* content of the environment and the files, and all timeouts: what health *)
(* checks report, what the exit status says, which settings a process is   *)
(* started with and under which it serves, and how long logins last.  The  *)
(* settings rest on inductions over the sources and over the messages.     *)
(***************************************************************************)
EXTENDS Service, WellFoundedInduction, TLAPS

-----------------------------------------------------------------------------
(* Which variables a step leaves alone *)

\* A step of the process either ends it, and the health checks with it, or
\* does not touch them.
LEMMA ProcessFrame ==
    ASSUME ProcessStep
    PROVE  /\ HealthGone \/ UNCHANGED healthvars
           /\ UNCHANGED loginvars
BY DEF ProcessStep, Memory

\* Steps of the health checks change nothing of the process but `active'.
LEMMA HealthFrame ==
    ASSUME HealthNext
    PROVE  UNCHANGED <<boots, said, conf, main, serve, intr, pressed, exit>>
BY DEF HealthNext, TakeMessage, MessageDone, TakeHealth, Execute, BeginCount,
       CountReturns, GiveUp, Return, procvars

\* Nor do logins change the process.
LEMMA LoginFrame ==
    ASSUME LoginNext
    PROVE  UNCHANGED procvars
BY DEF LoginNext, Authenticate, Logout, Tick, CloseBrowser

-----------------------------------------------------------------------------
(* Health checks *)

\* What makes CountsAnswerTheQuestion inductive: the present number belongs to
\* a call under way, and the channel of a call is empty until the hub, whose
\* question it then no longer is, has answered it.
CountInv ==
    /\ call # "none" => clients \in seen
    /\ call = "offering" => box = << >>
    /\ owed = "call" => call = "awaiting" /\ box = << >>
    /\ call = "awaiting" /\ box # << >> => box[1] \in seen

LEMMA CountInit == Init => CountInv
BY DEF Init, HealthInit, CountInv

\* Each step of hub and caller keeps it.
LEMMA CountHealthStep ==
    ASSUME CountInv, HealthNext
    PROVE  CountInv'
<1>1. CASE TakeMessage
  BY <1>1 DEF CountInv, TakeMessage
<1>2. CASE MessageDone
  BY <1>2 DEF CountInv, MessageDone
<1>3. CASE TakeHealth
  BY <1>3 DEF CountInv, TakeHealth
<1>4. CASE Execute
  BY <1>4 DEF CountInv, Execute
<1>5. CASE BeginCount
  BY <1>5 DEF CountInv, BeginCount, Response
<1>6. CASE CountReturns
  BY <1>6 DEF CountInv, CountReturns, Return
<1>7. CASE GiveUp
  BY <1>7 DEF CountInv, GiveUp, Return
<1>8. QED
  BY <1>1, <1>2, <1>3, <1>4, <1>5, <1>6, <1>7 DEF HealthNext

LEMMA CountStep ==
    ASSUME CountInv, [Next]_vars
    PROVE  CountInv'
<1>1. CASE UNCHANGED healthvars
  BY <1>1 DEF CountInv, healthvars
<1>2. CASE HealthGone
  BY <1>2 DEF CountInv, HealthGone
<1>3. CASE ProcessStep
  BY <1>1, <1>2, <1>3, ProcessFrame
<1>4. CASE HealthNext
  BY <1>4, CountHealthStep
<1>5. QED
  BY <1>1, <1>3, <1>4 DEF Next, vars

\* The number /health reports was the number of clients during that request.
THEOREM CountsHold == Spec => []CountsAnswerTheQuestion
<1>1. CountInv => CountsAnswerTheQuestion
  BY DEF CountInv, CountsAnswerTheQuestion
<1>2. QED
  BY <1>1, CountInit, CountStep, PTL DEF Spec

-----------------------------------------------------------------------------
(* The end of the process *)

\* Shutdown is entered for an interrupt only, which is listened for when
\* start-up is over, and nothing else makes Serve return ErrServerClosed.
EndInv ==
    /\ main # "waiting" => intr = "none"
    /\ ShutDown => pressed
    /\ serve = "closed" => ShutDown

LEMMA EndInit == Init => EndInv
BY DEF Init, ProcInit, EndInv, ShutDown

\* After the end of the process nothing is left to say.
LEMMA EndExit ==
    ASSUME NEW status, Exit(status)
    PROVE  EndInv' /\ exit' = status
BY DEF Exit, EndInv, ShutDown

LEMMA EndProcessStep ==
    ASSUME EndInv, ProcessStep
    PROVE  /\ EndInv'
           /\ exit' = "success" /\ main # "off" /\ main' = "off"
                => pressed /\ ShutDown /\ serve = "closed"
<1> DEFINE Told == exit' = "success" /\ main # "off" /\ main' = "off"
                      => pressed /\ ShutDown /\ serve = "closed"
<1>1. CASE Start
  <2>1. CASE Boot
    BY <2>1 DEF Boot, EndInv, ShutDown
  <2>2. CASE Exit("failure")
    BY <2>2, EndExit
  <2>3. CASE /\ main # "waiting" /\ main' # "off"
             /\ UNCHANGED <<serve, intr, pressed>>
    BY <2>3 DEF EndInv, ShutDown
  <2>4. CASE Resolve \/ LoadUsers \/ StartTurn
    BY <2>2, <2>3, <2>4 DEF Resolve, LoadUsers, StartTurn, Proceed
  <2>5. CASE StartServer
    BY <2>5 DEF StartServer, EndInv, ShutDown
  <2>6. CASE Register
    BY <2>6 DEF Register, EndInv, ShutDown
  <2>7. QED
    BY <1>1, <2>1, <2>4, <2>5, <2>6 DEF Start
<1>2. CASE Receive
  <2>1. EndInv'
    BY <1>2, EndExit DEF Receive
  <2>2. CASE serve \in {"closed", "failed"} /\ Exit(IF Orderly(serve) THEN "success" ELSE "failure")
    BY <2>1, <2>2, EndExit DEF Orderly, EndInv
  <2>3. CASE Exit("failure")
    BY <2>1, <2>3, EndExit
  <2>4. QED
    BY <1>2, <2>2, <2>3 DEF Receive
<1>3. CASE Listen
  BY <1>3 DEF Listen, EndInv, ShutDown
<1>4. CASE Break
  BY <1>4 DEF Break, EndInv, ShutDown
<1>5. CASE ServeReturns
  BY <1>5 DEF ServeReturns, EndInv, ShutDown
<1>6. CASE Interrupt
  <2>1. CASE Exit("killed")
    BY <2>1, EndExit
  <2>2. CASE pressed' = TRUE /\ UNCHANGED <<main, serve, intr>>
    BY <2>2 DEF EndInv, ShutDown
  <2>3. QED
    BY <1>6, <2>1, <2>2 DEF Interrupt
<1>7. CASE Crash
  BY <1>7, EndExit DEF Crash
<1>8. CASE BeginShutdown
  BY <1>8 DEF BeginShutdown, EndInv, ShutDown
<1>9. CASE EndShutdown
  BY <1>9 DEF EndShutdown, EndInv, ShutDown
<1>10. QED
  BY <1>1, <1>2, <1>3, <1>4, <1>5, <1>6, <1>7, <1>8, <1>9 DEF ProcessStep

LEMMA EndStep ==
    ASSUME EndInv, [Next]_vars
    PROVE  /\ EndInv'
           /\ exit' = "success" /\ main # "off" /\ main' = "off"
                => pressed /\ ShutDown /\ serve = "closed"
<1>1. CASE UNCHANGED <<main, serve, intr, pressed>>
  BY <1>1 DEF EndInv, ShutDown
<1>2. CASE ProcessStep
  BY <1>2, EndProcessStep
<1>3. CASE HealthNext
  BY <1>1, <1>3, HealthFrame
<1>4. CASE LoginNext
  BY <1>1, <1>4, LoginFrame DEF procvars
<1>5. QED
  BY <1>1, <1>2, <1>3, <1>4 DEF Next, vars, procvars

\* A successful end was asked for, and the server ended for that reason.
THEOREM ExitsHold == Spec => ExitTellsOutcome
<1>1. EndInv /\ [Next]_vars =>
        [exit' = "success" /\ main # "off" /\ main' = "off" =>
            pressed /\ ShutDown /\ serve = "closed"]_vars
  BY EndStep
<1>2. EndInv /\ [Next]_vars => EndInv'
  BY EndStep
<1>3. QED
  BY <1>1, <1>2, EndInit, PTL DEF Spec, ExitTellsOutcome

-----------------------------------------------------------------------------
(* Induction *)

\* Induction over the natural numbers, for sets in the place of predicates.
LEMMA Induction ==
    ASSUME NEW T, 0 \in T, \A n \in Nat : n \in T => n + 1 \in T
    PROVE  Nat \subseteq T
<1> DEFINE Less == {ss \in Nat \X Nat : ss[1] < ss[2]}
<1>1. IsWellFoundedOn(Less, Nat)
  BY NatLessThanWellFounded DEF OpToRel
<1> SUFFICES ASSUME Nat \ T # {} PROVE FALSE
  OBVIOUS
<1>2. PICK n \in Nat \ T : \A m \in Nat \ T : <<m, n>> \notin Less
  <2> HIDE DEF Less
  <2>1. Nat \ T \subseteq Nat
    OBVIOUS
  <2> QED BY <1>1, <2>1, WFMin
<1>3. n # 0 /\ n - 1 \in Nat \ T
  <2>1. n - 1 + 1 = n
    OBVIOUS
  <2> QED BY <2>1
<1>4. <<n - 1, n>> \in Less
  BY <1>3
<1> QED BY <1>2, <1>3, <1>4

-----------------------------------------------------------------------------
(* What is read of a list of sources.  Every recursive function has to be   *)
(* shown to exist before its equation can be used.                         *)

\* What FoldLeft does to the elements 1 .. n, as a function of sets of indices:
\* the library's definition, at Merge.
FoldsUpTo(g, n, sources) ==
    g = [s \in SUBSET (1 .. n) |->
            IF s = {} THEN NoConf ELSE Merge(g[s \ {Max(s)}], sources[Max(s)])]

\* There is such a function.
LEMMA FoldExists ==
    ASSUME NEW sources
    PROVE  \A n \in Nat : \E g : FoldsUpTo(g, n, sources)
<1> DEFINE T == {n \in Nat : \E g : FoldsUpTo(g, n, sources)}
<1>1. 0 \in T
  <2>1. FoldsUpTo([s \in SUBSET (1 .. 0) |-> NoConf], 0, sources)
    <3>1. \A s \in SUBSET (1 .. 0) : s = {}
      OBVIOUS
    <3> QED BY <3>1 DEF FoldsUpTo
  <2> QED BY <2>1
<1>2. ASSUME NEW n \in Nat, n \in T
      PROVE  n + 1 \in T
  <2>1. PICK g : FoldsUpTo(g, n, sources)
    BY <1>2
  <2> DEFINE h == [s \in SUBSET (1 .. n + 1) |->
                      IF s \subseteq 1 .. n THEN g[s]
                      ELSE Merge(g[s \ {n + 1}], sources[n + 1])]
  <2>2. ASSUME NEW s \in SUBSET (1 .. n + 1), s # {}
        PROVE  h[s] = Merge(h[s \ {Max(s)}], sources[Max(s)])
    <3>1. CASE s \subseteq 1 .. n
      <4>1. h[s] = g[s]
        BY <2>2, <3>1
      <4>2. s \ {Max(s)} \in SUBSET (1 .. n + 1) /\ s \ {Max(s)} \subseteq 1 .. n
        BY <3>1
      <4>3. h[s \ {Max(s)}] = g[s \ {Max(s)}]
        BY <4>2
      <4>4. g[s] = Merge(g[s \ {Max(s)}], sources[Max(s)])
        BY <2>1, <2>2, <3>1 DEF FoldsUpTo
      <4> QED BY <4>1, <4>3, <4>4
    <3>2. CASE ~ (s \subseteq 1 .. n)
      <4>1. n + 1 \in s /\ \A y \in s : n + 1 >= y
        BY <3>2
      <4>2. Max(s) = n + 1
        <5>1. \A x \in s : (\A y \in s : x >= y) => x = n + 1
          BY <4>1
        <5> QED BY <4>1, <5>1 DEF Max
      <4>3. s \ {n + 1} \in SUBSET (1 .. n + 1) /\ s \ {n + 1} \subseteq 1 .. n
        OBVIOUS
      <4>4. h[s \ {n + 1}] = g[s \ {n + 1}]
        BY <4>3
      <4>5. h[s] = Merge(g[s \ {n + 1}], sources[n + 1])
        BY <3>2
      <4> QED BY <4>2, <4>4, <4>5
    <3> QED BY <3>1, <3>2
  <2>3. h[{}] = NoConf
    BY <2>1 DEF FoldsUpTo
  <2>4. FoldsUpTo(h, n + 1, sources)
    <3>1. h = [s \in SUBSET (1 .. n + 1) |-> h[s]]
      OBVIOUS
    <3>2. \A s \in SUBSET (1 .. n + 1) :
             h[s] = IF s = {} THEN NoConf ELSE Merge(h[s \ {Max(s)}], sources[Max(s)])
      BY <2>2, <2>3
    <3> HIDE DEF h
    <3> QED BY <3>1, <3>2 DEF FoldsUpTo
  <2> QED BY <2>4
<1>3. Nat \subseteq T
  <2> HIDE DEF T
  <2> QED BY <1>1, <1>2, Induction
<1> QED BY <1>3

\* One source after the other is read.
LEMMA ReadInTurn ==
    ASSUME NEW sources, NEW n \in Nat, DOMAIN sources = 1 .. n
    PROVE  \E read :
              /\ read[0] = NoConf
              /\ \A i \in 1 .. n : read[i] = Merge(read[i - 1], sources[i])
              /\ read[n] = FoldLeft(Merge, NoConf, sources)
<1>1. PICK g : g = CHOOSE f : FoldsUpTo(f, n, sources)
  OBVIOUS
<1>2. FoldsUpTo(g, n, sources)
  BY <1>1, FoldExists
<1>3. FoldLeft(Merge, NoConf, sources) = g[1 .. n]
  BY <1>1 DEF FoldLeft, MapThenFoldSet, FoldsUpTo
<1> DEFINE read == [i \in 0 .. n |-> g[1 .. i]]
<1>4. read[0] = NoConf
  <2>1. 1 .. 0 = {}
    OBVIOUS
  <2> QED BY <1>2, <2>1 DEF FoldsUpTo
<1>5. ASSUME NEW i \in 1 .. n
      PROVE  read[i] = Merge(read[i - 1], sources[i])
  <2>1. (1 .. i) \in SUBSET (1 .. n) /\ 1 .. i # {}
    BY 1 \in 1 .. i
  <2>2. Max(1 .. i) = i
    <3>1. i \in 1 .. i /\ \A y \in 1 .. i : i >= y
      OBVIOUS
    <3>2. \A x \in 1 .. i : (\A y \in 1 .. i : x >= y) => x = i
      OBVIOUS
    <3> QED BY <3>1, <3>2 DEF Max
  <2>3. (1 .. i) \ {i} = 1 .. (i - 1)
    OBVIOUS
  <2>4. g[1 .. i] = Merge(g[1 .. i - 1], sources[i])
    BY <1>2, <2>1, <2>2, <2>3 DEF FoldsUpTo
  <2> QED BY <2>4
<1>6. read[n] = FoldLeft(Merge, NoConf, sources)
  BY <1>3
<1> QED BY <1>4, <1>5, <1>6

\* The i-th source is the first to say something of the setting k.
SaidBy(sources, i, k) ==
    k \in DOMAIN sources[i] /\ \A j \in 1 .. i - 1 : k \notin DOMAIN sources[j]

\* Of those who say something, one is the first.
LEMMA SomeoneIsFirst ==
    ASSUME NEW sources, NEW n \in Nat, DOMAIN sources = 1 .. n,
           NEW k \in UNION {DOMAIN sources[i] : i \in 1 .. n}
    PROVE  \E i \in 1 .. n : SaidBy(sources, i, k)
<1> SUFFICES ASSUME \A i \in 1 .. n : ~ SaidBy(sources, i, k) PROVE FALSE
  OBVIOUS
<1> DEFINE T == {m \in Nat : \A j \in 1 .. m : j <= n => k \notin DOMAIN sources[j]}
<1>1. 0 \in T
  OBVIOUS
<1>2. ASSUME NEW m \in Nat, m \in T PROVE m + 1 \in T
  BY <1>2 DEF SaidBy
<1>3. Nat \subseteq T
  <2> HIDE DEF T
  <2> QED BY <1>1, <1>2, Induction
<1> QED BY <1>3

\* FirstSaid takes what that one says.
LEMMA FirstSaidIs ==
    ASSUME NEW sources, NEW n \in Nat, DOMAIN sources = 1 .. n,
           NEW k \in UNION {DOMAIN sources[i] : i \in 1 .. n}
    PROVE  \E i \in 1 .. n : SaidBy(sources, i, k) /\ FirstSaid(sources)[k] = sources[i][k]
<1>1. PICK i \in DOMAIN sources : i = CHOOSE first \in DOMAIN sources :
                      /\ k \in DOMAIN sources[first]
                      /\ \A j \in 1 .. first - 1 : k \notin DOMAIN sources[j]
  BY SomeoneIsFirst DEF SaidBy
<1>2. SaidBy(sources, i, k)
  BY <1>1, SomeoneIsFirst DEF SaidBy
<1>3. FirstSaid(sources)[k] = sources[i][k]
  BY <1>1 DEF FirstSaid
<1> QED BY <1>2, <1>3

\* Reading all of them in turn leaves each setting as the first has it.
LEMMA ReadFirst ==
    ASSUME NEW sources, NEW n \in Nat, DOMAIN sources = 1 .. n
    PROVE  FoldLeft(Merge, NoConf, sources) = FirstSaid(sources)
<1>1. PICK read :
         /\ read[0] = NoConf
         /\ \A i \in 1 .. n : read[i] = Merge(read[i - 1], sources[i])
         /\ read[n] = FoldLeft(Merge, NoConf, sources)
  BY ReadInTurn
<1> DEFINE Known(m) == UNION {DOMAIN sources[i] : i \in 1 .. m}
           Right(m) == /\ read[m] = [k \in Known(m) |-> read[m][k]]
                       /\ \A i \in 1 .. m : \A k :
                             SaidBy(sources, i, k) => read[m][k] = sources[i][k]
           T == {m \in Nat : m <= n => Right(m)}
<1>2. 0 \in T
  <2>1. Known(0) = {} /\ DOMAIN read[0] = {} /\ 1 .. 0 = {}
    BY <1>1 DEF NoConf
  <2>2. read[0] = [k \in {} |-> read[0][k]]
    BY <1>1 DEF NoConf
  <2> QED BY <2>1, <2>2
<1>3. ASSUME NEW m \in Nat, m \in T
      PROVE  m + 1 \in T
  <2> SUFFICES ASSUME m + 1 <= n PROVE Right(m + 1)
    OBVIOUS
  <2>1. Right(m)
    BY <1>3
  <2>2. read[m + 1] = Merge(read[m], sources[m + 1])
    BY <1>1, m + 1 \in 1 .. n, m + 1 - 1 = m
  <2>3. Known(m + 1) = Known(m) \cup DOMAIN sources[m + 1]
    <3>1. 1 .. m + 1 = (1 .. m) \cup {m + 1}
      OBVIOUS
    <3> QED BY <3>1
  <2>4. DOMAIN read[m] = Known(m)
    BY <2>1
  <2>5. read[m + 1] = [k \in Known(m + 1) |->
                         IF k \in Known(m) THEN read[m][k] ELSE sources[m + 1][k]]
    BY <2>2, <2>3, <2>4 DEF Merge
  <2>6. ASSUME NEW i \in 1 .. m + 1, NEW k, SaidBy(sources, i, k)
        PROVE  read[m + 1][k] = sources[i][k]
    <3>1. k \in Known(m + 1)
      BY <2>6 DEF SaidBy
    <3>2. CASE i \in 1 .. m
      <4>1. k \in Known(m)
        BY <2>6, <3>2 DEF SaidBy
      <4> QED BY <2>1, <2>5, <2>6, <3>1, <3>2, <4>1
    <3>3. CASE i = m + 1
      <4>1. k \notin Known(m)
        BY <2>6, <3>3 DEF SaidBy
      <4> QED BY <2>5, <3>1, <3>3, <4>1
    <3> QED BY <3>2, <3>3
  <2>7. read[m + 1] = [k \in Known(m + 1) |-> read[m + 1][k]]
    BY <2>5
  <2> QED BY <2>6, <2>7
<1>4. Right(n)
  <2>1. Nat \subseteq T
    <3> HIDE DEF T
    <3> QED BY <1>2, <1>3, Induction
  <2> QED BY <2>1
<1>6. FirstSaid(sources) = [k \in Known(n) |-> FirstSaid(sources)[k]]
  BY DEF FirstSaid
<1>7. ASSUME NEW k \in Known(n)
      PROVE  FirstSaid(sources)[k] = read[n][k]
  <2>1. PICK i \in 1 .. n : SaidBy(sources, i, k) /\ FirstSaid(sources)[k] = sources[i][k]
    BY FirstSaidIs
  <2> QED BY <1>4, <2>1
<1>8. read[n] = [k \in Known(n) |-> read[n][k]]
  BY <1>4
<1>9. read[n] = FirstSaid(sources)
  <2> HIDE DEF Known
  <2> QED BY <1>6, <1>7, <1>8
<1> QED BY <1>1, <1>9

-----------------------------------------------------------------------------
(* Configuration *)

\* The sources are a sequence of the environment and the files.
LEMMA SourcesAre ==
    ASSUME NEW env \in Contents, NEW files \in [1 .. NumFiles -> File]
    PROVE  /\ DOMAIN Sources(env, files) = 1 .. NumFiles + 1
           /\ \A i \in 1 .. NumFiles + 1 : Sources(env, files)[i] \in Contents \cup {NoConf}
<1>1. \A i \in 1 .. NumFiles : files[i].sets \in Contents \cup {NoConf}
  BY DEF File
<1> DEFINE sets == [i \in 1 .. NumFiles |-> files[i].sets]
<1>2. sets \in Seq(Contents \cup {NoConf}) /\ Len(sets) = NumFiles
  BY <1>1, FilesAssumption
<1>3. << env >> \in Seq(Contents \cup {NoConf}) /\ Len(<< env >>) = 1
  OBVIOUS
<1>4. Sources(env, files) = << env >> \o sets
  BY DEF Sources
<1> HIDE DEF sets
<1>5. PICK e : e = << env >>
  OBVIOUS
<1>6. e \o sets \in Seq(Contents \cup {NoConf}) /\ Len(e \o sets) = NumFiles + 1
  BY <1>2, <1>3, <1>5, FilesAssumption
<1>7. PICK r : r = e \o sets
  OBVIOUS
<1>8. DOMAIN r = 1 .. NumFiles + 1 /\ \A i \in 1 .. NumFiles + 1 : r[i] \in Contents \cup {NoConf}
  BY <1>6, <1>7, FilesAssumption
<1> QED BY <1>4, <1>5, <1>7, <1>8

\* What a process is started with: the first occurrence, or else the default.
LEMMA GetIs ==
    ASSUME NEW env \in Contents, NEW files \in [1 .. NumFiles -> File]
    PROVE  LET sources == Sources(env, files)
           IN  \A k \in Setting :
                  Get(sources)[k] = IF k \in DOMAIN FirstSaid(sources)
                                    THEN FirstSaid(sources)[k] ELSE Default[k]
<1>1. PICK sources : sources = Sources(env, files)
  OBVIOUS
<1>2. FoldLeft(Merge, NoConf, sources) = FirstSaid(sources)
  BY <1>1, SourcesAre, ReadFirst, FilesAssumption
<1>3. Get(sources) = Merge(FirstSaid(sources), Default)
  BY <1>2 DEF Get
<1> QED BY <1>1, <1>3 DEF Merge, Setting

\* Before the first start there is nothing to compare.
LEMMA FirstInit == Init => FirstOccurrenceWins
BY DEF Init, ProcInit, FirstOccurrenceWins

\* The configuration stays as it is read as long as the history is kept.
LEMMA FirstStep ==
    ASSUME FirstOccurrenceWins, [Next]_vars
    PROVE  FirstOccurrenceWins'
<1>1. CASE UNCHANGED <<main, conf, said>>
  BY <1>1 DEF FirstOccurrenceWins, Setting, Default
<1>2. CASE main' # "configured"
  BY <1>2 DEF FirstOccurrenceWins
<1>3. CASE Boot
  <2>1. CASE UNCHANGED <<said, conf, main>>
    BY <1>1, <2>1
  <2>2. CASE \E env \in Contents, files \in [1 .. NumFiles -> File] :
                LET sources == Sources(env, files)
                IN  conf' = Get(sources) /\ said' = FirstSaid(sources)
    <3>1. PICK env \in Contents, files \in [1 .. NumFiles -> File] :
             /\ conf' = Get(Sources(env, files))
             /\ said' = FirstSaid(Sources(env, files))
      BY <2>2
    <3>2. \A k \in Setting : conf'[k] = IF k \in DOMAIN said' THEN said'[k] ELSE Default[k]
      BY <3>1, GetIs
    <3> QED BY <3>2 DEF FirstOccurrenceWins, Setting, Default
  <2> QED BY <1>3, <2>1, <2>2 DEF Boot
<1>4. ASSUME NEW status, Exit(status) PROVE FirstOccurrenceWins'
  BY <1>2, <1>4 DEF Exit
<1>5. CASE ProcessStep
  <2>1. CASE Resolve \/ LoadUsers \/ StartTurn \/ StartServer \/ Register \/ Receive \/ Crash
    BY <1>2, <1>4, <2>1
       DEF Resolve, LoadUsers, StartTurn, StartServer, Register, Receive, Crash, Proceed
  <2>2. CASE Interrupt
    BY <1>1, <1>4, <2>2 DEF Interrupt
  <2>3. CASE Listen \/ Break \/ ServeReturns \/ BeginShutdown \/ EndShutdown
    BY <1>1, <2>3 DEF Listen, Break, ServeReturns, BeginShutdown, EndShutdown
  <2> QED BY <1>3, <1>5, <2>1, <2>2, <2>3 DEF ProcessStep, Start
<1>6. CASE HealthNext \/ LoginNext
  BY <1>1, <1>6, HealthFrame, LoginFrame DEF procvars
<1>7. CASE UNCHANGED vars
  BY <1>1, <1>7 DEF vars, procvars
<1> QED BY <1>5, <1>6, <1>7 DEF Next

\* The first occurrence of a setting wins, over any number of files.
THEOREM FirstWins == Spec => []FirstOccurrenceWins
BY FirstInit, FirstStep, PTL DEF Spec

-----------------------------------------------------------------------------
(* Start-up *)

\* Concatenation, under a name that is expanded only where its meaning is needed
Joined(a, b) == a \o b

\* What FlattenSeq does to the first n of some sequences, as a function
FlattensUpTo(f, n, seqs) ==
    f = [i \in 1 .. n |-> IF i = 1 THEN seqs[i] ELSE Joined(f[i - 1], seqs[i])]

\* There is such a function.
LEMMA FlattenExists ==
    ASSUME NEW seqs
    PROVE  \A n \in Nat : \E f : FlattensUpTo(f, n, seqs)
<1> DEFINE T == {n \in Nat : \E f : FlattensUpTo(f, n, seqs)}
<1>1. 0 \in T
  <2>1. FlattensUpTo([i \in 1 .. 0 |-> 0], 0, seqs)
    <3>1. \A i : i \notin 1 .. 0
      OBVIOUS
    <3> QED BY <3>1 DEF FlattensUpTo
  <2> QED BY <2>1
<1>2. ASSUME NEW n \in Nat, n \in T
      PROVE  n + 1 \in T
  <2>1. PICK f : FlattensUpTo(f, n, seqs)
    BY <1>2
  <2> DEFINE h == [i \in 1 .. n + 1 |->
                      IF i = n + 1
                      THEN IF i = 1 THEN seqs[i] ELSE Joined(f[n], seqs[i])
                      ELSE f[i]]
  <2>2. ASSUME NEW i \in 1 .. n + 1
        PROVE  h[i] = IF i = 1 THEN seqs[i] ELSE Joined(h[i - 1], seqs[i])
    <3>1. i # 1 => i - 1 \in 1 .. n + 1 /\ i - 1 # n + 1 /\ i - 1 \in 1 .. n
      OBVIOUS
    <3>2. i # 1 => h[i - 1] = f[i - 1]
      BY <3>1
    <3>3. CASE i = n + 1
      BY <3>2, <3>3
    <3>4. CASE i # n + 1
      <4>1. i \in 1 .. n /\ h[i] = f[i]
        BY <3>4
      <4>2. f[i] = IF i = 1 THEN seqs[i] ELSE Joined(f[i - 1], seqs[i])
        BY <2>1, <4>1 DEF FlattensUpTo
      <4> QED BY <3>2, <4>1, <4>2
    <3> QED BY <3>3, <3>4
  <2>3. FlattensUpTo(h, n + 1, seqs)
    <3>1. h = [i \in 1 .. n + 1 |-> h[i]]
      OBVIOUS
    <3> HIDE DEF h
    <3> QED BY <2>2, <3>1 DEF FlattensUpTo
  <2> QED BY <2>3
<1>3. Nat \subseteq T
  <2> HIDE DEF T
  <2> QED BY <1>1, <1>2, Induction
<1> QED BY <1>3

\* Flattening sequences of messages gives a sequence of messages.
LEMMA FlattenIs ==
    ASSUME NEW S, NEW n \in Nat, NEW seqs \in [1 .. n -> Seq(S)]
    PROVE  FlattenSeq(seqs) \in Seq(S)
<1>1. Len(seqs) = n
  OBVIOUS
<1>2. CASE n = 0
  <2>1. seqs = << >>
    BY <1>2
  <2> QED BY <1>1, <1>2, <2>1 DEF FlattenSeq
<1>3. CASE n # 0
  <2>1. PICK g : g = CHOOSE f : FlattensUpTo(f, n, seqs)
    OBVIOUS
  <2>2. FlattensUpTo(g, n, seqs)
    BY <2>1, FlattenExists
  <2>3. FlattenSeq(seqs) = g[n]
    BY <1>1, <1>3, <2>1 DEF FlattenSeq, FlattensUpTo, Joined
  <2> DEFINE T == {m \in Nat : m \in 1 .. n => g[m] \in Seq(S)}
  <2>4. 0 \in T
    OBVIOUS
  <2>5. ASSUME NEW m \in Nat, m \in T
        PROVE  m + 1 \in T
    <3> SUFFICES ASSUME m + 1 \in 1 .. n PROVE g[m + 1] \in Seq(S)
      OBVIOUS
    <3>1. g[m + 1] = IF m = 0 THEN seqs[m + 1] ELSE Joined(g[m], seqs[m + 1])
      BY <2>2 DEF FlattensUpTo
    <3>2. seqs[m + 1] \in Seq(S)
      OBVIOUS
    <3>3. m # 0 => g[m] \in Seq(S)
      BY <2>5
    <3>4. \A a \in Seq(S), b \in Seq(S) : Joined(a, b) \in Seq(S)
      BY DEF Joined
    <3> QED BY <3>1, <3>2, <3>3, <3>4
  <2>6. Nat \subseteq T
    <3> HIDE DEF T
    <3> QED BY <2>4, <2>5, Induction
  <2> QED BY <1>3, <2>3, <2>6
<1> QED BY <1>2, <1>3

\* The levels of the messages
Level == {"fatal", "warn", "info", "debug"}

\* What was collected is refused if a part of it is.
LEMMA JoinedLogs ==
    ASSUME NEW a \in Seq(Level), NEW b \in Seq(Level)
    PROVE  /\ Joined(a, b) \in Seq(Level)
           /\ Refused(Joined(a, b)) <=> Refused(a) \/ Refused(b)
<1>1. PICK c : c = a \o b
  OBVIOUS
<1>2. c \in Seq(Level) /\ Len(c) = Len(a) + Len(b)
  BY <1>1
<1>3. \A i \in 1 .. Len(a) : c[i] = a[i]
  BY <1>1
<1>4. \A i \in 1 .. Len(b) : c[Len(a) + i] = b[i]
  BY <1>1
<1>5. Refused(a) \/ Refused(b) => Refused(c)
  <2>1. ASSUME NEW i \in 1 .. Len(b) PROVE Len(a) + i \in 1 .. Len(c)
    BY <1>2
  <2>2. ASSUME NEW i \in 1 .. Len(a) PROVE i \in 1 .. Len(c)
    BY <1>2
  <2>3. CASE Refused(a)
    <3>1. PICK i \in 1 .. Len(a) : a[i] = "fatal"
      BY <2>3 DEF Refused, ToSet
    <3> QED BY <1>2, <1>3, <2>2, <3>1 DEF Refused, ToSet
  <2>4. CASE Refused(b)
    <3>1. PICK i \in 1 .. Len(b) : b[i] = "fatal"
      BY <2>4 DEF Refused, ToSet
    <3>2. Len(a) + i \in DOMAIN c /\ c[Len(a) + i] = "fatal"
      BY <1>2, <1>4, <2>1, <3>1
    <3> QED BY <3>2 DEF Refused, ToSet
  <2> QED BY <2>3, <2>4
<1>6. Refused(c) => Refused(a) \/ Refused(b)
  <2> SUFFICES ASSUME NEW i \in 1 .. Len(c), c[i] = "fatal"
               PROVE  Refused(a) \/ Refused(b)
    BY <1>2 DEF Refused, ToSet
  <2>1. CASE i \in 1 .. Len(a)
    BY <1>3, <2>1 DEF Refused, ToSet
  <2>2. CASE i \notin 1 .. Len(a)
    <3>1. i - Len(a) \in 1 .. Len(b) /\ Len(a) + (i - Len(a)) = i
      BY <1>2, <2>2
    <3>2. b[i - Len(a)] = "fatal"
      BY <1>4, <3>1
    <3> QED BY <3>1, <3>2 DEF Refused, ToSet
  <2> QED BY <2>1, <2>2
<1> QED BY <1>1, <1>2, <1>5, <1>6 DEF Joined

\* No message, one message, and a complaint of Get
LEMMA NoLogs == << >> \in Seq(Level) /\ ~ Refused(<< >>)
<1>1. << >> \in Seq(Level)
  OBVIOUS
<1>2. ~ Refused(<< >>)
  BY DEF Refused, ToSet
<1> QED BY <1>1, <1>2

LEMMA OneLog ==
    ASSUME NEW level \in Level
    PROVE  << level >> \in Seq(Level) /\ (Refused(<< level >>) <=> level = "fatal")
<1>1. PICK log : log = << level >>
  OBVIOUS
<1>2. log \in Seq(Level) /\ DOMAIN log = {1} /\ log[1] = level
  BY <1>1
<1>3. Refused(log) <=> level = "fatal"
  BY <1>2 DEF Refused, ToSet
<1> QED BY <1>1, <1>2, <1>3

LEMMA FatalLogs ==
    ASSUME NEW wrong \in BOOLEAN
    PROVE  Fatal(wrong) \in Seq(Level) /\ (Refused(Fatal(wrong)) <=> wrong)
<1>1. CASE wrong
  <2>1. Fatal(wrong) = << "fatal" >>
    BY <1>1 DEF Fatal
  <2>2. "fatal" \in Level
    BY DEF Level
  <2> QED BY <1>1, <2>1, <2>2, OneLog
<1>2. CASE ~ wrong
  <2>1. Fatal(wrong) = << >>
    BY <1>2 DEF Fatal
  <2> QED BY <1>2, <2>1, NoLogs
<1> QED BY <1>1, <1>2

\* What is said of the files is a sequence of messages.
LEMMA FilesLogs ==
    ASSUME NEW files \in [1 .. NumFiles -> File]
    PROVE  FlattenSeq([i \in DOMAIN files |-> FileLogs(files[i])]) \in Seq(Level)
<1>1. ASSUME NEW f \in File PROVE FileLogs(f) \in Seq(Level)
  <2>1. f.found \in {"absent", "unreadable", "malformed", "loaded"}
    BY DEF File
  <2>2. /\ f.found = "malformed"  => FileLogs(f) = << "fatal" >>
        /\ f.found = "unreadable" => FileLogs(f) = << "warn" >>
        /\ f.found = "loaded"     => FileLogs(f) = << "debug" >>
        /\ f.found = "absent"     => FileLogs(f) = << >>
    BY DEF FileLogs
  <2>3. "fatal" \in Level /\ "warn" \in Level /\ "debug" \in Level
    BY DEF Level
  <2> QED BY <2>1, <2>2, <2>3, NoLogs, OneLog
<1>2. PICK seqs : seqs = [i \in DOMAIN files |-> FileLogs(files[i])]
  OBVIOUS
<1>3. seqs \in [1 .. NumFiles -> Seq(Level)]
  BY <1>1, <1>2
<1> QED BY <1>2, <1>3, FlattenIs, FilesAssumption

\* A configuration that nothing fatal is said of
Sound(c) ==
    /\ IF c.turn_external_ip # ""
       THEN c.external_ip = "" /\ c.turn_external_ip # "bad" /\ c.turn_external_secret # ""
       ELSE c.external_ip \notin {"", "bad"}
    /\ c.auth_mode \in {"turn", "all", "none"}
    /\ c.server_tls = "true" => c.tls_cert_file # "" /\ c.tls_key_file # ""
    /\ "bad" \notin {c.turn_port_range, c.turn_deny_peers, c.cors_allowed_origins}
    /\ c.session_timeout \in Timeouts

\* Wherever in the order a complaint is, it is heard.
LEMMA AcceptedIsSound ==
    ASSUME NEW files \in [1 .. NumFiles -> File], NEW c, ~ Refused(Logs(files, c))
    PROVE  Sound(c)
<1>1. PICK p1, p2, p3, p4, p5, p6, p7, p8, p9, p10 :
         /\ p1 = FlattenSeq([i \in DOMAIN files |-> FileLogs(files[i])])
         /\ p2 = EnvLogs(c)
         /\ p3 = Fatal(c.auth_mode \notin {"turn", "all", "none"})
         /\ p4 = TLSLogs(c)
         /\ p5 = Fatal(c.cors_allowed_origins = "bad")
         /\ p6 = SecretLogs(c)
         /\ p7 = AddressLogs(c)
         /\ p8 = RangeLogs(c)
         /\ p9 = Fatal(c.turn_deny_peers = "bad")
         /\ p10 = << "info" >>
  OBVIOUS
<1>2. p1 \in Seq(Level)
  BY <1>1, FilesLogs
<1>3. /\ p2 \in Seq(Level) /\ p6 \in Seq(Level) /\ p10 \in Seq(Level)
      /\ ~ Refused(p2) => c.session_timeout \in Timeouts
  <2>1. p2 \in Seq(Level) /\ (~ Refused(p2) => c.session_timeout \in Timeouts)
    <3>1. PICK wrong \in BOOLEAN :
             wrong <=> c.server_tls \notin {"true", "false"} \/ c.session_timeout \notin Timeouts
      OBVIOUS
    <3>2. p2 = Fatal(wrong)
      BY <1>1, <3>1 DEF EnvLogs, Fatal
    <3> QED BY <3>1, <3>2, FatalLogs
  <2>2. p6 = << "info" >> \/ p6 = << >>
    BY <1>1 DEF SecretLogs
  <2>3. "info" \in Level
    BY DEF Level
  <2> QED BY <1>1, <2>1, <2>2, <2>3, NoLogs, OneLog
<1>4. p3 \in Seq(Level) /\ (Refused(p3) <=> c.auth_mode \notin {"turn", "all", "none"})
  BY <1>1, FatalLogs
<1>5. p5 \in Seq(Level) /\ (Refused(p5) <=> c.cors_allowed_origins = "bad")
  BY <1>1, FatalLogs
<1>6. p9 \in Seq(Level) /\ (Refused(p9) <=> c.turn_deny_peers = "bad")
  BY <1>1, FatalLogs
<1>7. << >> \in Seq(Level) /\ << "warn" >> \in Seq(Level)
  <2>1. "warn" \in Level
    BY DEF Level
  <2> QED BY <2>1, NoLogs, OneLog
<1>8. /\ p4 \in Seq(Level)
      /\ ~ Refused(p4) /\ c.server_tls = "true" => c.tls_cert_file # "" /\ c.tls_key_file # ""
  <2>1. PICK x, y : x = Fatal(c.tls_cert_file = "") /\ y = Fatal(c.tls_key_file = "")
    OBVIOUS
  <2>2. /\ x \in Seq(Level) /\ (Refused(x) <=> c.tls_cert_file = "")
        /\ y \in Seq(Level) /\ (Refused(y) <=> c.tls_key_file = "")
    BY <2>1, FatalLogs
  <2>3. Joined(x, y) \in Seq(Level) /\ (Refused(Joined(x, y)) <=> Refused(x) \/ Refused(y))
    BY <2>2, JoinedLogs
  <2>4. p4 = IF c.server_tls = "true" THEN Joined(x, y) ELSE << >>
    BY <1>1, <2>1 DEF TLSLogs, Joined
  <2> QED BY <1>7, <2>2, <2>3, <2>4
<1>9. /\ p7 \in Seq(Level)
      /\ ~ Refused(p7) =>
           IF c.turn_external_ip # ""
           THEN c.external_ip = "" /\ c.turn_external_ip # "bad" /\ c.turn_external_secret # ""
           ELSE c.external_ip \notin {"", "bad"}
  <2>1. PICK x, y, z, w :
           /\ x = Fatal(c.external_ip # "")
           /\ y = Fatal(c.turn_external_ip = "bad")
           /\ z = Fatal(c.turn_external_secret = "")
           /\ w = Fatal(c.external_ip \in {"", "bad"})
    OBVIOUS
  <2>2. /\ x \in Seq(Level) /\ (Refused(x) <=> c.external_ip # "")
        /\ y \in Seq(Level) /\ (Refused(y) <=> c.turn_external_ip = "bad")
        /\ z \in Seq(Level) /\ (Refused(z) <=> c.turn_external_secret = "")
        /\ w \in Seq(Level) /\ (Refused(w) <=> c.external_ip \in {"", "bad"})
    <3>1. x \in Seq(Level) /\ (Refused(x) <=> c.external_ip # "")
      BY <2>1, FatalLogs
    <3>2. y \in Seq(Level) /\ (Refused(y) <=> c.turn_external_ip = "bad")
      BY <2>1, FatalLogs
    <3>3. z \in Seq(Level) /\ (Refused(z) <=> c.turn_external_secret = "")
      BY <2>1, FatalLogs
    <3>4. PICK wrong \in BOOLEAN : wrong <=> c.external_ip \in {"", "bad"}
      OBVIOUS
    <3>5. w = Fatal(wrong)
      BY <2>1, <3>4 DEF Fatal
    <3> QED BY <3>1, <3>2, <3>3, <3>4, <3>5, FatalLogs
  <2>3. PICK v : v = Joined(x, y)
    OBVIOUS
  <2>4. v \in Seq(Level) /\ (Refused(v) <=> Refused(x) \/ Refused(y))
    BY <2>2, <2>3, JoinedLogs
  <2>5. Joined(v, z) \in Seq(Level) /\ (Refused(Joined(v, z)) <=> Refused(v) \/ Refused(z))
    BY <2>2, <2>4, JoinedLogs
  <2>6. p7 = IF c.turn_external_ip # "" THEN Joined(v, z) ELSE w
    BY <1>1, <2>1, <2>3 DEF AddressLogs, Joined
  <2> QED BY <2>2, <2>4, <2>5, <2>6
<1>10. p8 \in Seq(Level) /\ (~ Refused(p8) => c.turn_port_range # "bad")
  <2>1. c.turn_port_range = "narrow" => p8 = << "warn" >>
    BY <1>1 DEF RangeLogs
  <2>2. c.turn_port_range # "narrow" => p8 = Fatal(c.turn_port_range = "bad")
    BY <1>1 DEF RangeLogs
  <2> QED BY <1>7, <2>1, <2>2, FatalLogs
<1>11. PICK l2, l3, l4, l5, l6, l7, l8, l9, l10 :
         /\ l2 = Joined(p1, p2)
         /\ l3 = Joined(l2, p3)
         /\ l4 = Joined(l3, p4)
         /\ l5 = Joined(l4, p5)
         /\ l6 = Joined(l5, p6)
         /\ l7 = Joined(l6, p7)
         /\ l8 = Joined(l7, p8)
         /\ l9 = Joined(l8, p9)
         /\ l10 = Joined(l9, p10)
  OBVIOUS
<1>12. Logs(files, c) = l10
  BY <1>1, <1>11 DEF Logs, Joined
<1>13. l2 \in Seq(Level) /\ (Refused(l2) <=> Refused(p1) \/ Refused(p2))
  BY <1>2, <1>3, <1>11, JoinedLogs
<1>14. l3 \in Seq(Level) /\ (Refused(l3) <=> Refused(l2) \/ Refused(p3))
  BY <1>4, <1>11, <1>13, JoinedLogs
<1>15. l4 \in Seq(Level) /\ (Refused(l4) <=> Refused(l3) \/ Refused(p4))
  BY <1>8, <1>11, <1>14, JoinedLogs
<1>16. l5 \in Seq(Level) /\ (Refused(l5) <=> Refused(l4) \/ Refused(p5))
  BY <1>5, <1>11, <1>15, JoinedLogs
<1>17. l6 \in Seq(Level) /\ (Refused(l6) <=> Refused(l5) \/ Refused(p6))
  BY <1>3, <1>11, <1>16, JoinedLogs
<1>18. l7 \in Seq(Level) /\ (Refused(l7) <=> Refused(l6) \/ Refused(p7))
  BY <1>9, <1>11, <1>17, JoinedLogs
<1>19. l8 \in Seq(Level) /\ (Refused(l8) <=> Refused(l7) \/ Refused(p8))
  BY <1>10, <1>11, <1>18, JoinedLogs
<1>20. l9 \in Seq(Level) /\ (Refused(l9) <=> Refused(l8) \/ Refused(p9))
  BY <1>6, <1>11, <1>19, JoinedLogs
<1>21. l10 \in Seq(Level) /\ (Refused(l10) <=> Refused(l9) \/ Refused(p10))
  BY <1>3, <1>11, <1>20, JoinedLogs
<1>22. /\ ~ Refused(p2) /\ ~ Refused(p3) /\ ~ Refused(p4) /\ ~ Refused(p5)
       /\ ~ Refused(p7) /\ ~ Refused(p8) /\ ~ Refused(p9)
  BY <1>12, <1>13, <1>14, <1>15, <1>16, <1>17, <1>18, <1>19, <1>20, <1>21
<1> QED BY <1>3, <1>4, <1>5, <1>6, <1>8, <1>9, <1>10, <1>22 DEF Sound

\* What makes ServesOnlyWhenReady inductive: start-up goes on with a sound
\* configuration only, and past LoadUsers only if it names no missing file.
ReadyInv ==
    /\ main # "off" => Sound(conf) /\ conf.external_ip \in {"", "ip", "bad"}
                                   /\ conf.turn_external_ip \in {"", "ip", "bad"}
    /\ main \in {"loaded", "turned", "registering", "waiting"} => conf.users_file # "missing"
    /\ serve # "none" => main \in {"registering", "waiting"}

\* No process runs at first.
LEMMA ReadyInit == Init => ReadyInv
BY DEF Init, ProcInit, ReadyInv

\* Of the two addresses Get returns a class the code tells apart.
LEMMA AddressIs ==
    ASSUME NEW env \in Contents, NEW files \in [1 .. NumFiles -> File],
           NEW k \in {"external_ip", "turn_external_ip"}
    PROVE  Get(Sources(env, files))[k] \in {"", "ip", "bad"}
<1>1. PICK sources : sources = Sources(env, files)
  OBVIOUS
<1>2. /\ DOMAIN sources = 1 .. NumFiles + 1
      /\ \A i \in 1 .. NumFiles + 1 : sources[i] \in Contents \cup {NoConf}
  BY <1>1, SourcesAre
<1>3. k \in Setting /\ Default[k] = ""
  <2>1. {"external_ip", "turn_external_ip"} \subseteq Setting
    BY DEF Setting, Default
  <2>2. Default["external_ip"] = "" /\ Default["turn_external_ip"] = ""
    BY DEF Default
  <2> QED BY <2>1, <2>2
<1>4. Get(sources)[k] = IF k \in DOMAIN FirstSaid(sources)
                        THEN FirstSaid(sources)[k] ELSE Default[k]
  BY <1>1, <1>3, GetIs
<1>5. CASE k \in DOMAIN FirstSaid(sources)
  <2>1. k \in UNION {DOMAIN sources[i] : i \in 1 .. NumFiles + 1}
    BY <1>2, <1>5 DEF FirstSaid
  <2>2. PICK i \in 1 .. NumFiles + 1 :
           SaidBy(sources, i, k) /\ FirstSaid(sources)[k] = sources[i][k]
    BY <1>2, <2>1, FirstSaidIs, FilesAssumption
  <2>3. k \in DOMAIN sources[i]
    BY <2>2 DEF SaidBy
  <2>4. sources[i] \in Contents
    BY <1>2, <2>3 DEF NoConf
  <2>5. sources[i][k] \in {"", "ip", "bad"}
    BY <2>3, <2>4, AddressAssumption
  <2> QED BY <1>1, <1>4, <1>5, <2>2, <2>5
<1>6. CASE k \notin DOMAIN FirstSaid(sources)
  BY <1>1, <1>3, <1>4, <1>6
<1> QED BY <1>5, <1>6

\* The end of the process is as good as the beginning.
LEMMA ReadyExit ==
    ASSUME NEW status, Exit(status)
    PROVE  ReadyInv'
BY DEF Exit, ReadyInv

\* Start-up takes a configuration only if nothing fatal is said of it.
LEMMA ReadyBoot ==
    ASSUME ReadyInv, Boot
    PROVE  ReadyInv'
<1>1. UNCHANGED serve /\ serve = "none"
  BY DEF Boot, ReadyInv
<1>2. CASE UNCHANGED main
  BY <1>1, <1>2 DEF Boot, ReadyInv
<1>3. CASE \E env \in Contents, files \in [1 .. NumFiles -> File] :
              /\ ~ Refused(Logs(files, Get(Sources(env, files))))
              /\ main' = "configured"
              /\ conf' = Get(Sources(env, files))
  <2>1. PICK env \in Contents, files \in [1 .. NumFiles -> File] :
              /\ ~ Refused(Logs(files, Get(Sources(env, files))))
              /\ main' = "configured"
              /\ conf' = Get(Sources(env, files))
    BY <1>3
  <2>2. Sound(conf')
    BY <2>1, AcceptedIsSound
  <2>3. /\ conf'.external_ip \in {"", "ip", "bad"}
        /\ conf'.turn_external_ip \in {"", "ip", "bad"}
    BY <2>1, AddressIs
  <2> QED BY <1>1, <2>1, <2>2, <2>3 DEF ReadyInv, Sound
<1> QED BY <1>2, <1>3 DEF Boot

\* The later steps of start-up do not touch the configuration.
LEMMA ReadyProcessStep ==
    ASSUME ReadyInv, ProcessStep
    PROVE  ReadyInv'
<1>1. CASE Boot
  BY <1>1, ReadyBoot
<1>2. CASE Resolve
  BY <1>2, ReadyExit DEF Resolve, Proceed, ReadyInv, Sound
<1>3. CASE LoadUsers
  BY <1>3, ReadyExit DEF LoadUsers, Proceed, ReadyInv, Sound
<1>4. CASE StartTurn
  BY <1>4, ReadyExit DEF StartTurn, Proceed, ReadyInv, Sound
<1>5. CASE StartServer \/ Register
  BY <1>5 DEF StartServer, Register, ReadyInv, Sound
<1>6. CASE Receive \/ Crash
  BY <1>6, ReadyExit DEF Receive, Crash
<1>7. CASE Interrupt
  BY <1>7, ReadyExit DEF Interrupt, ReadyInv, Sound
<1>8. CASE Listen \/ Break \/ ServeReturns \/ BeginShutdown \/ EndShutdown
  BY <1>8 DEF Listen, Break, ServeReturns, BeginShutdown, EndShutdown, ReadyInv, Sound
<1> QED BY <1>1, <1>2, <1>3, <1>4, <1>5, <1>6, <1>7, <1>8 DEF ProcessStep, Start

\* Health checks and logins do not, either.
LEMMA ReadyStep ==
    ASSUME ReadyInv, [Next]_vars
    PROVE  ReadyInv'
<1>1. CASE UNCHANGED <<main, conf, serve>>
  BY <1>1 DEF ReadyInv, Sound
<1>2. CASE HealthNext \/ LoginNext
  BY <1>1, <1>2, HealthFrame, LoginFrame DEF procvars
<1>3. CASE UNCHANGED vars
  BY <1>1, <1>3 DEF vars, procvars
<1> QED BY <1>2, <1>3, ReadyProcessStep DEF Next

\* Nobody is served under a configuration that cannot work.
THEOREM ReadyHolds == Spec => []ServesOnlyWhenReady
<1>1. ReadyInv => ServesOnlyWhenReady
  BY DEF ReadyInv, ServesOnlyWhenReady, Open, Sound, Usable
<1> QED BY <1>1, ReadyInit, ReadyStep, PTL DEF Spec

-----------------------------------------------------------------------------
(* Logins *)

\* A login whose time has passed, whatever became of the process
Expired(g) ==
    ~ (g.age <= CodecMaxAge /\ (Seconds[g.timeout] # 0 => g.age < Seconds[g.timeout]))

\* The key that signs the cookie of a login
KeyOf(g) ==
    IF g.secret = "" THEN << "generated", g.boot >> ELSE << "configured", g.secret >>

\* The shapes of the two records: what a step of the clock needs to know
IsCookie(c) ==
    /\ c = [user |-> c.user, key |-> c.key, maxage |-> c.maxage, age |-> c.age]
    /\ c.user \in {"name", "guest"}
    /\ c.age \in 0 .. CodecMaxAge

IsGrant(g) ==
    /\ g = [boot |-> g.boot, secret |-> g.secret, timeout |-> g.timeout, age |-> g.age]
    /\ g.age \in Nat
    /\ Seconds[g.timeout] \in Int

\* The browser's cookie of a login tells the same as the login.
Tells(c, g) ==
    /\ IsGrant(g)
    /\ ~ Expired(g)
    /\ c.age = g.age
    /\ c.maxage = Seconds[g.timeout]
    /\ c.key = KeyOf(g)
    /\ g.boot \in 0 .. boots
    /\ main # "off" /\ g.boot = boots => g.secret = conf.secret

\* What makes LoginsAreHonoured inductive: a browser without a cookie has
\* lost it for a reason, and one with a cookie has the cookie of that login.
LoginInv ==
    /\ boots \in Nat
    /\ serve # "none" => main # "off"
    /\ cookie = None => Expired(grant)
    /\ cookie # None =>
          /\ IsCookie(cookie)
          /\ cookie.user = "guest" => grant = None
          /\ cookie.user = "name" => Tells(cookie, grant)

LEMMA NoneExpired == Expired(None)
BY CodecAssumption DEF Expired, None

LEMMA LoginInitHolds == Init => LoginInv
BY NoneExpired DEF Init, ProcInit, LoginInit, LoginInv

\* Only a start gives the process another configuration, and it is counted.
LEMMA ProcessKeeps ==
    ASSUME LoginInv, ProcessStep
    PROVE  /\ serve' # "none" => main' # "off"
           /\ \/ boots' = boots + 1
              \/ boots' = boots /\ main' = "off"
              \/ boots' = boots /\ conf' = conf /\ main # "off"
              \/ UNCHANGED <<boots, conf, main>>
<1> DEFINE Kept == /\ serve' # "none" => main' # "off"
                   /\ \/ boots' = boots + 1
                      \/ boots' = boots /\ main' = "off"
                      \/ boots' = boots /\ conf' = conf /\ main # "off"
                      \/ UNCHANGED <<boots, conf, main>>
<1>1. ASSUME NEW status, Exit(status) PROVE Kept
  BY <1>1 DEF Exit
<1>2. CASE Boot
  BY <1>2 DEF Boot, LoginInv
<1>3. ASSUME NEW from, NEW to, Proceed(from, to), from # "off", to # "off" PROVE Kept
  BY <1>3 DEF Proceed
<1>4. CASE Resolve \/ LoadUsers \/ StartTurn
  BY <1>1, <1>3, <1>4 DEF Resolve, LoadUsers, StartTurn
<1>5. CASE StartServer \/ Register
  BY <1>5 DEF StartServer, Register
<1>6. CASE Receive \/ Crash
  BY <1>1, <1>6 DEF Receive, Crash
<1>7. CASE Interrupt
  <2>1. CASE Exit("killed")
    BY <1>1, <2>1
  <2>2. CASE UNCHANGED <<boots, conf, main, serve>>
    BY <2>2 DEF LoginInv
  <2>3. QED
    BY <1>7, <2>1, <2>2 DEF Interrupt
<1>8. CASE Listen \/ Break \/ ServeReturns \/ BeginShutdown \/ EndShutdown
  BY <1>8 DEF LoginInv, Listen, Break, ServeReturns, BeginShutdown, EndShutdown
<1>9. QED
  BY <1>2, <1>4, <1>5, <1>6, <1>7, <1>8 DEF ProcessStep, Start

LEMMA LoginProcessStep ==
    ASSUME LoginInv, ProcessStep
    PROVE  LoginInv'
<1>1. UNCHANGED loginvars
  BY ProcessFrame
<1>2. boots' \in Nat
  BY ProcessKeeps DEF LoginInv
<1>3. ASSUME Tells(cookie, grant) PROVE Tells(cookie, grant)'
  <2>1. cookie' = cookie /\ grant' = grant
    BY <1>1 DEF loginvars
  <2>2. grant.boot \in 0 .. boots'
    BY <1>3, ProcessKeeps DEF LoginInv, Tells
  <2>3. main' # "off" /\ grant.boot = boots' => grant.secret = conf'.secret
    <3>1. CASE boots' = boots + 1
      BY <1>3, <3>1 DEF LoginInv, Tells
    <3>2. CASE boots' = boots /\ conf' = conf /\ main # "off"
      BY <1>3, <3>2 DEF Tells
    <3>3. CASE UNCHANGED <<boots, conf, main>>
      BY <1>3, <3>3 DEF Tells
    <3>4. QED
      BY <3>1, <3>2, <3>3, ProcessKeeps
  <2>4. QED
    BY <1>3, <2>1, <2>2, <2>3 DEF Tells
<1>4. QED
  BY <1>1, <1>2, <1>3, ProcessKeeps DEF LoginInv, IsCookie, Expired, loginvars

\* A login of the running process: its cookie is kept, or expired at once.
LEMMA LoginAuthenticate ==
    ASSUME LoginInv, ReadyInv, Authenticate
    PROVE  LoginInv'
<1>1. CASE UNCHANGED loginvars
  BY <1>1 DEF Authenticate, LoginInv, IsCookie, IsGrant, Tells, Expired, KeyOf,
              procvars, loginvars
<1>2. CASE /\ cookie' = Taken(Session("name", MaxAge))
           /\ grant' = [boot |-> boots, secret |-> conf.secret,
                        timeout |-> conf.session_timeout, age |-> 0]
  <2>1. UNCHANGED <<boots, main, serve, conf>> /\ main # "off"
    BY DEF Authenticate, procvars, Open, LoginInv
  <2>2. Seconds[conf.session_timeout] \in Int
    BY <2>1, SecondsAssumption DEF ReadyInv, Sound
  <2>3. /\ IsGrant(grant') /\ grant'.boot = boots /\ grant'.secret = conf.secret
        /\ grant'.timeout = conf.session_timeout /\ grant'.age = 0
    BY <1>2, <2>2 DEF IsGrant
  <2>4. CASE MaxAge < 0
    <3>1. cookie' = None
      BY <1>2, <2>4 DEF Taken, Session
    <3>2. Expired(grant')
      BY <2>2, <2>3, <2>4 DEF Expired, MaxAge
    <3> QED BY <2>1, <3>1, <3>2 DEF LoginInv, Expired
  <2>5. CASE ~ (MaxAge < 0)
    <3>1. cookie' = Session("name", MaxAge)
      BY <1>2, <2>5 DEF Taken, Session
    <3>2. /\ IsCookie(cookie') /\ cookie'.user = "name" /\ cookie'.age = 0
          /\ cookie'.maxage = MaxAge /\ cookie'.key = Secret
      BY <3>1, CodecAssumption DEF IsCookie, Session
    <3>3. ~ Expired(grant')
      BY <2>2, <2>3, <2>5, CodecAssumption DEF Expired, MaxAge
    <3>4. Tells(cookie, grant)'
      <4>1. cookie'.key = KeyOf(grant')
        BY <2>3, <3>2 DEF KeyOf, Secret, GeneratedSecret
      <4>2. cookie'.maxage = Seconds[grant'.timeout]
        BY <2>3, <3>2 DEF MaxAge
      <4>3. grant'.boot \in 0 .. boots' /\ (main' # "off" => grant'.secret = conf'.secret)
        BY <2>1, <2>3 DEF LoginInv
      <4> QED BY <2>3, <3>2, <3>3, <4>1, <4>2, <4>3 DEF Tells
    <3>5. cookie' # None
      BY <3>2, CodecAssumption DEF None
    <3> QED BY <2>1, <3>2, <3>4, <3>5 DEF LoginInv, IsCookie, None
  <2> QED BY <2>4, <2>5
<1>3. QED
  BY <1>1, <1>2 DEF Authenticate

LEMMA LoginLogout ==
    ASSUME LoginInv, Logout
    PROVE  LoginInv'
<1>1. /\ IsCookie(cookie') /\ cookie'.user = "guest" /\ cookie'.age = 0
  BY CodecAssumption DEF Logout, EmptySession, Session, IsCookie
<1>2. cookie' # None
  BY <1>1, CodecAssumption DEF None
<1>3. QED
  BY <1>1, <1>2 DEF Logout, LoginInv, IsCookie, None, procvars

\* Cookie and login grow old together.
LEMMA LoginTick ==
    ASSUME LoginInv, Tick
    PROVE  LoginInv'
<1>1. UNCHANGED <<boots, main, serve, conf>> /\ cookie # None /\ IsCookie(cookie)
  BY DEF Tick, LoginInv, procvars
<1> DEFINE Dropped == \/ cookie.age = CodecMaxAge
                      \/ cookie.maxage > 0 /\ cookie.age + 1 = cookie.maxage
<1>2. CASE cookie.user = "guest"
  <2>1. grant' = None
    BY <1>1, <1>2 DEF Tick, LoginInv
  <2>2. CASE Dropped
    BY <1>1, <2>1, <2>2, NoneExpired DEF Tick, LoginInv, Expired, None
  <2>3. CASE ~ Dropped
    <3>1. cookie' = Older(cookie)
      BY <2>3 DEF Tick
    <3>2. IsCookie(cookie') /\ cookie'.user = "guest"
      BY <1>1, <1>2, <2>3, <3>1, CodecAssumption DEF IsCookie, Older
    <3>3. cookie' # None
      BY <3>2, CodecAssumption DEF IsCookie, None
    <3>4. QED
      BY <1>1, <2>1, <3>2, <3>3 DEF LoginInv, IsCookie, None
  <2>4. QED
    BY <2>2, <2>3
<1>3. CASE cookie.user = "name"
  <2>1. Tells(cookie, grant)
    BY <1>1, <1>3 DEF LoginInv
  <2>2. grant # None
    BY <2>1, NoneExpired DEF Tells
  <2>3. /\ IsGrant(grant') /\ grant'.age = grant.age + 1 /\ grant'.boot = grant.boot
        /\ grant'.secret = grant.secret /\ grant'.timeout = grant.timeout
    BY <2>1, <2>2 DEF Tick, Older, Tells, IsGrant
  <2>4. CASE Dropped
    <3>1. cookie' = None
      BY <2>4 DEF Tick
    <3>2. Expired(grant')
      BY <2>1, <2>3, <2>4, CodecAssumption DEF Expired, Tells, IsGrant
    <3>3. QED
      BY <1>1, <3>1, <3>2 DEF LoginInv, Expired, None
  <2>5. CASE ~ Dropped
    <3>1. cookie' = Older(cookie)
      BY <2>5 DEF Tick
    <3>2. /\ IsCookie(cookie') /\ cookie'.user = "name" /\ cookie'.age = cookie.age + 1
          /\ cookie'.maxage = cookie.maxage /\ cookie'.key = cookie.key
      BY <1>1, <1>3, <2>5, <3>1, CodecAssumption DEF IsCookie, Older
    <3>3. ~ Expired(grant')
      BY <1>1, <2>1, <2>3, <2>5, <3>2, CodecAssumption
         DEF Expired, Tells, IsGrant, IsCookie
    <3>4. Tells(cookie, grant)'
      BY <1>1, <2>1, <2>3, <3>2, <3>3 DEF Tells, IsGrant, Expired, KeyOf
    <3>5. cookie' # None
      BY <3>2, CodecAssumption DEF IsCookie, None
    <3>6. QED
      BY <1>1, <3>2, <3>4, <3>5 DEF LoginInv, IsCookie, None
  <2>6. QED
    BY <2>4, <2>5
<1>4. QED
  BY <1>1, <1>2, <1>3 DEF IsCookie

LEMMA LoginCloseBrowser ==
    ASSUME LoginInv, CloseBrowser
    PROVE  LoginInv'
BY NoneExpired DEF CloseBrowser, LoginInv, Expired, None, procvars

LEMMA LoginStep ==
    ASSUME LoginInv, ReadyInv, [Next]_vars
    PROVE  LoginInv'
<1>1. CASE UNCHANGED <<boots, main, serve, conf, loginvars>>
  BY <1>1 DEF LoginInv, IsCookie, IsGrant, Tells, Expired, KeyOf, loginvars
<1>2. CASE HealthNext /\ UNCHANGED loginvars
  BY <1>1, <1>2, HealthFrame
<1>3. CASE LoginNext
  BY <1>3, LoginAuthenticate, LoginLogout, LoginTick, LoginCloseBrowser DEF LoginNext
<1>4. QED
  BY <1>1, <1>2, <1>3, LoginProcessStep DEF Next, vars, procvars

\* A cookie is worth what was promised for the login it stands for.
LEMMA LoginMeans == LoginInv => LoginsAreHonoured
<1> SUFFICES ASSUME LoginInv, Open
             PROVE  CurrentUser = "name" <=>
                        grant # None /\ Lasts(grant) /\ grant.age <= CodecMaxAge
  BY DEF LoginsAreHonoured
<1>1. main # "off" /\ boots \in Nat
  BY DEF Open, LoginInv
<1>2. Lasts(grant) /\ grant.age <= CodecMaxAge => ~ Expired(grant)
  BY DEF Lasts, Expired
<1>3. CASE cookie = None
  BY <1>2, <1>3 DEF LoginInv, CurrentUser
<1>4. CASE cookie # None /\ cookie.user = "guest"
  BY <1>4 DEF LoginInv, CurrentUser
<1>5. CASE cookie # None /\ cookie.user = "name"
  <2>1. Tells(cookie, grant)
    BY <1>5 DEF LoginInv
  <2>2. grant # None
    BY <2>1, NoneExpired DEF Tells
  <2>3. Lasts(grant) /\ grant.age <= CodecMaxAge <=>
            grant.boot = boots \/ (grant.secret # "" /\ grant.secret = conf.secret)
    BY <2>1 DEF Tells, Lasts, Expired
  <2>4. cookie.key = Secret <=> grant.boot = boots \/ (grant.secret # "" /\ grant.secret = conf.secret)
    <3>1. cookie.key = KeyOf(grant) /\ (grant.boot = boots => grant.secret = conf.secret)
      BY <1>1, <2>1 DEF Tells
    <3>2. KeyOf(grant) = IF grant.secret = "" THEN << "generated", grant.boot >>
                         ELSE << "configured", grant.secret >>
      BY DEF KeyOf
    <3>3. Secret = IF conf.secret = "" THEN << "generated", boots >>
                   ELSE << "configured", conf.secret >>
      BY DEF Secret, GeneratedSecret
    <3>4. << "generated", grant.boot >> = << "generated", boots >> <=> grant.boot = boots
      OBVIOUS
    <3>5. << "generated", grant.boot >> # << "configured", conf.secret >>
      OBVIOUS
    <3>6. << "configured", grant.secret >> # << "generated", boots >>
      OBVIOUS
    <3>7. << "configured", grant.secret >> = << "configured", conf.secret >>
            <=> grant.secret = conf.secret
      OBVIOUS
    <3>8. QED
      BY <3>1, <3>2, <3>3, <3>4, <3>5, <3>6, <3>7, Zenon
  <2>5. QED
    BY <1>5, <2>2, <2>3, <2>4 DEF CurrentUser
<1>6. QED
  BY <1>3, <1>4, <1>5 DEF LoginInv, IsCookie

\* auth.go:80-129: whatever integer the session timeout is, and through any
\* restarts and changes of the configuration, a login counts exactly as long as
\* it is to last, up to the maximum age of the codec.
THEOREM LoginsHold == Spec => []LoginsAreHonoured
<1>1. Spec => []ReadyInv
  BY ReadyInit, ReadyStep, PTL DEF Spec
<1>2. Spec => []LoginInv
  BY <1>1, LoginInitHolds, LoginStep, PTL DEF Spec
<1> QED BY <1>2, LoginMeans, PTL
=============================================================================
