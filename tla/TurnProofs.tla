----------------------------- MODULE TurnProofs -----------------------------
(***************************************************************************)
(* For any number of goroutines and users, any addresses, any range of     *)
(* ports and any times: what the address provider answers is current and   *)
(* its lookups are paced, and the relays that are announced have a port of  *)
(* the range and an address that fits their socket.                        *)
(***************************************************************************)
EXTENDS TurnRelay, TLAPS

\* An answer has an address, unless it is an error.
Sound(a) == a \in Answer /\ ((a.v4 = Nil /\ a.v6 = Nil) <=> a.failed)

Pause(a) == IF a.failed THEN Second ELSE Minute

\* The cache is the answer to the last lookup, and kept from then on for as
\* long as that answer deserves; before the first one it is never used.
CacheIsLast ==
    IF asked.at >= 0
    THEN /\ asked.at <= now
         /\ cache = asked.result
         /\ refetch = asked.at + Pause(asked.result)
         /\ Sound(cache)
    ELSE refetch = -1

\* The inductive invariant of the provider.
IPInv ==
    /\ IPTypeOK
    /\ CacheIsLast
    /\ ~ IsDNS(config) => Sound(Static(config))
    /\ \A c \in Callers : call[c] = "returned" => Sound(answer[c])

-----------------------------------------------------------------------------
(* The configuration *)

\* An address is put into the place of its family.
LEMMA OkExcept ==
    ASSUME NEW a, NEW b, NEW x
    PROVE  ApplyIPTo(x, Ok(a, b)) = IF x \in V4 THEN Ok(x, b) ELSE Ok(a, x)
BY DEF ApplyIPTo, Ok

\* An answer that names an address is sound.
LEMMA OkSound ==
    ASSUME NEW a \in V4 \cup {Nil}, NEW b \in V6 \cup {Nil}, ~ (a = Nil /\ b = Nil)
    PROVE  Sound(Ok(a, b))
BY DEF Sound, Ok, Answer

\* What parseStatic accepts is never without an address.
LEMMA StaticSound ==
    ASSUME NEW ips, ips \in SeqOf(Entries, 3), ips # << >>,
           Accepted(ips), ~ IsDNS(ips)
    PROVE  Sound(Static(ips))
<1>1. PICK m \in 0 .. 3 : ips \in [1 .. m -> Entries]
  BY DEF SeqOf
<1>2. Len(ips) = m
  BY <1>1
<1>3. m # 0
  BY <1>1
<1>4. /\ m \in {1, 2}
      /\ \A i \in 1 .. m : ips[i] \in V4 \cup V6
      /\ m = 2 => (ips[1] \in V4) # (ips[2] \in V4)
  BY <1>1, <1>2, <1>3 DEF Accepted, StaticAccepted, Parsed
<1>5. ips[1] \in V4 \cup V6
  BY <1>4
<1>6. Nil \notin V4 \cup V6
  BY FamiliesAssumption
<1> DEFINE first == IF ips[1] \in V4 THEN Ok(ips[1], Nil) ELSE Ok(Nil, ips[1])
<1>7. first = ApplyIPTo(ips[1], Ok(Nil, Nil))
  BY OkExcept
<1>8. CASE m = 1
  <2>1. Static(ips) = first
    BY <1>2, <1>7, <1>8 DEF Static
  <2>2. QED
    BY <2>1, <1>5, <1>6, OkSound
<1>9. CASE m = 2
  <2>1. Static(ips) = ApplyIPTo(ips[2], first)
    BY <1>2, <1>7, <1>9 DEF Static
  <2>2. ips[2] \in V4 \cup V6 /\ (ips[1] \in V4) # (ips[2] \in V4)
    BY <1>4, <1>9
  <2>3. CASE ips[1] \in V4
    <3>1. Static(ips) = Ok(ips[1], ips[2])
      BY <2>1, <2>2, <2>3, OkExcept
    <3>2. QED BY <3>1, <2>2, <2>3, <1>6, OkSound
  <2>4. CASE ips[1] \notin V4
    <3>1. Static(ips) = Ok(ips[2], ips[1])
      BY <2>1, <2>2, <2>4, OkExcept
    <3>2. QED BY <3>1, <2>2, <2>4, <1>5, <1>6, OkSound
  <2> QED BY <2>3, <2>4
<1> QED BY <1>4, <1>8, <1>9

\* What lookup returns has an address, or is an error.
LEMMA LookupSound ==
    ASSUME NEW r \in LookupResults
    PROVE  Sound(r)
<1>1. Sound(NoAnswer)
  BY DEF Sound, NoAnswer, Answer
<1>2. r = NoAnswer \/ \E v4 \in V4 \cup {Nil}, v6 \in V6 \cup {Nil} :
                        ~ (v4 = Nil /\ v6 = Nil) /\ r = Ok(v4, v6)
  BY FamiliesAssumption DEF LookupResults
<1> QED BY <1>1, <1>2, OkSound

-----------------------------------------------------------------------------
(* The provider *)

\* Nothing has been asked and nobody has an answer when the server starts.
LEMMA IPInitHolds ==
    ASSUME IPInit
    PROVE  IPInv
<1>1. IPTypeOK
  <2>1. cache \in Answer /\ NoAnswer \in Answer
    BY DEF IPInit, Answer, NoAnswer
  <2>2. asked \in [at : -1 .. MaxTime, result : Answer]
    BY <2>1, TimesAssumption DEF IPInit
  <2>3. now \in 0 .. MaxTime /\ refetch \in -1 .. MaxTime + Minute
    BY TimesAssumption DEF IPInit
  <2>4. call \in [Callers -> {"idle", "waiting", "looking", "returned"}]
        /\ answer \in [Callers -> Answer]
    BY <2>1 DEF IPInit
  <2>5. \A c \in Callers : call[c] # "looking" /\ holder # c
    BY CallersAssumption DEF IPInit
  <2> QED BY <2>1, <2>2, <2>3, <2>4, <2>5 DEF IPInit, IPTypeOK
<1>2. CacheIsLast
  BY DEF IPInit, CacheIsLast
<1>3. ~ IsDNS(config) => Sound(Static(config))
  BY StaticSound DEF IPInit
<1>4. \A c \in Callers : call[c] # "returned"
  BY DEF IPInit
<1> QED BY <1>1, <1>2, <1>3, <1>4 DEF IPInv

\* A call of Get, for either kind of provider.
LEMMA GetKeeps ==
    ASSUME IPInv, NEW c \in Callers, Get(c)
    PROVE  IPInv'
<1>1. call' \in [Callers -> {"idle", "waiting", "looking", "returned"}]
      /\ \A d \in Callers : call'[d] = "looking" <=> call[d] = "looking"
  BY DEF IPInv, IPTypeOK, Get
<1>2. ~ IsDNS(config) => Static(config) \in Answer
  BY DEF IPInv, Sound
<1>3. answer' \in [Callers -> Answer]
  BY <1>2 DEF IPInv, IPTypeOK, Get
<1>4. \A d \in Callers : call'[d] = "returned" => Sound(answer'[d])
  <2>1. CASE IsDNS(config)
    BY <2>1 DEF IPInv, IPTypeOK, Get
  <2>2. CASE ~ IsDNS(config)
    <3>1. answer' = [answer EXCEPT ![c] = Static(config)]
          /\ call' = [call EXCEPT ![c] = "returned"]
          /\ Sound(Static(config))
      BY <2>2 DEF Get, IPInv
    <3>2. QED BY <3>1 DEF IPInv, IPTypeOK
  <2>3. QED BY <2>1, <2>2
<1>5. UNCHANGED <<config, now, refetch, cache, holder, asked>>
  BY DEF Get
<1>6. IPTypeOK'
  BY <1>1, <1>3, <1>5 DEF IPInv, IPTypeOK
<1>7. CacheIsLast' /\ (~ IsDNS(config) => Sound(Static(config)))'
  BY <1>5 DEF IPInv, CacheIsLast, Pause, Sound
<1> QED BY <1>4, <1>6, <1>7 DEF IPInv

\* The lock is taken, and the cache is good enough or it is not.
LEMMA LockKeeps ==
    ASSUME IPInv, NEW c \in Callers, Lock(c)
    PROVE  IPInv'
<1>1. UNCHANGED <<config, now, refetch, cache, asked>>
  BY DEF Lock
<1>2. CacheIsLast' /\ (~ IsDNS(config) => Sound(Static(config)))'
  BY <1>1 DEF IPInv, CacheIsLast, Pause, Sound
<1>3. holder = Nil /\ \A d \in Callers : call[d] # "looking"
  BY CallersAssumption DEF IPInv, IPTypeOK, Lock
<1>4. CASE refetch < now
  <2>1. /\ call' = [call EXCEPT ![c] = "looking"]
        /\ holder' = c
        /\ answer' = answer
    BY <1>4 DEF Lock
  <2>2. IPTypeOK'
    BY <2>1, <1>1, <1>3, CallersAssumption DEF IPInv, IPTypeOK
  <2>3. QED BY <2>1, <2>2, <1>2 DEF IPInv, IPTypeOK
<1>5. CASE ~ (refetch < now)
  <2>1. /\ call' = [call EXCEPT ![c] = "returned"]
        /\ answer' = [answer EXCEPT ![c] = cache]
        /\ holder' = holder
    BY <1>5 DEF Lock
  <2>2. Sound(cache)
    BY <1>5, TimesAssumption DEF IPInv, IPTypeOK, CacheIsLast
  <2>3. IPTypeOK'
    BY <2>1, <1>1, <1>3 DEF IPInv, IPTypeOK
  <2>4. QED BY <2>1, <2>2, <2>3, <1>2 DEF IPInv, IPTypeOK
<1> QED BY <1>4, <1>5

\* A lookup ends.
LEMMA LookedUpKeeps ==
    ASSUME IPInv, NEW c \in Callers, LookedUp(c)
    PROVE  IPInv'
<1>1. PICK r \in LookupResults :
          /\ cache' = r
          /\ refetch' = now + Pause(r)
          /\ answer' = [answer EXCEPT ![c] = r]
          /\ asked' = [at |-> now, result |-> r]
  BY DEF LookedUp, Store, Pause
<1>2. /\ holder' = Nil
      /\ call' = [call EXCEPT ![c] = "returned"]
      /\ UNCHANGED <<config, now>>
  BY DEF LookedUp
<1>3. Sound(r) /\ r \in Answer /\ Pause(r) \in 0 .. Minute
  BY LookupSound, TimesAssumption DEF Sound, Answer, Pause
<1>4. now \in 0 .. MaxTime
  BY DEF IPInv, IPTypeOK
<1>5. refetch' \in -1 .. MaxTime + Minute
  BY <1>1, <1>3, <1>4, TimesAssumption
<1>6. holder = c /\ \A d \in Callers : call'[d] # "looking" /\ holder' # d
  BY <1>2, CallersAssumption DEF IPInv, IPTypeOK, LookedUp
<1>7. asked' \in [at : -1 .. MaxTime, result : Answer]
  BY <1>1, <1>3, <1>4, TimesAssumption
<1>8. call' \in [Callers -> {"idle", "waiting", "looking", "returned"}]
      /\ answer' \in [Callers -> Answer]
  BY <1>1, <1>2, <1>3 DEF IPInv, IPTypeOK
<1>9. IPTypeOK'
  BY <1>1, <1>2, <1>3, <1>4, <1>5, <1>6, <1>7, <1>8 DEF IPTypeOK
<1>10. CacheIsLast'
  BY <1>1, <1>2, <1>3, <1>4 DEF CacheIsLast, Pause, Sound
<1>11. (~ IsDNS(config) => Sound(Static(config)))'
  BY <1>2 DEF IPInv, Sound
<1>12. \A d \in Callers : call'[d] = "returned" => Sound(answer'[d])
  BY <1>1, <1>2, <1>3 DEF IPInv, IPTypeOK
<1> QED BY <1>9, <1>10, <1>11, <1>12 DEF IPInv

\* A caller goes on with its answer.
LEMMA LeaveKeeps ==
    ASSUME IPInv, NEW c \in Callers, Leave(c)
    PROVE  IPInv'
<1>1. NoAnswer \in Answer
  BY DEF NoAnswer, Answer
<1>2. /\ call' = [call EXCEPT ![c] = "idle"]
      /\ answer' = [answer EXCEPT ![c] = NoAnswer]
      /\ call[c] = "returned"
      /\ UNCHANGED <<config, now, refetch, cache, holder, asked>>
  BY DEF Leave
<1>3. IPTypeOK'
  BY <1>1, <1>2 DEF IPInv, IPTypeOK
<1>4. CacheIsLast' /\ (~ IsDNS(config) => Sound(Static(config)))'
  BY <1>2 DEF IPInv, CacheIsLast, Pause, Sound
<1>5. \A d \in Callers : call'[d] = "returned" => Sound(answer'[d])
  BY <1>2 DEF IPInv, IPTypeOK
<1> QED BY <1>3, <1>4, <1>5 DEF IPInv

\* Time passes.
LEMMA TickKeeps ==
    ASSUME IPInv, Tick
    PROVE  IPInv'
<1>1. UNCHANGED <<config, refetch, cache, holder, call, answer, asked>>
      /\ now' = now + 1 /\ now < MaxTime
  BY DEF Tick
<1>2. IPTypeOK'
  BY <1>1, TimesAssumption DEF IPInv, IPTypeOK
<1>3. CacheIsLast'
  BY <1>1, TimesAssumption DEF IPInv, IPTypeOK, CacheIsLast, Pause, Sound
<1> QED BY <1>1, <1>2, <1>3 DEF IPInv, Sound

\* Every step of the provider, and every step that leaves it alone.
LEMMA IPStepKeeps ==
    ASSUME IPInv, [IPNext]_ipvars
    PROVE  IPInv'
<1>1. CASE Tick
  BY <1>1, TickKeeps
<1>2. ASSUME NEW c \in Callers, Get(c) \/ Lock(c) \/ LookedUp(c) \/ Leave(c)
      PROVE  IPInv'
  BY <1>2, GetKeeps, LockKeeps, LookedUpKeeps, LeaveKeeps
<1>3. CASE UNCHANGED ipvars
  BY <1>3 DEF ipvars, IPInv, IPTypeOK, CacheIsLast, Pause, Sound
<1> QED BY <1>1, <1>2, <1>3 DEF IPNext

\* What the code may do with the provider: any of its steps, in any order.
IPSafety == IPInit /\ [][IPNext]_ipvars

\* The provider on its own keeps its invariant.
LEMMA IPSafe == IPSafety => []IPInv
BY IPInitHolds, IPStepKeeps, PTL DEF IPSafety

\* Get returns with the lock held, be it after a lookup or with an answer
\* that is still good.
LEMMA ReturnIsCurrent ==
    ASSUME IPInv, IPNext, NEW c \in Callers,
           IsDNS(config), call[c] # "returned", call'[c] = "returned"
    PROVE  /\ answer'[c] = asked'.result
           /\ now - asked'.at <= Minute
           /\ Sound(answer'[c])
<1>1. call \in [Callers -> {"idle", "waiting", "looking", "returned"}]
      /\ answer \in [Callers -> Answer]
  BY DEF IPInv, IPTypeOK
<1>2. ~ Tick
  BY DEF Tick
<1>3. PICK d \in Callers : Get(d) \/ Lock(d) \/ LookedUp(d) \/ Leave(d)
  BY <1>2 DEF IPNext
<1>4. d = c /\ (Lock(c) \/ LookedUp(c))
  BY <1>1, <1>3 DEF Get, Lock, LookedUp, Leave
<1>5. CASE Lock(c)
  <2>1. /\ ~ (refetch < now)
        /\ answer' = [answer EXCEPT ![c] = cache]
        /\ asked' = asked
    BY <1>1, <1>5 DEF Lock
  <2>2. now \in Nat /\ refetch \in Int /\ asked.at \in Int
    BY TimesAssumption DEF IPInv, IPTypeOK
  <2>3. asked.at >= 0
    BY <2>1, <2>2 DEF IPInv, CacheIsLast
  <2>4. cache = asked.result /\ Sound(cache) /\ refetch = asked.at + Pause(asked.result)
    BY <2>3 DEF IPInv, CacheIsLast
  <2>5. Pause(asked.result) \in 0 .. Minute
    BY TimesAssumption DEF Pause
  <2>6. now - asked.at <= Minute
    BY <2>1, <2>2, <2>4, <2>5, TimesAssumption
  <2> QED BY <2>1, <2>4, <2>6, <1>1
<1>6. CASE LookedUp(c)
  <2>1. PICK r \in LookupResults :
            /\ answer' = [answer EXCEPT ![c] = r]
            /\ asked' = [at |-> now, result |-> r]
    BY <1>6 DEF LookedUp, Store
  <2>2. now \in Nat
    BY TimesAssumption DEF IPInv, IPTypeOK
  <2> QED BY <2>1, <2>2, <1>1, LookupSound, TimesAssumption
<1> QED BY <1>4, <1>5, <1>6

\* A lookup begins with a cache that is too old for what it holds.
LEMMA LookupIsDue ==
    ASSUME IPInv, IPNext, NEW c \in Callers,
           call[c] # "looking", call'[c] = "looking", asked.at >= 0
    PROVE  now - asked.at > Pause(asked.result)
<1>1. call \in [Callers -> {"idle", "waiting", "looking", "returned"}]
  BY DEF IPInv, IPTypeOK
<1>2. ~ Tick
  BY DEF Tick
<1>3. PICK d \in Callers : Get(d) \/ Lock(d) \/ LookedUp(d) \/ Leave(d)
  BY <1>2 DEF IPNext
<1>4. refetch < now
  BY <1>1, <1>3 DEF Get, Lock, LookedUp, Leave
<1>5. now \in Nat /\ asked.at \in Int /\ Pause(asked.result) \in Nat
  BY TimesAssumption DEF IPInv, IPTypeOK, Pause
<1>6. refetch = asked.at + Pause(asked.result)
  BY DEF IPInv, CacheIsLast
<1> QED BY <1>4, <1>5, <1>6

\* Whoever steps, and whatever the rest of the program does meanwhile.
LEMMA ProviderSafe == IPSafety => AnswersAreCurrent /\ LookupsArePaced
<1> DEFINE Current ==
        \A c \in Callers :
            IsDNS(config) /\ call[c] # "returned" /\ call'[c] = "returned"
                => /\ answer'[c] = asked'.result
                   /\ now - asked'.at <= Minute
                   /\ {answer'[c].v4, answer'[c].v6} = {Nil} <=> answer'[c].failed
           Paced ==
        \A c \in Callers :
            call[c] # "looking" /\ call'[c] = "looking" /\ asked.at >= 0
                => now - asked.at > (IF asked.result.failed THEN Second ELSE Minute)
<1>1. IPInv /\ [IPNext]_ipvars => [Current]_ipvars
  <2> SUFFICES ASSUME IPInv, IPNext, NEW c \in Callers, IsDNS(config),
                      call[c] # "returned", call'[c] = "returned"
               PROVE  /\ answer'[c] = asked'.result
                      /\ now - asked'.at <= Minute
                      /\ {answer'[c].v4, answer'[c].v6} = {Nil} <=> answer'[c].failed
    OBVIOUS
  <2>1. Sound(answer'[c])
    BY ReturnIsCurrent
  <2>2. {answer'[c].v4, answer'[c].v6} = {Nil} <=> answer'[c].v4 = Nil /\ answer'[c].v6 = Nil
    OBVIOUS
  <2> QED BY <2>1, <2>2, ReturnIsCurrent DEF Sound
<1>2. IPInv /\ [IPNext]_ipvars => [Paced]_ipvars
  BY LookupIsDue DEF Pause
<1>3. IPSafety => [][IPNext]_ipvars /\ []IPInv
  BY IPSafe, PTL DEF IPSafety
<1> QED BY <1>1, <1>2, <1>3, PTL DEF AnswersAreCurrent, LookupsArePaced

\* What DNS.Get returns (dns.go:27-51), to however many goroutines at once, is
\* the latest that the name server has said, at most a minute old, and an
\* address unless it is an error.
THEOREM AnswersCurrent == IPSpec => AnswersAreCurrent
BY ProviderSafe, PTL DEF IPSpec, IPSafety

\* dns.go:42-47: the mutex and refetch keep any number of callers from asking
\* the name server again within a minute of an answer, or a second of an error.
THEOREM LookupsPaced == IPSpec => LookupsArePaced
BY ProviderSafe, PTL DEF IPSpec, IPSafety

-----------------------------------------------------------------------------
(* The inductive invariant of the TURN server *)

Requests ==
    {NoRequest}
        \cup [step : {"listen"}, user : Users, tries : Nat]
        \cup [step : {"resolve"}, user : Users, port : Ports]

Relays ==
    {NoRelay} \cup [open : {TRUE}, port : Ports, ip : V4 \cup V6, due : BOOLEAN]

TurnTypeOK ==
    /\ range \in (0 .. PortSpace - 1) \X (0 .. PortSpace - 1)
    /\ RangeAccepted(range[1], range[2])
    /\ lookup \subseteq issued
    /\ issued \subseteq Users
    /\ bound \subseteq Ports
    /\ request \in [Workers -> Requests]
    /\ relay \in [Users -> Relays]

\* The port of a request belongs to it alone, until the relay that comes of
\* the request takes it over.
OwnPorts ==
    /\ \A w \in Workers : request[w].step = "resolve" => request[w].port \in bound
    /\ \A u \in Users : relay[u].open => relay[u].port \in bound
    /\ \A w, x \in Workers :
          request[w].step = "resolve" /\ request[x].step = "resolve"
            /\ request[w].port = request[x].port => w = x
    /\ \A u, v \in Users :
          relay[u].open /\ relay[v].open /\ relay[u].port = relay[v].port => u = v
    /\ \A w \in Workers, u \in Users :
          request[w].step = "resolve" /\ relay[u].open => request[w].port # relay[u].port

BoundInRange == UseRange => bound \subseteq range[1] .. range[2]

\* No user has two requests under way.
OneRequest ==
    \A w, x \in Workers :
        /\ request[w].step # "none"
        /\ request[x].step # "none"
        /\ request[w].user = request[x].user
        => w = x

TurnInv ==
    /\ IPInv
    /\ TurnTypeOK
    /\ OwnPorts
    /\ OneRequest
    /\ BoundInRange

-----------------------------------------------------------------------------
(* Ports *)

\* A range that is accepted is the whole of what can be drawn from it: the
\* arithmetic of 16 bits is that of the integers there, 65535 included.
LEMMA PortsOfRangeAre ==
    ASSUME range \in (0 .. PortSpace - 1) \X (0 .. PortSpace - 1),
           RangeAccepted(range[1], range[2]), UseRange
    PROVE  PortsOfRange = range[1] .. range[2]
<1> DEFINE min == range[1]
           max == range[2]
<1>1. PortSpace \in Nat /\ min \in 1 .. max /\ max \in 1 .. PortSpace - 1
  BY PortsAssumption DEF RangeAccepted, UseRange
<1>2. ASSUME NEW n \in Nat, n < PortSpace
      PROVE  n % PortSpace = n
  BY <1>1, <1>2
<1>3. Span = max + 1 - min
  <2>1. CASE max + 1 < PortSpace
    BY <2>1, <1>1, <1>2 DEF Span
  <2>2. CASE max + 1 = PortSpace
    <3>1. (max + 1) % PortSpace = 0
      BY <2>2, <1>1
    <3>2. (0 - min) % PortSpace = PortSpace - min
      BY <1>1
    <3> QED BY <3>1, <3>2, <2>2 DEF Span
  <2> QED BY <2>1, <2>2, <1>1
<1>4. ASSUME NEW k \in 0 .. Span - 1
      PROVE  (min + k) % PortSpace = min + k
  <2>1. min + k \in Nat /\ min + k < PortSpace
    BY <1>1, <1>3
  <2> QED BY <2>1, <1>2
<1>5. PortsOfRange = {min + k : k \in 0 .. Span - 1}
  BY <1>4 DEF PortsOfRange
<1>6. \A p \in min .. max : p - min \in 0 .. Span - 1 /\ p = min + (p - min)
  BY <1>1, <1>3
<1> QED BY <1>1, <1>3, <1>5, <1>6

-----------------------------------------------------------------------------
(* Requests and relays *)

\* What a request is made of, by its step.
LEMMA RequestIs ==
    ASSUME TurnTypeOK, NEW w \in Workers
    PROVE  /\ request[w] = NoRequest \/ request[w].user \in Users
           /\ request[w].step \in {"none", "listen", "resolve"}
           /\ request[w].step = "listen" =>
                request[w] \in [step : {"listen"}, user : Users, tries : Nat]
           /\ request[w].step = "resolve" =>
                request[w].user \in Users /\ request[w].port \in Ports
<1>1. request[w] \in Requests
  BY DEF TurnTypeOK
<1> QED BY <1>1 DEF Requests, NoRequest

\* What a relay is made of.
LEMMA RelayIs ==
    ASSUME TurnTypeOK, NEW u \in Users
    PROVE  /\ relay[u].open \in BOOLEAN
           /\ relay[u].open =>
                relay[u] \in [open : {TRUE}, port : Ports, ip : V4 \cup V6, due : BOOLEAN]
<1>1. relay[u] \in Relays
  BY DEF TurnTypeOK
<1>2. CASE relay[u] = NoRelay
  BY <1>2 DEF NoRelay
<1>3. CASE relay[u] \in [open : {TRUE}, port : Ports, ip : V4 \cup V6, due : BOOLEAN]
  BY <1>3
<1> QED BY <1>1, <1>2, <1>3 DEF Relays

\* A request that gets no port, or gives none up, takes none from another.
LEMMA RequestKeeps ==
    ASSUME TurnInv, NEW w \in Workers, NEW r \in Requests, r.step # "resolve",
           request' = [request EXCEPT ![w] = r],
           UNCHANGED <<ipvars, range, dualStack, issued, lookup, bound, relay>>
    PROVE  TurnTypeOK' /\ OwnPorts' /\ BoundInRange'
<1>1. TurnTypeOK'
  BY DEF TurnInv, TurnTypeOK, RangeAccepted
<1>2. \A x \in Workers :
          request'[x].step = "resolve" => request'[x] = request[x]
  BY DEF TurnInv, TurnTypeOK
<1>3. OwnPorts'
  BY <1>2 DEF TurnInv, OwnPorts
<1> QED BY <1>1, <1>3 DEF TurnInv, BoundInRange, UseRange

\* A port that nobody listened on becomes the port of a request.
LEMMA ListeningKeeps ==
    ASSUME TurnInv, NEW w \in Workers, request[w].step = "listen",
           NEW port \in Ports, port \notin bound, Listening(w, port),
           UseRange => port \in range[1] .. range[2],
           UNCHANGED <<range, dualStack, issued, lookup, relay>>
    PROVE  TurnTypeOK' /\ OwnPorts' /\ BoundInRange'
<1> DEFINE r == [step |-> "resolve", user |-> request[w].user, port |-> port]
<1>1. bound' = bound \cup {port} /\ request' = [request EXCEPT ![w] = r]
  BY DEF Listening
<1>2. r \in Requests /\ r.step = "resolve" /\ r.port = port
  BY RequestIs DEF TurnInv, Requests, NoRequest
<1> HIDE DEF r
<1>3. TurnTypeOK'
  BY <1>1, <1>2 DEF TurnInv, TurnTypeOK, RangeAccepted
<1>4. \A x \in Workers : request'[x] = IF x = w THEN r ELSE request[x]
  BY <1>1 DEF TurnInv, TurnTypeOK
<1>5. OwnPorts'
  <2>1. \A x \in Workers : request'[x].step = "resolve" =>
            x = w \/ (request[x].step = "resolve" /\ request'[x].port = request[x].port)
    BY <1>4
  <2>2. \A x \in Workers : request[x].step = "resolve" =>
            request[x].port \in bound /\ request[x].port # port
    BY DEF TurnInv, OwnPorts
  <2>3. \A u \in Users : relay[u].open => relay[u].port \in bound /\ relay[u].port # port
    BY DEF TurnInv, OwnPorts
  <2>4. request'[w].port = port
    BY <1>2, <1>4
  <2> QED BY <1>1, <2>1, <2>2, <2>3, <2>4 DEF TurnInv, OwnPorts
<1>6. BoundInRange'
  BY <1>1 DEF TurnInv, BoundInRange, UseRange
<1> QED BY <1>3, <1>5, <1>6

\* AllocatePacketConn, for a certain port, with a range of ports and without.
LEMMA ListenKeeps ==
    ASSUME TurnInv, NEW w \in Workers,
           ListenRequested(w) \/ ListenInRange(w) \/ ListenAnywhere(w)
    PROVE  TurnTypeOK' /\ OwnPorts' /\ BoundInRange'
<1>1. /\ request[w].step = "listen"
      /\ UNCHANGED <<ipvars, range, dualStack, issued, lookup, relay>>
  BY DEF ListenRequested, ListenInRange, ListenAnywhere
<1>2. NoRequest \in Requests /\ NoRequest.step # "resolve"
  BY DEF Requests, NoRequest
<1>5. UseRange => PortsOfRange = range[1] .. range[2] /\ PortsOfRange \subseteq Ports
  <2>1. UseRange => PortsOfRange = range[1] .. range[2]
    BY PortsOfRangeAre DEF TurnInv, TurnTypeOK
  <2>2. UseRange => range[1] .. range[2] \subseteq Ports
    BY PortsAssumption DEF TurnInv, TurnTypeOK, UseRange, Ports
  <2> QED BY <2>1, <2>2
<1>6. CASE ListenRequested(w)
  <2>1. PICK port \in IF UseRange THEN PortsOfRange ELSE Ports :
            IF port \notin bound
            THEN Listening(w, port)
            ELSE /\ request' = [request EXCEPT ![w] = NoRequest]
                 /\ UNCHANGED bound
    BY <1>6 DEF ListenRequested
  <2>2. port \in Ports /\ (UseRange => port \in range[1] .. range[2])
    BY <1>5, <2>1
  <2>3. CASE port \notin bound
    BY <1>1, <2>1, <2>2, <2>3, ListeningKeeps
  <2>4. CASE port \in bound
    BY <1>1, <1>2, <2>1, <2>4, RequestKeeps
  <2> QED BY <2>3, <2>4
<1>3. CASE ListenInRange(w)
  <2>1. PortsOfRange = range[1] .. range[2] /\ PortsOfRange \subseteq Ports /\ UseRange
    BY <1>3, <1>5 DEF ListenInRange
  <2>2. PICK port \in PortsOfRange :
            IF port \notin bound
            THEN Listening(w, port)
            ELSE /\ request' = IF request[w].tries + 1 = MaxTries
                               THEN [request EXCEPT ![w] = NoRequest]
                               ELSE [request EXCEPT ![w].tries = @ + 1]
                 /\ UNCHANGED bound
    BY <1>3 DEF ListenInRange
  <2>3. CASE port \notin bound
    BY <1>1, <2>1, <2>2, <2>3, ListeningKeeps
  <2>4. CASE port \in bound /\ request[w].tries + 1 = MaxTries
    BY <1>1, <1>2, <2>2, <2>4, RequestKeeps
  <2>5. CASE port \in bound /\ request[w].tries + 1 # MaxTries
    <3> DEFINE r == [request[w] EXCEPT !.tries = @ + 1]
    <3>1. request' = [request EXCEPT ![w] = r] /\ UNCHANGED bound
      BY <2>2, <2>5
    <3>2. r \in [step : {"listen"}, user : Users, tries : Nat]
      BY <1>1, RequestIs DEF TurnInv
    <3>3. r \in Requests /\ r.step # "resolve"
      BY <3>2 DEF Requests
    <3> QED BY <1>1, <3>1, <3>3, RequestKeeps
  <2> QED BY <2>3, <2>4, <2>5
<1>4. CASE ListenAnywhere(w)
  <2>1. ~ UseRange
    BY <1>4 DEF ListenAnywhere
  <2>2. CASE \E port \in Ports \ bound : Listening(w, port)
    BY <1>1, <2>1, <2>2, ListeningKeeps
  <2>3. CASE request' = [request EXCEPT ![w] = NoRequest] /\ UNCHANGED bound
    BY <1>1, <1>2, <2>3, RequestKeeps
  <2> QED BY <1>4, <2>2, <2>3 DEF ListenAnywhere
<1> QED BY <1>3, <1>4, <1>6

\* A relay is announced under an address there is.
LEMMA RelayIPIs ==
    ASSUME NEW a, Sound(a), ~ a.failed
    PROVE  RelayIP(a) \in V4 \cup V6
BY DEF Sound, Answer, RelayIP

\* It is one of the addresses that were given, and of the socket's family if
\* one of them is.
LEMMA RelayIPFits ==
    ASSUME NEW a, Sound(a), ~ a.failed
    PROVE  /\ RelayIP(a) \in Given(a)
           /\ Given(a) \cap OwnFamily # {} => RelayIP(a) \in OwnFamily
<1>1. /\ a.v4 \in V4 \cup {Nil} /\ a.v6 \in V6 \cup {Nil}
      /\ ~ (a.v4 = Nil /\ a.v6 = Nil)
  BY DEF Sound, Answer
<1>2. Nil \notin V4 \cup V6 /\ V4 \cap V6 = {}
  BY FamiliesAssumption
<1>3. RelayIP(a) \in Given(a)
  BY <1>1 DEF RelayIP, Given
<1>4. CASE dualStack
  BY <1>1, <1>2, <1>4 DEF RelayIP, Given, OwnFamily
<1>5. CASE ~ dualStack
  BY <1>1, <1>2, <1>5 DEF RelayIP, Given, OwnFamily
<1> QED BY <1>3, <1>4, <1>5

\* The request hands its port over to the relay, or leaves it to nobody.
LEMMA AnnounceKeeps ==
    ASSUME TurnInv, NEW w \in Workers, Announce(w)
    PROVE  TurnTypeOK' /\ OwnPorts' /\ BoundInRange'
<1>1. /\ request[w].step = "resolve"
      /\ request' = [request EXCEPT ![w] = NoRequest]
      /\ call[w] = "returned"
      /\ UNCHANGED <<range, dualStack, issued, lookup, bound>>
  BY DEF Announce, Leave
<1>2. NoRequest \in Requests /\ NoRequest.step = "none"
  BY DEF Requests, NoRequest
<1>3. request' \in [Workers -> Requests]
  BY <1>1, <1>2 DEF TurnInv, TurnTypeOK
<1>4. \A x \in Workers : request'[x].step = "resolve" =>
          x # w /\ request[x].step = "resolve" /\ request'[x].port = request[x].port
  BY <1>1, <1>2 DEF TurnInv, TurnTypeOK
<1>5. BoundInRange'
  BY <1>1 DEF TurnInv, BoundInRange, UseRange
<1>6. CASE answer[w].failed
  <2>1. relay' = relay
    BY <1>6 DEF Announce
  <2>2. TurnTypeOK'
    BY <1>1, <1>3, <2>1 DEF TurnInv, TurnTypeOK, RangeAccepted
  <2>3. OwnPorts'
    BY <1>1, <1>4, <2>1 DEF TurnInv, OwnPorts
  <2> QED BY <1>5, <2>2, <2>3
<1>7. CASE ~ answer[w].failed
  <2>1. PICK u \in Users, port \in Ports : u = request[w].user /\ port = request[w].port
    BY <1>1, RequestIs DEF TurnInv
  <2>2. RelayIP(answer[w]) \in V4 \cup V6
    <3>1. w \in Callers
      BY DEF Workers
    <3> QED BY <1>1, <1>7, <3>1, RelayIPIs DEF TurnInv, IPInv
  <2>3. PICK r : r = [open |-> TRUE, port |-> port, ip |-> RelayIP(answer[w]), due |-> FALSE]
    OBVIOUS
  <2>4. relay' = [relay EXCEPT ![u] = r]
    BY <1>7, <2>1, <2>3 DEF Announce
  <2>5. r \in Relays /\ r.open /\ r.port = port
    BY <2>2, <2>3 DEF Relays
  <2>6. relay' \in [Users -> Relays]
        /\ \A v \in Users : relay'[v] = IF v = u THEN r ELSE relay[v]
    BY <2>4, <2>5 DEF TurnInv, TurnTypeOK
  <2>7. TurnTypeOK'
    BY <1>1, <1>3, <2>6 DEF TurnInv, TurnTypeOK, RangeAccepted
  <2>8. /\ port \in bound
        /\ \A x \in Workers : x # w /\ request[x].step = "resolve" => request[x].port # port
        /\ \A v \in Users : relay[v].open => relay[v].port # port
    BY <1>1, <2>1 DEF TurnInv, OwnPorts
  <2>9. \A v \in Users : relay'[v].open =>
            (v = u /\ relay'[v].port = port)
              \/ (v # u /\ relay[v].open /\ relay'[v].port = relay[v].port)
    BY <2>5, <2>6
  <2>10. OwnPorts'
    BY <1>1, <1>4, <2>8, <2>9 DEF TurnInv, OwnPorts
  <2> QED BY <1>5, <2>7, <2>10
<1> QED BY <1>6, <1>7

\* Lapse, Refresh and Expire: the port of a relay stays its own until the end.
LEMMA LifetimeKeeps ==
    ASSUME TurnInv, NEW u \in Users, Lapse(u) \/ Refresh(u) \/ Expire(u)
    PROVE  TurnTypeOK' /\ OwnPorts' /\ BoundInRange'
<1>1. /\ relay[u].open
      /\ UNCHANGED <<range, dualStack, issued, lookup, request>>
  BY DEF Lapse, Refresh, Expire
<1>2. relay[u] \in [open : {TRUE}, port : Ports, ip : V4 \cup V6, due : BOOLEAN]
  BY <1>1, RelayIs DEF TurnInv
<1>3. CASE Lapse(u) \/ Refresh(u)
  <2>1. PICK b \in BOOLEAN : relay' = [relay EXCEPT ![u].due = b] /\ bound' = bound
    BY <1>3 DEF Lapse, Refresh
  <2>2. PICK r : r = [relay[u] EXCEPT !.due = b]
    OBVIOUS
  <2>3. r \in Relays /\ r.open /\ r.port = relay[u].port
    BY <1>2, <2>2 DEF Relays
  <2>4. relay' = [relay EXCEPT ![u] = r]
    BY <2>1, <2>2
  <2>5. relay' \in [Users -> Relays]
        /\ \A v \in Users : relay'[v].open => relay[v].open /\ relay'[v].port = relay[v].port
    BY <1>1, <2>3, <2>4 DEF TurnInv, TurnTypeOK
  <2>6. TurnTypeOK'
    BY <1>1, <2>1, <2>5 DEF TurnInv, TurnTypeOK, RangeAccepted
  <2>7. OwnPorts'
    BY <1>1, <2>1, <2>5 DEF TurnInv, OwnPorts
  <2> QED BY <1>1, <2>1, <2>6, <2>7 DEF TurnInv, BoundInRange, UseRange
<1>4. CASE Expire(u)
  <2>1. bound' = bound \ {relay[u].port} /\ relay' = [relay EXCEPT ![u] = NoRelay]
    BY <1>4 DEF Expire
  <2>2. NoRelay \in Relays /\ ~ NoRelay.open
    BY DEF Relays, NoRelay
  <2>3. relay' \in [Users -> Relays]
        /\ \A v \in Users : relay'[v].open =>
              v # u /\ relay[v].open /\ relay'[v].port = relay[v].port
    BY <2>1, <2>2 DEF TurnInv, TurnTypeOK
  <2>4. TurnTypeOK'
    BY <1>1, <2>1, <2>3 DEF TurnInv, TurnTypeOK, RangeAccepted
  <2>5. OwnPorts'
    BY <1>1, <2>1, <2>3 DEF TurnInv, OwnPorts
  <2> QED BY <1>1, <2>1, <2>4, <2>5 DEF TurnInv, BoundInRange, UseRange
<1> QED BY <1>3, <1>4

\* Only Request gives a user to a request, and only one that has none.
LEMMA OneRequestKeeps ==
    ASSUME TurnInv, [Next]_vars
    PROVE  OneRequest'
<1> DEFINE Same == \A x \in Workers : request'[x].step # "none" =>
                      request[x].step # "none" /\ request'[x].user = request[x].user
<1>1. Same => OneRequest'
  BY DEF TurnInv, OneRequest
<1>2. CASE UNCHANGED request
  BY <1>2 DEF TurnInv, OneRequest
<1>3. ASSUME NEW w \in Workers, NEW u \in Users, Request(w, u)
      PROVE  OneRequest'
  <2>1. PICK r : r = [step |-> "listen", user |-> u, tries |-> 0]
    OBVIOUS
  <2>2. request' = [request EXCEPT ![w] = r] /\ r.user = u
    BY <1>3, <2>1 DEF Request
  <2>3. \A x \in Workers : request'[x] = IF x = w THEN r ELSE request[x]
    BY <2>2 DEF TurnInv, TurnTypeOK
  <2>4. \A x \in Workers : request[x].step # "none" => request[x].user # u
    BY <1>3 DEF Request
  <2> QED BY <2>2, <2>3, <2>4 DEF TurnInv, OneRequest
<1>4. ASSUME NEW w \in Workers, NEW r, request' = [request EXCEPT ![w] = r],
             r.step # "none" => request[w].step # "none" /\ r.user = request[w].user
      PROVE  Same
  BY <1>4 DEF TurnInv, TurnTypeOK
<1>5. NoRequest.step = "none"
  BY DEF NoRequest
<1>6. ASSUME NEW w \in Workers, NEW port, Listening(w, port), request[w].step = "listen"
      PROVE  Same
  <2>1. PICK r : r = [step |-> "resolve", user |-> request[w].user, port |-> port]
    OBVIOUS
  <2>2. request' = [request EXCEPT ![w] = r] /\ r.user = request[w].user
    BY <1>6, <2>1 DEF Listening
  <2> QED BY <1>4, <1>6, <2>2
<1>7. ASSUME NEW w \in Workers, request' = [request EXCEPT ![w] = NoRequest]
      PROVE  Same
  BY <1>4, <1>5, <1>7
<1>8. ASSUME NEW w \in Workers, request[w].step = "listen",
             request' = [request EXCEPT ![w].tries = @ + 1]
      PROVE  Same
  <2>1. PICK r : r = [request[w] EXCEPT !.tries = @ + 1]
    OBVIOUS
  <2>2. request' = [request EXCEPT ![w] = r]
    BY <1>8, <2>1
  <2>3. r.user = request[w].user
    BY <1>8, <2>1, RequestIs DEF TurnInv
  <2> QED BY <1>4, <1>8, <2>2, <2>3
<1>9. ASSUME NEW w \in Workers, ListenRequested(w)
      PROVE  Same
  BY <1>6, <1>7, <1>9 DEF ListenRequested
<1>10. ASSUME NEW w \in Workers, ListenInRange(w)
       PROVE  Same
  BY <1>6, <1>7, <1>8, <1>10 DEF ListenInRange
<1>11. ASSUME NEW w \in Workers, ListenAnywhere(w)
       PROVE  Same
  BY <1>6, <1>7, <1>11 DEF ListenAnywhere
<1>12. ASSUME NEW w \in Workers, Announce(w)
       PROVE  Same
  BY <1>7, <1>12 DEF Announce
<1>13. ASSUME NEW w \in Workers, Resolve(w) \/ Provider \/ UNCHANGED vars
       PROVE  UNCHANGED request
  BY <1>13 DEF Resolve, Provider, vars, turnvars
<1>14. ASSUME NEW u \in Users,
              Credentials(u) \/ Disallow(u) \/ Lapse(u) \/ Refresh(u) \/ Expire(u)
       PROVE  UNCHANGED request
  BY <1>14 DEF Credentials, Disallow, Lapse, Refresh, Expire
<1>15. CASE Provider \/ UNCHANGED vars
  BY <1>2, <1>15 DEF Provider, vars, turnvars
<1> QED BY <1>1, <1>2, <1>3, <1>9, <1>10, <1>11, <1>12, <1>13, <1>14, <1>15 DEF Next, Serve

-----------------------------------------------------------------------------
(* The TURN server *)

\* Every step uses the provider the way its specification has it.
LEMMA StepOfProvider ==
    ASSUME [Next]_vars
    PROVE  [IPNext]_ipvars
<1>1. Hub \in Callers /\ Workers \subseteq Callers
  BY HubAssumption DEF Workers
<1>2. CASE Provider
  BY <1>1, <1>2 DEF Provider, IPNext
<1>3. ASSUME NEW u \in Users,
             Credentials(u) \/ Disallow(u) \/ Lapse(u) \/ Refresh(u) \/ Expire(u)
      PROVE  UNCHANGED ipvars
  BY <1>3 DEF Credentials, Disallow, Lapse, Refresh, Expire
<1>4. ASSUME NEW w \in Workers, Serve(w) \/ \E u \in Users : Request(w, u)
      PROVE  [IPNext]_ipvars
  BY <1>1, <1>4 DEF Serve, ListenRequested, ListenInRange, ListenAnywhere, Resolve, Announce, Request, IPNext
<1>5. CASE UNCHANGED vars
  BY <1>5 DEF vars
<1> QED BY <1>2, <1>3, <1>4, <1>5 DEF Next

\* No request, no relay, no port.
LEMMA TurnInitHolds ==
    ASSUME Init
    PROVE  TurnInv
<1>1. IPInv
  BY IPInitHolds DEF Init
<1>2. TurnTypeOK
  <2>1. range \in (0 .. PortSpace - 1) \X (0 .. PortSpace - 1)
    BY DEF Init
  <2>2. request \in [Workers -> Requests] /\ relay \in [Users -> Relays]
    BY DEF Init, Requests, Relays
  <2> QED BY <2>1, <2>2 DEF Init, TurnTypeOK
<1>3. OwnPorts
  BY DEF Init, OwnPorts, NoRequest, NoRelay
<1>4. BoundInRange
  BY DEF Init, BoundInRange
<1>5. OneRequest
  BY DEF Init, OneRequest, NoRequest
<1> QED BY <1>1, <1>2, <1>3, <1>4, <1>5 DEF TurnInv

\* One case per action.
LEMMA TurnStepKeeps ==
    ASSUME TurnInv, [Next]_vars
    PROVE  TurnInv'
<1>1. IPInv'
  BY StepOfProvider, IPStepKeeps DEF TurnInv
<1> DEFINE Kept == TurnTypeOK' /\ OwnPorts' /\ BoundInRange'
<1>2. ASSUME UNCHANGED turnvars
      PROVE  Kept
  BY <1>2 DEF turnvars, TurnInv, TurnTypeOK, RangeAccepted, OwnPorts, BoundInRange, UseRange
<1>3. ASSUME NEW u \in Users, Credentials(u) \/ Disallow(u)
      PROVE  Kept
  <2>1. UNCHANGED <<range, dualStack, bound, request, relay>>
    BY <1>3 DEF Credentials, Disallow
  <2>2. lookup' \subseteq issued' /\ issued' \subseteq Users
    BY <1>3 DEF Credentials, Disallow, TurnInv, TurnTypeOK
  <2>3. TurnTypeOK'
    BY <2>1, <2>2 DEF TurnInv, TurnTypeOK, RangeAccepted
  <2> QED BY <2>1, <2>3 DEF TurnInv, OwnPorts, BoundInRange, UseRange
<1>4. ASSUME NEW w \in Workers, NEW u \in Users, Request(w, u)
      PROVE  Kept
  <2>1. PICK r : r = [step |-> "listen", user |-> u, tries |-> 0]
    OBVIOUS
  <2>2. r \in Requests /\ r.step # "resolve"
    BY <2>1 DEF Requests
  <2> QED BY <1>4, <2>1, <2>2, RequestKeeps DEF Request
<1>5. ASSUME NEW w \in Workers, Serve(w)
      PROVE  Kept
  <2>1. CASE Resolve(w)
    BY <2>1, <1>2 DEF Resolve
  <2> QED BY <1>5, <2>1, ListenKeeps, AnnounceKeeps DEF Serve
<1>6. ASSUME NEW u \in Users, Lapse(u) \/ Refresh(u) \/ Expire(u)
      PROVE  Kept
  BY <1>6, LifetimeKeeps
<1>7. ASSUME Provider \/ UNCHANGED vars
      PROVE  Kept
  BY <1>7, <1>2 DEF Provider, vars
<1> QED BY <1>1, <1>3, <1>4, <1>5, <1>6, <1>7, OneRequestKeeps DEF Next, TurnInv

\* The inductive invariant holds in every state.
LEMMA TurnSafe == Spec => []TurnInv
BY TurnInitHolds, TurnStepKeeps, PTL DEF Spec

\* server.go:46-67 and 138-171, dns.go:27-51: besides the types, the mutex of
\* the provider is held exactly during a lookup, the credentials are of users
\* that were given some, and an open relay has a port of its own that is
\* listened on, whatever requests are under way and whatever lookups fail.
THEOREM TurnTyped == Spec => []TypeOK
<1>1. TurnInv => TypeOK
  BY RequestIs DEF TurnInv, IPInv, TurnTypeOK, OwnPorts, TypeOK
<1> QED BY <1>1, TurnSafe, PTL

\* portrange.go:25-47: whatever range config.Get accepts, up to 65535, the
\* arithmetic on uint16 neither leaves it nor finds it empty.
THEOREM RelaysInRange == Spec => []RelaysStayInRange
<1>1. TurnInv => RelaysStayInRange
  <2> SUFFICES ASSUME TurnInv, UseRange
               PROVE  bound \subseteq range[1] .. range[2] /\ PortsOfRange # {}
    BY DEF RelaysStayInRange
  <2>1. PortsOfRange = range[1] .. range[2]
    BY PortsOfRangeAre DEF TurnInv, TurnTypeOK
  <2>2. range[1] \in Nat /\ range[2] \in Nat /\ range[1] <= range[2]
    BY PortsAssumption DEF TurnInv, TurnTypeOK, RangeAccepted
  <2>3. range[1] \in range[1] .. range[2]
    BY <2>2
  <2> QED BY <2>1, <2>3 DEF TurnInv, BoundInRange
<1> QED BY <1>1, TurnSafe, PTL

\* Only the end of an allocation opens a relay, and its request, the only one
\* of that user, is the one whose answer it is announced with.
LEMMA AnnounceFits ==
    ASSUME TurnInv, Next, NEW w \in Workers, NEW u \in Users,
           relay[u] = NoRelay, relay'[u].open,
           request[w].step = "resolve", request[w].user = u
    PROVE  /\ relay'[u].ip \in Given(answer[w])
           /\ Given(answer[w]) \cap OwnFamily # {} => relay'[u].ip \in OwnFamily
<1>1. ~ relay[u].open /\ relay' # relay
  BY DEF NoRelay
<1>2. ~ Provider /\ \A v \in Users : ~ Credentials(v) /\ ~ Disallow(v)
  BY <1>1 DEF Provider, turnvars, Credentials, Disallow
<1>3. \A v \in Users : ~ Lapse(v) /\ ~ Refresh(v) /\ ~ Expire(v)
  <2> SUFFICES ASSUME NEW v \in Users, Lapse(v) \/ Refresh(v) \/ Expire(v)
               PROVE  FALSE
    OBVIOUS
  <2>1. relay[v].open
    BY DEF Lapse, Refresh, Expire
  <2>2. v # u /\ relay \in [Users -> Relays]
    BY <1>1, <2>1 DEF TurnInv, TurnTypeOK
  <2>3. relay'[u] = relay[u]
    BY <2>2 DEF Lapse, Refresh, Expire
  <2> QED BY <1>1, <2>3
<1>4. PICK x \in Workers : Announce(x)
  BY <1>1, <1>2, <1>3
     DEF Next, Serve, ListenRequested, ListenInRange, ListenAnywhere, Resolve,
         Request, turnvars
<1>5. /\ request[x].step = "resolve" /\ call[x] = "returned" /\ ~ answer[x].failed
      /\ relay' = [relay EXCEPT ![request[x].user] =
                     [open |-> TRUE, port |-> request[x].port,
                      ip |-> RelayIP(answer[x]), due |-> FALSE]]
  BY <1>1, <1>4 DEF Announce, Leave
<1>6. request[x].user = u
  <2>1. request[x].user \in Users
    BY <1>5, RequestIs DEF TurnInv
  <2> QED BY <1>1, <1>5, <2>1 DEF TurnInv, TurnTypeOK
<1>7. relay'[u].ip = RelayIP(answer[x])
  BY <1>5, <1>6 DEF TurnInv, TurnTypeOK
<1>8. x = w
  BY <1>5, <1>6 DEF TurnInv, OneRequest
<1>9. Sound(answer[x])
  BY <1>5 DEF TurnInv, IPInv, Workers
<1> QED BY <1>5, <1>7, <1>8, <1>9, RelayIPFits

\* server.go:46-67: a relay is announced under an address that the provider
\* gave for it, of the socket's own family if there was one, whatever the
\* operator has configured or the name server said when it was asked.
THEOREM AnnouncedFit == Spec => AnnouncedAddressesFit
<1> DEFINE Fits ==
        \A w \in Workers, u \in Users :
            /\ relay[u] = NoRelay
            /\ relay'[u].open
            /\ request[w].step = "resolve"
            /\ request[w].user = u
            => /\ relay'[u].ip \in Given(answer[w])
               /\ Given(answer[w]) \cap OwnFamily # {} => relay'[u].ip \in OwnFamily
<1>1. TurnInv /\ [Next]_vars => [Fits]_vars
  BY AnnounceFits
<1>2. Spec => [][Next]_vars
  BY DEF Spec
<1> QED BY <1>1, <1>2, TurnSafe, PTL DEF AnnouncedAddressesFit

\* The TURN server and the hub, together, use the provider as it is specified
\* on its own, so its answers are current and its lookups paced for them too.
THEOREM ProviderInUse == Spec => AnswersAreCurrent /\ LookupsArePaced
<1>1. Init => IPInit
  BY DEF Init
<1>2. Spec => IPSafety
  BY <1>1, StepOfProvider, PTL DEF Spec, IPSafety
<1> QED BY <1>2, ProviderSafe, PTL

=============================================================================
