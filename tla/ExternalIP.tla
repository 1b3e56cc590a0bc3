----------------------------- MODULE ExternalIP -----------------------------
(***************************************************************************)
(* The provider of the addresses under which the TURN server is reached     *)
(* (config/ip.go, config/ipdns): a fixed pair of addresses, or a name that  *)
(* is looked up and cached.  The hub asks it whenever sessions are created, *)
(* the TURN server whenever a relay is allocated, and they share one lock.  *)
(***************************************************************************)
EXTENDS Integers, Sequences, SequencesExt

CONSTANTS
    Callers, \* goroutines that call Get
    V4, V6,  \* the IPv4 and the IPv6 addresses there are
    Nil,     \* no address of that family, and nobody who holds the lock
    Second,  \* time.Second
    Minute,  \* time.Minute
    MaxTime  \* bound: the clock stops here

ASSUME FamiliesAssumption == V4 \cap V6 = {} /\ Nil \notin V4 \cup V6
ASSUME CallersAssumption == Nil \notin Callers
ASSUME TimesAssumption == {Second, Minute, MaxTime} \subseteq Nat /\ Second <= Minute

VARIABLES
    config,  \* the list of addresses the operator has configured
    now,     \* the clock
    refetch, \* DNS.refetch: the answer is good until then
    cache,   \* DNS.v4, .v6 and .err
    holder,  \* who holds DNS.Mutex
    call,    \* caller -> where its call of Get is
    answer,  \* caller -> what Get has returned
    asked    \* when the last lookup has ended, and whether it had an answer

ipvars == <<config, now, refetch, cache, holder, call, answer, asked>>

Answer == [v4 : V4 \cup {Nil}, v6 : V6 \cup {Nil}, failed : BOOLEAN]

NoAnswer == [v4 |-> Nil, v6 |-> Nil, failed |-> TRUE]

Ok(v4, v6) == [v4 |-> v4, v6 |-> v6, failed |-> FALSE]

-----------------------------------------------------------------------------
(* The configuration: "dns", addresses, or something that does not parse *)

Entries == V4 \cup V6 \cup {"dns", "invalid"}

\* applyIPTo
ApplyIPTo(ip, static) ==
    IF ip \in V4 THEN Ok(ip, static.v6) ELSE Ok(static.v4, ip)

Parsed(ip) == ip \in V4 \cup V6

\* parseStatic accepts one address, or one of each family.
StaticAccepted(ips) ==
    /\ Len(ips) <= 2
    /\ \A i \in DOMAIN ips : Parsed(ips[i])
    /\ Len(ips) = 2 => (ips[1] \in V4) # (ips[2] \in V4)

Static(ips) ==
    LET first == ApplyIPTo(ips[1], Ok(Nil, Nil))
    IN  IF Len(ips) = 1 THEN first ELSE ApplyIPTo(ips[2], first)

IsDNS(ips) == ips[1] = "dns"

\* parseIPProvider; Get refuses to start with any other list.
Accepted(ips) == IF IsDNS(ips) THEN Len(ips) = 1 ELSE StaticAccepted(ips)

-----------------------------------------------------------------------------
(* The name server *)

\* lookup: the first address of each family; no address at all is an error,
\* like a name server that cannot be reached.
LookupResults ==
    {NoAnswer}
        \cup {Ok(v4, Nil) : v4 \in V4}
        \cup {Ok(Nil, v6) : v6 \in V6}
        \cup {Ok(v4, v6) : v4 \in V4, v6 \in V6}

\* Static.Get, and DNS.Get up to its lock
Get(c) ==
    /\ call[c] = "idle"
    /\ IF IsDNS(config)
       THEN call' = [call EXCEPT ![c] = "waiting"] /\ UNCHANGED answer
       ELSE /\ call' = [call EXCEPT ![c] = "returned"]
            /\ answer' = [answer EXCEPT ![c] = Static(config)]
    /\ UNCHANGED <<config, now, refetch, cache, holder, asked>>

\* Broken: who had to wait for the lock looks the name up in any case.
LockAndLookUp(c) ==
    /\ call[c] = "waiting"
    /\ holder = Nil
    /\ holder' = c
    /\ call' = [call EXCEPT ![c] = "looking"]
    /\ UNCHANGED <<config, now, refetch, cache, answer, asked>>

\* DNS.Get has the lock: the cache is looked at only now.
Lock(c) ==
    /\ call[c] = "waiting"
    /\ holder = Nil
    /\ IF refetch < now
       THEN /\ call' = [call EXCEPT ![c] = "looking"]
            /\ holder' = c
            /\ UNCHANGED answer
       ELSE /\ call' = [call EXCEPT ![c] = "returned"]
            /\ answer' = [answer EXCEPT ![c] = cache]
            /\ UNCHANGED holder
    /\ UNCHANGED <<config, now, refetch, cache, asked>>

\* Broken: the cache keeps what it knew when the lookup fails.
StoreUnlessFailed(r) ==
    /\ cache' = IF r.failed THEN cache ELSE r
    /\ refetch' = now + (IF r.failed THEN Second ELSE Minute)

\* Broken: only a lookup that succeeds is followed by a pause.
StoreUnpaused(r) ==
    /\ cache' = r
    /\ refetch' = IF r.failed THEN refetch ELSE now + Minute

Store(r) ==
    /\ cache' = r
    /\ refetch' = now + (IF r.failed THEN Second ELSE Minute)

\* Broken: a lookup that fails returns without releasing the lock.
LookedUpHoldingLock(c) ==
    /\ call[c] = "looking"
    /\ \E r \in LookupResults :
          /\ Store(r)
          /\ answer' = [answer EXCEPT ![c] = cache']
          /\ asked' = [at |-> now, result |-> r]
          /\ holder' = IF r.failed THEN holder ELSE Nil
    /\ call' = [call EXCEPT ![c] = "returned"]
    /\ UNCHANGED <<config, now>>

\* The lookup is answered, or fails; the lock is released.
LookedUp(c) ==
    /\ call[c] = "looking"
    /\ \E r \in LookupResults :
          /\ Store(r)
          /\ answer' = [answer EXCEPT ![c] = cache']
          /\ asked' = [at |-> now, result |-> r]
    /\ holder' = Nil
    /\ call' = [call EXCEPT ![c] = "returned"]
    /\ UNCHANGED <<config, now>>

\* The caller goes on with the answer.
Leave(c) ==
    /\ call[c] = "returned"
    /\ call' = [call EXCEPT ![c] = "idle"]
    /\ answer' = [answer EXCEPT ![c] = NoAnswer]
    /\ UNCHANGED <<config, now, refetch, cache, holder, asked>>

Tick ==
    /\ now < MaxTime
    /\ now' = now + 1
    /\ UNCHANGED <<config, refetch, cache, holder, call, answer, asked>>

-----------------------------------------------------------------------------

IPInit ==
    /\ config \in {ips \in SeqOf(Entries, 3) : ips # << >> /\ Accepted(ips)}
    /\ now = 0
    /\ refetch = -1
    /\ cache = [NoAnswer EXCEPT !.failed = FALSE]
    /\ holder = Nil
    /\ call = [c \in Callers |-> "idle"]
    /\ answer = [c \in Callers |-> NoAnswer]
    /\ asked = [at |-> -1, result |-> NoAnswer]

IPNext ==
    \/ Tick
    \/ \E c \in Callers : Get(c) \/ Lock(c) \/ LookedUp(c) \/ Leave(c)

\* A name server answers, or the resolver gives up on it; sync.Mutex does not
\* starve who waits for it.
IPFairness ==
    \A c \in Callers : SF_ipvars(Lock(c)) /\ WF_ipvars(LookedUp(c))

IPSpec == IPInit /\ [][IPNext]_ipvars /\ IPFairness

-----------------------------------------------------------------------------
(* Properties *)

\* Every variable has its type; the lock is held exactly during a lookup.
IPTypeOK ==
    /\ now \in 0 .. MaxTime
    /\ refetch \in -1 .. MaxTime + Minute
    /\ cache \in Answer
    /\ holder \in Callers \cup {Nil}
    /\ call \in [Callers -> {"idle", "waiting", "looking", "returned"}]
    /\ \A c \in Callers : call[c] = "looking" <=> holder = c
    /\ answer \in [Callers -> Answer]
    /\ asked \in [at : -1 .. MaxTime, result : Answer]

\* What a caller gets from a lookup of its own or of another caller is the
\* latest that the name server has said, at most a minute old, and an address
\* unless it is an error: newSession and the relays build their addresses
\* from it (dns.go:27-51).
AnswersAreCurrent ==
    [][\A c \in Callers :
        IsDNS(config) /\ call[c] # "returned" /\ call'[c] = "returned"
            => /\ answer'[c] = asked'.result
               /\ now - asked'.at <= Minute
               /\ {answer'[c].v4, answer'[c].v6} = {Nil} <=> answer'[c].failed]_ipvars

\* "don't spam the dns server" (dns.go:43): however many callers there are,
\* a lookup begins later than a minute after one that succeeded and later
\* than a second after one that failed.
LookupsArePaced ==
    [][\A c \in Callers :
        call[c] # "looking" /\ call'[c] = "looking" /\ asked.at >= 0
            => now - asked.at > (IF asked.result.failed THEN Second ELSE Minute)]_ipvars

\* The hub and the TURN server get their answer: nobody waits for ever for
\* the lock that others hold during their lookups.
CallersGetAnswers ==
    \A c \in Callers : call[c] = "waiting" ~> call[c] = "returned"
=============================================================================
