------------------------------- MODULE Logins -------------------------------
(***************************************************************************)
(* Logins (auth/auth.go): a session is a cookie, signed with the secret of *)
(* the configuration, and nothing is kept on the server.  One user of the  *)
(* users file with one browser; gorilla/sessions and the browser are       *)
(* external.                                                               *)
(***************************************************************************)
EXTENDS Startup, Integers

CONSTANTS
    Seconds,    \* the integers that the classes of session timeouts stand for
    CodecMaxAge \* the 30 days after which gorilla/sessions refuses a cookie

ASSUME SecondsAssumption ==
    /\ Seconds \in [Timeouts -> Int]
    /\ Seconds["0"] = 0

ASSUME CodecAssumption == CodecMaxAge \in Nat

VARIABLES
    cookie, \* what the browser keeps under the name "user"
    grant   \* history: the last login that the user has not ended

loginvars == <<cookie, grant>>

None == [age |-> CodecMaxAge + 1]

LoginInit ==
    /\ cookie = None
    /\ grant = None

-----------------------------------------------------------------------------
\* Broken: a buffer that is never filled.
ZeroSecret == << "zero" >>

\* Get: 32 random bytes, different at every start
GeneratedSecret == << "generated", boots >>

Secret == IF conf.secret = "" THEN GeneratedSecret ELSE << "configured", conf.secret >>

\* session.Options.MaxAge: whatever integer was configured.  A cookie with 0
\* lasts as long as the browser.
MaxAge == Seconds[conf.session_timeout]

Session(user, maxage) == [user |-> user, key |-> Secret, maxage |-> maxage, age |-> 0]

\* ReadPasswordsFile: without a file nobody can log in.
Validate(right) == right /\ conf.users_file = "users"

\* A cookie with a negative Max-Age is one to forget, at once.
Taken(c) == IF c.maxage < 0 THEN None ELSE c

\* POST /login
Authenticate ==
    /\ Open
    /\ \E right \in BOOLEAN :
          IF Validate(right)
          THEN /\ cookie' = Taken(Session("name", MaxAge))
               /\ grant' = [boot |-> boots, secret |-> conf.secret,
                            timeout |-> conf.session_timeout, age |-> 0]
          ELSE UNCHANGED loginvars
    /\ UNCHANGED procvars

\* A session without values
EmptySession == Session("guest", 0)

\* POST /logout
Logout ==
    /\ Open
    /\ cookie' = EmptySession
    /\ grant' = None
    /\ UNCHANGED procvars

-----------------------------------------------------------------------------
(* The browser *)

Older(c) == [c EXCEPT !.age = @ + 1]

\* Cookies with a Max-Age are dropped; the codec looks at the time as well.
Tick ==
    /\ cookie # None
    /\ cookie' = IF \/ cookie.age = CodecMaxAge
                    \/ cookie.maxage > 0 /\ cookie.age + 1 = cookie.maxage
                 THEN None ELSE Older(cookie)
    /\ grant' = IF grant = None THEN None ELSE Older(grant)
    /\ UNCHANGED procvars

\* Cookies without a Max-Age are dropped.
CloseBrowser ==
    /\ cookie # None
    /\ cookie.maxage = 0
    /\ cookie' = None
    /\ grant' = None
    /\ UNCHANGED procvars

LoginNext == Authenticate \/ Logout \/ Tick \/ CloseBrowser

-----------------------------------------------------------------------------
\* CurrentUser, for /stream and /config: a cookie that cannot be read is none.
CurrentUser ==
    IF cookie # None /\ cookie.key = Secret THEN cookie.user ELSE "guest"
=============================================================================
