-------------------------- MODULE OperatorSessions --------------------------
(***************************************************************************)
(* The web console's way in and what is done through it: the login with    *)
(* Telegram's signed init data, the sessions table, logout, expiry and     *)
(* cleanup, and the admin API's edits of a server, each of which is        *)
(* authorised first and acts on the store later.  A session is known by    *)
(* its token, tokens by the order in which they were issued; a request may *)
(* carry any token a browser was ever given, since it may have been sent   *)
(* long before it arrives.  The repository calls are the steps; one server *)
(* is followed through its life.                                           *)
(*                                                                         *)
(* Init data signed for nobody on the list, and requests without a cookie, *)
(* of a foreign origin or with a malformed body are refused before         *)
(* anything changes and are no steps.                                      *)
(*                                                                         *)
(* Where an operation is followed by another of nearly its name, the first *)
(* is the operation with a slip in it, kept to see a property notice.      *)
(***************************************************************************)
EXTENDS Integers

CONSTANTS
    Browser,   \* the administrators' browsers
    Request,   \* handler goroutines of the admin API in flight at once
    MaxAge,    \* init data is accepted this long after it was signed
    Skew,      \* and this long before, by the server's clock
    TTL,       \* life of a session
    MaxTime,   \* bound: the clock stops here
    MaxLogins, \* bound: sessions ever created
    MaxTokens  \* bound: tokens the server's agent ever had

ASSUME SessionsAssumption ==
    /\ MaxAge \in Nat /\ Skew \in Nat /\ TTL \in Nat \ {0}
    /\ MaxTime \in Nat \ {0} /\ MaxLogins \in Nat /\ MaxTokens \in Nat

Time == 1..MaxTime
Token == 1..MaxLogins

VARIABLES
    clock,
    login,    \* logins verified, whose session is not yet created
    sessions, \* the sessions table: the expiry of a token, 0 without a row
    request,  \* requests of the admin API: their token and progress
    server,   \* the server's row, with the agent token it is known by
    logins,   \* sessions created so far
    granted,  \* auxiliary: of every session, the init data and the expiry
    closed,   \* auxiliary: tokens whose logout was answered with a success
    shown     \* auxiliary: the last agent token that was answered

access == <<login, sessions, logins, granted, closed>>
agents == <<server, shown>>
vars == <<clock, access, request, agents>>

NoLogin == [at |-> 0, auth |-> 0]
NoRequest == [at |-> "none"]
Row(state, enabled, secret) == [state |-> state, enabled |-> enabled, secret |-> secret]
Rows == [state: {"none", "present", "deleted"}, enabled: BOOLEAN, secret: 0..MaxTokens]
Requests == [at: {"begun", "authorized", "read", "stored"}, token: 0..MaxLogins,
             since: Time, late: BOOLEAN, copy: Rows]

Types ==
    /\ clock \in Time
    /\ login \in [Browser -> [at: 0..MaxTime, auth: Int]]
    /\ sessions \in [Token -> Nat]
    /\ request \in [Request -> Requests \cup {NoRequest}]
    /\ server \in Rows
    /\ logins \in 0..MaxLogins
    /\ granted \in [Token -> [auth: Int, expires: Nat]]
    /\ closed \subseteq Token
    /\ shown \in 0..MaxTokens

(* What the variables hold; and a handler that read the server, or stored  *)
(* a token for it, found a row: an edit, and a token that is to be         *)
(* answered, are those of a server that stood when the store was asked.    *)
TypeOK ==
    /\ Types
    /\ \A r \in Request :
          request[r].at \in {"read", "stored"} => request[r].copy.state = "present"

Init ==
    /\ clock = 1
    /\ login = [b \in Browser |-> NoLogin]
    /\ sessions = [t \in Token |-> 0]
    /\ request = [r \in Request |-> NoRequest]
    /\ server = Row("none", FALSE, 0)
    /\ logins = 0
    /\ granted = [t \in Token |-> [auth |-> 0, expires |-> 0]]
    /\ closed = {} /\ shown = 0

-----------------------------------------------------------------------------
(* Sessions.                                                               *)

VerifyInitDataAnyAge(auth) == auth <= clock + Skew
VerifyInitData(auth) == clock - auth <= MaxAge /\ auth <= clock + Skew

(* serveTelegramLogin up to the repository: now is sampled once.           *)
StartLogin(b, auth) ==
    /\ login[b] = NoLogin /\ VerifyInitData(auth)
    /\ login' = [login EXCEPT ![b] = [at |-> clock, auth |-> auth]]
    /\ UNCHANGED <<clock, sessions, logins, granted, closed, request, agents>>

CreateSession(b) ==
    /\ login[b] # NoLogin /\ logins < MaxLogins
    /\ logins' = logins + 1
    /\ sessions' = [sessions EXCEPT ![logins'] = login[b].at + TTL]
    /\ granted' = [granted EXCEPT ![logins'] = [auth |-> login[b].auth, expires |-> login[b].at + TTL]]
    /\ login' = [login EXCEPT ![b] = NoLogin]
    /\ UNCHANGED <<clock, closed, request, agents>>

LoginFails(b) ==
    /\ login[b] # NoLogin
    /\ login' = [login EXCEPT ![b] = NoLogin]
    /\ UNCHANGED <<clock, sessions, logins, granted, closed, request, agents>>

GetSession(t, now) == sessions[t] # 0 /\ now < sessions[t]

(* The row is deleted, or was already; when the repository fails instead,  *)
(* the answer is a 500 and the session goes on.                            *)
LogoutAlwaysSucceeds(t) ==
    /\ t <= logins
    /\ sessions' \in {[sessions EXCEPT ![t] = 0], sessions}
    /\ closed' = closed \cup {t}
    /\ UNCHANGED <<clock, login, logins, granted, request, agents>>
Logout(t) ==
    /\ t <= logins
    /\ sessions' = [sessions EXCEPT ![t] = 0]
    /\ closed' = closed \cup {t}
    /\ UNCHANGED <<clock, login, logins, granted, request, agents>>

ExpiredByNext(t) == sessions[t] # 0 /\ sessions[t] <= clock + 1
Expired(t) == sessions[t] # 0 /\ sessions[t] <= clock

DeleteExpiredSessions ==
    /\ \E t \in Token : Expired(t)
    /\ sessions' = [t \in Token |-> IF Expired(t) THEN 0 ELSE sessions[t]]
    /\ UNCHANGED <<clock, login, logins, granted, closed, request, agents>>

-----------------------------------------------------------------------------
(* The admin API.                                                          *)

Asked(place, token) ==
    [at |-> place, token |-> token, since |-> clock, late |-> token \in closed,
     copy |-> Row("none", FALSE, 0)]

(* What a request asks for is told apart once it is authorised.            *)
Begin(r, t) ==
    /\ request[r] = NoRequest /\ t <= logins
    /\ request' = [request EXCEPT ![r] = Asked("begun", t)]
    /\ UNCHANGED <<clock, access, agents>>

(* server add and server rotate-token open the database themselves and     *)
(* need no session.                                                        *)
Command(r) ==
    /\ request[r] = NoRequest
    /\ request' = [request EXCEPT ![r] = Asked("authorized", 0)]
    /\ UNCHANGED <<clock, access, agents>>

Goto(r, place, copy) ==
    request' = [request EXCEPT ![r].at = place, ![r].copy = copy]
Answer(r) == request' = [request EXCEPT ![r] = NoRequest]

(* ServeHTTP: now is sampled before the session is read.                   *)
Authorize(r) ==
    /\ request[r].at = "begun" /\ GetSession(request[r].token, request[r].since)
    /\ Goto(r, "authorized", request[r].copy)
    /\ UNCHANGED <<clock, access, agents>>

Unauthorized(r) ==
    /\ request[r].at = "begun" /\ ~GetSession(request[r].token, request[r].since)
    /\ Answer(r)
    /\ UNCHANGED <<clock, access, agents>>

(* The repository fails: nothing is stored, the answer is a 500.           *)
RepositoryFails(r) ==
    /\ request[r].at \in {"begun", "authorized", "read"}
    /\ Answer(r)
    /\ UNCHANGED <<clock, access, agents>>

Authorized(r) == request[r].at = "authorized"
ByConsole(r) == Authorized(r) /\ request[r].token # 0
Present == server.state = "present"

(* A token is generated, its hash stored, and then it is answered.         *)
StoreSecret(r, row) ==
    /\ server.secret < MaxTokens
    /\ server' = row /\ Goto(r, "stored", row)
    /\ UNCHANGED <<clock, access, shown>>

(* One server is followed: a second one is created beside it.              *)
Create(r) ==
    /\ Authorized(r)
    /\ \/ server.state = "none" /\ StoreSecret(r, Row("present", TRUE, 1))
       \/ server.state # "none" /\ Answer(r) /\ UNCHANGED <<clock, access, agents>>

Rotated == [server EXCEPT !.secret = @ + 1]
RotateAnyway(r) ==
    /\ Authorized(r) /\ Present
    /\ \/ StoreSecret(r, Rotated)
       \/ server.secret < MaxTokens /\ Goto(r, "stored", Rotated) /\ UNCHANGED <<clock, access, agents>>
RotateUnaffected(r) ==
    /\ Authorized(r)
    /\ \/ Present /\ StoreSecret(r, Rotated)
       \/ ~Present /\ Goto(r, "stored", server) /\ UNCHANGED <<clock, access, agents>>
Rotate(r) ==
    /\ Authorized(r)
    /\ \/ Present /\ StoreSecret(r, Rotated)
       \/ ~Present /\ Answer(r) /\ UNCHANGED <<clock, access, agents>>

RespondSecret(r, arrives) ==
    /\ request[r].at = "stored"
    /\ shown' = IF arrives THEN request[r].copy.secret ELSE shown
    /\ Answer(r)
    /\ UNCHANGED <<clock, access, server>>

(* serveUpdateServer reads the row and writes it back in another           *)
(* transaction, which touches the edited columns only.                     *)
GetServer(r) ==
    /\ ByConsole(r)
    /\ \/ Present /\ Goto(r, "read", server)
       \/ ~Present /\ Answer(r)
    /\ UNCHANGED <<clock, access, agents>>

UpdateServerWhole(r, enabled) ==
    /\ request[r].at = "read"
    /\ server' = IF Present THEN [request[r].copy EXCEPT !.enabled = enabled] ELSE server
    /\ Answer(r)
    /\ UNCHANGED <<clock, access, shown>>
UpdateServer(r, enabled) ==
    /\ request[r].at = "read"
    /\ server' = IF Present THEN [server EXCEPT !.enabled = enabled] ELSE server
    /\ Answer(r)
    /\ UNCHANGED <<clock, access, shown>>

DeleteServer(r) ==
    /\ ByConsole(r)
    /\ server' = IF Present THEN [server EXCEPT !.state = "deleted"] ELSE server
    /\ Answer(r)
    /\ UNCHANGED <<clock, access, shown>>

-----------------------------------------------------------------------------
(* Time and the process.                                                   *)

(* A request lasts less than a tick: its calls have deadlines of seconds,  *)
(* a session lives for hours.                                              *)
Tick ==
    /\ clock < MaxTime
    /\ \A r \in Request : request[r] # NoRequest => request[r].since = clock
    /\ \A b \in Browser : login[b] # NoLogin => login[b].at = clock
    /\ clock' = clock + 1
    /\ UNCHANGED <<access, request, agents>>

(* What is stored stays; handlers are gone, and so are their answers.  A   *)
(* command in a shell is a process of its own.                             *)
Restart ==
    /\ login' = [b \in Browser |-> NoLogin]
    /\ request' = [r \in Request |-> IF request[r] # NoRequest /\ request[r].token = 0 THEN request[r] ELSE NoRequest]
    /\ UNCHANGED <<clock, sessions, logins, granted, closed, agents>>

ServeAuthorized(r) ==
    \/ Create(r) \/ Rotate(r) \/ RespondSecret(r, TRUE) \/ RespondSecret(r, FALSE)
    \/ GetServer(r) \/ UpdateServer(r, TRUE) \/ UpdateServer(r, FALSE) \/ DeleteServer(r)

Next ==
    \/ \E b \in Browser :
          \/ \E auth \in (clock - MaxAge - 1) .. (clock + Skew + 1) : StartLogin(b, auth)
          \/ CreateSession(b) \/ LoginFails(b)
    \/ \E t \in Token : Logout(t) \/ \E r \in Request : Begin(r, t)
    \/ \E r \in Request :
          Command(r) \/ Authorize(r) \/ Unauthorized(r) \/ RepositoryFails(r) \/ ServeAuthorized(r)
    \/ DeleteExpiredSessions \/ Tick \/ Restart

Spec == Init /\ [][Next]_vars

-----------------------------------------------------------------------------
(* Properties.                                                             *)

Acting(r) ==
    request[r].at \in {"authorized", "read", "stored"} /\ request[r].token # 0

(* Nobody acts through the console longer than MaxAge and TTL after        *)
(* Telegram signed for them: neither a replay of the init data, nor a slow *)
(* login, nor a request authorised at the last moment adds to it.          *)
AccessIsBounded ==
    \A r \in Request : Acting(r) =>
        clock <= granted[request[r].token].auth + MaxAge + TTL

(* A request begun after a logout was answered with success is refused,    *)
(* though another tab, or a lost answer, left a browser the cookie.        *)
LoggedOutStaysOut == \A r \in Request : Acting(r) => ~request[r].late

(* An administrator who logged in and did not ask for a logout is not      *)
(* logged out before the session's end, by a restart or by the cleanup.    *)
SessionLastsItsTerm ==
    \A t \in (1..logins) \ closed :
        clock < granted[t].expires => sessions[t] = granted[t].expires

(* A token that was answered is stored: it is the one the server's agent   *)
(* is known by, or one that a later rotation has replaced.                 *)
ShownTokenIsStored == shown <= server.secret

(* An edit works on a row read earlier, but does not take back a rotation  *)
(* or bring back a server that was deleted since.                          *)
EditsUndoNothing ==
    [][ /\ server.state = "deleted" => server' = server
        /\ server'.secret >= server.secret ]_vars
=============================================================================
