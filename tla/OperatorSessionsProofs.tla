----------------------- MODULE OperatorSessionsProofs -----------------------
(***************************************************************************)
(* Theorems about OperatorSessions, for every number of browsers, requests,*)
(* sessions and agent tokens, and for every life of a session.             *)
(*                                                                         *)
(* The inductive invariant follows a token from the login to the request:  *)
(* a login is dated by init data that was young enough, a row carries the  *)
(* expiry it was granted, a closed token has no row, and a request that    *)
(* acts was begun before that expiry and is not older than a tick.  Beside *)
(* it, the agent's token of a server is followed from the row to the       *)
(* answer, and a handler's copy of the row is one of a server that stood.  *)
(***************************************************************************)
EXTENDS OperatorSessions, TLAPS

-----------------------------------------------------------------------------
(* The inductive invariant.                                                *)

Live(r) == request[r] # NoRequest

LoginIsYoung == \A b \in Browser :
    login[b] # NoLogin => login[b].at - login[b].auth <= MaxAge

RowIsGranted == \A t \in Token :
    sessions[t] # 0 => t <= logins /\ sessions[t] = granted[t].expires

TermIsBounded == \A t \in 1..logins :
    granted[t].expires <= granted[t].auth + MaxAge + TTL

ClosedHasNoRow == \A t \in closed : t <= logins /\ sessions[t] = 0

RequestIsTimely == \A r \in Request : Live(r) =>
    /\ request[r].since <= clock /\ clock <= request[r].since + 1
    /\ request[r].token <= logins
    /\ request[r].late => request[r].token \in closed
    /\ Acting(r) => request[r].since < granted[request[r].token].expires /\ ~request[r].late

Access == LoginIsYoung /\ RowIsGranted /\ TermIsBounded /\ ClosedHasNoRow
          /\ RequestIsTimely /\ SessionLastsItsTerm

Unborn == server.state = "none" => server.secret = 0
AnswerIsStored == \A r \in Request :
    request[r].at = "stored" => request[r].copy.secret <= server.secret
Carries(r) == request[r].at \in {"read", "stored"}
CopyIsPresent == \A r \in Request : Carries(r) => request[r].copy.state = "present"
Agents == Unborn /\ AnswerIsStored /\ CopyIsPresent /\ ShownTokenIsStored

IInv == Types /\ Access /\ Agents

-----------------------------------------------------------------------------
(* Type correctness.                                                       *)

LEMMA Ranges ==
    /\ 0 \in 0..MaxLogins /\ 0 \in 0..MaxTokens /\ 1 \in Time
    /\ Time \subseteq Nat /\ Token \subseteq 0..MaxLogins /\ 0 \notin Token
  BY SessionsAssumption DEF Time, Token

(* A request that has got somewhere is a proper one.                       *)
LEMMA LiveIsRequest ==
    ASSUME Types, NEW r \in Request
    PROVE  /\ request[r].at # "none" => request[r] \in Requests
           /\ Live(r) => request[r] \in Requests /\ request[r].at # "none"
  BY DEF Types, Live, Requests, NoRequest

(* What a handler makes of its request is a request or the end of it.      *)
LEMMA MovesAreTyped ==
    ASSUME Types, NEW r \in Request, request[r].at # "none",
           NEW place \in {"authorized", "read", "stored"}, NEW copy \in Rows
    PROVE  /\ Goto(r, place, copy) => request' \in [Request -> Requests \cup {NoRequest}]
           /\ Answer(r) => request' \in [Request -> Requests \cup {NoRequest}]
<1>1. ASSUME Goto(r, place, copy)
      PROVE  request' \in [Request -> Requests \cup {NoRequest}]
  <2>1. [request[r] EXCEPT !.at = place, !.copy = copy] \in Requests
    BY LiveIsRequest DEF Requests
  <2>2. request' = [request EXCEPT ![r] = [request[r] EXCEPT !.at = place, !.copy = copy]]
    BY <1>1 DEF Goto
  <2> QED BY <2>1, <2>2 DEF Types
<1>2. Answer(r) => request' \in [Request -> Requests \cup {NoRequest}]
  BY DEF Answer, Types
<1> QED BY <1>1, <1>2

LEMMA NewRequestIsTyped ==
    ASSUME Types, NEW r \in Request, NEW place \in {"begun", "authorized"},
           NEW t \in 0..MaxLogins, request' = [request EXCEPT ![r] = Asked(place, t)]
    PROVE  request' \in [Request -> Requests \cup {NoRequest}]
<1>1. Asked(place, t) \in Requests
  BY Ranges DEF Asked, Requests, Row, Rows, Types
<1> QED BY <1>1 DEF Types

(* The steps of a handler that is authorised.                              *)
LEMMA ServingIsTyped ==
    ASSUME Types, NEW r \in Request, ServeAuthorized(r)
    PROVE  Types'
<1> USE SessionsAssumption, Ranges
<1>1. CASE Create(r)
  <2>1. request[r].at # "none"
    BY <1>1 DEF Create, Authorized
  <2>2. CASE StoreSecret(r, Row("present", TRUE, 1))
    <3>1. Row("present", TRUE, 1) \in Rows
      BY <2>2 DEF StoreSecret, Row, Rows, Types
    <3>2. request' \in [Request -> Requests \cup {NoRequest}]
      BY <2>1, <2>2, <3>1, MovesAreTyped DEF StoreSecret
    <3> QED BY <2>2, <3>1, <3>2 DEF StoreSecret, Types, access
  <2>3. CASE Answer(r) /\ UNCHANGED <<clock, access, agents>>
    BY <2>3 DEF Answer, Types, access, agents
  <2> QED BY <1>1, <2>2, <2>3 DEF Create
<1>2. CASE Rotate(r)
  <2>1. server.secret < MaxTokens => Rotated \in Rows
    BY DEF Rotated, Types, Rows
  <2> QED BY <1>2, <2>1, MovesAreTyped
          DEF Rotate, StoreSecret, Authorized, Types, access, agents
<1>3. CASE RespondSecret(r, TRUE) \/ RespondSecret(r, FALSE)
  <2>1. request[r].copy \in Rows /\ request[r].copy.secret \in 0..MaxTokens
    BY <1>3, LiveIsRequest DEF RespondSecret, Requests, Rows
  <2>2. request' \in [Request -> Requests \cup {NoRequest}]
    BY <1>3, <2>1, MovesAreTyped DEF RespondSecret
  <2> QED BY <1>3, <2>1, <2>2 DEF RespondSecret, Types, access
<1>4. CASE GetServer(r)
  BY <1>4, MovesAreTyped DEF GetServer, ByConsole, Authorized, Types, access, agents
<1>5. ASSUME NEW enabled \in BOOLEAN, UpdateServer(r, enabled)
      PROVE  Types'
  <2>1. server' \in Rows
    BY <1>5 DEF UpdateServer, Types, Rows
  <2>2. request' \in [Request -> Requests \cup {NoRequest}]
    BY <1>5, MovesAreTyped DEF UpdateServer, Types
  <2> QED BY <1>5, <2>1, <2>2 DEF UpdateServer, Types, access
<1>6. CASE DeleteServer(r)
  <2>1. server' \in Rows
    BY <1>6 DEF DeleteServer, Types, Rows
  <2>2. request' \in [Request -> Requests \cup {NoRequest}]
    BY <1>6, MovesAreTyped DEF DeleteServer, ByConsole, Authorized, Types
  <2> QED BY <1>6, <2>1, <2>2 DEF DeleteServer, Types, access
<1> QED BY <1>1, <1>2, <1>3, <1>4, <1>5, <1>6 DEF ServeAuthorized

LEMMA TypeHolds ==
    ASSUME Types, [Next]_vars
    PROVE  Types'
<1> USE SessionsAssumption, Ranges
<1>1. ASSUME NEW b \in Browser, NEW auth \in (clock - MaxAge - 1) .. (clock + Skew + 1),
             StartLogin(b, auth)
      PROVE  Types'
  BY <1>1 DEF StartLogin, Types, Time, agents
<1>2. ASSUME NEW b \in Browser, CreateSession(b)
      PROVE  Types'
  <2>1. logins' \in Token /\ login[b].at + TTL \in Nat /\ login[b].auth \in Int
    <3>1. logins' = logins + 1 /\ logins < MaxLogins /\ logins \in 0..MaxLogins
      BY <1>2 DEF CreateSession, Types
    <3>2. login[b] \in [at: 0..MaxTime, auth: Int]
      BY DEF Types
    <3> QED BY <3>1, <3>2 DEF Token
  <2>2. sessions' \in [Token -> Nat] /\ granted' \in [Token -> [auth: Int, expires: Nat]]
    BY <1>2, <2>1 DEF CreateSession, Types
  <2>3. login' \in [Browser -> [at: 0..MaxTime, auth: Int]]
    BY <1>2 DEF CreateSession, Types, NoLogin
  <2> QED BY <1>2, <2>1, <2>2, <2>3 DEF CreateSession, Types, agents, Token
<1>3. ASSUME NEW b \in Browser, LoginFails(b)
      PROVE  Types'
  BY <1>3 DEF LoginFails, Types, NoLogin, agents
<1>4. ASSUME NEW t \in Token, Logout(t)
      PROVE  Types'
  BY <1>4 DEF Logout, Types, agents
<1>5. ASSUME NEW t \in Token, NEW r \in Request, Begin(r, t)
      PROVE  Types'
  BY <1>5, NewRequestIsTyped DEF Begin, Types, access, agents
<1>6. ASSUME NEW r \in Request, Command(r)
      PROVE  Types'
  BY <1>6, NewRequestIsTyped DEF Command, Types, access, agents
<1>7. ASSUME NEW r \in Request, Authorize(r) \/ Unauthorized(r) \/ RepositoryFails(r)
      PROVE  Types'
  <2>1. request[r] \in Requests /\ request[r].at # "none" /\ request[r].copy \in Rows
    BY <1>7, LiveIsRequest DEF Authorize, Unauthorized, RepositoryFails, Requests
  <2>2. request' \in [Request -> Requests \cup {NoRequest}]
    BY <1>7, <2>1, MovesAreTyped DEF Authorize, Unauthorized, RepositoryFails
  <2> QED BY <1>7, <2>2 DEF Authorize, Unauthorized, RepositoryFails, Types, access, agents
<1>8. CASE DeleteExpiredSessions
  BY <1>8 DEF DeleteExpiredSessions, Types, agents
<1>9. CASE Tick
  BY <1>9 DEF Tick, Types, Time, access, agents
<1>10. CASE Restart
  BY <1>10 DEF Restart, Types, NoLogin, agents
<1>11. CASE UNCHANGED vars
  BY <1>11 DEF vars, access, agents, Types
<1> QED BY <1>1, <1>2, <1>3, <1>4, <1>5, <1>6, <1>7, <1>8, <1>9, <1>10, <1>11,
           ServingIsTyped DEF Next

-----------------------------------------------------------------------------
(* Access.                                                                 *)

(* A step that only carries a request on, or ends it, leaves every access  *)
(* right as it was.                                                        *)
CarriesOn(r) ==
    /\ UNCHANGED <<clock, access>>
    /\ \E q \in Requests \cup {NoRequest} :
        /\ request' = [request EXCEPT ![r] = q]
        /\ q # NoRequest =>
            /\ request[r].at \in {"authorized", "read", "stored"}
            /\ q.token = request[r].token /\ q.since = request[r].since /\ q.late = request[r].late

LEMMA MovesCarryOn ==
    ASSUME Types, NEW r \in Request, UNCHANGED <<clock, access>>,
           \/ Answer(r)
           \/ /\ request[r].at \in {"authorized", "read", "stored"}
              /\ \E place \in {"authorized", "read", "stored"}, copy \in Rows : Goto(r, place, copy)
    PROVE  CarriesOn(r)
<1>1. CASE Answer(r)
  BY <1>1 DEF Answer, CarriesOn
<1>2. ASSUME NEW place \in {"authorized", "read", "stored"}, NEW copy \in Rows,
             Goto(r, place, copy), request[r].at \in {"authorized", "read", "stored"}
      PROVE  CarriesOn(r)
  <2> DEFINE q == [request[r] EXCEPT !.at = place, !.copy = copy]
  <2>1. request[r] \in Requests
    BY <1>2, LiveIsRequest
  <2>2. /\ q \in Requests
        /\ q.token = request[r].token /\ q.since = request[r].since /\ q.late = request[r].late
    BY <2>1 DEF Requests
  <2>3. request' = [request EXCEPT ![r] = q]
    BY <1>2 DEF Goto
  <2> QED BY <1>2, <2>2, <2>3 DEF CarriesOn
<1> QED BY <1>1, <1>2

LEMMA ServingCarriesOn ==
    ASSUME Types, NEW r \in Request, ServeAuthorized(r)
    PROVE  CarriesOn(r)
<1>1. CASE Create(r)
  <2>1. Row("present", TRUE, 1) \in Rows \/ Answer(r)
    BY <1>1, SessionsAssumption DEF Create, StoreSecret, Row, Rows, Types
  <2> QED BY <1>1, <2>1, MovesCarryOn DEF Create, StoreSecret, Authorized, access, agents
<1>2. CASE Rotate(r)
  <2>1. Rotated \in Rows \/ Answer(r)
    BY <1>2, SessionsAssumption DEF Rotate, StoreSecret, Rotated, Rows, Types
  <2> QED BY <1>2, <2>1, MovesCarryOn DEF Rotate, StoreSecret, Authorized, access, agents
<1>3. CASE RespondSecret(r, TRUE) \/ RespondSecret(r, FALSE)
  BY <1>3, MovesCarryOn DEF RespondSecret, access
<1>4. CASE GetServer(r)
  BY <1>4, MovesCarryOn DEF GetServer, ByConsole, Authorized, Types, access, agents
<1>5. CASE UpdateServer(r, TRUE) \/ UpdateServer(r, FALSE)
  BY <1>5, MovesCarryOn DEF UpdateServer, access
<1>6. CASE DeleteServer(r)
  BY <1>6, MovesCarryOn DEF DeleteServer, access
<1> QED BY <1>1, <1>2, <1>3, <1>4, <1>5, <1>6 DEF ServeAuthorized

LEMMA CarryingOnKeepsAccess ==
    ASSUME Types, Access, NEW r \in Request, CarriesOn(r)
    PROVE  Access'
<1>1. PICK q \in Requests \cup {NoRequest} :
        /\ request' = [request EXCEPT ![r] = q]
        /\ q # NoRequest =>
            /\ request[r].at \in {"authorized", "read", "stored"}
            /\ q.token = request[r].token /\ q.since = request[r].since /\ q.late = request[r].late
  BY DEF CarriesOn
<1>2. RequestIsTimely'
  <2> SUFFICES ASSUME NEW p \in Request, Live(p)'
               PROVE  /\ request'[p].since <= clock' /\ clock' <= request'[p].since + 1
                      /\ request'[p].token <= logins'
                      /\ request'[p].late => request'[p].token \in closed'
                      /\ Acting(p)' => /\ request'[p].since < granted'[request'[p].token].expires
                                       /\ ~request'[p].late
    BY DEF RequestIsTimely
  <2>1. CASE p = r
    <3>1. request'[p] = q /\ q # NoRequest
      BY <1>1, <2>1 DEF Live, Types
    <3>2. Live(r) /\ (request[r].token # 0 => Acting(r))
      BY <1>1, <3>1 DEF Live, NoRequest, Acting
    <3> QED BY <1>1, <2>1, <3>1, <3>2 DEF CarriesOn, Access, RequestIsTimely, Acting, access
  <2>2. CASE p # r
    <3>1. request'[p] = request[p]
      BY <1>1, <2>2 DEF Types
    <3> QED BY <3>1 DEF CarriesOn, Access, RequestIsTimely, Acting, Live, access
  <2> QED BY <2>1, <2>2
<1> QED BY <1>2 DEF CarriesOn, Access, LoginIsYoung, RowIsGranted, TermIsBounded,
                    ClosedHasNoRow, SessionLastsItsTerm, access

(* A session that is created was never closed, and no request has it yet.  *)
LEMMA CreatingKeepsAccess ==
    ASSUME Types, Access, NEW b \in Browser, CreateSession(b)
    PROVE  Access'
<1> USE SessionsAssumption
<1> DEFINE t == logins + 1
<1>1. /\ t \in Token /\ logins' = t /\ t \notin closed
      /\ sessions' = [sessions EXCEPT ![t] = login[b].at + TTL]
      /\ granted' = [granted EXCEPT ![t] = [auth |-> login[b].auth, expires |-> login[b].at + TTL]]
      /\ UNCHANGED <<clock, closed, request>>
  BY DEF CreateSession, Types, Token, Access, ClosedHasNoRow
<1>2. /\ login[b].at \in Nat /\ login[b].auth \in Int /\ login[b].at - login[b].auth <= MaxAge
  BY DEF CreateSession, Types, Access, LoginIsYoung
<1>3. LoginIsYoung'
  BY DEF CreateSession, Access, LoginIsYoung, Types
<1>4. ASSUME NEW u \in Token
      PROVE  /\ sessions'[u] = IF u = t THEN login[b].at + TTL ELSE sessions[u]
             /\ granted'[u].expires = IF u = t THEN login[b].at + TTL ELSE granted[u].expires
             /\ granted'[u].auth = IF u = t THEN login[b].auth ELSE granted[u].auth
  BY <1>1 DEF Types
<1>5. RowIsGranted' /\ TermIsBounded' /\ ClosedHasNoRow' /\ SessionLastsItsTerm'
  <2>1. logins \in Nat /\ closed \subseteq Token /\ Token \subseteq Nat
    BY DEF Types, Token
  <2>2. 1..logins' \subseteq Token /\ \A u \in 1..logins' : u # t => u \in 1..logins
    <3>1. logins' = logins + 1 /\ logins + 1 \in 1..MaxLogins
      BY <1>1 DEF Token
    <3> QED BY <2>1, <3>1 DEF Token
  <2>3. RowIsGranted'
    BY <1>1, <1>4, <2>1 DEF Access, RowIsGranted
  <2>4. TermIsBounded'
    BY <1>2, <1>4, <2>2 DEF Access, TermIsBounded
  <2>5. ClosedHasNoRow'
    <3> SUFFICES ASSUME NEW u \in closed
                 PROVE  u <= t /\ sessions'[u] = 0
      BY <1>1 DEF ClosedHasNoRow
    <3>1. u \in Token /\ u \in Nat /\ u # t
      BY <1>1, <2>1
    <3>2. u <= logins /\ sessions[u] = 0
      BY DEF Access, ClosedHasNoRow
    <3> QED BY <1>4, <2>1, <3>1, <3>2
  <2>6. SessionLastsItsTerm'
    BY <1>1, <1>4, <2>2 DEF Access, SessionLastsItsTerm
  <2> QED BY <2>3, <2>4, <2>5, <2>6
<1>6. RequestIsTimely'
  <2> SUFFICES ASSUME NEW r \in Request, Live(r)
               PROVE  /\ request[r].since <= clock /\ clock <= request[r].since + 1
                      /\ request[r].token <= logins'
                      /\ request[r].late => request[r].token \in closed
                      /\ Acting(r) => /\ request[r].since < granted'[request[r].token].expires
                                      /\ ~request[r].late
    BY <1>1 DEF RequestIsTimely, Live, Acting
  <2>1. request[r].token \in 0..MaxLogins /\ request[r].token <= logins
    BY LiveIsRequest DEF Requests, Access, RequestIsTimely
  <2>2. Acting(r) => granted'[request[r].token].expires = granted[request[r].token].expires
    <3>1. logins \in Nat
      BY DEF Types
    <3>2. Acting(r) => request[r].token \in Token /\ request[r].token # t
      BY <2>1, <3>1 DEF Acting, Token
    <3> QED BY <1>4, <3>2
  <2> QED BY <1>1, <2>1, <2>2 DEF Access, RequestIsTimely, Types
<1> QED BY <1>3, <1>5, <1>6 DEF Access

LEMMA ClosingKeepsAccess ==
    ASSUME Types, Access, NEW t \in Token, Logout(t)
    PROVE  Access'
<1>1. /\ t <= logins /\ closed' = closed \cup {t}
      /\ \A u \in Token : sessions'[u] = IF u = t THEN 0 ELSE sessions[u]
      /\ UNCHANGED <<clock, login, logins, granted, request>>
  BY DEF Logout, Types
<1>2. RowIsGranted' /\ TermIsBounded' /\ LoginIsYoung'
  BY <1>1 DEF Access, RowIsGranted, TermIsBounded, LoginIsYoung
<1>3. ClosedHasNoRow'
  BY <1>1 DEF Access, ClosedHasNoRow, Types
<1>4. RequestIsTimely'
  BY <1>1 DEF Access, RequestIsTimely, Live, Acting
<1>5. SessionLastsItsTerm'
  <2>1. 1..logins \subseteq Token
    BY SessionsAssumption DEF Types, Token
  <2> QED BY <1>1, <2>1 DEF Access, SessionLastsItsTerm
<1> QED BY <1>2, <1>3, <1>4, <1>5 DEF Access

LEMMA CleaningKeepsAccess ==
    ASSUME Types, Access, DeleteExpiredSessions
    PROVE  Access'
<1>1. /\ \A u \in Token : sessions'[u] = IF Expired(u) THEN 0 ELSE sessions[u]
      /\ UNCHANGED <<clock, login, logins, granted, closed, request>>
  BY DEF DeleteExpiredSessions, Types
<1>2. RowIsGranted' /\ TermIsBounded' /\ LoginIsYoung'
  BY <1>1 DEF Access, RowIsGranted, TermIsBounded, LoginIsYoung
<1>3. ClosedHasNoRow'
  BY <1>1 DEF Access, ClosedHasNoRow, Types
<1>4. RequestIsTimely'
  BY <1>1 DEF Access, RequestIsTimely, Live, Acting
<1>5. SessionLastsItsTerm'
  <2> SUFFICES ASSUME NEW u \in (1..logins) \ closed, clock < granted[u].expires
               PROVE  sessions'[u] = granted[u].expires
    BY <1>1 DEF SessionLastsItsTerm
  <2>1. u \in Token /\ clock \in Nat /\ sessions[u] \in Nat
    BY SessionsAssumption, Ranges DEF Types, Token
  <2>2. sessions[u] = granted[u].expires
    BY DEF Access, SessionLastsItsTerm
  <2>3. ~Expired(u)
    BY <2>1, <2>2 DEF Expired
  <2> QED BY <1>1, <2>1, <2>2, <2>3
<1> QED BY <1>2, <1>3, <1>4, <1>5 DEF Access

(* A request begins now, with a token that was issued; it is late if the   *)
(* token was closed.                                                       *)
LEMMA BeginningKeepsAccess ==
    ASSUME Types, Access, NEW r \in Request, UNCHANGED <<clock, access>>,
           NEW t \in 0..logins, NEW place \in {"begun", "authorized"},
           place = "begun" \/ t = 0,
           request' = [request EXCEPT ![r] = Asked(place, t)]
    PROVE  Access'
<1>1. RequestIsTimely'
  <2> SUFFICES ASSUME NEW p \in Request, Live(p)'
               PROVE  /\ request'[p].since <= clock /\ clock <= request'[p].since + 1
                      /\ request'[p].token <= logins
                      /\ request'[p].late => request'[p].token \in closed
                      /\ Acting(p)' => /\ request'[p].since < granted[request'[p].token].expires
                                       /\ ~request'[p].late
    BY DEF RequestIsTimely, access
  <2>1. CASE p = r
    <3>1. request'[p] = Asked(place, t) /\ clock \in Nat /\ logins \in Nat
      BY <2>1, Ranges DEF Types
    <3>2. ~Acting(p)'
      BY <3>1 DEF Acting, Asked
    <3>3. request'[p].late => request'[p].token \in closed
      <4>1. Asked(place, t).token = t
        BY DEF Asked
      <4>2. CASE t \in closed
        BY <3>1, <4>1, <4>2
      <4>3. CASE t \notin closed
        <5>1. (t \in closed) = FALSE
          BY <4>3
        <5>2. Asked(place, t).late = FALSE
          BY <5>1 DEF Asked
        <5> QED BY <3>1, <5>2
      <4> QED BY <4>2, <4>3
    <3> QED BY <3>1, <3>2, <3>3 DEF Asked
  <2>2. CASE p # r
    <3>1. request'[p] = request[p]
      BY <2>2 DEF Types
    <3> QED BY <3>1 DEF Access, RequestIsTimely, Acting, Live, access
  <2> QED BY <2>1, <2>2
<1> QED BY <1>1 DEF Access, LoginIsYoung, RowIsGranted, TermIsBounded,
                    ClosedHasNoRow, SessionLastsItsTerm, access

(* An authorised request has a token with a row: it was not closed, and it *)
(* was begun before the expiry the row carries.                            *)
LEMMA AuthorizingKeepsAccess ==
    ASSUME Types, Access, NEW r \in Request, Authorize(r)
    PROVE  Access'
<1> DEFINE t == request[r].token
<1>1. /\ request[r] \in Requests /\ Live(r) /\ GetSession(t, request[r].since)
      /\ request'[r] = [request[r] EXCEPT !.at = "authorized"]
      /\ \A p \in Request : p # r => request'[p] = request[p]
      /\ UNCHANGED <<clock, access>>
  <2>1. request[r] \in Requests /\ Live(r)
    BY LiveIsRequest DEF Authorize, Live, NoRequest
  <2>2. request' = [request EXCEPT ![r] = [request[r] EXCEPT !.at = "authorized", !.copy = request[r].copy]]
    BY DEF Authorize, Goto
  <2>3. [request[r] EXCEPT !.at = "authorized", !.copy = request[r].copy]
          = [request[r] EXCEPT !.at = "authorized"]
    BY <2>1 DEF Requests
  <2> QED BY <2>1, <2>2, <2>3 DEF Authorize, Types
<1>2. t # 0 => /\ t \in Token /\ t \notin closed
               /\ request[r].since < granted[t].expires
  <2>1. t # 0 => t \in Token
    BY <1>1 DEF Requests, Token
  <2> QED BY <1>1, <2>1 DEF GetSession, Access, ClosedHasNoRow, RowIsGranted
<1>3. RequestIsTimely'
  <2> SUFFICES ASSUME NEW p \in Request, Live(p)'
               PROVE  /\ request'[p].since <= clock /\ clock <= request'[p].since + 1
                      /\ request'[p].token <= logins
                      /\ request'[p].late => request'[p].token \in closed
                      /\ Acting(p)' => /\ request'[p].since < granted[request'[p].token].expires
                                       /\ ~request'[p].late
    BY <1>1 DEF RequestIsTimely, access
  <2>1. CASE p = r
    <3>1. /\ request'[p].token = t /\ request'[p].since = request[r].since
          /\ request'[p].late = request[r].late
      BY <1>1, <2>1 DEF Requests
    <3> QED BY <1>1, <1>2, <3>1 DEF Access, RequestIsTimely, Acting
  <2>2. CASE p # r
    BY <1>1, <2>2 DEF Access, RequestIsTimely, Acting, Live
  <2> QED BY <2>1, <2>2
<1> QED BY <1>1, <1>3 DEF Access, LoginIsYoung, RowIsGranted, TermIsBounded,
                          ClosedHasNoRow, SessionLastsItsTerm, access

LEMMA AccessHolds ==
    ASSUME Types, Access, [Next]_vars
    PROVE  Access'
<1> USE SessionsAssumption, Ranges
<1>1. ASSUME NEW b \in Browser, NEW auth \in (clock - MaxAge - 1) .. (clock + Skew + 1),
             StartLogin(b, auth)
      PROVE  Access'
  <2>1. LoginIsYoung'
    BY <1>1 DEF StartLogin, VerifyInitData, Access, LoginIsYoung, Types
  <2> QED BY <1>1, <2>1 DEF StartLogin, Access, RowIsGranted, TermIsBounded, ClosedHasNoRow,
                            RequestIsTimely, SessionLastsItsTerm, Live, Acting
<1>2. ASSUME NEW b \in Browser, LoginFails(b)
      PROVE  Access'
  <2>1. LoginIsYoung'
    BY <1>2 DEF LoginFails, Access, LoginIsYoung, Types
  <2> QED BY <1>2, <2>1 DEF LoginFails, Access, RowIsGranted, TermIsBounded, ClosedHasNoRow,
                            RequestIsTimely, SessionLastsItsTerm, Live, Acting
<1>3. ASSUME NEW t \in Token, NEW r \in Request, Begin(r, t)
      PROVE  Access'
  <2>1. t \in 0..logins
    BY <1>3 DEF Begin, Token, Types
  <2> QED BY <1>3, <2>1, BeginningKeepsAccess DEF Begin
<1>4. ASSUME NEW r \in Request, Command(r)
      PROVE  Access'
  <2>1. 0 \in 0..logins
    BY DEF Types
  <2> QED BY <1>4, <2>1, BeginningKeepsAccess DEF Command
<1>5. ASSUME NEW r \in Request, Unauthorized(r) \/ RepositoryFails(r)
      PROVE  Access'
  <2>1. CarriesOn(r)
    BY <1>5, MovesCarryOn DEF Unauthorized, RepositoryFails
  <2> QED BY <2>1, CarryingOnKeepsAccess
<1>6. CASE Tick
  <2>1. RequestIsTimely'
    BY <1>6 DEF Tick, Access, RequestIsTimely, Live, Acting, Types, access
  <2>2. SessionLastsItsTerm'
    <3>1. \A t \in 1..logins : granted[t].expires \in Nat
      BY DEF Types, Token
    <3> QED BY <1>6, <3>1 DEF Tick, Access, SessionLastsItsTerm, Types, access
  <2> QED BY <1>6, <2>1, <2>2 DEF Tick, Access, LoginIsYoung, RowIsGranted, TermIsBounded,
                                  ClosedHasNoRow, access
<1>7. CASE Restart
  <2>1. LoginIsYoung'
    BY <1>7 DEF Restart, LoginIsYoung
  <2>2. RequestIsTimely'
    <3>1. \A r \in Request : Live(r)' => request'[r] = request[r]
      BY <1>7 DEF Restart, Live
    <3> QED BY <1>7, <3>1 DEF Restart, Access, RequestIsTimely, Live, Acting
  <2> QED BY <1>7, <2>1, <2>2 DEF Restart, Access, RowIsGranted, TermIsBounded,
                                  ClosedHasNoRow, SessionLastsItsTerm
<1>8. CASE UNCHANGED vars
  BY <1>8 DEF vars, access, agents, Access, LoginIsYoung, RowIsGranted, TermIsBounded,
              ClosedHasNoRow, RequestIsTimely, SessionLastsItsTerm, Live, Acting
<1> QED BY <1>1, <1>2, <1>3, <1>4, <1>5, <1>6, <1>7, <1>8, CreatingKeepsAccess,
           ClosingKeepsAccess, CleaningKeepsAccess, AuthorizingKeepsAccess,
           ServingCarriesOn, CarryingOnKeepsAccess DEF Next

-----------------------------------------------------------------------------
(* The agent's token.                                                      *)

(* What a step may do to the server's row: a row that was deleted stays as *)
(* it is, and no step takes a token back.                                  *)
Onward ==
    /\ server.state = "deleted" => server' = server
    /\ server'.secret >= server.secret

(* The row and the answers that are still to be given are not touched by   *)
(* a step that leaves the row and every handler's copy as they were.       *)
LEMMA ElsewhereKeepsAgents ==
    ASSUME Types, Agents, UNCHANGED agents,
           \A p \in Request : request'[p].at \in {"read", "stored"} =>
               request'[p].at = request[p].at /\ request'[p].copy = request[p].copy
    PROVE  Agents' /\ Onward
  BY DEF Agents, Unborn, AnswerIsStored, Carries, CopyIsPresent, ShownTokenIsStored, Onward,
         agents, Types, Rows

LEMMA AnsweringStoresNothing ==
    ASSUME Types, NEW r \in Request, Answer(r), NEW p \in Request,
           request'[p].at \in {"read", "stored"}
    PROVE  p # r /\ request'[p] = request[p]
  BY DEF Answer, Types, NoRequest

(* A token is stored in the row and carried by the request that will       *)
(* answer it; it replaces an older one.                                    *)
LEMMA StoringKeepsAgents ==
    ASSUME Types, Agents, NEW r \in Request, NEW row \in Rows,
           row.state = "present", row.secret >= server.secret,
           server.state # "deleted", request[r] \in Requests, StoreSecret(r, row)
    PROVE  Agents' /\ Onward
<1>1. server' = row /\ shown' = shown /\ server.secret \in Nat /\ row.secret \in Nat
  BY DEF StoreSecret, Types, Rows
<1>2. AnswerIsStored'
  <2> SUFFICES ASSUME NEW p \in Request, request'[p].at = "stored"
               PROVE  request'[p].copy.secret <= row.secret
    BY <1>1 DEF AnswerIsStored
  <2>1. CASE p = r
    <3>1. request'[p] = [request[r] EXCEPT !.at = "stored", !.copy = row]
      BY <2>1 DEF StoreSecret, Goto, Types
    <3>2. request'[p].copy = row
      BY <3>1 DEF Requests
    <3> QED BY <1>1, <3>2
  <2>2. CASE p # r
    <3>1. request'[p] = request[p]
      BY <2>2 DEF StoreSecret, Goto, Types
    <3>2. request[p].copy.secret <= server.secret /\ request[p].copy.secret \in Nat
      BY <3>1, LiveIsRequest DEF Agents, AnswerIsStored, Requests, Rows
    <3> QED BY <1>1, <3>1, <3>2
  <2> QED BY <2>1, <2>2
<1>3. CopyIsPresent'
  <2> SUFFICES ASSUME NEW p \in Request, request'[p].at \in {"read", "stored"}
               PROVE  request'[p].copy.state = "present"
    BY DEF CopyIsPresent, Carries
  <2>1. CASE p = r
    <3>1. request'[p] = [request[r] EXCEPT !.at = "stored", !.copy = row]
      BY <2>1 DEF StoreSecret, Goto, Types
    <3> QED BY <3>1 DEF Requests
  <2>2. CASE p # r
    <3>1. request'[p] = request[p]
      BY <2>2 DEF StoreSecret, Goto, Types
    <3> QED BY <3>1 DEF Agents, CopyIsPresent, Carries
  <2> QED BY <2>1, <2>2
<1>4. Unborn' /\ ShownTokenIsStored' /\ Onward
  BY <1>1 DEF Agents, Unborn, ShownTokenIsStored, Onward, Types
<1> QED BY <1>2, <1>3, <1>4 DEF Agents

LEMMA ServingKeepsAgents ==
    ASSUME Types, Agents, NEW r \in Request, ServeAuthorized(r)
    PROVE  Agents' /\ Onward
<1> USE SessionsAssumption
<1>1. CASE Create(r)
  <2>1. CASE server.state = "none" /\ StoreSecret(r, Row("present", TRUE, 1))
    <3>1. /\ Row("present", TRUE, 1) \in Rows /\ Row("present", TRUE, 1).state = "present"
          /\ Row("present", TRUE, 1).secret >= server.secret
      BY <2>1 DEF StoreSecret, Row, Rows, Agents, Unborn, Types
    <3> QED BY <1>1, <2>1, <3>1, StoringKeepsAgents, LiveIsRequest DEF Create, Authorized
  <2>2. CASE Answer(r) /\ UNCHANGED agents
    BY <2>2, AnsweringStoresNothing, ElsewhereKeepsAgents
  <2> QED BY <1>1, <2>1, <2>2 DEF Create
<1>2. CASE Rotate(r)
  <2>1. CASE Present /\ StoreSecret(r, Rotated)
    <3>1. Rotated \in Rows /\ Rotated.state = "present" /\ Rotated.secret >= server.secret
      BY <2>1 DEF StoreSecret, Rotated, Rows, Present, Types
    <3> QED BY <1>2, <2>1, <3>1, StoringKeepsAgents, LiveIsRequest DEF Rotate, Authorized, Present
  <2>2. CASE Answer(r) /\ UNCHANGED agents
    BY <2>2, AnsweringStoresNothing, ElsewhereKeepsAgents
  <2> QED BY <1>2, <2>1, <2>2 DEF Rotate
<1>3. ASSUME NEW arrives \in BOOLEAN, RespondSecret(r, arrives)
      PROVE  Agents' /\ Onward
  <2>1. /\ shown' \in {shown, request[r].copy.secret}
        /\ server' = server /\ request[r].at = "stored" /\ Answer(r)
    BY <1>3 DEF RespondSecret
  <2>2. AnswerIsStored' /\ CopyIsPresent'
    BY <2>1, AnsweringStoresNothing DEF AnswerIsStored, CopyIsPresent, Carries, Agents
  <2> QED BY <2>1, <2>2 DEF Agents, Unborn, AnswerIsStored, ShownTokenIsStored, Onward,
                            Types, Rows
<1>4. CASE GetServer(r)
  <2>1. CASE Present /\ Goto(r, "read", server) /\ UNCHANGED agents
    <3>1. request[r] \in Requests
      BY <1>4, LiveIsRequest DEF GetServer, ByConsole, Authorized
    <3>2. request'[r] = [request[r] EXCEPT !.at = "read", !.copy = server]
      BY <2>1 DEF Goto, Types
    <3>3. request'[r].at = "read" /\ request'[r].copy = server
      BY <3>1, <3>2 DEF Requests
    <3>4. \A p \in Request : p # r => request'[p] = request[p]
      BY <2>1 DEF Goto, Types
    <3>5. AnswerIsStored' /\ CopyIsPresent'
      BY <2>1, <3>3, <3>4
         DEF Agents, AnswerIsStored, CopyIsPresent, Carries, Present, agents
    <3> QED BY <2>1, <3>5 DEF Agents, Unborn, ShownTokenIsStored, Onward, agents, Types, Rows
  <2>2. CASE Answer(r) /\ UNCHANGED agents
    BY <2>2, AnsweringStoresNothing, ElsewhereKeepsAgents
  <2> QED BY <1>4, <2>1, <2>2 DEF GetServer
<1>5. ASSUME Answer(r), shown' = shown, server'.secret = server.secret,
             server'.state # "none" \/ server' = server,
             server.state = "deleted" => server' = server
      PROVE  Agents' /\ Onward
  <2>1. AnswerIsStored' /\ CopyIsPresent'
    BY <1>5, AnsweringStoresNothing DEF AnswerIsStored, CopyIsPresent, Carries, Agents
  <2> QED BY <1>5, <2>1 DEF Agents, Unborn, ShownTokenIsStored, Onward, Types, Rows
<1>6. ASSUME NEW enabled \in BOOLEAN, UpdateServer(r, enabled)
      PROVE  Agents' /\ Onward
  <2>1. /\ server'.secret = server.secret /\ server'.state = server.state
        /\ server.state = "deleted" => server' = server
    BY <1>6 DEF UpdateServer, Present, Types, Rows
  <2>2. server'.state # "none" \/ server' = server
    BY <1>6, <2>1 DEF UpdateServer, Present
  <2> QED BY <1>5, <1>6, <2>1, <2>2 DEF UpdateServer
<1>7. CASE DeleteServer(r)
  <2>1. /\ server'.secret = server.secret
        /\ server'.state # "none" \/ server' = server
        /\ server.state = "deleted" => server' = server
    BY <1>7 DEF DeleteServer, Present, Types, Rows
  <2> QED BY <1>5, <1>7, <2>1 DEF DeleteServer
<1> QED BY <1>1, <1>2, <1>3, <1>4, <1>6, <1>7 DEF ServeAuthorized

LEMMA AgentsHold ==
    ASSUME Types, Agents, [Next]_vars
    PROVE  Agents' /\ Onward
<1>1. ASSUME NEW r \in Request, NEW t \in 0..MaxLogins, NEW place \in {"begun", "authorized"},
             request' = [request EXCEPT ![r] = Asked(place, t)], UNCHANGED agents
      PROVE  Agents' /\ Onward
  <2>1. \A p \in Request : request'[p].at \in {"read", "stored"} => request'[p] = request[p]
    BY <1>1 DEF Asked, Types
  <2> QED BY <1>1, <2>1, ElsewhereKeepsAgents
<1>2. ASSUME NEW r \in Request, Authorize(r)
      PROVE  Agents' /\ Onward
  <2>1. request[r] \in Requests
    BY <1>2, LiveIsRequest DEF Authorize
  <2>2. request'[r] = [request[r] EXCEPT !.at = "authorized", !.copy = request[r].copy]
    BY <1>2 DEF Authorize, Goto, Types
  <2>3. request'[r].at = "authorized"
    BY <2>1, <2>2 DEF Requests
  <2>4. \A p \in Request : request'[p].at \in {"read", "stored"} => request'[p] = request[p]
    BY <1>2, <2>3 DEF Authorize, Goto, Types
  <2> QED BY <1>2, <2>4, ElsewhereKeepsAgents DEF Authorize
<1>3. ASSUME NEW r \in Request, Unauthorized(r) \/ RepositoryFails(r)
      PROVE  Agents' /\ Onward
  BY <1>3, AnsweringStoresNothing, ElsewhereKeepsAgents DEF Unauthorized, RepositoryFails
<1>4. CASE Restart
  <2>1. \A p \in Request : request'[p].at \in {"read", "stored"} => request'[p] = request[p]
    BY <1>4 DEF Restart, NoRequest
  <2> QED BY <1>4, <2>1, ElsewhereKeepsAgents DEF Restart
<1>5. CASE UNCHANGED <<request, agents>>
  BY <1>5, ElsewhereKeepsAgents
<1>6. ASSUME NEW t \in Token, NEW r \in Request, Begin(r, t)
      PROVE  Agents' /\ Onward
  BY <1>1, <1>6, Ranges DEF Begin
<1>7. ASSUME NEW r \in Request, Command(r)
      PROVE  Agents' /\ Onward
  BY <1>1, <1>7, Ranges DEF Command
<1>8. ASSUME NEW b \in Browser, NEW auth \in (clock - MaxAge - 1) .. (clock + Skew + 1),
             StartLogin(b, auth)
      PROVE  UNCHANGED <<request, agents>>
  BY <1>8 DEF StartLogin
<1>9. ASSUME NEW b \in Browser, CreateSession(b) \/ LoginFails(b)
      PROVE  UNCHANGED <<request, agents>>
  BY <1>9 DEF CreateSession, LoginFails
<1>10. ASSUME NEW t \in Token, Logout(t)
       PROVE  UNCHANGED <<request, agents>>
  BY <1>10 DEF Logout
<1>11. ASSUME DeleteExpiredSessions \/ Tick \/ UNCHANGED vars
       PROVE  UNCHANGED <<request, agents>>
  BY <1>11 DEF DeleteExpiredSessions, Tick, vars
<1> QED BY <1>2, <1>3, <1>4, <1>5, <1>6, <1>7, <1>8, <1>9, <1>10, <1>11, ServingKeepsAgents
        DEF Next

-----------------------------------------------------------------------------
(* The theorems.                                                           *)

LEMMA InitIInv == Init => IInv
<1> SUFFICES ASSUME Init PROVE IInv
  OBVIOUS
<1> USE SessionsAssumption, Ranges
<1>1. Types
  BY DEF Init, Types, NoLogin, Row, Rows
<1>2. Access
  BY DEF Init, Access, LoginIsYoung, RowIsGranted, TermIsBounded, ClosedHasNoRow,
         RequestIsTimely, SessionLastsItsTerm, Live
<1>3. Agents
  BY DEF Init, Agents, Unborn, AnswerIsStored, Carries, CopyIsPresent, ShownTokenIsStored,
         Row, NoRequest
<1> QED BY <1>1, <1>2, <1>3 DEF IInv

LEMMA NextIInv == IInv /\ [Next]_vars => IInv'
  BY TypeHolds, AccessHolds, AgentsHold DEF IInv

LEMMA InvariantHolds == Spec => []IInv
  BY InitIInv, NextIInv, PTL DEF Spec

(* The tables, the requests and the logins stay well formed, whatever is   *)
(* asked, lost, restarted or cleaned up; and no handler edits a server, or *)
(* answers a token for one, that it did not find.                          *)
THEOREM TypeCorrect == Spec => []TypeOK
<1>1. IInv => TypeOK
  BY DEF IInv, Agents, CopyIsPresent, Carries, TypeOK
<1> QED BY <1>1, InvariantHolds, PTL

(* Nobody acts through the console longer than MaxAge and TTL after        *)
(* Telegram signed for them.                                               *)
THEOREM AccessBounded == Spec => []AccessIsBounded
<1>1. IInv => AccessIsBounded
  <2> SUFFICES ASSUME IInv, NEW r \in Request, Acting(r)
               PROVE  clock <= granted[request[r].token].auth + MaxAge + TTL
    BY DEF AccessIsBounded
  <2>1. request[r] \in Requests /\ Live(r)
    BY LiveIsRequest DEF Acting, Live, NoRequest, IInv
  <2>2. request[r].token \in 1..logins
    BY <2>1 DEF IInv, Access, RequestIsTimely, Acting, Requests, Types
  <2>3. /\ clock <= request[r].since + 1
        /\ request[r].since < granted[request[r].token].expires
        /\ granted[request[r].token].expires <= granted[request[r].token].auth + MaxAge + TTL
    BY <2>1, <2>2 DEF IInv, Access, RequestIsTimely, TermIsBounded
  <2>4. /\ clock \in Nat /\ request[r].since \in Nat
        /\ granted[request[r].token].expires \in Nat /\ granted[request[r].token].auth \in Int
    <3>1. request[r].token \in Token
      BY <2>2, SessionsAssumption DEF IInv, Types, Token
    <3> QED BY <2>1, <3>1, Ranges DEF IInv, Types, Requests
  <2> QED BY <2>3, <2>4, SessionsAssumption
<1> QED BY <1>1, InvariantHolds, PTL

(* A request begun after a logout was answered with success is refused.    *)
THEOREM LogoutIsFinal == Spec => []LoggedOutStaysOut
<1>1. IInv => LoggedOutStaysOut
  BY LiveIsRequest DEF IInv, Access, RequestIsTimely, LoggedOutStaysOut, Acting, Live, NoRequest
<1> QED BY <1>1, InvariantHolds, PTL

(* A session nobody closed lasts its term, across restarts and cleanups.   *)
THEOREM SessionLasts == Spec => []SessionLastsItsTerm
<1>1. IInv => SessionLastsItsTerm
  BY DEF IInv, Access
<1> QED BY <1>1, InvariantHolds, PTL

(* A token that was answered is stored, or was replaced by a later one.    *)
THEOREM ShownIsStored == Spec => []ShownTokenIsStored
<1>1. IInv => ShownTokenIsStored
  BY DEF IInv, Agents
<1> QED BY <1>1, InvariantHolds, PTL

(* An edit takes back no rotation and brings back no deleted server.       *)
THEOREM NothingIsUndone == Spec => EditsUndoNothing
<1>1. IInv /\ [Next]_vars =>
        [ /\ server.state = "deleted" => server' = server
          /\ server'.secret >= server.secret ]_vars
  BY AgentsHold DEF IInv, Onward
<1> QED BY <1>1, InvariantHolds, PTL DEF Spec, EditsUndoNothing
=============================================================================
