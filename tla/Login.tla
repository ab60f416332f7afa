-------------------------------- MODULE Login --------------------------------
(***************************************************************************)
(* Signing in with GitHub: the web handlers (web/auth.go), the limiter of  *)
(* login starts (web/auth_limit.go), the login service                     *)
(* (service/auth/service.go) and its two tables (store/sqlite/auth.go).    *)
(*                                                                         *)
(* A login state (state, binding and verifier, drawn together) is one      *)
(* number; so is a session token with its CSRF token.  0 stands for none.  *)
(* Handlers run concurrently; a statement or transaction on the database   *)
(* is one step, and the time a handler passes to it was read before it.    *)
(* Tables and cookies survive a restart of the process, the limiter and    *)
(* the handlers in flight do not.                                          *)
(***************************************************************************)
EXTENDS Integers, FiniteSetsExt

CONSTANTS Requests,        \* handlers that may be in flight at once
          Browsers,
          Addresses,       \* client addresses the limiter tells apart
          Users,           \* GitHub identities
          None,            \* neither a browser nor a user
          StateTicks,      \* LoginLifetime
          SessionTicks,    \* SessionLifetime
          WindowTicks,     \* authStartWindow
          StartLimit,      \* authStartLimit
          MaxAddresses,    \* authStartMaxIPs
          StateCapacity,   \* authStateCapacity
          SessionsPerUser, \* authSessionsPerUser
          MaxTime,         \* bound: the clock
          MaxDrawn         \* bound: login states and session tokens drawn

ASSUME LoginAssumption ==
    /\ {StateTicks, SessionTicks, WindowTicks, StartLimit, MaxAddresses} \subseteq Nat \ {0}
    /\ {StateCapacity, SessionsPerUser, MaxTime, MaxDrawn} \subseteq Nat \ {0}
    /\ Users # {}
    /\ None \notin Users \cup Browsers

VARIABLES clock,    \* the time; it only moves forward
          buckets,  \* the limiter: an address to its count and its end (0: no bucket)
          states,   \* oauth_login_states
          sessions, \* web_auth_sessions
          allowed,  \* the configured administrators
          cookie,   \* the two cookies of a browser
          request,  \* handlers in flight
          drawn     \* login states and tokens drawn

loginVars == <<clock, buckets, states, sessions, allowed, cookie, request, drawn>>

Times  == 0..(MaxTime + StateTicks + SessionTicks + WindowTicks)
Drawn  == 0..MaxDrawn

Bucket   == [count : 0..StartLimit, expires : Times]
NoBucket == [count |-> 0, expires |-> 0]
State    == [id : Drawn \ {0}, created : Times, expires : Times]
Session  == [row : Nat \ {0}, token : Drawn \ {0}, login : Drawn \ {0}, user : Users,
             created : Times, expires : Times]
Cookies  == [binding : Drawn, session : Drawn]

Request ==
    [pc    : {"idle", "begin", "complete", "exchange", "store", "rotate", "undo", "serve"},
     from  : Browsers \cup {None},
     login : Drawn,                  \* the login state of this sign-in
     old   : Drawn,                  \* the session cookie sent
     token : Drawn,                  \* the session created
     user  : Users \cup {None},
     at    : Times]                  \* the time read before the next statement

NoRequest == [pc |-> "idle", from |-> None, login |-> 0, old |-> 0, token |-> 0,
              user |-> None, at |-> 0]

LoginTypeOK ==
    /\ clock \in 0..MaxTime
    /\ buckets \in [Addresses -> Bucket]
    /\ states \subseteq State
    /\ sessions \subseteq Session
    /\ allowed \in SUBSET Users \ {{}}
    /\ cookie \in [Browsers -> Cookies]
    /\ request \in [Requests -> Request]
    /\ drawn \in Drawn

LoginInit ==
    /\ clock = 0
    /\ buckets = [a \in Addresses |-> NoBucket]
    /\ states = {}
    /\ sessions = {}
    /\ allowed \in SUBSET Users \ {{}}
    /\ cookie = [b \in Browsers |-> [binding |-> 0, session |-> 0]]
    /\ request = [q \in Requests |-> NoRequest]
    /\ drawn = 0

(***************************************************************************)
(* Starting a login.                                                       *)
(***************************************************************************)
ActiveBuckets(now) == {a \in Addresses : buckets[a].expires > now}

(* Faulty variant: one start more than the limit. *)
AdmitsOneMore(a, now) ==
    /\ a \in ActiveBuckets(now) \/ Cardinality(ActiveBuckets(now)) < MaxAddresses
    /\ a \in ActiveBuckets(now) => buckets[a].count <= StartLimit

(* authStartLimiter.allow: expired buckets go first; an address gets a     *)
(* bucket only while there is room, and StartLimit starts from it.         *)
Admits(a, now) ==
    /\ a \in ActiveBuckets(now) \/ Cardinality(ActiveBuckets(now)) < MaxAddresses
    /\ a \in ActiveBuckets(now) => buckets[a].count < StartLimit

(* Faulty variant: a full table is emptied. *)
SweptWhole(now) ==
    [a \in Addresses |-> IF a \in ActiveBuckets(now) /\ Cardinality(ActiveBuckets(now)) < MaxAddresses
                         THEN buckets[a] ELSE NoBucket]

Swept(now) == [a \in Addresses |-> IF a \in ActiveBuckets(now) THEN buckets[a] ELSE NoBucket]

Counted(a, now) ==
    IF a \in ActiveBuckets(now) THEN [buckets[a] EXCEPT !.count = @ + 1]
    ELSE [count |-> 1, expires |-> now + WindowTicks]

(* authStart: the limiter, then Begin draws the login state. *)
LoginStart(q, b, a) ==
    /\ request[q].pc = "idle"
    /\ IF Admits(a, clock)
       THEN /\ drawn < MaxDrawn
            /\ drawn' = drawn + 1
            /\ buckets' = [Swept(clock) EXCEPT ![a] = Counted(a, clock)]
            /\ request' = [request EXCEPT ![q] = [NoRequest EXCEPT
                    !.pc = "begin", !.from = b, !.login = drawn', !.at = clock]]
       ELSE /\ buckets' = Swept(clock)
            /\ UNCHANGED <<request, drawn>>
    /\ UNCHANGED <<clock, states, sessions, allowed, cookie>>

(* Faulty variant: expired states keep their places. *)
AllStates(now) == states

LiveStates(now) == {s \in states : s.expires > now}

(* Begin: what the handler stores under the hashes of what it drew. *)
NewLoginState(id, now) == [id |-> id, created |-> now, expires |-> now + StateTicks]

(* PutOAuthLoginState: expired states are deleted, and a full table        *)
(* refuses, which rolls the deletion back.  On success the browser gets    *)
(* the binding cookie with the redirect to GitHub.                         *)
PutLoginState(q) ==
    LET r    == request[q]
        live == LiveStates(r.at)
    IN  /\ r.pc = "begin"
        /\ IF Cardinality(live) >= StateCapacity
           THEN UNCHANGED <<states, cookie>>
           ELSE /\ states' = live \cup {NewLoginState(r.login, r.at)}
                /\ cookie' = [cookie EXCEPT ![r.from].binding = r.login]
        /\ request' = [request EXCEPT ![q] = NoRequest]
        /\ UNCHANGED <<clock, buckets, sessions, allowed, drawn>>

(***************************************************************************)
(* The callback.                                                           *)
(***************************************************************************)
(* authCallback: GitHub sends the browser back with a state; the browser   *)
(* may repeat the request, or send the state of another tab.               *)
CallbackStart(q, b, id) ==
    /\ request[q].pc = "idle"
    /\ IF cookie[b].binding = id
       THEN /\ request' = [request EXCEPT ![q] = [NoRequest EXCEPT !.pc = "complete",
                    !.from = b, !.login = id, !.old = cookie[b].session, !.at = clock]]
            /\ UNCHANGED cookie
       ELSE \* no binding, or one that matches no row: only the cookie is cleared
            /\ cookie' = [cookie EXCEPT ![b].binding = 0]
            /\ UNCHANGED request
    /\ UNCHANGED <<clock, buckets, states, sessions, allowed, drawn>>

Matching(r) == {s \in states : s.id = r.login /\ s.created <= r.at /\ s.expires > r.at}

(* The response of a callback clears the binding cookie in every case. *)
CallbackEnds(q, session) ==
    /\ request' = [request EXCEPT ![q] = NoRequest]
    /\ cookie' = [cookie EXCEPT ![request[q].from] = [binding |-> 0, session |-> session]]

CallbackFails(q) == CallbackEnds(q, cookie[request[q].from].session)

(* Faulty variant: the state is read and stays. *)
ReadLoginState(q) ==
    /\ request[q].pc = "complete"
    /\ IF Matching(request[q]) # {}
       THEN /\ request' = [request EXCEPT ![q].pc = "exchange"]
            /\ UNCHANGED cookie
       ELSE CallbackFails(q)
    /\ UNCHANGED <<clock, buckets, states, sessions, allowed, drawn>>

(* ConsumeOAuthLoginState: one DELETE ... RETURNING. *)
ConsumeLoginState(q) ==
    /\ request[q].pc = "complete"
    /\ states' = states \ Matching(request[q])
    /\ IF Matching(request[q]) # {}
       THEN /\ request' = [request EXCEPT ![q].pc = "exchange"]
            /\ UNCHANGED cookie
       ELSE CallbackFails(q)
    /\ UNCHANGED <<clock, buckets, sessions, allowed, drawn>>

(* ExchangeIdentity names a user, and an administrator gets a token. *)
IdentityKnown(q) ==
    /\ request[q].pc = "exchange"
    /\ \E u \in Users :
          IF u \in allowed
          THEN /\ drawn < MaxDrawn
               /\ drawn' = drawn + 1
               /\ request' = [request EXCEPT ![q] = [@ EXCEPT
                       !.pc = "store", !.user = u, !.token = drawn', !.at = clock]]
               /\ UNCHANGED cookie
          ELSE /\ CallbackFails(q)
               /\ UNCHANGED drawn
    /\ UNCHANGED <<clock, buckets, states, sessions, allowed>>

(* The provider fails or the 12 seconds are over. *)
ExchangeFails(q) ==
    /\ request[q].pc = "exchange"
    /\ CallbackFails(q)
    /\ UNCHANGED <<clock, buckets, states, sessions, allowed, drawn>>

(* Faulty variant: the order of the rows. *)
Lower(s, t) == s.row > t.row

(* s comes before t in ORDER BY created_at DESC, rowid DESC. *)
Newer(s, t) ==
    \/ s.created > t.created
    \/ s.created = t.created /\ s.row > t.row

LiveSessions(now) == {s \in sessions : s.expires > now}

NewerOwn(s, now) == {t \in LiveSessions(now) : t.user = s.user /\ Newer(t, s)}

Surplus(u, now) ==
    {s \in LiveSessions(now) : /\ s.user = u
                               /\ Cardinality(NewerOwn(s, now)) >= SessionsPerUser - 1}

(* The rowid SQLite gives to a row: one more than the largest. *)
NextRow(rows) == 1 + Max({0} \cup {s.row : s \in rows})

(* PutAuthSession: expired sessions and the user's oldest ones make room. *)
PutAuthSession(q) ==
    LET r    == request[q]
        kept == LiveSessions(r.at) \ Surplus(r.user, r.at)
        new  == [row |-> NextRow(kept), token |-> r.token, login |-> r.login, user |-> r.user,
                 created |-> r.at, expires |-> r.at + SessionTicks]
    IN  /\ r.pc = "store"
        /\ sessions' = kept \cup {new}
        /\ IF r.old = 0
           THEN CallbackEnds(q, r.token)
           ELSE /\ request' = [request EXCEPT ![q].pc = "rotate"]
                /\ UNCHANGED cookie
        /\ UNCHANGED <<clock, buckets, states, allowed, drawn>>

(* Faulty variant: the callback goes on although the old session stays. *)
RevocationIgnored(q) ==
    /\ \/ request[q].pc = "begin" /\ request' = [request EXCEPT ![q] = NoRequest] /\ UNCHANGED cookie
       \/ request[q].pc \in {"complete", "store", "undo"} /\ CallbackFails(q)
       \/ request[q].pc = "rotate" /\ CallbackEnds(q, request[q].token)
    /\ UNCHANGED <<clock, buckets, states, sessions, allowed, drawn>>

(* A statement of the login fails: the transaction is rolled back. *)
StatementFails(q) ==
    /\ \/ request[q].pc = "begin" /\ request' = [request EXCEPT ![q] = NoRequest] /\ UNCHANGED cookie
       \/ request[q].pc \in {"complete", "store", "undo"} /\ CallbackFails(q)
       \/ request[q].pc = "rotate" /\ request' = [request EXCEPT ![q].pc = "undo"] /\ UNCHANGED cookie
    /\ UNCHANGED <<clock, buckets, states, sessions, allowed, drawn>>

Without(token) == {s \in sessions : s.token # token}

(* The service's Revoke; a session that is gone is no error. *)
Revoke(token) == sessions' = Without(token)

(* The session the browser had before is revoked. *)
RevokeOld(q) ==
    /\ request[q].pc = "rotate"
    /\ Revoke(request[q].old)
    /\ CallbackEnds(q, request[q].token)
    /\ UNCHANGED <<clock, buckets, states, allowed, drawn>>

(* It failed: the new session is revoked instead. *)
RevokeNew(q) ==
    /\ request[q].pc = "undo"
    /\ Revoke(request[q].token)
    /\ CallbackFails(q)
    /\ UNCHANGED <<clock, buckets, states, allowed, drawn>>

(***************************************************************************)
(* Requests with a session.                                                *)
(***************************************************************************)
Found(token, now) == {s \in sessions : s.token = token /\ s.created <= now /\ s.expires > now}

Recognised(s) == s.user \in allowed

(* authenticateRequest and Session: a live session of an administrator is  *)
(* served; a session of anybody else is deleted; without a session the     *)
(* cookie is cleared.                                                      *)
Authenticate(q, b) ==
    /\ request[q].pc = "idle"
    /\ cookie[b].session # 0
    /\ \/ /\ \E s \in Found(cookie[b].session, clock) :
                /\ Recognised(s)
                /\ request' = [request EXCEPT ![q] = [NoRequest EXCEPT
                        !.pc = "serve", !.from = b, !.old = s.token, !.user = s.user]]
          /\ UNCHANGED <<sessions, cookie>>
       \/ /\ \A s \in Found(cookie[b].session, clock) : ~Recognised(s)
          /\ cookie' = [cookie EXCEPT ![b].session = 0]
          /\ \/ Found(cookie[b].session, clock) # {} /\ Revoke(cookie[b].session)
             \/ UNCHANGED sessions                  \* none, or the deletion failed
          /\ UNCHANGED request
    /\ UNCHANGED <<clock, buckets, states, allowed, drawn>>

(* The handler of the page or form ends. *)
Serve(q) ==
    /\ request[q].pc = "serve"
    /\ request' = [request EXCEPT ![q] = NoRequest]
    /\ UNCHANGED <<clock, buckets, states, sessions, allowed, cookie, drawn>>

(* authLogout: Session again, the form's CSRF token against the session's, *)
(* and the deletion.  A form of another session does nothing.              *)
Logout(q) ==
    /\ request[q].pc = "serve"
    /\ Found(request[q].old, clock) # {}
    /\ Revoke(request[q].old)
    /\ request' = [request EXCEPT ![q] = NoRequest]
    /\ cookie' = [cookie EXCEPT ![request[q].from].session = 0]
    /\ UNCHANGED <<clock, buckets, states, allowed, drawn>>

(* The process ends and starts again, maybe with other administrators. *)
WebRestart ==
    /\ buckets' = [a \in Addresses |-> NoBucket]
    /\ request' = [q \in Requests |-> NoRequest]
    /\ allowed' \in SUBSET Users \ {{}}
    /\ UNCHANGED <<clock, states, sessions, cookie, drawn>>

Tick ==
    /\ clock < MaxTime
    /\ clock' = clock + 1
    /\ UNCHANGED <<buckets, states, sessions, allowed, cookie, request, drawn>>

LoginNext ==
    \/ \E q \in Requests :
          \/ \E b \in Browsers : \/ \E a \in Addresses : LoginStart(q, b, a)
                                 \/ \E id \in 1..drawn : CallbackStart(q, b, id)
                                 \/ Authenticate(q, b)
          \/ PutLoginState(q) \/ ConsumeLoginState(q) \/ IdentityKnown(q) \/ ExchangeFails(q)
          \/ PutAuthSession(q) \/ StatementFails(q) \/ RevokeOld(q) \/ RevokeNew(q)
          \/ Serve(q) \/ Logout(q)
    \/ WebRestart
    \/ Tick

LoginSpec == LoginInit /\ [][LoginNext]_loginVars

(***************************************************************************)
(* Properties.                                                             *)
(***************************************************************************)
(* A login state leads to at most one session: while a callback exchanges  *)
(* it or its session exists, neither the state nor another callback or     *)
(* session of it does (Complete consumes the state before the exchange,    *)
(* and a browser may repeat a callback).                                   *)
OneSessionPerLogin ==
    \A id \in 1..drawn :
       LET callbacks == {q \in Requests : request[q].pc \in {"exchange", "store"} /\ request[q].login = id}
           rows      == {s \in sessions : s.login = id}
           pending   == {s \in states : s.id = id}
       IN  Cardinality(callbacks) + Cardinality(rows) + Cardinality(pending) <= 1

(* A start refused for capacity met a table full of unexpired login        *)
(* states: expired ones never use up places, and no interleaving of starts *)
(* exceeds them (PutOAuthLoginState).                                      *)
PlacesAreLive ==
    [][/\ Cardinality(states') <= StateCapacity
       /\ \A q \in Requests :
             (PutLoginState(q) /\ states' = states)
                => Cardinality({s \in states : s.expires > request[q].at}) = StateCapacity]_loginVars

(* A login removes no unexpired session but the same user's oldest ones,   *)
(* and no more than the cap asks for (PutAuthSession): the order of the    *)
(* rows is not the order of their creation when logins overlap.            *)
NewestSessionsSurvive ==
    [][\A q \in Requests : PutAuthSession(q) =>
          LET r      == request[q]
              Mine(t) == {s \in t : s.user = r.user}
              lost    == {s \in sessions \ sessions' : s.expires > r.at}
          IN  /\ Cardinality(Mine(sessions')) <= SessionsPerUser
              /\ lost # {} => Cardinality(Mine(sessions')) = SessionsPerUser
              /\ \A s \in lost : /\ s.user = r.user
                                 /\ \A t \in Mine(sessions) :
                                       (t.expires > r.at /\ t.created < s.created) => t \in lost]_loginVars

(* While the process runs, an address cannot win back its allowance before *)
(* its window ends, however many other addresses come and go, and it never *)
(* gets more than StartLimit of it (authStartLimiter.allow).               *)
QuotaKept ==
    [][WebRestart \/
       \A a \in Addresses :
          buckets[a].expires > clock => /\ buckets'[a].expires = buckets[a].expires
                                        /\ buckets'[a].count \in buckets[a].count..StartLimit]_loginVars

(* A browser gets a new session cookie only after the session it had is    *)
(* gone: a callback that could not revoke it gives up its own (authCallback). *)
RotationIsComplete ==
    [][\A q \in Requests :
          (request[q].token # 0 /\ cookie'[request[q].from].session = request[q].token)
             => \A s \in sessions' : s.token # request[q].old]_loginVars
=============================================================================
