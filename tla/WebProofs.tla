------------------------------ MODULE WebProofs ------------------------------
(***************************************************************************)
(* Theorems about signing in (Login) and about what is said of a           *)
(* repository (Catalogue).                                                 *)
(*                                                                         *)
(* Login.  The inductive invariant LoginInv follows a login state from the *)
(* draw to the session: it is with one handler, in the table of login      *)
(* states or in the table of sessions, never in two of them, and a token   *)
(* is in no cookie while the handler that drew it may still give it up.    *)
(***************************************************************************)
EXTENDS MCWeb, DataLemmas

(***************************************************************************)
(* The inductive invariant of Login.                                       *)
(***************************************************************************)
(* Handlers that alone hold their login state, and those with a token. *)
Holding  == {"begin", "exchange", "store"}
Tokened  == {"store", "rotate", "undo"}

RequestOK(x, d) ==
    /\ x \in Request
    /\ x.at \in 0..MaxTime
    /\ x.login \in 0..d /\ x.token \in 0..d
    /\ x.pc # "idle" => x.from \in Browsers
    /\ x.pc \in Holding \cup {"complete"} => x.login # 0
    /\ x.token # 0 <=> x.pc \in Tokened
    /\ x.pc = "store" => x.user \in Users

RequestsOK(rq, d) == rq \in [Requests -> Request] /\ \A q \in Requests : RequestOK(rq[q], d)

HoldersApart(rq) ==
    \A p, q \in Requests :
       p # q /\ rq[p].pc \in Holding /\ rq[q].pc \in Holding => rq[p].login # rq[q].login

(* What the tables hold is with no handler, in one of them, and once. *)
RowsApart(rq, st, ss) ==
    /\ \A q \in Requests : rq[q].pc \in Holding =>
          (\A s \in st : s.id # rq[q].login) /\ (\A s \in ss : s.login # rq[q].login)
    /\ \A s \in st : \A t \in ss : s.id # t.login
    /\ \A s, t \in st : s.id = t.id => s = t
    /\ \A s, t \in ss : s.login = t.login => s = t

RowsDrawn(st, ss, d) == (\A s \in st : s.id <= d) /\ (\A s \in ss : s.login <= d)

TokensApart(rq) ==
    \A p, q \in Requests : p # q /\ rq[q].token # 0 => rq[p].token # rq[q].token

TokensFresh(rq, ck, d) ==
    /\ \A q \in Requests : \A b \in Browsers : rq[q].token # 0 => ck[b].session # rq[q].token
    /\ \A b \in Browsers : ck[b].session <= d

StatesOK(st) ==
    /\ st \subseteq State
    /\ IsFiniteSet(st) /\ Cardinality(st) <= StateCapacity

SessionsOK(ss) ==
    /\ ss \subseteq Session
    /\ IsFiniteSet(ss)
    /\ \A s, t \in ss : s.row = t.row => s = t

RestOK ==
    /\ clock \in 0..MaxTime
    /\ buckets \in [Addresses -> Bucket]
    /\ allowed \in SUBSET Users \ {{}}
    /\ cookie \in [Browsers -> Cookies]
    /\ drawn \in Drawn

LoginInv ==
    /\ RestOK
    /\ RequestsOK(request, drawn)
    /\ StatesOK(states) /\ SessionsOK(sessions)
    /\ HoldersApart(request)
    /\ RowsApart(request, states, sessions)
    /\ RowsDrawn(states, sessions, drawn)
    /\ TokensApart(request)
    /\ TokensFresh(request, cookie, drawn)

LEMMA LoginNumbers ==
    /\ StateTicks \in Nat \ {0} /\ SessionTicks \in Nat \ {0} /\ WindowTicks \in Nat \ {0}
    /\ StartLimit \in Nat \ {0} /\ MaxAddresses \in Nat \ {0} /\ StateCapacity \in Nat \ {0}
    /\ SessionsPerUser \in Nat \ {0} /\ MaxTime \in Nat \ {0} /\ MaxDrawn \in Nat \ {0}
    /\ 0..MaxTime \subseteq Times /\ Times \subseteq Nat /\ 0 \in Times
    /\ Drawn \subseteq Nat /\ 0 \in Drawn
  BY LoginAssumption DEF Times, Drawn

LEMMA NoRequestOK ==
    ASSUME NEW d \in Nat
    PROVE  RequestOK(NoRequest, d)
<1>1. NoRequest \in Request
  BY LoginNumbers DEF NoRequest, Request
<1>2. NoRequest.pc = "idle" /\ NoRequest.at = 0 /\ NoRequest.login = 0 /\ NoRequest.token = 0
  BY DEF NoRequest
<1>3. 0 \in 0..MaxTime /\ 0 \in 0..d
  BY LoginNumbers
<1> QED BY <1>1, <1>2, <1>3 DEF RequestOK, Holding, Tokened

(* Requests when one of them changes. *)
LEMMA RequestChanges ==
    ASSUME NEW rq, NEW d \in Nat, NEW e \in Nat, d <= e, RequestsOK(rq, d),
           NEW q \in Requests, NEW x, RequestOK(x, e)
    PROVE  /\ RequestsOK([rq EXCEPT ![q] = x], e)
           /\ [rq EXCEPT ![q] = x][q] = x
           /\ \A p \in Requests \ {q} : [rq EXCEPT ![q] = x][p] = rq[p]
<1> DEFINE f == [rq EXCEPT ![q] = x]
<1>1. rq \in [Requests -> Request] /\ x \in Request
  BY DEF RequestsOK, RequestOK
<1>2. f \in [Requests -> Request] /\ f[q] = x /\ \A p \in Requests \ {q} : f[p] = rq[p]
  BY <1>1
<1> HIDE DEF f
<1>3. ASSUME NEW p \in Requests \ {q} PROVE RequestOK(f[p], e)
  <2>1. RequestOK(rq[p], d) /\ f[p] = rq[p]
    BY <1>2 DEF RequestsOK
  <2>2. rq[p].login \in 0..e /\ rq[p].token \in 0..e
    BY <2>1 DEF RequestOK
  <2> QED BY <2>1, <2>2 DEF RequestOK
<1>4. RequestsOK(f, e)
  BY <1>2, <1>3 DEF RequestsOK
<1> QED BY <1>2, <1>4 DEF f

(* A handler that ends, or that changes nothing the others look at. *)
LEMMA HolderEnds ==
    ASSUME NEW rq, RequestsOK(rq, drawn), drawn \in Nat, NEW st, NEW ss, NEW ck,
           HoldersApart(rq), RowsApart(rq, st, ss), TokensApart(rq), TokensFresh(rq, ck, drawn),
           NEW q \in Requests, NEW x, RequestOK(x, drawn),
           x.pc \notin Holding \/ (x.pc \in Holding /\ rq[q].pc \in Holding /\ x.login = rq[q].login),
           x.token = 0 \/ x.token = rq[q].token
    PROVE  LET f == [rq EXCEPT ![q] = x] IN
           /\ RequestsOK(f, drawn) /\ f[q] = x /\ \A p \in Requests \ {q} : f[p] = rq[p]
           /\ HoldersApart(f) /\ RowsApart(f, st, ss) /\ TokensApart(f) /\ TokensFresh(f, ck, drawn)
<1> DEFINE f == [rq EXCEPT ![q] = x]
<1>0. drawn <= drawn
  OBVIOUS
<1>1. RequestsOK(f, drawn) /\ f[q] = x /\ \A p \in Requests \ {q} : f[p] = rq[p]
  BY <1>0, RequestChanges
<1> HIDE DEF f
<1>2. HoldersApart(f)
  BY <1>1 DEF HoldersApart
<1>3. RowsApart(f, st, ss)
  BY <1>1 DEF RowsApart
<1>4. TokensApart(f)
  BY <1>1 DEF TokensApart
<1>5. TokensFresh(f, ck, drawn)
  BY <1>1 DEF TokensFresh
<1> QED BY <1>1, <1>2, <1>3, <1>4, <1>5 DEF f
LEMMA CookieChanges ==
    ASSUME NEW rq, RequestsOK(rq, drawn), TokensFresh(rq, cookie, drawn), cookie \in [Browsers -> Cookies],
           NEW b \in Browsers, NEW c \in Cookies, c.session <= drawn,
           \A q \in Requests : rq[q].token # 0 => c.session # rq[q].token
    PROVE  LET f == [cookie EXCEPT ![b] = c] IN
           /\ f \in [Browsers -> Cookies]
           /\ TokensFresh(rq, f, drawn)
<1> DEFINE f == [cookie EXCEPT ![b] = c]
<1>1. f \in [Browsers -> Cookies] /\ f[b] = c /\ \A a \in Browsers \ {b} : f[a] = cookie[a]
  OBVIOUS
<1> HIDE DEF f
<1>2. TokensFresh(rq, f, drawn)
  BY <1>1 DEF TokensFresh
<1> QED BY <1>1, <1>2 DEF f

(* The end of a callback, with the session cookie of before or with the    *)
(* token of this handler.                                                  *)
LEMMA CallbackEndsOK ==
    ASSUME LoginInv, NEW q \in Requests, request[q].pc # "idle", NEW n,
           \/ n = cookie[request[q].from].session
           \/ n = request[q].token /\ n # 0,
           CallbackEnds(q, n)
    PROVE  /\ cookie' \in [Browsers -> Cookies]
           /\ RequestsOK(request', drawn) /\ request'[q] = NoRequest
           /\ \A p \in Requests \ {q} : request'[p] = request[p]
           /\ HoldersApart(request') /\ RowsApart(request', states, sessions)
           /\ TokensApart(request') /\ TokensFresh(request', cookie', drawn)
<1> DEFINE b == request[q].from
           c == [binding |-> 0, session |-> n]
           f == [request EXCEPT ![q] = NoRequest]
<1>1. /\ RequestsOK(request, drawn) /\ HoldersApart(request) /\ RowsApart(request, states, sessions)
      /\ TokensApart(request) /\ TokensFresh(request, cookie, drawn)
      /\ cookie \in [Browsers -> Cookies] /\ drawn \in Drawn
  BY DEF LoginInv, RestOK
<1>2. drawn \in Nat
  BY <1>1, LoginNumbers
<1>3. RequestOK(request[q], drawn) /\ b \in Browsers
  BY <1>1 DEF RequestsOK, RequestOK
<1>4. RequestOK(NoRequest, drawn) /\ NoRequest.pc = "idle" /\ NoRequest.token = 0
  BY <1>2, NoRequestOK DEF NoRequest
<1>5. /\ RequestsOK(f, drawn) /\ f[q] = NoRequest /\ \A p \in Requests \ {q} : f[p] = request[p]
      /\ HoldersApart(f) /\ RowsApart(f, states, sessions) /\ TokensApart(f) /\ TokensFresh(f, cookie, drawn)
  <2>1. NoRequest.pc \notin Holding
    BY <1>4 DEF Holding
  <2> QED BY <1>1, <1>2, <1>4, <2>1, HolderEnds
<1>6. request' = f /\ cookie' = [cookie EXCEPT ![b] = c]
  BY DEF CallbackEnds
<1> HIDE DEF f
<1>7. n \in Drawn /\ n <= drawn
  <2>1. cookie[b] \in Cookies /\ cookie[b].session <= drawn
    BY <1>1, <1>3 DEF TokensFresh
  <2>2. cookie[b].session \in Drawn
    BY <2>1 DEF Cookies
  <2>3. request[q].token \in 0..drawn /\ request[q].token \in Drawn
    BY <1>3 DEF RequestOK, Request
  <2> QED BY <2>1, <2>2, <2>3, <1>2
<1>8. c \in Cookies /\ c.session = n
  BY <1>7, LoginNumbers DEF Cookies
<1>9. ASSUME NEW p \in Requests, f[p].token # 0 PROVE n # f[p].token
  <2>1. p # q
    BY <1>4, <1>5, <1>9
  <2>2. f[p] = request[p]
    BY <2>1, <1>5
  <2>3. cookie[b].session # request[p].token
    BY <2>2, <1>9, <1>1, <1>3 DEF TokensFresh
  <2>4. request[q].token # 0 => request[p].token # request[q].token
    BY <2>1, <1>1 DEF TokensApart
  <2> QED BY <2>2, <2>3, <2>4
<1> HIDE DEF b, c
<1>10. /\ [cookie EXCEPT ![b] = c] \in [Browsers -> Cookies]
       /\ TokensFresh(f, [cookie EXCEPT ![b] = c], drawn)
  BY <1>1, <1>3, <1>5, <1>7, <1>8, <1>9, CookieChanges
<1> QED BY <1>5, <1>6, <1>10

LEMMA FewerRows ==
    ASSUME NEW rq, NEW st, NEW ss, NEW d, RowsApart(rq, st, ss), RowsDrawn(st, ss, d),
           NEW st2 \in SUBSET st, NEW ss2 \in SUBSET ss
    PROVE  RowsApart(rq, st2, ss2) /\ RowsDrawn(st2, ss2, d)
<1>1. RowsApart(rq, st2, ss2)
  BY DEF RowsApart
<1>2. RowsDrawn(st2, ss2, d)
  BY DEF RowsDrawn
<1> QED BY <1>1, <1>2

LEMMA FewerStates ==
    ASSUME NEW st, StatesOK(st), NEW st2 \in SUBSET st
    PROVE  StatesOK(st2)
<1>1. IsFiniteSet(st) /\ st2 \subseteq st /\ Cardinality(st) <= StateCapacity
  BY DEF StatesOK
<1>2. IsFiniteSet(st2) /\ Cardinality(st2) <= Cardinality(st)
  BY <1>1, FS_Subset
<1>3. Cardinality(st) \in Nat /\ Cardinality(st2) \in Nat /\ StateCapacity \in Nat
  BY <1>1, <1>2, FS_CardinalityType, LoginNumbers
<1>4. Cardinality(st2) <= StateCapacity
  BY <1>1, <1>2, <1>3
<1> QED BY <1>2, <1>4 DEF StatesOK

LEMMA FewerSessions ==
    ASSUME NEW ss, SessionsOK(ss), NEW ss2 \in SUBSET ss
    PROVE  SessionsOK(ss2)
<1>1. IsFiniteSet(ss2)
  BY FS_Subset DEF SessionsOK
<1> QED BY <1>1 DEF SessionsOK

(***************************************************************************)
(* Each action keeps the invariant.                                        *)
(***************************************************************************)
LEMMA LimiterKept ==
    ASSUME RestOK, NEW a \in Addresses
    PROVE  /\ Swept(clock) \in [Addresses -> Bucket]
           /\ Admits(a, clock) => [Swept(clock) EXCEPT ![a] = Counted(a, clock)] \in [Addresses -> Bucket]
<1>1. clock \in 0..MaxTime /\ buckets \in [Addresses -> Bucket]
  BY DEF RestOK
<1>2. NoBucket \in Bucket
  BY LoginNumbers DEF NoBucket, Bucket
<1>3. Swept(clock) \in [Addresses -> Bucket]
  BY <1>1, <1>2 DEF Swept
<1>4. ASSUME Admits(a, clock) PROVE Counted(a, clock) \in Bucket
  <2>1. CASE a \in ActiveBuckets(clock)
    <3>1. buckets[a] \in Bucket /\ buckets[a].count < StartLimit
      BY <2>1, <1>1, <1>4 DEF Admits
    <3>2. buckets[a].count \in 0..StartLimit /\ buckets[a].expires \in Times
      BY <3>1 DEF Bucket
    <3>3. buckets[a].count + 1 \in 0..StartLimit
      BY <3>1, <3>2, LoginNumbers
    <3>4. [buckets[a] EXCEPT !.count = @ + 1] \in Bucket
      BY <3>1, <3>3 DEF Bucket
    <3> QED BY <2>1, <3>4 DEF Counted
  <2>2. CASE a \notin ActiveBuckets(clock)
    <3>1. clock + WindowTicks \in Times
      BY <1>1, LoginNumbers DEF Times
    <3>2. 1 \in 0..StartLimit
      BY LoginNumbers
    <3>3. [count |-> 1, expires |-> clock + WindowTicks] \in Bucket
      BY <3>1, <3>2 DEF Bucket
    <3> QED BY <2>2, <3>3 DEF Counted
  <2> QED BY <2>1, <2>2
<1> QED BY <1>3, <1>4

LEMMA LoginStartKeeps ==
    ASSUME LoginInv, NEW q \in Requests, NEW b \in Browsers, NEW a \in Addresses, LoginStart(q, b, a)
    PROVE  LoginInv'
<1> DEFINE d == drawn + 1
           x == [NoRequest EXCEPT !.pc = "begin", !.from = b, !.login = d, !.at = clock]
           f == [request EXCEPT ![q] = x]
<1>1. /\ RequestsOK(request, drawn) /\ HoldersApart(request) /\ RowsApart(request, states, sessions)
      /\ RowsDrawn(states, sessions, drawn) /\ StatesOK(states) /\ SessionsOK(sessions)
      /\ TokensApart(request) /\ TokensFresh(request, cookie, drawn) /\ RestOK
  BY DEF LoginInv
<1>2. drawn \in Nat /\ clock \in 0..MaxTime /\ drawn \in Drawn
  BY <1>1, LoginNumbers DEF RestOK
<1>3. UNCHANGED <<clock, states, sessions, allowed, cookie>>
  BY DEF LoginStart
<1>4. CASE ~Admits(a, clock)
  <2>1. buckets' = Swept(clock) /\ UNCHANGED <<request, drawn>>
    BY <1>4 DEF LoginStart
  <2>2. buckets' \in [Addresses -> Bucket]
    BY <2>1, <1>1, LimiterKept
  <2>3. RestOK'
    BY <1>1, <1>3, <2>1, <2>2 DEF RestOK
  <2> QED BY <1>1, <1>3, <2>1, <2>3 DEF LoginInv
<1>5. CASE Admits(a, clock)
  <2>1. /\ drawn < MaxDrawn /\ drawn' = d /\ buckets' = [Swept(clock) EXCEPT ![a] = Counted(a, clock)]
        /\ request' = f
    BY <1>5 DEF LoginStart
  <2>2. buckets' \in [Addresses -> Bucket]
    BY <2>1, <1>1, <1>5, LimiterKept
  <2>3. d \in Nat /\ d \in Drawn /\ drawn <= d /\ d # 0 /\ drawn < d
    BY <2>1, <1>2, LoginNumbers DEF Drawn
  <2>4. RestOK'
    BY <1>1, <1>3, <2>1, <2>2, <2>3 DEF RestOK
  <2>5. /\ x.pc = "begin" /\ x.from = b /\ x.login = d /\ x.at = clock /\ x.token = 0
        /\ x.user = None /\ x.old = 0
    BY DEF NoRequest
  <2>0. x \in Request
    <3>1. NoRequest \in Request
      BY <1>2, NoRequestOK DEF RequestOK
    <3>2. clock \in Times
      BY <1>2, LoginNumbers
    <3> QED BY <3>1, <3>2, <2>3 DEF Request
  <2> HIDE DEF x
  <2>6. RequestOK(x, d)
    <3>1. d \in 0..d /\ 0 \in 0..d
      BY <2>3
    <3> QED BY <3>1, <2>0, <2>5, <2>3, <1>2 DEF RequestOK, Holding, Tokened
  <2>7. RequestsOK(f, d) /\ f[q] = x /\ \A p \in Requests \ {q} : f[p] = request[p]
    BY <1>1, <1>2, <2>3, <2>6, RequestChanges
  <2> HIDE DEF f
  <2>8. \A p \in Requests : request[p].login \in 0..drawn /\ request[p].token \in 0..drawn
    BY <1>1 DEF RequestsOK, RequestOK
  <2>9. \A p \in Requests : request[p].login # d
    BY <2>8, <2>3, <1>2
  <2>10. HoldersApart(f)
    <3> SUFFICES ASSUME NEW p \in Requests, NEW r \in Requests, p # r, f[p].pc \in Holding, f[r].pc \in Holding
                 PROVE  f[p].login # f[r].login
      BY DEF HoldersApart
    <3>1. CASE p = q
      BY <3>1, <2>7, <2>9, <2>5
    <3>2. CASE r = q
      BY <3>2, <2>7, <2>9, <2>5
    <3>3. CASE p # q /\ r # q
      BY <3>3, <2>7, <1>1 DEF HoldersApart
    <3> QED BY <3>1, <3>2, <3>3
  <2>11. RowsApart(f, states, sessions)
    <3>1. ASSUME NEW p \in Requests, f[p].pc \in Holding
          PROVE (\A s \in states : s.id # f[p].login) /\ (\A s \in sessions : s.login # f[p].login)
      <4>1. CASE p # q
        BY <4>1, <3>1, <2>7, <1>1 DEF RowsApart
      <4>2. CASE p = q
        <5>1. (\A s \in states : s.id \in Nat /\ s.id <= drawn) /\ (\A s \in sessions : s.login \in Nat /\ s.login <= drawn)
          BY <1>1, LoginNumbers DEF RowsDrawn, StatesOK, SessionsOK, State, Session
        <5> QED BY <4>2, <5>1, <2>7, <2>5, <2>3, <1>2
      <4> QED BY <4>1, <4>2
    <3> QED BY <3>1, <1>1 DEF RowsApart
  <2>12. RowsDrawn(states, sessions, d)
    <3>1. (\A s \in states : s.id \in Nat /\ s.id <= drawn) /\ (\A s \in sessions : s.login \in Nat /\ s.login <= drawn)
      BY <1>1, LoginNumbers DEF RowsDrawn, StatesOK, SessionsOK, State, Session
    <3> QED BY <3>1, <1>2 DEF RowsDrawn
  <2>13. \A p \in Requests : f[p].token # 0 => p # q /\ f[p] = request[p]
    BY <2>7, <2>5
  <2>14. TokensApart(f)
    <3> SUFFICES ASSUME NEW p \in Requests, NEW r \in Requests, p # r, f[r].token # 0
                 PROVE  f[p].token # f[r].token
      BY DEF TokensApart
    <3>1. CASE p = q
      BY <3>1, <2>7, <2>5
    <3>2. CASE p # q
      BY <3>2, <2>7, <2>13, <1>1 DEF TokensApart
    <3> QED BY <3>1, <3>2
  <2>15. TokensFresh(f, cookie, d)
    <3>1. \A e \in Browsers : cookie[e].session \in Nat /\ cookie[e].session <= drawn
      BY <1>1, LoginNumbers DEF TokensFresh, RestOK, Cookies
    <3>2. \A e \in Browsers : cookie[e].session <= d
      BY <3>1, <1>2
    <3> QED BY <3>2, <2>13, <1>1 DEF TokensFresh
  <2> HIDE DEF d
  <2> QED BY <1>1, <1>3, <2>1, <2>4, <2>7, <2>10, <2>11, <2>12, <2>14, <2>15 DEF LoginInv
<1> QED BY <1>4, <1>5
(* A browser's session cookie stays, or is cleared. *)
LEMMA CookieKept ==
    ASSUME RestOK, NEW rq, RequestsOK(rq, drawn), TokensFresh(rq, cookie, drawn),
           NEW b \in Browsers, NEW c \in Cookies,
           c.session = cookie[b].session \/ c.session = 0
    PROVE  /\ [cookie EXCEPT ![b] = c] \in [Browsers -> Cookies]
           /\ TokensFresh(rq, [cookie EXCEPT ![b] = c], drawn)
<1>1. cookie \in [Browsers -> Cookies] /\ drawn \in Nat
  BY LoginNumbers DEF RestOK
<1>2. c.session <= drawn
  BY <1>1 DEF TokensFresh
<1>3. \A q \in Requests : rq[q].token # 0 => c.session # rq[q].token
  BY DEF TokensFresh
<1> QED BY <1>1, <1>2, <1>3, CookieChanges

LEMMA PutLoginStateKeeps ==
    ASSUME LoginInv, NEW q \in Requests, PutLoginState(q)
    PROVE  LoginInv'
<1> DEFINE r == request[q]
           live == LiveStates(r.at)
           new == NewLoginState(r.login, r.at)
           f == [request EXCEPT ![q] = NoRequest]
<1>1. /\ RequestsOK(request, drawn) /\ HoldersApart(request) /\ RowsApart(request, states, sessions)
      /\ RowsDrawn(states, sessions, drawn) /\ StatesOK(states) /\ SessionsOK(sessions)
      /\ TokensApart(request) /\ TokensFresh(request, cookie, drawn) /\ RestOK
  BY DEF LoginInv
<1>2. drawn \in Nat /\ clock \in 0..MaxTime /\ drawn \in Drawn /\ cookie \in [Browsers -> Cookies]
  BY <1>1, LoginNumbers DEF RestOK
<1>3. UNCHANGED <<clock, buckets, sessions, allowed, drawn>> /\ r.pc = "begin" /\ request' = f
  BY DEF PutLoginState
<1>4. RequestOK(r, drawn) /\ r.from \in Browsers /\ r.login # 0 /\ r.login \in 0..drawn /\ r.at \in 0..MaxTime
  <2>1. RequestOK(r, drawn)
    BY <1>1 DEF RequestsOK
  <2> QED BY <2>1, <1>3 DEF RequestOK, Holding
<1>5. RequestOK(NoRequest, drawn) /\ NoRequest.pc \notin Holding /\ NoRequest.token = 0
  BY <1>2, NoRequestOK DEF NoRequest, Holding
<1>6. /\ RequestsOK(f, drawn) /\ f[q] = NoRequest /\ \A p \in Requests \ {q} : f[p] = request[p]
      /\ HoldersApart(f) /\ RowsApart(f, states, sessions) /\ TokensApart(f) /\ TokensFresh(f, cookie, drawn)
  BY <1>1, <1>2, <1>5, HolderEnds
<1> HIDE DEF f
<1>7. CASE Cardinality(live) >= StateCapacity
  <2>1. states' = states /\ cookie' = cookie
    BY <1>7 DEF PutLoginState
  <2>2. RestOK'
    BY <1>1, <1>3, <2>1 DEF RestOK
  <2> QED BY <2>1, <2>2, <1>1, <1>3, <1>6 DEF LoginInv
<1>8. CASE ~(Cardinality(live) >= StateCapacity)
  <2> DEFINE c == [cookie[r.from] EXCEPT !.binding = r.login]
  <2>1. states' = live \cup {new} /\ cookie' = [cookie EXCEPT ![r.from] = c]
    BY <1>8 DEF PutLoginState
  <2>2. c \in Cookies /\ c.session = cookie[r.from].session
    <3>1. cookie[r.from] \in Cookies
      BY <1>2, <1>4
    <3>2. r.login \in Drawn
      BY <1>4 DEF RequestOK, Request
    <3> QED BY <3>1, <3>2 DEF Cookies
  <2> HIDE DEF c
  <2>3. /\ [cookie EXCEPT ![r.from] = c] \in [Browsers -> Cookies]
        /\ TokensFresh(f, [cookie EXCEPT ![r.from] = c], drawn)
    BY <2>2, <1>1, <1>4, <1>6, CookieKept
  <2>4. RestOK'
    BY <1>1, <1>3, <2>1, <2>3 DEF RestOK
  <2>5. live \in SUBSET states /\ StatesOK(live)
    BY <1>1, FewerStates DEF LiveStates
  <2>6. new \in State /\ new.id = r.login
    <3>1. r.login \in Drawn \ {0} /\ r.at \in Times /\ r.at + StateTicks \in Times
      BY <1>4, <1>2, LoginNumbers DEF Drawn, Times
    <3> QED BY <3>1 DEF NewLoginState, State
  <2> HIDE DEF live, new
  <2>7. StatesOK(live \cup {new})
    <3>1. IsFiniteSet(live) /\ live \subseteq State
      BY <2>5 DEF StatesOK
    <3>2. IsFiniteSet(live \cup {new}) /\ Cardinality(live \cup {new}) \in {Cardinality(live), Cardinality(live) + 1}
      BY <3>1, FS_AddElement
    <3>3. Cardinality(live) \in Nat /\ StateCapacity \in Nat /\ Cardinality(live) < StateCapacity
      BY <3>1, <1>8, FS_CardinalityType, LoginNumbers
    <3>4. Cardinality(live \cup {new}) <= StateCapacity
      BY <3>2, <3>3
    <3> QED BY <3>1, <3>2, <3>4, <2>6 DEF StatesOK
  <2>8. sessions \in SUBSET sessions
    OBVIOUS
  <2>9. RowsApart(f, live, sessions) /\ RowsDrawn(live, sessions, drawn)
    BY <2>5, <2>8, <1>1, <1>6, FewerRows
  <2>10. \A p \in Requests \ {q} : request[p].pc \in Holding => request[p].login # r.login
    <3>1. r.pc \in Holding
      BY <1>3 DEF Holding
    <3> QED BY <3>1, <1>1 DEF HoldersApart
  <2>11. (\A s \in states : s.id # r.login) /\ (\A s \in sessions : s.login # r.login)
    <3>1. r.pc \in Holding
      BY <1>3 DEF Holding
    <3> QED BY <3>1, <1>1 DEF RowsApart
  <2>12. \A p \in Requests : f[p].pc \in Holding => f[p].login # r.login
    BY <2>10, <1>5, <1>6
  <2> HIDE DEF r
  <2>13. RowsApart(f, live \cup {new}, sessions)
    <3>1. \A p \in Requests : f[p].pc \in Holding =>
             (\A s \in live \cup {new} : s.id # f[p].login) /\ (\A s \in sessions : s.login # f[p].login)
      BY <2>9, <2>12, <2>6 DEF RowsApart
    <3>2. \A s \in live \cup {new} : \A t \in sessions : s.id # t.login
      BY <2>9, <2>11, <2>6 DEF RowsApart
    <3>3. \A s, t \in live \cup {new} : s.id = t.id => s = t
      BY <2>9, <2>11, <2>5, <2>6 DEF RowsApart
    <3> QED BY <3>1, <3>2, <3>3, <2>9 DEF RowsApart
  <2>14. RowsDrawn(live \cup {new}, sessions, drawn)
    BY <2>9, <2>6, <1>4, <1>2 DEF RowsDrawn
  <2> QED BY <2>1, <2>3, <2>4, <2>7, <2>13, <2>14, <1>1, <1>3, <1>6 DEF LoginInv
<1> QED BY <1>7, <1>8

LEMMA CallbackStartKeeps ==
    ASSUME LoginInv, NEW q \in Requests, NEW b \in Browsers, NEW id \in 1..drawn, CallbackStart(q, b, id)
    PROVE  LoginInv'
<1> DEFINE x == [NoRequest EXCEPT !.pc = "complete", !.from = b, !.login = id,
                                  !.old = cookie[b].session, !.at = clock]
           f == [request EXCEPT ![q] = x]
           c == [cookie[b] EXCEPT !.binding = 0]
<1>1. /\ RequestsOK(request, drawn) /\ HoldersApart(request) /\ RowsApart(request, states, sessions)
      /\ RowsDrawn(states, sessions, drawn) /\ StatesOK(states) /\ SessionsOK(sessions)
      /\ TokensApart(request) /\ TokensFresh(request, cookie, drawn) /\ RestOK
  BY DEF LoginInv
<1>2. drawn \in Nat /\ clock \in 0..MaxTime /\ drawn \in Drawn /\ cookie \in [Browsers -> Cookies]
  BY <1>1, LoginNumbers DEF RestOK
<1>3. UNCHANGED <<clock, buckets, states, sessions, allowed, drawn>>
  BY DEF CallbackStart
<1>4. CASE cookie[b].binding = id
  <2>1. request' = f /\ cookie' = cookie
    BY <1>4 DEF CallbackStart
  <2>2. x \in Request
    <3>1. NoRequest \in Request
      BY <1>2, NoRequestOK DEF RequestOK
    <3>2. clock \in Times /\ cookie[b].session \in Drawn /\ id \in Drawn
      BY <1>2, LoginNumbers DEF Cookies, Drawn
    <3> QED BY <3>1, <3>2 DEF Request
  <2>3. x.pc = "complete" /\ x.from = b /\ x.login = id /\ x.token = 0 /\ x.at = clock
    BY DEF NoRequest
  <2> HIDE DEF x
  <2>4. RequestOK(x, drawn)
    <3>1. id \in 0..drawn /\ 0 \in 0..drawn /\ id # 0
      BY <1>2
    <3> QED BY <3>1, <2>2, <2>3, <1>2 DEF RequestOK, Holding, Tokened
  <2>5. x.pc \notin Holding
    BY <2>3 DEF Holding
  <2>6. /\ RequestsOK(f, drawn) /\ HoldersApart(f) /\ RowsApart(f, states, sessions)
        /\ TokensApart(f) /\ TokensFresh(f, cookie, drawn)
    BY <1>1, <1>2, <2>3, <2>4, <2>5, HolderEnds
  <2> HIDE DEF f
  <2>7. RestOK'
    BY <1>1, <1>3, <2>1 DEF RestOK
  <2> QED BY <1>1, <1>3, <2>1, <2>6, <2>7 DEF LoginInv
<1>5. CASE cookie[b].binding # id
  <2>1. cookie' = [cookie EXCEPT ![b] = c] /\ request' = request
    BY <1>5 DEF CallbackStart
  <2>2. c \in Cookies /\ c.session = cookie[b].session
    <3>1. cookie[b] \in Cookies /\ 0 \in Drawn
      BY <1>2, LoginNumbers
    <3> QED BY <3>1 DEF Cookies
  <2> HIDE DEF c
  <2>3. /\ [cookie EXCEPT ![b] = c] \in [Browsers -> Cookies]
        /\ TokensFresh(request, [cookie EXCEPT ![b] = c], drawn)
    BY <2>2, <1>1, CookieKept
  <2>4. RestOK'
    BY <1>1, <1>3, <2>1, <2>3 DEF RestOK
  <2> QED BY <1>1, <1>3, <2>1, <2>3, <2>4 DEF LoginInv
<1> QED BY <1>4, <1>5

LEMMA ConsumeLoginStateKeeps ==
    ASSUME LoginInv, NEW q \in Requests, ConsumeLoginState(q)
    PROVE  LoginInv'
<1> DEFINE r == request[q]
           st == states \ Matching(r)
           x == [r EXCEPT !.pc = "exchange"]
           f == [request EXCEPT ![q] = x]
<1>1. /\ RequestsOK(request, drawn) /\ HoldersApart(request) /\ RowsApart(request, states, sessions)
      /\ RowsDrawn(states, sessions, drawn) /\ StatesOK(states) /\ SessionsOK(sessions)
      /\ TokensApart(request) /\ TokensFresh(request, cookie, drawn) /\ RestOK
  BY DEF LoginInv
<1>2. drawn \in Nat
  BY <1>1, LoginNumbers DEF RestOK
<1>3. UNCHANGED <<clock, buckets, sessions, allowed, drawn>> /\ r.pc = "complete" /\ states' = st
  BY DEF ConsumeLoginState
<1>4. RequestOK(r, drawn)
  BY <1>1 DEF RequestsOK
<1>5. st \in SUBSET states /\ sessions \in SUBSET sessions
  OBVIOUS
<1>6. StatesOK(st)
  BY <1>1, <1>5, FewerStates
<1>7. CASE Matching(r) = {}
  <2>1. CallbackFails(q) /\ st = states
    BY <1>7 DEF ConsumeLoginState
  <2>2. CallbackEnds(q, cookie[r.from].session) /\ r.pc # "idle"
    BY <2>1, <1>3 DEF CallbackFails
  <2>3. /\ cookie' \in [Browsers -> Cookies] /\ RequestsOK(request', drawn)
        /\ HoldersApart(request') /\ RowsApart(request', states, sessions)
        /\ TokensApart(request') /\ TokensFresh(request', cookie', drawn)
    BY <2>2, CallbackEndsOK
  <2>4. RestOK'
    BY <1>1, <1>3, <2>3 DEF RestOK
  <2> QED BY <1>1, <1>3, <2>1, <2>3, <2>4 DEF LoginInv
<1>8. CASE Matching(r) # {}
  <2>1. request' = f /\ cookie' = cookie
    BY <1>8 DEF ConsumeLoginState
  <2>2. PICK s0 \in states : s0.id = r.login
    BY <1>8 DEF Matching
  <2>3. x.pc = "exchange" /\ x.login = r.login /\ x.token = r.token /\ x.at = r.at /\ x.from = r.from
        /\ x \in Request
    BY <1>4 DEF RequestOK, Request
  <2>4. r.token = 0 /\ r.login # 0 /\ r.from \in Browsers
    BY <1>3, <1>4 DEF RequestOK, Tokened
  <2> HIDE DEF x
  <2>5. RequestOK(x, drawn) /\ x.pc \in Holding
    BY <1>4, <2>3, <2>4 DEF RequestOK, Holding, Tokened
  <2>6. drawn <= drawn
    BY <1>2
  <2>7. RequestsOK(f, drawn) /\ f[q] = x /\ \A p \in Requests \ {q} : f[p] = request[p]
    BY <1>1, <1>2, <2>5, <2>6, RequestChanges
  <2> HIDE DEF f
  <2>8. \A s \in st : s.id # r.login
    <3> SUFFICES ASSUME NEW s \in st, s.id = r.login PROVE FALSE
      OBVIOUS
    <3>1. s = s0
      BY <2>2, <1>1 DEF RowsApart
    <3>2. PICK t \in Matching(r) : TRUE
      BY <1>8
    <3>3. t \in states /\ t.id = r.login
      BY <3>2 DEF Matching
    <3>4. t = s0
      BY <3>3, <2>2, <1>1 DEF RowsApart
    <3> QED BY <3>1, <3>4, <3>2
  <2> HIDE DEF st
  <2>9. \A p \in Requests \ {q} : f[p].pc \in Holding => f[p].login # r.login
    BY <2>2, <2>7, <1>1 DEF RowsApart
  <2>10. \A s \in sessions : s.login # r.login
    BY <2>2, <1>1 DEF RowsApart
  <2>11. HoldersApart(f)
    <3> SUFFICES ASSUME NEW p \in Requests, NEW p2 \in Requests, p # p2, f[p].pc \in Holding, f[p2].pc \in Holding
                 PROVE  f[p].login # f[p2].login
      BY DEF HoldersApart
    <3>1. CASE p = q
      BY <3>1, <2>7, <2>9, <2>3
    <3>2. CASE p2 = q
      BY <3>2, <2>7, <2>9, <2>3
    <3>3. CASE p # q /\ p2 # q
      BY <3>3, <2>7, <1>1 DEF HoldersApart
    <3> QED BY <3>1, <3>2, <3>3
  <2>12. RowsApart(request, st, sessions) /\ RowsDrawn(st, sessions, drawn)
    BY <1>1, <1>5, FewerRows
  <2>13. RowsApart(f, st, sessions)
    <3>1. ASSUME NEW p \in Requests, f[p].pc \in Holding
          PROVE  (\A s \in st : s.id # f[p].login) /\ (\A s \in sessions : s.login # f[p].login)
      <4>1. CASE p = q
        BY <4>1, <2>3, <2>7, <2>8, <2>10
      <4>2. CASE p # q
        BY <4>2, <3>1, <2>7, <2>12 DEF RowsApart
      <4> QED BY <4>1, <4>2
    <3> QED BY <3>1, <2>12 DEF RowsApart
  <2>14. \A p \in Requests : f[p].token = request[p].token
    BY <2>3, <2>7
  <2>15. TokensApart(f)
    BY <2>14, <1>1 DEF TokensApart
  <2>16. TokensFresh(f, cookie, drawn)
    BY <2>14, <1>1 DEF TokensFresh
  <2>17. RestOK'
    BY <1>1, <1>3, <2>1 DEF RestOK
  <2> QED BY <1>1, <1>3, <1>6, <2>1, <2>7, <2>11, <2>12, <2>13, <2>15, <2>16, <2>17 DEF LoginInv
<1> QED BY <1>7, <1>8
LEMMA IdentityKnownKeeps ==
    ASSUME LoginInv, NEW q \in Requests, IdentityKnown(q)
    PROVE  LoginInv'
<1> DEFINE r == request[q]
           d == drawn + 1
<1>1. /\ RequestsOK(request, drawn) /\ HoldersApart(request) /\ RowsApart(request, states, sessions)
      /\ RowsDrawn(states, sessions, drawn) /\ StatesOK(states) /\ SessionsOK(sessions)
      /\ TokensApart(request) /\ TokensFresh(request, cookie, drawn) /\ RestOK
  BY DEF LoginInv
<1>2. drawn \in Nat /\ clock \in 0..MaxTime
  BY <1>1, LoginNumbers DEF RestOK
<1>3. UNCHANGED <<clock, buckets, states, sessions, allowed>> /\ r.pc = "exchange"
  BY DEF IdentityKnown
<1>4. RequestOK(r, drawn)
  BY <1>1 DEF RequestsOK
<1>5. PICK w \in Users :
          IF w \in allowed
          THEN /\ drawn < MaxDrawn
               /\ drawn' = drawn + 1
               /\ request' = [request EXCEPT ![q] = [r EXCEPT
                       !.pc = "store", !.user = w, !.token = drawn', !.at = clock]]
               /\ UNCHANGED cookie
          ELSE /\ CallbackFails(q)
               /\ UNCHANGED drawn
  BY DEF IdentityKnown
<1>6. CASE w \notin allowed
  <2>1. CallbackEnds(q, cookie[r.from].session) /\ r.pc # "idle" /\ UNCHANGED drawn
    BY <1>5, <1>6, <1>3 DEF CallbackFails
  <2>2. /\ cookie' \in [Browsers -> Cookies] /\ RequestsOK(request', drawn)
        /\ HoldersApart(request') /\ RowsApart(request', states, sessions)
        /\ TokensApart(request') /\ TokensFresh(request', cookie', drawn)
    BY <2>1, CallbackEndsOK
  <2>3. RestOK'
    BY <1>1, <1>3, <2>1, <2>2 DEF RestOK
  <2> QED BY <1>1, <1>3, <2>1, <2>2, <2>3 DEF LoginInv
<1>7. CASE w \in allowed
  <2> DEFINE x == [r EXCEPT !.pc = "store", !.user = w, !.token = d, !.at = clock]
             f == [request EXCEPT ![q] = x]
  <2>1. drawn < MaxDrawn /\ drawn' = d /\ request' = f /\ cookie' = cookie
    BY <1>5, <1>7
  <2>2. d \in Nat /\ d \in Drawn /\ drawn <= d /\ d # 0 /\ drawn < d
    BY <2>1, <1>2, LoginNumbers DEF Drawn
  <2>3. /\ x.pc = "store" /\ x.login = r.login /\ x.token = d /\ x.at = clock /\ x.from = r.from
        /\ x.user = w /\ x \in Request
    <3>1. r \in Request /\ clock \in Times
      BY <1>2, <1>4, LoginNumbers DEF RequestOK
    <3> QED BY <3>1, <2>2 DEF Request
  <2>4. r.login # 0 /\ r.from \in Browsers /\ r.login \in 0..drawn
    BY <1>3, <1>4 DEF RequestOK, Holding
  <2> HIDE DEF x
  <2>5. RequestOK(x, d)
    <3>1. r.login \in 0..d /\ d \in 0..d
      BY <2>2, <2>4, <1>2
    <3> QED BY <3>1, <2>2, <2>3, <2>4, <1>2 DEF RequestOK, Holding, Tokened
  <2>6. RequestsOK(f, d) /\ f[q] = x /\ \A p \in Requests \ {q} : f[p] = request[p]
    BY <1>1, <1>2, <2>2, <2>5, RequestChanges
  <2> HIDE DEF f
  <2>7. \A p \in Requests : f[p].login = request[p].login /\ (f[p].pc \in Holding <=> request[p].pc \in Holding)
    BY <2>3, <2>6, <1>3 DEF Holding
  <2>8. HoldersApart(f)
    BY <2>7, <1>1 DEF HoldersApart
  <2>9. RowsApart(f, states, sessions)
    BY <2>7, <1>1 DEF RowsApart
  <2>10. RowsDrawn(states, sessions, d)
    <3>1. (\A s \in states : s.id \in Nat /\ s.id <= drawn) /\ (\A s \in sessions : s.login \in Nat /\ s.login <= drawn)
      BY <1>1, LoginNumbers DEF RowsDrawn, StatesOK, SessionsOK, State, Session
    <3> QED BY <3>1, <1>2 DEF RowsDrawn
  <2>11. \A p \in Requests \ {q} : f[p].token # d
    <3>1. \A p \in Requests : request[p].token \in 0..drawn
      BY <1>1 DEF RequestsOK, RequestOK
    <3> QED BY <3>1, <2>6, <2>2, <1>2
  <2>12. TokensApart(f)
    <3> SUFFICES ASSUME NEW p \in Requests, NEW p2 \in Requests, p # p2, f[p2].token # 0
                 PROVE  f[p].token # f[p2].token
      BY DEF TokensApart
    <3>1. CASE p = q
      BY <3>1, <2>6, <2>11, <2>3
    <3>2. CASE p2 = q
      BY <3>2, <2>6, <2>11, <2>3
    <3>3. CASE p # q /\ p2 # q
      BY <3>3, <2>6, <1>1 DEF TokensApart
    <3> QED BY <3>1, <3>2, <3>3
  <2>13. \A e \in Browsers : cookie[e].session \in Nat /\ cookie[e].session <= drawn
    BY <1>1, LoginNumbers DEF TokensFresh, RestOK, Cookies
  <2>14. TokensFresh(f, cookie, d)
    <3>1. ASSUME NEW p \in Requests, NEW e \in Browsers, f[p].token # 0
          PROVE  cookie[e].session # f[p].token
      <4>1. CASE p = q
        BY <4>1, <2>3, <2>6, <2>13, <2>2, <1>2
      <4>2. CASE p # q
        BY <4>2, <3>1, <2>6, <1>1 DEF TokensFresh
      <4> QED BY <4>1, <4>2
    <3>2. \A e \in Browsers : cookie[e].session <= d
      BY <2>13, <1>2
    <3> QED BY <3>1, <3>2 DEF TokensFresh
  <2>15. RestOK'
    BY <1>1, <1>3, <2>1, <2>2 DEF RestOK
  <2> HIDE DEF d
  <2> QED BY <1>1, <1>3, <2>1, <2>6, <2>8, <2>9, <2>10, <2>12, <2>14, <2>15 DEF LoginInv
<1> QED BY <1>6, <1>7

(* A callback that ends without touching the tables. *)
LEMMA CallbackFailsKeeps ==
    ASSUME LoginInv, NEW q \in Requests, request[q].pc # "idle", CallbackFails(q),
           UNCHANGED <<clock, buckets, states, sessions, allowed, drawn>>
    PROVE  LoginInv'
<1>1. CallbackEnds(q, cookie[request[q].from].session)
  BY DEF CallbackFails
<1>2. /\ cookie' \in [Browsers -> Cookies] /\ RequestsOK(request', drawn)
      /\ HoldersApart(request') /\ RowsApart(request', states, sessions)
      /\ TokensApart(request') /\ TokensFresh(request', cookie', drawn)
  BY <1>1, CallbackEndsOK
<1>3. RestOK'
  BY <1>2 DEF RestOK, LoginInv
<1> QED BY <1>2, <1>3 DEF LoginInv

(* The rowid is larger than those in the table. *)
LEMMA NextRowIsLarger ==
    ASSUME NEW rows, SessionsOK(rows)
    PROVE  NextRow(rows) \in Nat \ {0} /\ \A s \in rows : s.row < NextRow(rows)
<1> DEFINE N == {s.row : s \in rows}
           M == {0} \cup N
<1>1. rows \subseteq Session /\ IsFiniteSet(rows)
  BY DEF SessionsOK
<1>2. \A s \in rows : s.row \in Nat
  BY <1>1 DEF Session
<1>3. N \subseteq Nat
  BY <1>2
<1>4. IsFiniteSet(N)
  <2> DEFINE f == [s \in rows |-> s.row]
  <2>1. f \in Surjection(rows, N)
    BY DEF Surjection
  <2> HIDE DEF f, N
  <2> QED BY <2>1, <1>1, FS_Surjection
<1> HIDE DEF N
<1>5. IsFiniteSet(M) /\ M \in SUBSET Int /\ M # {}
  <2>1. IsFiniteSet(N \cup {0})
    BY <1>4, FS_AddElement
  <2>2. M = N \cup {0}
    OBVIOUS
  <2>3. M \subseteq Int
    BY <1>3
  <2> HIDE DEF M
  <2> QED BY <2>1, <2>2, <2>3
<1>6. Max(M) \in M /\ \A y \in M : Max(M) >= y
  <2> HIDE DEF M
  <2> QED BY <1>5, FiniteMax
<1>7. Max(M) \in Nat
  <2>1. M \subseteq Nat
    BY <1>3
  <2> HIDE DEF M
  <2> QED BY <2>1, <1>6
<1>8. NextRow(rows) = 1 + Max(M)
  BY DEF NextRow, N
<1>9. \A s \in rows : s.row \in M
  BY DEF N
<1> HIDE DEF M
<1> QED BY <1>2, <1>6, <1>7, <1>8, <1>9
(* The sessions that stay, and the row that is added. *)
Kept(x) == LiveSessions(x.at) \ Surplus(x.user, x.at)

Added(x) == [row |-> NextRow(Kept(x)), token |-> x.token, login |-> x.login, user |-> x.user,
             created |-> x.at, expires |-> x.at + SessionTicks]

LEMMA AddedRow ==
    ASSUME LoginInv, NEW q \in Requests, request[q].pc = "store"
    PROVE  /\ Kept(request[q]) \in SUBSET sessions /\ SessionsOK(Kept(request[q]))
           /\ Added(request[q]) \in Session
           /\ \A s \in Kept(request[q]) : s.row < Added(request[q]).row
           /\ SessionsOK(Kept(request[q]) \cup {Added(request[q])})
<1> DEFINE r == request[q]
           new == Added(r)
           kept == Kept(r)
<1>1. RequestOK(r, drawn) /\ SessionsOK(sessions)
  BY DEF LoginInv, RequestsOK
<1>2. r.token \in Drawn \ {0} /\ r.login \in Drawn \ {0} /\ r.user \in Users /\ r.at \in 0..MaxTime
  BY <1>1 DEF RequestOK, Request, Holding, Tokened
<1>3. kept \in SUBSET sessions
  BY DEF Kept, LiveSessions
<1>4. SessionsOK(kept)
  <2> HIDE DEF kept
  <2> QED BY <1>1, <1>3, FewerSessions
<1>5. NextRow(kept) \in Nat \ {0} /\ \A s \in kept : s.row < NextRow(kept)
  <2> HIDE DEF kept
  <2> QED BY <1>4, NextRowIsLarger
<1>6. r.at \in Times /\ r.at + SessionTicks \in Times
  BY <1>2, LoginNumbers DEF Times
<1> HIDE DEF r
<1>7. new \in Session /\ new.row = NextRow(kept)
  BY <1>2, <1>5, <1>6 DEF Session, Added
<1> HIDE DEF new, kept
<1>8. kept \subseteq Session /\ IsFiniteSet(kept) /\ \A s, t \in kept : s.row = t.row => s = t
  BY <1>4 DEF SessionsOK
<1>9. \A s \in kept : s.row \in Nat /\ s.row # new.row
  <2>1. \A s \in kept : s.row \in Nat
    BY <1>8 DEF Session
  <2> QED BY <2>1, <1>5, <1>7
<1>10. SessionsOK(kept \cup {new})
  <2>1. IsFiniteSet(kept \cup {new})
    BY <1>8, FS_AddElement
  <2>2. \A s, t \in kept \cup {new} : s.row = t.row => s = t
    BY <1>8, <1>9
  <2> QED BY <1>7, <1>8, <2>1, <2>2 DEF SessionsOK
<1> QED BY <1>3, <1>4, <1>5, <1>7, <1>10 DEF new, kept, r

LEMMA PutAuthSessionKeeps ==
    ASSUME LoginInv, NEW q \in Requests, PutAuthSession(q)
    PROVE  LoginInv'
<1> DEFINE r == request[q]
           kept == Kept(r)
           new == Added(r)
<1>1. /\ RequestsOK(request, drawn) /\ HoldersApart(request) /\ RowsApart(request, states, sessions)
      /\ RowsDrawn(states, sessions, drawn) /\ StatesOK(states) /\ SessionsOK(sessions)
      /\ TokensApart(request) /\ TokensFresh(request, cookie, drawn) /\ RestOK
  BY DEF LoginInv
<1>2. drawn \in Nat
  BY <1>1, LoginNumbers DEF RestOK
<1>3. /\ UNCHANGED <<clock, buckets, states, allowed, drawn>> /\ r.pc = "store"
      /\ sessions' = kept \cup {new}
      /\ IF r.old = 0
         THEN CallbackEnds(q, r.token)
         ELSE /\ request' = [request EXCEPT ![q].pc = "rotate"]
              /\ UNCHANGED cookie
  BY DEF PutAuthSession, Kept, Added
<1>4. RequestOK(r, drawn) /\ r.token # 0 /\ r.login \in 0..drawn
  <2>1. RequestOK(r, drawn)
    BY <1>1 DEF RequestsOK
  <2> QED BY <2>1, <1>3 DEF RequestOK, Tokened
<1>5. /\ kept \in SUBSET sessions /\ SessionsOK(kept \cup {new})
      /\ new.login = r.login
  <2>1. new.login = r.login
    BY DEF Added
  <2> QED BY <1>3, <2>1, AddedRow
<1>6. /\ RequestsOK(request', drawn) /\ cookie' \in [Browsers -> Cookies]
      /\ request'[q].pc \notin Holding /\ \A p \in Requests \ {q} : request'[p] = request[p]
      /\ HoldersApart(request') /\ RowsApart(request', states, sessions)
      /\ TokensApart(request') /\ TokensFresh(request', cookie', drawn)
  <2>1. CASE r.old = 0
    <3>1. CallbackEnds(q, r.token) /\ r.pc # "idle"
      BY <2>1, <1>3
    <3>2. /\ cookie' \in [Browsers -> Cookies]
          /\ RequestsOK(request', drawn) /\ request'[q] = NoRequest
          /\ \A p \in Requests \ {q} : request'[p] = request[p]
          /\ HoldersApart(request') /\ RowsApart(request', states, sessions)
          /\ TokensApart(request') /\ TokensFresh(request', cookie', drawn)
      BY <3>1, <1>4, CallbackEndsOK
    <3>3. request'[q].pc \notin Holding
      BY <3>2 DEF NoRequest, Holding
    <3> QED BY <3>2, <3>3
  <2>2. CASE r.old # 0
    <3> DEFINE x == [r EXCEPT !.pc = "rotate"]
               f == [request EXCEPT ![q] = x]
    <3>1. request' = f /\ cookie' = cookie
      BY <2>2, <1>3
    <3>2. x.pc = "rotate" /\ x.login = r.login /\ x.token = r.token /\ x.at = r.at /\ x.from = r.from
          /\ x \in Request
      BY <1>4 DEF RequestOK, Request
    <3> HIDE DEF x
    <3>3. RequestOK(x, drawn) /\ x.pc \notin Holding
      BY <1>3, <1>4, <3>2 DEF RequestOK, Holding, Tokened
    <3>4. /\ RequestsOK(f, drawn) /\ f[q] = x /\ \A p \in Requests \ {q} : f[p] = request[p]
          /\ HoldersApart(f) /\ RowsApart(f, states, sessions) /\ TokensApart(f) /\ TokensFresh(f, cookie, drawn)
      BY <1>1, <1>2, <3>2, <3>3, HolderEnds
    <3> HIDE DEF f
    <3>5. cookie \in [Browsers -> Cookies]
      BY <1>1 DEF RestOK
    <3> QED BY <3>1, <3>3, <3>4, <3>5
  <2> QED BY <2>1, <2>2
<1>7. /\ \A p \in Requests \ {q} : request[p].pc \in Holding => request[p].login # r.login
      /\ \A s \in states : s.id # r.login
      /\ \A s \in sessions : s.login # r.login
  <2>1. r.pc \in Holding
    BY <1>3 DEF Holding
  <2> QED BY <2>1, <1>1 DEF RowsApart, HoldersApart
<1> HIDE DEF kept, new
<1>8. states \in SUBSET states
  OBVIOUS
<1>9. RowsApart(request', states, kept) /\ RowsDrawn(states, kept, drawn)
  BY <1>1, <1>5, <1>6, <1>8, FewerRows
<1>10. \A p \in Requests : request'[p].pc \in Holding => request'[p].login # r.login
  BY <1>6, <1>7
<1>11. RowsApart(request', states, kept \cup {new})
  <2>1. \A p \in Requests : request'[p].pc \in Holding =>
           (\A s \in states : s.id # request'[p].login) /\ (\A s \in kept \cup {new} : s.login # request'[p].login)
    BY <1>5, <1>9, <1>10 DEF RowsApart
  <2>2. \A s \in states : \A t \in kept \cup {new} : s.id # t.login
    BY <1>5, <1>7, <1>9 DEF RowsApart
  <2>3. \A s, t \in kept \cup {new} : s.login = t.login => s = t
    BY <1>5, <1>7, <1>9 DEF RowsApart
  <2> QED BY <2>1, <2>2, <2>3, <1>9 DEF RowsApart
<1>12. RowsDrawn(states, kept \cup {new}, drawn)
  BY <1>2, <1>4, <1>5, <1>9 DEF RowsDrawn
<1>13. RestOK'
  BY <1>1, <1>3, <1>6 DEF RestOK
<1> QED BY <1>1, <1>3, <1>5, <1>6, <1>11, <1>12, <1>13 DEF LoginInv

(* Sessions are only taken away, and nothing else but handlers and cookies *)
(* changes.                                                                *)
LEMMA SessionsTakenKeeps ==
    ASSUME LoginInv, sessions' \in SUBSET sessions, UNCHANGED <<clock, buckets, states, allowed, drawn>>,
           cookie' \in [Browsers -> Cookies], RequestsOK(request', drawn),
           HoldersApart(request'), RowsApart(request', states, sessions),
           TokensApart(request'), TokensFresh(request', cookie', drawn)
    PROVE  LoginInv'
<1>1. RowsDrawn(states, sessions, drawn) /\ StatesOK(states) /\ SessionsOK(sessions) /\ RestOK
  BY DEF LoginInv
<1>2. SessionsOK(sessions')
  BY <1>1, FewerSessions
<1>3. states \in SUBSET states
  OBVIOUS
<1>4. RowsApart(request', states, sessions') /\ RowsDrawn(states, sessions', drawn)
  BY <1>1, <1>3, FewerRows
<1>5. RestOK'
  BY <1>1 DEF RestOK
<1> QED BY <1>1, <1>2, <1>4, <1>5 DEF LoginInv

LEMMA RevokeOldKeeps ==
    ASSUME LoginInv, NEW q \in Requests, RevokeOld(q)
    PROVE  LoginInv'
<1>1. /\ request[q].pc = "rotate" /\ CallbackEnds(q, request[q].token)
      /\ UNCHANGED <<clock, buckets, states, allowed, drawn>>
      /\ sessions' = Without(request[q].old)
  BY DEF RevokeOld, Revoke
<1>2. request[q].token # 0
  BY <1>1 DEF LoginInv, RequestsOK, RequestOK, Tokened
<1>3. /\ cookie' \in [Browsers -> Cookies] /\ RequestsOK(request', drawn)
      /\ HoldersApart(request') /\ RowsApart(request', states, sessions)
      /\ TokensApart(request') /\ TokensFresh(request', cookie', drawn)
  BY <1>1, <1>2, CallbackEndsOK
<1>4. sessions' \in SUBSET sessions
  BY <1>1 DEF Without
<1> QED BY <1>1, <1>3, <1>4, SessionsTakenKeeps

LEMMA RevokeNewKeeps ==
    ASSUME LoginInv, NEW q \in Requests, RevokeNew(q)
    PROVE  LoginInv'
<1>1. /\ request[q].pc = "undo" /\ CallbackEnds(q, cookie[request[q].from].session)
      /\ UNCHANGED <<clock, buckets, states, allowed, drawn>>
      /\ sessions' = Without(request[q].token)
  BY DEF RevokeNew, Revoke, CallbackFails
<1>3. /\ cookie' \in [Browsers -> Cookies] /\ RequestsOK(request', drawn)
      /\ HoldersApart(request') /\ RowsApart(request', states, sessions)
      /\ TokensApart(request') /\ TokensFresh(request', cookie', drawn)
  BY <1>1, CallbackEndsOK
<1>4. sessions' \in SUBSET sessions
  BY <1>1 DEF Without
<1> QED BY <1>1, <1>3, <1>4, SessionsTakenKeeps

(* A handler that ends and leaves the tables and cookies alone. *)
LEMMA HandlerEndsKeeps ==
    ASSUME LoginInv, NEW q \in Requests, NEW x, RequestOK(x, drawn), x.pc \notin Holding,
           x.token = 0 \/ x.token = request[q].token,
           request' = [request EXCEPT ![q] = x],
           UNCHANGED <<clock, buckets, states, sessions, allowed, cookie, drawn>>
    PROVE  LoginInv'
<1> DEFINE f == [request EXCEPT ![q] = x]
<1>1. /\ RequestsOK(request, drawn) /\ HoldersApart(request) /\ RowsApart(request, states, sessions)
      /\ TokensApart(request) /\ TokensFresh(request, cookie, drawn) /\ RestOK
  BY DEF LoginInv
<1>2. drawn \in Nat /\ cookie \in [Browsers -> Cookies]
  BY <1>1, LoginNumbers DEF RestOK
<1>3. /\ RequestsOK(f, drawn) /\ HoldersApart(f) /\ RowsApart(f, states, sessions)
      /\ TokensApart(f) /\ TokensFresh(f, cookie, drawn)
  BY <1>1, <1>2, HolderEnds
<1> HIDE DEF f
<1>4. request' = f
  BY DEF f
<1>5. sessions' \in SUBSET sessions
  OBVIOUS
<1> QED BY <1>2, <1>3, <1>4, <1>5, SessionsTakenKeeps

LEMMA StatementFailsKeeps ==
    ASSUME LoginInv, NEW q \in Requests, StatementFails(q)
    PROVE  LoginInv'
<1> DEFINE r == request[q]
<1>1. UNCHANGED <<clock, buckets, states, sessions, allowed, drawn>>
  BY DEF StatementFails
<1>2. drawn \in Nat /\ RequestOK(r, drawn)
  BY LoginNumbers DEF LoginInv, RestOK, RequestsOK
<1>3. CASE r.pc = "begin" /\ request' = [request EXCEPT ![q] = NoRequest] /\ UNCHANGED cookie
  <2>1. RequestOK(NoRequest, drawn) /\ NoRequest.pc \notin Holding /\ NoRequest.token = 0
    BY <1>2, NoRequestOK DEF NoRequest, Holding
  <2> QED BY <1>1, <1>3, <2>1, HandlerEndsKeeps
<1>4. CASE r.pc \in {"complete", "store", "undo"} /\ CallbackFails(q)
  <2>1. r.pc # "idle"
    BY <1>4
  <2> QED BY <1>1, <1>4, <2>1, CallbackFailsKeeps
<1>5. CASE r.pc = "rotate" /\ request' = [request EXCEPT ![q].pc = "undo"] /\ UNCHANGED cookie
  <2> DEFINE x == [r EXCEPT !.pc = "undo"]
  <2>1. request' = [request EXCEPT ![q] = x]
    BY <1>5
  <2>2. x.pc = "undo" /\ x.login = r.login /\ x.token = r.token /\ x.at = r.at /\ x.from = r.from
        /\ x \in Request
    BY <1>2 DEF RequestOK, Request
  <2> HIDE DEF x
  <2>3. RequestOK(x, drawn) /\ x.pc \notin Holding
    BY <1>2, <1>5, <2>2 DEF RequestOK, Holding, Tokened
  <2> QED BY <1>1, <1>5, <2>1, <2>2, <2>3, HandlerEndsKeeps
<1> QED BY <1>3, <1>4, <1>5 DEF StatementFails
LEMMA AuthenticateKeeps ==
    ASSUME LoginInv, NEW q \in Requests, NEW b \in Browsers, Authenticate(q, b)
    PROVE  LoginInv'
<1> DEFINE c == [cookie[b] EXCEPT !.session = 0]
<1>1. /\ RequestsOK(request, drawn) /\ HoldersApart(request) /\ RowsApart(request, states, sessions)
      /\ TokensApart(request) /\ TokensFresh(request, cookie, drawn) /\ RestOK /\ SessionsOK(sessions)
  BY DEF LoginInv
<1>2. drawn \in Nat /\ cookie \in [Browsers -> Cookies]
  BY <1>1, LoginNumbers DEF RestOK
<1>3. UNCHANGED <<clock, buckets, states, allowed, drawn>>
  BY DEF Authenticate
<1>4. ASSUME NEW s \in Found(cookie[b].session, clock),
             request' = [request EXCEPT ![q] = [NoRequest EXCEPT
                           !.pc = "serve", !.from = b, !.old = s.token, !.user = s.user]],
             UNCHANGED <<sessions, cookie>>
      PROVE  LoginInv'
  <2> DEFINE x == [NoRequest EXCEPT !.pc = "serve", !.from = b, !.old = s.token, !.user = s.user]
  <2>1. s \in Session
    BY <1>1 DEF Found, SessionsOK
  <2>2. x \in Request
    <3>1. NoRequest \in Request
      BY <1>2, NoRequestOK DEF RequestOK
    <3>2. s.token \in Drawn /\ s.user \in Users
      BY <2>1 DEF Session
    <3> QED BY <3>1, <3>2 DEF Request
  <2>3. x.pc = "serve" /\ x.from = b /\ x.login = 0 /\ x.token = 0 /\ x.at = 0
    BY DEF NoRequest
  <2>4. request' = [request EXCEPT ![q] = x]
    BY <1>4
  <2> HIDE DEF x
  <2>5. RequestOK(x, drawn) /\ x.pc \notin Holding
    <3>1. 0 \in 0..MaxTime /\ 0 \in 0..drawn
      BY <1>2, LoginNumbers
    <3> QED BY <3>1, <2>2, <2>3 DEF RequestOK, Holding, Tokened
  <2>6. UNCHANGED <<clock, buckets, states, sessions, allowed, cookie, drawn>>
    BY <1>3, <1>4
  <2> QED BY <2>3, <2>4, <2>5, <2>6, HandlerEndsKeeps
<1>5. ASSUME cookie' = [cookie EXCEPT ![b] = c], sessions' \in SUBSET sessions, UNCHANGED request
      PROVE  LoginInv'
  <2>1. c \in Cookies /\ c.session = 0
    <3>1. cookie[b] \in Cookies /\ 0 \in Drawn
      BY <1>2, LoginNumbers
    <3> QED BY <3>1 DEF Cookies
  <2> HIDE DEF c
  <2>2. /\ [cookie EXCEPT ![b] = c] \in [Browsers -> Cookies]
        /\ TokensFresh(request, [cookie EXCEPT ![b] = c], drawn)
    BY <2>1, <1>1, CookieKept
  <2> QED BY <1>1, <1>3, <1>5, <2>2, SessionsTakenKeeps
<1>6. CASE \E s \in Found(cookie[b].session, clock) :
             request' = [request EXCEPT ![q] = [NoRequest EXCEPT
                           !.pc = "serve", !.from = b, !.old = s.token, !.user = s.user]]
             /\ UNCHANGED <<sessions, cookie>>
  BY <1>4, <1>6
<1>7. CASE /\ cookie' = [cookie EXCEPT ![b].session = 0]
           /\ \/ Revoke(cookie[b].session)
              \/ UNCHANGED sessions
           /\ UNCHANGED request
  <2>1. sessions' \in SUBSET sessions
    BY <1>7 DEF Revoke, Without
  <2> QED BY <2>1, <1>5, <1>7
<1> QED BY <1>6, <1>7 DEF Authenticate

LEMMA ServeKeeps ==
    ASSUME LoginInv, NEW q \in Requests, Serve(q)
    PROVE  LoginInv'
<1>1. drawn \in Nat
  BY LoginNumbers DEF LoginInv, RestOK
<1>2. RequestOK(NoRequest, drawn) /\ NoRequest.pc \notin Holding /\ NoRequest.token = 0
  BY <1>1, NoRequestOK DEF NoRequest, Holding
<1>3. request' = [request EXCEPT ![q] = NoRequest]
      /\ UNCHANGED <<clock, buckets, states, sessions, allowed, cookie, drawn>>
  BY DEF Serve
<1> QED BY <1>2, <1>3, HandlerEndsKeeps

LEMMA LogoutKeeps ==
    ASSUME LoginInv, NEW q \in Requests, Logout(q)
    PROVE  LoginInv'
<1> DEFINE b == request[q].from
           c == [cookie[b] EXCEPT !.session = 0]
           f == [request EXCEPT ![q] = NoRequest]
<1>1. /\ RequestsOK(request, drawn) /\ HoldersApart(request) /\ RowsApart(request, states, sessions)
      /\ TokensApart(request) /\ TokensFresh(request, cookie, drawn) /\ RestOK
  BY DEF LoginInv
<1>2. drawn \in Nat /\ cookie \in [Browsers -> Cookies]
  BY <1>1, LoginNumbers DEF RestOK
<1>3. /\ UNCHANGED <<clock, buckets, states, allowed, drawn>> /\ request[q].pc = "serve"
      /\ request' = f /\ cookie' = [cookie EXCEPT ![b] = c] /\ sessions' \in SUBSET sessions
  BY DEF Logout, Revoke, Without
<1>4. b \in Browsers
  BY <1>1, <1>3 DEF RequestsOK, RequestOK
<1>5. RequestOK(NoRequest, drawn) /\ NoRequest.pc \notin Holding /\ NoRequest.token = 0
  BY <1>2, NoRequestOK DEF NoRequest, Holding
<1>6. /\ RequestsOK(f, drawn) /\ HoldersApart(f) /\ RowsApart(f, states, sessions)
      /\ TokensApart(f) /\ TokensFresh(f, cookie, drawn)
  BY <1>1, <1>2, <1>5, HolderEnds
<1>7. c \in Cookies /\ c.session = 0
  <2>1. cookie[b] \in Cookies /\ 0 \in Drawn
    BY <1>2, <1>4, LoginNumbers
  <2> QED BY <2>1 DEF Cookies
<1> HIDE DEF b, c, f
<1>8. /\ [cookie EXCEPT ![b] = c] \in [Browsers -> Cookies]
      /\ TokensFresh(f, [cookie EXCEPT ![b] = c], drawn)
  BY <1>1, <1>4, <1>6, <1>7, CookieKept
<1> QED BY <1>3, <1>6, <1>8, SessionsTakenKeeps

LEMMA WebRestartKeeps ==
    ASSUME LoginInv, WebRestart
    PROVE  LoginInv'
<1>1. /\ RowsApart(request, states, sessions) /\ RowsDrawn(states, sessions, drawn) /\ StatesOK(states)
      /\ SessionsOK(sessions) /\ TokensFresh(request, cookie, drawn) /\ RestOK
  BY DEF LoginInv
<1>2. drawn \in Nat
  BY <1>1, LoginNumbers DEF RestOK
<1>3. /\ UNCHANGED <<clock, states, sessions, cookie, drawn>>
      /\ request' = [q \in Requests |-> NoRequest] /\ buckets' = [a \in Addresses |-> NoBucket]
      /\ allowed' \in SUBSET Users \ {{}}
  BY DEF WebRestart
<1>4. RequestOK(NoRequest, drawn) /\ NoRequest.pc \notin Holding /\ NoRequest.token = 0
  BY <1>2, NoRequestOK DEF NoRequest, Holding
<1>5. \A q \in Requests : request'[q] = NoRequest
  BY <1>3
<1>6. RequestsOK(request', drawn)
  BY <1>3, <1>4 DEF RequestsOK, RequestOK
<1>7. HoldersApart(request') /\ RowsApart(request', states, sessions)
      /\ TokensApart(request') /\ TokensFresh(request', cookie, drawn)
  BY <1>1, <1>4, <1>5 DEF HoldersApart, RowsApart, TokensApart, TokensFresh
<1>8. NoBucket \in Bucket
  BY LoginNumbers DEF NoBucket, Bucket
<1>9. RestOK'
  BY <1>1, <1>3, <1>8 DEF RestOK
<1> QED BY <1>1, <1>3, <1>6, <1>7, <1>9 DEF LoginInv

LEMMA LoginInvInit == LoginInit => LoginInv
<1> SUFFICES ASSUME LoginInit PROVE LoginInv
  OBVIOUS
<1>1. RequestOK(NoRequest, 0) /\ NoRequest.pc \notin Holding /\ NoRequest.token = 0
  BY NoRequestOK DEF NoRequest, Holding
<1>2. \A q \in Requests : request[q] = NoRequest
  BY DEF LoginInit
<1>3. /\ clock = 0 /\ drawn = 0 /\ states = {} /\ sessions = {}
      /\ request = [q \in Requests |-> NoRequest] /\ buckets = [a \in Addresses |-> NoBucket]
      /\ allowed \in SUBSET Users \ {{}}
      /\ cookie = [b \in Browsers |-> [binding |-> 0, session |-> 0]]
  BY DEF LoginInit
<1>4. RequestsOK(request, drawn)
  BY <1>1, <1>3 DEF RequestsOK, RequestOK
<1>5. \A b \in Browsers : cookie[b].session = 0
  BY <1>3
<1>6. HoldersApart(request) /\ RowsApart(request, states, sessions) /\ RowsDrawn(states, sessions, drawn)
      /\ TokensApart(request) /\ TokensFresh(request, cookie, drawn)
  BY <1>1, <1>2, <1>3, <1>5 DEF HoldersApart, RowsApart, RowsDrawn, TokensApart, TokensFresh
<1>7. StatesOK(states) /\ SessionsOK(sessions)
  BY <1>3, FS_EmptySet, LoginNumbers DEF StatesOK, SessionsOK
<1>8. NoBucket \in Bucket
  BY LoginNumbers DEF NoBucket, Bucket
<1>9. cookie \in [Browsers -> Cookies]
  BY <1>3, LoginNumbers DEF Cookies
<1>10. clock \in 0..MaxTime /\ drawn \in Drawn
  BY <1>3, LoginNumbers
<1>11. RestOK
  BY <1>3, <1>8, <1>9, <1>10 DEF RestOK
<1> QED BY <1>4, <1>6, <1>7, <1>11 DEF LoginInv

LEMMA LoginStep == LoginInv /\ [LoginNext]_loginVars => LoginInv'
<1> SUFFICES ASSUME LoginInv, [LoginNext]_loginVars PROVE LoginInv'
  OBVIOUS
<1>1. CASE UNCHANGED loginVars
  BY <1>1 DEF loginVars, LoginInv, RestOK
<1>2. CASE Tick
  <2>1. /\ clock < MaxTime /\ clock' = clock + 1
        /\ UNCHANGED <<buckets, states, sessions, allowed, cookie, request, drawn>>
    BY <1>2 DEF Tick
  <2>2. clock' \in 0..MaxTime
    BY <2>1, LoginNumbers DEF LoginInv, RestOK
  <2>3. RestOK'
    BY <2>1, <2>2 DEF LoginInv, RestOK
  <2> QED BY <2>1, <2>3 DEF LoginInv
<1>3. ASSUME NEW q \in Requests, ExchangeFails(q) PROVE LoginInv'
  BY <1>3, CallbackFailsKeeps DEF ExchangeFails
<1>4. CASE LoginNext
  BY <1>2, <1>3, <1>4, LoginStartKeeps, CallbackStartKeeps, AuthenticateKeeps, PutLoginStateKeeps,
     ConsumeLoginStateKeeps, IdentityKnownKeeps, PutAuthSessionKeeps, StatementFailsKeeps,
     RevokeOldKeeps, RevokeNewKeeps, ServeKeeps, LogoutKeeps, WebRestartKeeps DEF LoginNext
<1> QED BY <1>1, <1>4

LEMMA LoginInvariant == LoginSpec => []LoginInv
  BY LoginInvInit, LoginStep, PTL DEF LoginSpec

(***************************************************************************)
(* Theorems about Login.                                                   *)
(***************************************************************************)
(* The types of Login: among others the counts of the limiter never pass   *)
(* StartLimit.                                                             *)
THEOREM LoginTypeCorrect == LoginSpec => []LoginTypeOK
<1>1. LoginInv => LoginTypeOK
  BY DEF LoginInv, RestOK, RequestsOK, StatesOK, SessionsOK, LoginTypeOK
<1> QED BY <1>1, LoginInvariant, PTL

(* A login state leads to at most one session, for every number of         *)
(* handlers, browsers and users: the callbacks that exchange it, its rows  *)
(* and its place in the table exclude each other.                          *)
THEOREM OneSessionCorrect == LoginSpec => []OneSessionPerLogin
<1>1. ASSUME LoginInv, NEW id \in 1..drawn
      PROVE  LET callbacks == {q \in Requests : request[q].pc \in {"exchange", "store"} /\ request[q].login = id}
                 rows      == {s \in sessions : s.login = id}
                 pending   == {s \in states : s.id = id}
             IN  Cardinality(callbacks) + Cardinality(rows) + Cardinality(pending) <= 1
  <2> DEFINE callbacks == {q \in Requests : request[q].pc \in {"exchange", "store"} /\ request[q].login = id}
             rows      == {s \in sessions : s.login = id}
             pending   == {s \in states : s.id = id}
  <2>1. HoldersApart(request) /\ RowsApart(request, states, sessions)
    BY <1>1 DEF LoginInv
  <2>2. \A q \in callbacks : q \in Requests /\ request[q].pc \in Holding /\ request[q].login = id
    BY DEF Holding
  <2>3. /\ \A x, y \in callbacks : x = y
        /\ \A x, y \in rows : x = y
        /\ \A x, y \in pending : x = y
    BY <2>1, <2>2 DEF HoldersApart, RowsApart
  <2>4. /\ callbacks # {} => rows = {} /\ pending = {}
        /\ rows # {} => pending = {}
    BY <2>1, <2>2 DEF RowsApart
  <2> HIDE DEF callbacks, rows, pending
  <2>5. /\ Cardinality(callbacks) = IF callbacks = {} THEN 0 ELSE 1
        /\ Cardinality(rows) = IF rows = {} THEN 0 ELSE 1
        /\ Cardinality(pending) = IF pending = {} THEN 0 ELSE 1
    <3>1. ASSUME NEW T, \A x, y \in T : x = y
          PROVE  Cardinality(T) = IF T = {} THEN 0 ELSE 1
      <4>1. CASE T = {}
        BY <4>1, FS_EmptySet
      <4>2. CASE T # {}
        <5>1. PICK x \in T : TRUE
          BY <4>2
        <5>2. T = {x}
          BY <3>1, <5>1
        <5> QED BY <4>2, <5>2, FS_Singleton
      <4> QED BY <4>1, <4>2
    <3> QED BY <3>1, <2>3
  <2> QED BY <2>4, <2>5 DEF callbacks, rows, pending
<1>2. LoginInv => OneSessionPerLogin
  BY <1>1 DEF OneSessionPerLogin
<1> QED BY <1>2, LoginInvariant, PTL
(* A refused start met a table full of unexpired login states, and no      *)
(* step exceeds the capacity, whatever the capacity is.                    *)
THEOREM PlacesCorrect == LoginSpec => PlacesAreLive
<1>1. ASSUME LoginInv, LoginInv', [LoginNext]_loginVars
      PROVE  /\ Cardinality(states') <= StateCapacity
             /\ \A q \in Requests :
                   (PutLoginState(q) /\ states' = states)
                      => Cardinality({s \in states : s.expires > request[q].at}) = StateCapacity
  <2>1. Cardinality(states') <= StateCapacity
    BY <1>1 DEF LoginInv, StatesOK
  <2>2. ASSUME NEW q \in Requests, PutLoginState(q), states' = states
        PROVE  Cardinality({s \in states : s.expires > request[q].at}) = StateCapacity
    <3> DEFINE live == {s \in states : s.expires > request[q].at}
    <3>1. request[q].pc \in Holding
      BY <2>2 DEF PutLoginState, Holding
    <3>2. \A s \in states : s.id # request[q].login
      BY <1>1, <3>1 DEF LoginInv, RowsApart
    <3>3. Cardinality(live) >= StateCapacity
      <4> SUFFICES ASSUME ~(Cardinality(live) >= StateCapacity) PROVE FALSE
        OBVIOUS
      <4>1. states' = live \cup {NewLoginState(request[q].login, request[q].at)}
        BY <2>2 DEF PutLoginState, LiveStates
      <4>2. NewLoginState(request[q].login, request[q].at) \in states
        BY <2>2, <4>1
      <4> QED BY <3>2, <4>2 DEF NewLoginState
    <3>4. live \in SUBSET states
      OBVIOUS
    <3> HIDE DEF live
    <3>5. IsFiniteSet(states) /\ Cardinality(states) <= StateCapacity
      BY <1>1 DEF LoginInv, StatesOK
    <3>6. IsFiniteSet(live) /\ Cardinality(live) <= Cardinality(states)
      BY <3>4, <3>5, FS_Subset
    <3>7. Cardinality(live) \in Nat /\ Cardinality(states) \in Nat /\ StateCapacity \in Nat
      BY <3>5, <3>6, FS_CardinalityType, LoginNumbers
    <3>8. Cardinality(live) = StateCapacity
      BY <3>3, <3>5, <3>6, <3>7
    <3> QED BY <3>8 DEF live
  <2> QED BY <2>1, <2>2
<1> QED BY <1>1, LoginInvariant, PTL DEF LoginSpec, PlacesAreLive

(* While the process runs, an address keeps its window and its count until *)
(* the window ends, for every number of addresses and places.              *)
THEOREM QuotaCorrect == LoginSpec => QuotaKept
<1>1. ASSUME LoginInv, LoginNext, ~WebRestart, NEW a \in Addresses, buckets[a].expires > clock
      PROVE  /\ buckets'[a].expires = buckets[a].expires
             /\ buckets'[a].count \in buckets[a].count..StartLimit
  <2>1. buckets \in [Addresses -> Bucket] /\ clock \in Nat
    BY <1>1, LoginNumbers DEF LoginInv, RestOK
  <2>2. buckets[a].count \in 0..StartLimit /\ buckets[a].expires \in Times
    BY <2>1 DEF Bucket
  <2>3. CASE buckets' = buckets
    BY <2>2, <2>3, LoginNumbers
  <2>4. ASSUME NEW q \in Requests, NEW b \in Browsers, NEW c \in Addresses, LoginStart(q, b, c)
        PROVE  /\ buckets'[a].expires = buckets[a].expires
               /\ buckets'[a].count \in buckets[a].count..StartLimit
    <3>1. a \in ActiveBuckets(clock)
      BY <1>1 DEF ActiveBuckets
    <3>2. Swept(clock)[a] = buckets[a] /\ Swept(clock) = [x \in Addresses |-> Swept(clock)[x]]
      BY <3>1 DEF Swept
    <3>3. CASE buckets' = Swept(clock)
      BY <2>2, <3>2, <3>3, LoginNumbers
    <3>4. CASE Admits(c, clock) /\ buckets' = [Swept(clock) EXCEPT ![c] = Counted(c, clock)]
      <4>1. CASE c # a
        <5>1. buckets'[a] = buckets[a]
          BY <3>2, <3>4, <4>1
        <5> QED BY <2>2, <5>1, LoginNumbers
      <4>2. CASE c = a
        <5>1. buckets'[a] = Counted(a, clock)
          BY <3>2, <3>4, <4>2
        <5>2. Counted(a, clock) = [buckets[a] EXCEPT !.count = @ + 1]
          BY <3>1 DEF Counted
        <5>3. buckets[a] \in Bucket
          BY <2>1
        <5>4. buckets'[a].count = buckets[a].count + 1 /\ buckets'[a].expires = buckets[a].expires
          BY <5>1, <5>2, <5>3 DEF Bucket
        <5>5. buckets[a].count < StartLimit
          BY <3>1, <3>4, <4>2 DEF Admits
        <5> QED BY <2>2, <5>4, <5>5, LoginNumbers
      <4> QED BY <4>1, <4>2
    <3> QED BY <2>4, <3>3, <3>4 DEF LoginStart
  <2>5. buckets' = buckets \/ \E q \in Requests, b \in Browsers, c \in Addresses : LoginStart(q, b, c)
    BY <1>1 DEF LoginNext, CallbackStart, Authenticate, PutLoginState, ConsumeLoginState, IdentityKnown,
       ExchangeFails, PutAuthSession, StatementFails, RevokeOld, RevokeNew, Serve, Logout, Tick
  <2> QED BY <2>3, <2>4, <2>5
<1>2. ASSUME LoginInv, [LoginNext]_loginVars
      PROVE  [WebRestart \/ \A a \in Addresses :
                 buckets[a].expires > clock => /\ buckets'[a].expires = buckets[a].expires
                                               /\ buckets'[a].count \in buckets[a].count..StartLimit]_loginVars
  BY <1>1, <1>2
<1> QED BY <1>2, LoginInvariant, PTL DEF LoginSpec, QuotaKept

(* Who gives a browser a session cookie. *)
LEMMA SessionCookie ==
    ASSUME LoginInv, LoginNext, NEW b \in Browsers
    PROVE  \/ cookie'[b].session \in {cookie[b].session, 0}
           \/ \E p \in Requests : /\ (PutAuthSession(p) /\ request[p].old = 0) \/ RevokeOld(p)
                                  /\ request[p].from = b /\ cookie'[b].session = request[p].token
<1>1. RequestsOK(request, drawn) /\ cookie \in [Browsers -> Cookies]
  BY DEF LoginInv, RestOK
<1>2. ASSUME NEW p \in Requests, request[p].pc # "idle", NEW n, CallbackEnds(p, n)
      PROVE  cookie'[b].session = cookie[b].session \/ (request[p].from = b /\ cookie'[b].session = n)
  <2>1. cookie' = [cookie EXCEPT ![request[p].from] = [binding |-> 0, session |-> n]]
    BY <1>2 DEF CallbackEnds
  <2> QED BY <1>1, <2>1
<1>3. ASSUME NEW p \in Requests, request[p].pc # "idle", CallbackFails(p)
      PROVE  cookie'[b].session = cookie[b].session
  BY <1>2, <1>3 DEF CallbackFails
<1>4. ASSUME NEW p \in Requests, NEW e \in Browsers,
             \/ cookie' = [cookie EXCEPT ![e].session = 0]
             \/ \E w : cookie' = [cookie EXCEPT ![e].binding = w]
      PROVE  cookie'[b].session \in {cookie[b].session, 0}
  <2>1. cookie[e] \in Cookies
    BY <1>1
  <2> QED BY <1>1, <1>4, <2>1 DEF Cookies
<1>5. ASSUME NEW p \in Requests, PutAuthSession(p) \/ RevokeOld(p)
      PROVE  \/ cookie'[b].session \in {cookie[b].session, 0}
             \/ /\ (PutAuthSession(p) /\ request[p].old = 0) \/ RevokeOld(p)
                /\ request[p].from = b /\ cookie'[b].session = request[p].token
  <2>1. CASE RevokeOld(p)
    BY <2>1, <1>2 DEF RevokeOld
  <2>2. CASE PutAuthSession(p) /\ request[p].old = 0
    BY <2>2, <1>2 DEF PutAuthSession
  <2>3. CASE PutAuthSession(p) /\ request[p].old # 0
    BY <2>3 DEF PutAuthSession
  <2> QED BY <1>5, <2>1, <2>2, <2>3
<1>6. ASSUME NEW p \in Requests, ConsumeLoginState(p) \/ IdentityKnown(p) \/ ExchangeFails(p) \/ RevokeNew(p)
                                 \/ StatementFails(p)
      PROVE  cookie'[b].session = cookie[b].session
  <2>1. request[p].pc # "idle" /\ (cookie' = cookie \/ CallbackFails(p))
    BY <1>6 DEF ConsumeLoginState, IdentityKnown, ExchangeFails, RevokeNew, StatementFails
  <2> QED BY <2>1, <1>3
<1>7. ASSUME NEW p \in Requests, PutLoginState(p) \/ Logout(p)
      PROVE  cookie'[b].session \in {cookie[b].session, 0}
  <2>1. request[p].from \in Browsers
    BY <1>1, <1>7 DEF RequestsOK, RequestOK, PutLoginState, Logout
  <2>2. \/ cookie' = cookie
        \/ cookie' = [cookie EXCEPT ![request[p].from].session = 0]
        \/ cookie' = [cookie EXCEPT ![request[p].from].binding = request[p].login]
    BY <1>7 DEF PutLoginState, Logout
  <2> QED BY <2>1, <2>2, <1>4
<1>8. ASSUME NEW p \in Requests, NEW e \in Browsers,
             Authenticate(p, e) \/ \E id \in 1..drawn : CallbackStart(p, e, id)
      PROVE  cookie'[b].session \in {cookie[b].session, 0}
  <2>1. \/ cookie' = cookie
        \/ cookie' = [cookie EXCEPT ![e].session = 0]
        \/ cookie' = [cookie EXCEPT ![e].binding = 0]
    BY <1>8 DEF Authenticate, CallbackStart
  <2> QED BY <2>1, <1>4
<1>9. ASSUME \/ \E p \in Requests : Serve(p) \/ \E e \in Browsers, a \in Addresses : LoginStart(p, e, a)
             \/ WebRestart
             \/ Tick
      PROVE  cookie' = cookie
  BY <1>9 DEF Serve, LoginStart, WebRestart, Tick
<1> QED BY <1>5, <1>6, <1>7, <1>8, <1>9 DEF LoginNext

(* A browser has a new session cookie only after its old session is gone,  *)
(* whatever fails and whatever other handlers do in between.               *)
THEOREM RotationCorrect == LoginSpec => RotationIsComplete
<1>1. ASSUME LoginInv, LoginNext, NEW q \in Requests, request[q].token # 0,
             cookie'[request[q].from].session = request[q].token
      PROVE  \A s \in sessions' : s.token # request[q].old
  <2>1. /\ RequestsOK(request, drawn) /\ TokensApart(request) /\ TokensFresh(request, cookie, drawn)
        /\ SessionsOK(sessions)
    BY <1>1 DEF LoginInv
  <2>2. request[q].from \in Browsers
    BY <1>1, <2>1 DEF RequestsOK, RequestOK, Tokened
  <2>3. cookie[request[q].from].session # request[q].token
    BY <1>1, <2>1, <2>2 DEF TokensFresh
  <2>4. PICK p \in Requests : /\ (PutAuthSession(p) /\ request[p].old = 0) \/ RevokeOld(p)
                              /\ cookie'[request[q].from].session = request[p].token
    BY <1>1, <2>2, <2>3, SessionCookie
  <2>5. p = q
    BY <1>1, <2>1, <2>4 DEF TokensApart
  <2>6. CASE RevokeOld(q)
    BY <2>6 DEF RevokeOld, Revoke, Without
  <2>7. CASE PutAuthSession(q) /\ request[q].old = 0
    <3>1. sessions' = Kept(request[q]) \cup {Added(request[q])} /\ request[q].pc = "store"
      BY <2>7 DEF PutAuthSession, Kept, Added
    <3>2. SessionsOK(sessions')
      BY <1>1, <3>1, AddedRow
    <3>3. \A s \in sessions' : s.token # 0
      BY <3>2 DEF SessionsOK, Session
    <3> QED BY <2>7, <3>3
  <2> QED BY <2>4, <2>5, <2>6, <2>7
<1>2. ASSUME LoginInv, [LoginNext]_loginVars
      PROVE  [\A q \in Requests :
                 (request[q].token # 0 /\ cookie'[request[q].from].session = request[q].token)
                    => \A s \in sessions' : s.token # request[q].old]_loginVars
  BY <1>1, <1>2
<1> QED BY <1>2, LoginInvariant, PTL DEF LoginSpec, RotationIsComplete
LEMMA SessionNumbers ==
    ASSUME NEW s \in Session
    PROVE  s.created \in Int /\ s.row \in Int
<1>1. s.created \in Times /\ s.row \in Nat
  BY DEF Session
<1>2. Times \subseteq Nat
  BY LoginNumbers
<1>3. s.created \in Nat
  BY <1>1, <1>2
<1> QED BY <1>1, <1>3

(* The order of ORDER BY created_at DESC, rowid DESC on a set of rows. *)
NewerPairs(rows) == {x \in rows \X rows : Newer(x[1], x[2])}

LEMMA NewerOrders ==
    ASSUME NEW rows, SessionsOK(rows)
    PROVE  Orders(NewerPairs(rows), rows)
<1>1. /\ \A s \in rows : s.created \in Int /\ s.row \in Int
      /\ \A s, t \in rows : s.row = t.row => s = t
  BY SessionNumbers DEF SessionsOK
<1>2. \A s, t \in rows : <<s, t>> \in NewerPairs(rows) <=> Newer(s, t)
  BY DEF NewerPairs
<1>3. \A s \in rows : ~Newer(s, s)
  BY <1>1 DEF Newer
<1>4. ASSUME NEW s \in rows, NEW t \in rows, NEW w \in rows, Newer(s, t), Newer(t, w)
      PROVE  Newer(s, w)
  <2>1. s.created \in Int /\ s.row \in Int /\ t.created \in Int /\ t.row \in Int /\ w.created \in Int /\ w.row \in Int
    BY <1>1
  <2> QED BY <2>1, <1>4 DEF Newer
<1>5. ASSUME NEW s \in rows, NEW t \in rows
      PROVE  s = t \/ Newer(s, t) \/ Newer(t, s)
  <2>1. s.created \in Int /\ s.row \in Int /\ t.created \in Int /\ t.row \in Int /\ (s.row = t.row => s = t)
    BY <1>1
  <2> QED BY <2>1 DEF Newer
<1> QED BY <1>2, <1>3, <1>4, <1>5 DEF Orders

(* Of a finite set in a strict total order the first m are m, unless there *)
(* are fewer.                                                              *)
LEMMA FirstPlaces ==
    ASSUME NEW S, IsFiniteSet(S), NEW R, Orders(R, S), NEW m \in Nat
    PROVE  LET first == {x \in S : Cardinality(Under(x, S, R)) < m}
           IN  /\ IsFiniteSet(first) /\ Cardinality(first) <= m
               /\ first # S => Cardinality(first) = m
<1> DEFINE n == Cardinality(S)
           first == {x \in S : Cardinality(Under(x, S, R)) < m}
           f == [x \in first |-> Cardinality(Under(x, S, R))]
           T == 0..(m - 1)
<1>1. /\ n \in Nat
      /\ \A x \in S : Cardinality(Under(x, S, R)) \in 0..(n - 1)
      /\ \A i \in 0..(n - 1) : \E x \in S : Cardinality(Under(x, S, R)) = i
      /\ \A x, y \in S : Cardinality(Under(x, S, R)) = Cardinality(Under(y, S, R)) => x = y
  BY PlacesAreTaken
<1>2. first \in SUBSET S /\ IsFiniteSet(first)
  <2>1. first \in SUBSET S
    OBVIOUS
  <2> HIDE DEF first
  <2> QED BY <2>1, FS_Subset
<1>3. IsFiniteSet(T) /\ Cardinality(T) = m
  <2>1. 0 \in Int /\ m - 1 \in Int
    OBVIOUS
  <2>2. IsFiniteSet(0..(m - 1))
        /\ Cardinality(0..(m - 1)) = IF 0 > m - 1 THEN 0 ELSE (m - 1) - 0 + 1
    BY <2>1, FS_Interval
  <2> QED BY <2>2
<1>4. \A x \in first : f[x] \in T
  <2> SUFFICES ASSUME NEW x \in first PROVE Cardinality(Under(x, S, R)) \in T
    OBVIOUS
  <2>1. Cardinality(Under(x, S, R)) \in 0..(n - 1) /\ Cardinality(Under(x, S, R)) < m
    BY <1>1
  <2> QED BY <2>1, <1>1
<1>5. \A x, y \in first : f[x] = f[y] => x = y
  BY <1>1
<1>6. ASSUME first # S PROVE \A i \in T : \E x \in first : f[x] = i
  <2>1. PICK z \in S : ~(Cardinality(Under(z, S, R)) < m)
    BY <1>2, <1>6
  <2>2. m <= n
    BY <1>1, <2>1
  <2> SUFFICES ASSUME NEW i \in T PROVE \E x \in first : f[x] = i
    OBVIOUS
  <2>3. i \in 0..(n - 1) /\ i < m
    BY <2>2, <1>1
  <2>4. PICK x \in S : Cardinality(Under(x, S, R)) = i
    BY <1>1, <2>3
  <2>5. x \in first
    BY <2>3, <2>4
  <2> QED BY <2>4, <2>5
<1>7. f \in [first -> T]
  <2>1. f = [x \in first |-> f[x]]
    OBVIOUS
  <2> HIDE DEF f
  <2> QED BY <2>1, <1>4
<1> HIDE DEF f, first, T
<1>8. f \in Injection(first, T)
  BY <1>5, <1>7 DEF Injection, IsInjective
<1>9. Cardinality(first) <= m
  BY <1>2, <1>3, <1>8, FS_Injection
<1>10. ASSUME first # S PROVE Cardinality(first) = m
  <2>1. f \in Surjection(first, T)
    BY <1>6, <1>7, <1>10 DEF Surjection
  <2>2. Cardinality(first) = Cardinality(T)
    BY <1>2, <1>8, <2>1, FS_Surjection
  <2> QED BY <2>2, <1>3
<1> QED BY <1>2, <1>9, <1>10 DEF first

(* A login removes no unexpired session but the user's oldest ones, and no *)
(* more than the cap asks for, for every cap and every order in which the  *)
(* rows came into the table.                                               *)
THEOREM NewestCorrect == LoginSpec => NewestSessionsSurvive
<1>1. ASSUME LoginInv, NEW q \in Requests, PutAuthSession(q)
      PROVE  LET r      == request[q]
                 Mine(t) == {s \in t : s.user = r.user}
                 lost    == {s \in sessions \ sessions' : s.expires > r.at}
             IN  /\ Cardinality(Mine(sessions')) <= SessionsPerUser
                 /\ lost # {} => Cardinality(Mine(sessions')) = SessionsPerUser
                 /\ \A s \in lost : /\ s.user = r.user
                                    /\ \A t \in Mine(sessions) :
                                          (t.expires > r.at /\ t.created < s.created) => t \in lost
  <2> DEFINE r == request[q]
             Mine(t) == {s \in t : s.user = r.user}
             lost == {s \in sessions \ sessions' : s.expires > r.at}
             own == {s \in LiveSessions(r.at) : s.user = r.user}
             m == SessionsPerUser - 1
             kept == Kept(r)
             new == Added(r)
             first == {s \in own : Cardinality(Under(s, own, NewerPairs(own))) < m}
  <2>1. sessions' = kept \cup {new} /\ r.pc = "store"
    BY <1>1 DEF PutAuthSession, Kept, Added
  <2>2. SessionsOK(sessions) /\ RowsApart(request, states, sessions)
    BY <1>1 DEF LoginInv
  <2>3. own \in SUBSET sessions
    BY DEF LiveSessions
  <2>4. SessionsOK(own)
    <3> HIDE DEF own
    <3> QED BY <2>2, <2>3, FewerSessions
  <2>5. IsFiniteSet(own) /\ Orders(NewerPairs(own), own) /\ own \subseteq Session
    <3> HIDE DEF own
    <3> QED BY <2>4, NewerOrders DEF SessionsOK
  <2>6. m \in Nat /\ SessionsPerUser = m + 1
    BY LoginNumbers
  <2>7. \A s \in own : NewerOwn(s, r.at) = Under(s, own, NewerPairs(own))
    BY DEF NewerOwn, Under, NewerPairs
  <2>8. \A s \in own : Cardinality(Under(s, own, NewerPairs(own))) \in Nat
    <3>1. \A s \in own : Cardinality(Under(s, own, NewerPairs(own))) \in 0..(Cardinality(own) - 1)
      <4> HIDE DEF own
      <4> QED BY <2>5, PlacesAreTaken
    <3> HIDE DEF own
    <3> QED BY <3>1
  <2>9. Surplus(r.user, r.at) = own \ first
    <3>1. Surplus(r.user, r.at) = {s \in own : Cardinality(NewerOwn(s, r.at)) >= m}
      BY DEF Surplus
    <3>2. \A s \in own : Cardinality(NewerOwn(s, r.at)) >= m <=> s \notin first
      <4> SUFFICES ASSUME NEW s \in own PROVE Cardinality(NewerOwn(s, r.at)) >= m <=> s \notin first
        OBVIOUS
      <4>1. NewerOwn(s, r.at) = Under(s, own, NewerPairs(own)) /\ Cardinality(Under(s, own, NewerPairs(own))) \in Nat
        BY <2>7, <2>8
      <4>2. s \in first <=> Cardinality(Under(s, own, NewerPairs(own))) < m
        OBVIOUS
      <4> HIDE DEF own, first, m
      <4> QED BY <4>1, <4>2, <2>6
    <3>3. first \subseteq own
      OBVIOUS
    <3> HIDE DEF first, own, m
    <3> QED BY <3>1, <3>2, <3>3
  <2>10. /\ IsFiniteSet(first) /\ Cardinality(first) <= m
         /\ first # own => Cardinality(first) = m
    <3> HIDE DEF own, m
    <3> QED BY <2>5, <2>6, FirstPlaces
  <2>11. /\ new.user = r.user /\ new.login = r.login
         /\ \A s \in kept : s.row < new.row
         /\ new \in Session /\ kept \subseteq sessions
    <3>1. new.user = r.user /\ new.login = r.login
      BY DEF Added
    <3> QED BY <1>1, <2>1, <3>1, AddedRow
  <2>12. new \notin sessions
    <3>1. r.pc \in Holding
      BY <2>1 DEF Holding
    <3>2. \A s \in sessions : s.login # r.login
      BY <2>2, <3>1 DEF RowsApart
    <3> HIDE DEF new
    <3> QED BY <2>11, <3>2
  <2>13. kept = LiveSessions(r.at) \ (own \ first)
    BY <2>9 DEF Kept
  <2>14. LiveSessions(r.at) = {s \in sessions : s.expires > r.at}
    BY DEF LiveSessions
  <2> HIDE DEF kept, new
  <2>15. lost = own \ first
    BY <2>1, <2>12, <2>13, <2>14, <2>3
  <2>16. Mine(sessions') = first \cup {new}
    BY <2>1, <2>11, <2>13
  <2>17. Cardinality(Mine(sessions')) = Cardinality(first) + 1
    <3>1. new \notin first
      BY <2>12, <2>3
    <3> HIDE DEF first
    <3> QED BY <2>10, <2>16, <3>1, FS_AddElement
  <2>18. Cardinality(first) \in Nat
    <3> HIDE DEF first
    <3> QED BY <2>10, FS_CardinalityType
  <2>19. Cardinality(Mine(sessions')) <= SessionsPerUser
    <3> HIDE DEF first, Mine
    <3> QED BY <2>6, <2>10, <2>17, <2>18
  <2>20. lost # {} => Cardinality(Mine(sessions')) = SessionsPerUser
    <3>1. lost # {} => first # own
      BY <2>15
    <3> HIDE DEF first, Mine, lost, own
    <3> QED BY <3>1, <2>6, <2>10, <2>17
  <2>21. ASSUME NEW s \in lost, NEW t \in Mine(sessions), t.expires > r.at, t.created < s.created
         PROVE  t \in lost
    <3>1. s \in own /\ s \notin first /\ t \in own
      BY <2>15, <2>14, <2>21
    <3>2. s \in Session /\ t \in Session
      BY <3>1, <2>5
    <3>3. s.created \in Int /\ t.created \in Int
      BY <3>2, SessionNumbers
    <3>4. ASSUME NEW w \in own, Newer(w, s) PROVE Newer(w, t)
      <4>1. w.created \in Int /\ w.row \in Int
        BY <2>5, SessionNumbers
      <4> QED BY <3>3, <3>4, <4>1, <2>21 DEF Newer
    <3>5. Under(s, own, NewerPairs(own)) \subseteq Under(t, own, NewerPairs(own))
      BY <3>1, <3>4 DEF Under, NewerPairs
    <3>6. IsFiniteSet(Under(t, own, NewerPairs(own)))
      <4>1. Under(t, own, NewerPairs(own)) \in SUBSET own
        BY DEF Under
      <4> HIDE DEF own
      <4> QED BY <4>1, <2>5, FS_Subset
    <3>7. Cardinality(Under(s, own, NewerPairs(own))) <= Cardinality(Under(t, own, NewerPairs(own)))
      BY <3>5, <3>6, FS_Subset
    <3>8. Cardinality(Under(s, own, NewerPairs(own))) \in Nat /\ Cardinality(Under(t, own, NewerPairs(own))) \in Nat
      BY <2>8, <3>1
    <3>9. ~(Cardinality(Under(s, own, NewerPairs(own))) < m)
      BY <3>1
    <3>10. ~(Cardinality(Under(t, own, NewerPairs(own))) < m)
      <4> HIDE DEF own, m
      <4> QED BY <2>6, <3>7, <3>8, <3>9
    <3> QED BY <2>15, <3>1, <3>10
  <2>22. \A s \in lost : s.user = r.user
    BY <2>15
  <2> QED BY <2>19, <2>20, <2>21, <2>22
<1>2. ASSUME LoginInv
      PROVE  [\A q \in Requests : PutAuthSession(q) =>
                LET r      == request[q]
                    Mine(t) == {s \in t : s.user = r.user}
                    lost    == {s \in sessions \ sessions' : s.expires > r.at}
                IN  /\ Cardinality(Mine(sessions')) <= SessionsPerUser
                    /\ lost # {} => Cardinality(Mine(sessions')) = SessionsPerUser
                    /\ \A s \in lost : /\ s.user = r.user
                                       /\ \A t \in Mine(sessions) :
                                             (t.expires > r.at /\ t.created < s.created) => t \in lost]_loginVars
  BY <1>1, <1>2
<1> QED BY <1>2, LoginInvariant, PTL DEF LoginSpec, NewestSessionsSurvive
(***************************************************************************)
(* Catalogue.  Its inductive invariant says of the processes at work what  *)
(* AssignRepositoryTopic relies on: only people give manual orders.        *)
(***************************************************************************)
LEMMA SetToSeqLists ==
    ASSUME NEW S, IsFiniteSet(S)
    PROVE  SetToSeq(S) \in Seq(S)
<1>1. PICK n \in Nat : ExistsBijection(1..n, S)
  BY FS_NatBijection
<1>2. Cardinality(S) = n
  BY <1>1, FS_CountingElements
<1>3. PICK f \in Bijection(1..n, S) : TRUE
  BY <1>1 DEF ExistsBijection
<1>4. f \in [1..Cardinality(S) -> S] /\ IsInjective(f)
  BY <1>2, <1>3 DEF Bijection, Injection
<1>5. \E g \in [1..Cardinality(S) -> S] : IsInjective(g)
  BY <1>4
<1>6. SetToSeq(S) \in [1..Cardinality(S) -> S]
  BY <1>5 DEF SetToSeq
<1> QED BY <1>1, <1>2, <1>6 DEF Seq

(* A rule's confidence, as every claim has it. *)
ClaimOK(c) == c.confidence \in 0..100

LEMMA ClaimsAreFinite ==
    ASSUME NEW words, NEW labels
    PROVE  IsFiniteSet(Claims(words, labels)) /\ \A c \in Claims(words, labels) : ClaimOK(c)
<1> DEFINE curated == {Rule(s, 98, {}, {}) : s \in Curated}
           all  == (LabelRules \cup ContextRules) \cup (curated \cup
                   {Rule("agent-platforms", 85, {}, {}), Rule("ai-agent", 75, {}, {})})
<1>1. IsFiniteSet(LabelRules) /\ \A c \in LabelRules : ClaimOK(c)
  <2>1. \A a, b, c, d : IsFiniteSet({a, b, c, d})
    <3> SUFFICES ASSUME NEW a, NEW b, NEW c, NEW d PROVE IsFiniteSet({a, b, c, d})
      OBVIOUS
    <3>1. IsFiniteSet({} \cup {a})
      BY FS_EmptySet, FS_AddElement
    <3>2. IsFiniteSet(({} \cup {a}) \cup {b})
      BY <3>1, FS_AddElement
    <3>3. IsFiniteSet((({} \cup {a}) \cup {b}) \cup {c})
      BY <3>2, FS_AddElement
    <3>4. IsFiniteSet(((({} \cup {a}) \cup {b}) \cup {c}) \cup {d})
      BY <3>3, FS_AddElement
    <3>5. ((({} \cup {a}) \cup {b}) \cup {c}) \cup {d} = {a, b, c, d}
      OBVIOUS
    <3> QED BY <3>4, <3>5
  <2>2. IsFiniteSet(LabelRules)
    BY <2>1 DEF LabelRules
  <2>3. \A c \in LabelRules : ClaimOK(c)
    BY DEF LabelRules, Rule, ClaimOK
  <2> QED BY <2>2, <2>3
<1>2. IsFiniteSet(ContextRules) /\ \A c \in ContextRules : ClaimOK(c)
  <2>1. \A a, b, c, d, e, f, g, h, i, j : IsFiniteSet({a, b, c, d, e, f, g, h, i, j})
    <3> SUFFICES ASSUME NEW a, NEW b, NEW c, NEW d, NEW e, NEW f, NEW g, NEW h, NEW i, NEW j
                 PROVE  IsFiniteSet({a, b, c, d, e, f, g, h, i, j})
      OBVIOUS
    <3>1. IsFiniteSet({a}) /\ IsFiniteSet({b}) /\ IsFiniteSet({c}) /\ IsFiniteSet({d}) /\ IsFiniteSet({e})
          /\ IsFiniteSet({f}) /\ IsFiniteSet({g}) /\ IsFiniteSet({h}) /\ IsFiniteSet({i}) /\ IsFiniteSet({j})
      BY FS_Singleton
    <3>2. IsFiniteSet({a} \cup {b})
      BY <3>1, FS_Union
    <3>3. IsFiniteSet(({a} \cup {b}) \cup {c})
      BY <3>1, <3>2, FS_Union
    <3>4. IsFiniteSet((({a} \cup {b}) \cup {c}) \cup {d})
      BY <3>1, <3>3, FS_Union
    <3>5. IsFiniteSet(((({a} \cup {b}) \cup {c}) \cup {d}) \cup {e})
      BY <3>1, <3>4, FS_Union
    <3>6. IsFiniteSet({f} \cup {g})
      BY <3>1, FS_Union
    <3>7. IsFiniteSet(({f} \cup {g}) \cup {h})
      BY <3>1, <3>6, FS_Union
    <3>8. IsFiniteSet((({f} \cup {g}) \cup {h}) \cup {i})
      BY <3>1, <3>7, FS_Union
    <3>9. IsFiniteSet(((({f} \cup {g}) \cup {h}) \cup {i}) \cup {j})
      BY <3>1, <3>8, FS_Union
    <3>10. IsFiniteSet((((({a} \cup {b}) \cup {c}) \cup {d}) \cup {e}) \cup (((({f} \cup {g}) \cup {h}) \cup {i}) \cup {j}))
      BY <3>5, <3>9, FS_Union
    <3>11. (((({a} \cup {b}) \cup {c}) \cup {d}) \cup {e}) \cup (((({f} \cup {g}) \cup {h}) \cup {i}) \cup {j})
           = {a, b, c, d, e, f, g, h, i, j}
      OBVIOUS
    <3> QED BY <3>10, <3>11
  <2>2. IsFiniteSet(ContextRules)
    BY <2>1, ZenonT(60) DEF ContextRules
  <2>3. \A c \in ContextRules : ClaimOK(c)
    BY DEF ContextRules, Rule, ClaimOK
  <2> QED BY <2>2, <2>3
<1>3. IsFiniteSet(curated) /\ \A c \in curated : ClaimOK(c)
  <2> DEFINE rule == [s \in Curated |-> Rule(s, 98, {}, {})]
  <2>1. IsFiniteSet(Curated)
    BY CatalogueAssumption
  <2>2. curated = {rule[s] : s \in Curated}
    OBVIOUS
  <2>3. \A c \in curated : ClaimOK(c)
    BY DEF Rule, ClaimOK
  <2> HIDE DEF curated, rule
  <2> QED BY <2>1, <2>2, <2>3, ImageIsFinite
<1>4. \A c \in {Rule("agent-platforms", 85, {}, {}), Rule("ai-agent", 75, {}, {})} : ClaimOK(c)
  BY DEF Rule, ClaimOK
<1>5. IsFiniteSet({Rule("agent-platforms", 85, {}, {}), Rule("ai-agent", 75, {}, {})})
  <2>1. IsFiniteSet({Rule("agent-platforms", 85, {}, {})} \cup {Rule("ai-agent", 75, {}, {})})
    BY FS_Singleton, FS_Union
  <2>2. {Rule("agent-platforms", 85, {}, {})} \cup {Rule("ai-agent", 75, {}, {})}
        = {Rule("agent-platforms", 85, {}, {}), Rule("ai-agent", 75, {}, {})}
    OBVIOUS
  <2> QED BY <2>1, <2>2
<1>6. Claims(words, labels) \in SUBSET all
  BY DEF Claims
<1> HIDE DEF curated
<1>7. IsFiniteSet(all)
  <2>1. IsFiniteSet(LabelRules \cup ContextRules)
    BY <1>1, <1>2, FS_Union
  <2>2. IsFiniteSet(curated \cup {Rule("agent-platforms", 85, {}, {}), Rule("ai-agent", 75, {}, {})})
    BY <1>3, <1>5, FS_Union
  <2> QED BY <2>1, <2>2, FS_Union
<1>8. \A c \in all : ClaimOK(c)
  BY <1>1, <1>2, <1>3, <1>4
<1> HIDE DEF all
<1> QED BY <1>6, <1>7, <1>8, FS_Subset
LEMMA InferIsFinite ==
    ASSUME NEW words, NEW labels
    PROVE  /\ IsFiniteSet(Infer(words, labels))
           /\ \A match \in Infer(words, labels) : match.confidence \in 0..100
<1> DEFINE claims == Claims(words, labels)
           slugs == {c.slug : c \in claims}
           of(s) == {d \in claims : d.slug = s}
           numbers(s) == {c.confidence : c \in of(s)}
           best == [s \in slugs |-> [slug |-> s, confidence |-> Max(numbers(s))]]
<1>1. IsFiniteSet(claims) /\ \A c \in claims : c.confidence \in 0..100
  BY ClaimsAreFinite DEF ClaimOK
<1> HIDE DEF claims
<1>2. IsFiniteSet(slugs)
  <2> DEFINE f == [c \in claims |-> c.slug]
  <2>1. IsFiniteSet({f[c] : c \in claims})
    <3> HIDE DEF f
    <3> QED BY <1>1, ImageIsFinite
  <2>2. {f[c] : c \in claims} = slugs
    OBVIOUS
  <2> QED BY <2>1, <2>2
<1>3. ASSUME NEW s \in slugs PROVE Max(numbers(s)) \in 0..100
  <2> DEFINE f == [c \in claims |-> c.confidence]
             D == of(s)
  <2>1. D \in SUBSET claims /\ D # {}
    OBVIOUS
  <2>2. numbers(s) = {f[c] : c \in D} /\ numbers(s) # {} /\ numbers(s) \subseteq 0..100
    BY <1>1
  <2>3. IsFiniteSet(D)
    <3> HIDE DEF D
    <3> QED BY <1>1, <2>1, FS_Subset
  <2>4. IsFiniteSet({f[c] : c \in D})
    <3> HIDE DEF D, f
    <3> QED BY <2>3, ImageIsFinite
  <2>5. numbers(s) \in SUBSET Int
    BY <2>2
  <2>6. IsFiniteSet(numbers(s)) /\ numbers(s) # {}
    BY <2>2, <2>4
  <2>7. Max(numbers(s)) \in numbers(s)
    <3> DEFINE N == numbers(s)
    <3>1. N \in SUBSET Int /\ IsFiniteSet(N) /\ N # {}
      BY <2>5, <2>6
    <3> HIDE DEF N
    <3>2. Max(N) \in N
      BY <3>1, FiniteMax
    <3> QED BY <3>2 DEF N
  <2> QED BY <2>2, <2>7
<1>4. Infer(words, labels) = {best[s] : s \in slugs}
  BY DEF Infer, claims
<1>5. IsFiniteSet({best[s] : s \in slugs})
  <2> HIDE DEF best, slugs
  <2> QED BY <1>2, ImageIsFinite
<1>6. \A match \in {best[s] : s \in slugs} : match.confidence \in 0..100
  <2> SUFFICES ASSUME NEW s \in slugs PROVE best[s].confidence \in 0..100
    OBVIOUS
  <2>1. best[s].confidence = Max(numbers(s))
    OBVIOUS
  <2> QED BY <2>1, <1>3
<1> QED BY <1>4, <1>5, <1>6

(* Orders that no person gave. *)
Given == [repo : Projects, slug : Slugs, source : Sources \ {"manual"}, confidence : 0..100]

LEMMA AutoOrdersGiven ==
    ASSUME NEW r \in Projects, NEW words, NEW labels
    PROVE  AutoOrders(r, words, labels) \subseteq Given /\ IsFiniteSet(AutoOrders(r, words, labels))
<1> DEFINE matches == {m \in Infer(words, labels) : m.slug \in Slugs}
           f == [m \in matches |-> AutoOrder(r, m)]
<1>1. IsFiniteSet(Infer(words, labels)) /\ \A m \in matches : m.confidence \in 0..100
  BY InferIsFinite
<1>2. \A m \in matches : AutoOrder(r, m) \in Given
  BY <1>1 DEF AutoOrder, Given, Sources
<1>3. AutoOrders(r, words, labels) = {f[m] : m \in matches}
  BY DEF AutoOrders
<1>4. matches \in SUBSET Infer(words, labels)
  OBVIOUS
<1>5. {f[m] : m \in matches} \subseteq Given
  BY <1>2
<1> HIDE DEF matches, f
<1>6. IsFiniteSet(matches)
  BY <1>1, <1>4, FS_Subset
<1>7. IsFiniteSet({f[m] : m \in matches})
  BY <1>6, ImageIsFinite
<1> QED BY <1>3, <1>5, <1>7

LEMMA SequenceWidens ==
    ASSUME NEW S, NEW T, S \subseteq T, NEW s \in Seq(S)
    PROVE  s \in Seq(T)
<1>1. Len(s) \in Nat /\ s \in [1..Len(s) -> S]
  OBVIOUS
<1>2. s \in [1..Len(s) -> T]
  BY <1>1
<1> QED BY <1>1, <1>2

LEMMA OrdersGiven ==
    ASSUME NEW S \in SUBSET Given, IsFiniteSet(S)
    PROVE  SetToSeq(S) \in Seq(Given)
  BY SetToSeqLists, SequenceWidens

TaskOK(x) ==
    /\ x \in Task
    /\ x.orders \in Seq(Given)
    /\ x.pc = "assign" => x.orders # <<>>
    /\ x.pc = "summary" => x.repo \in Projects

AssignedOK(a) == a \in [Projects -> [Slugs -> Assignment \cup {NoAssignment}]]

CatalogueInv ==
    /\ topics \subseteq Slugs
    /\ text \in [Projects -> Texts]
    /\ AssignedOK(assigned)
    /\ task \in [Writers -> Task] /\ \A p \in Writers : TaskOK(task[p])
    /\ analysis \in [Projects -> [revision : 0..MaxRevision, batch : BOOLEAN]]

LEMMA NoTaskOK == TaskOK(NoTask)
<1>1. <<>> \in Seq(Order) /\ <<>> \in Seq(Given)
  OBVIOUS
<1> QED BY <1>1 DEF NoTask, TaskOK, Task

(* A process that works through orders, or has none to work through. *)
LEMMA WorkingOK ==
    ASSUME CatalogueInv, NEW p \in Writers, NEW orders \in Seq(Given), Working(p, orders)
    PROVE  task' \in [Writers -> Task] /\ \A w \in Writers : TaskOK(task'[w])
<1> DEFINE x == IF orders = <<>> THEN NoTask ELSE [NoTask EXCEPT !.pc = "assign", !.orders = orders]
<1>1. task' = [task EXCEPT ![p] = x]
  BY DEF Working
<1>2. TaskOK(x)
  <2>1. CASE orders = <<>>
    BY <2>1, NoTaskOK
  <2>2. CASE orders # <<>>
    <3> DEFINE y == [NoTask EXCEPT !.pc = "assign", !.orders = orders]
    <3>1. NoTask \in Task
      BY NoTaskOK DEF TaskOK
    <3>2. Given \subseteq Order
      BY DEF Given, Order
    <3>3. orders \in Seq(Order)
      BY <3>2, SequenceWidens
    <3>4. y \in Task /\ y.pc = "assign" /\ y.orders = orders
      BY <3>1, <3>3 DEF Task
    <3>5. x = y
      BY <2>2
    <3> HIDE DEF x, y
    <3>6. TaskOK(y)
      BY <2>2, <3>4 DEF TaskOK
    <3> QED BY <3>5, <3>6
  <2> QED BY <2>1, <2>2
<1> HIDE DEF x
<1> QED BY <1>1, <1>2 DEF CatalogueInv, TaskOK

LEMMA TaskReplaced ==
    ASSUME CatalogueInv, NEW p \in Writers, NEW x, TaskOK(x), task' = [task EXCEPT ![p] = x]
    PROVE  task' \in [Writers -> Task] /\ \A w \in Writers : TaskOK(task'[w])
  BY DEF CatalogueInv, TaskOK

(* The row an assignment leaves. *)
LEMMA AssignOK ==
    ASSUME NEW row \in Assignment \cup {NoAssignment}, NEW order,
           order.source \in Sources, order.confidence \in 0..100
    PROVE  Assign(row, order) \in Assignment \cup {NoAssignment}
<1> DEFINE new == [source |-> order.source, confirmed |-> order.source = "manual", confidence |-> order.confidence]
           manual == order.source = "manual"
<1>1. manual \in BOOLEAN
  OBVIOUS
<1>2. new \in Assignment
  <2>1. new = [source |-> order.source, confirmed |-> manual, confidence |-> order.confidence]
    OBVIOUS
  <2> HIDE DEF manual
  <2>2. [source |-> order.source, confirmed |-> manual, confidence |-> order.confidence] \in Assignment
    BY <1>1 DEF Assignment
  <2> QED BY <2>1, <2>2
<1>3. Assign(row, order) = row \/ Assign(row, order) = new
  BY DEF Assign
<1> HIDE DEF new
<1> QED BY <1>2, <1>3

LEMMA CarryOK ==
    ASSUME CatalogueInv, NEW order \in Order, Carry(order)
    PROVE  /\ AssignedOK(assigned')
           /\ \A r \in Projects, s \in Slugs :
                 \/ assigned'[r][s] = assigned[r][s]
                 \/ assigned'[r][s] = Assign(assigned[r][s], order)
<1>1. order.repo \in Projects /\ order.slug \in Slugs /\ order.source \in Sources /\ order.confidence \in 0..100
  BY DEF Order
<1>2. AssignedOK(assigned)
  BY DEF CatalogueInv
<1>3. CASE order.slug \notin topics
  BY <1>2, <1>3 DEF Carry
<1>4. CASE order.slug \in topics
  <2> DEFINE row == assigned[order.repo][order.slug]
             new == Assign(row, order)
             rows == [assigned[order.repo] EXCEPT ![order.slug] = new]
  <2>1. assigned' = [assigned EXCEPT ![order.repo] = rows]
    BY <1>4 DEF Carry
  <2>2. row \in Assignment \cup {NoAssignment} /\ assigned[order.repo] \in [Slugs -> Assignment \cup {NoAssignment}]
    BY <1>1, <1>2 DEF AssignedOK
  <2>3. new \in Assignment \cup {NoAssignment}
    <3> HIDE DEF row
    <3> QED BY <1>1, <2>2, AssignOK
  <2> HIDE DEF new
  <2>4. rows \in [Slugs -> Assignment \cup {NoAssignment}]
    BY <2>2, <2>3
  <2>5. \A s \in Slugs : rows[s] = IF s = order.slug THEN new ELSE assigned[order.repo][s]
    BY <2>2
  <2> HIDE DEF rows
  <2>6. AssignedOK(assigned')
    BY <1>2, <2>1, <2>4 DEF AssignedOK
  <2>7. ASSUME NEW r \in Projects, NEW s \in Slugs
        PROVE  assigned'[r][s] = assigned[r][s] \/ assigned'[r][s] = Assign(assigned[r][s], order)
    <3>1. CASE r # order.repo
      <4>1. assigned'[r] = assigned[r]
        BY <1>2, <2>1, <3>1 DEF AssignedOK
      <4> QED BY <4>1
    <3>2. CASE r = order.repo
      <4>1. assigned'[r] = rows
        BY <1>2, <2>1, <3>2 DEF AssignedOK
      <4> QED BY <4>1, <2>5, <3>2 DEF new
    <3> QED BY <3>1, <3>2
  <2> QED BY <2>6, <2>7
<1> QED BY <1>3, <1>4
LEMMA CatalogueInvInit == CatalogueInit => CatalogueInv
<1> SUFFICES ASSUME CatalogueInit PROVE CatalogueInv
  OBVIOUS
<1>1. [source |-> "github", confirmed |-> FALSE, confidence |-> 100] \in Assignment
  BY DEF Assignment, Sources
<1>2. AssignedOK(assigned)
  <2> DEFINE old == [source |-> "github", confirmed |-> FALSE, confidence |-> 100]
             X == Assignment \cup {NoAssignment}
  <2>1. assigned \in [Projects -> [Slugs -> {NoAssignment} \cup {old}]]
    BY DEF CatalogueInit
  <2>2. {NoAssignment} \cup {old} \subseteq X
    BY <1>1
  <2> HIDE DEF old, X
  <2>3. assigned \in [Projects -> [Slugs -> X]]
    BY <2>1, <2>2
  <2> QED BY <2>3 DEF AssignedOK, X
<1>3. NoAnalysis \in [revision : 0..MaxRevision, batch : BOOLEAN]
  BY CatalogueAssumption DEF NoAnalysis
<1>4. task \in [Writers -> Task] /\ \A p \in Writers : TaskOK(task[p])
  BY NoTaskOK DEF CatalogueInit, TaskOK
<1>5. analysis \in [Projects -> [revision : 0..MaxRevision, batch : BOOLEAN]]
  BY <1>3 DEF CatalogueInit
<1> QED BY <1>2, <1>4, <1>5 DEF CatalogueInit, CatalogueInv

LEMMA CatalogueStepKeeps == CatalogueInv /\ [CatalogueNext]_catalogueVars => CatalogueInv'
<1> SUFFICES ASSUME CatalogueInv, [CatalogueNext]_catalogueVars PROVE CatalogueInv'
  OBVIOUS
<1>0. CASE UNCHANGED catalogueVars
  BY <1>0 DEF CatalogueInv, catalogueVars
<1>1. ASSUME NEW r \in Projects, NEW s \in Slugs, AssignByHand(r, s) PROVE CatalogueInv'
  <2>1. PICK confidence \in {0, 100} : Carry(ManualOrder(r, s, confidence))
    BY <1>1 DEF AssignByHand
  <2>2. ManualOrder(r, s, confidence) \in Order
    BY DEF ManualOrder, Order, Sources
  <2>3. AssignedOK(assigned')
    BY <2>1, <2>2, CarryOK
  <2> QED BY <1>1, <2>3 DEF CatalogueInv, AssignByHand
<1>2. ASSUME NEW p \in Writers, Ensure(p) PROVE CatalogueInv'
  <2> DEFINE x == [NoTask EXCEPT !.pc = "ensure", !.missing = Configured]
  <2>1. TaskOK(x)
    <3>1. NoTask \in Task /\ NoTask.orders = <<>> /\ NoTask.orders \in Seq(Given)
      BY NoTaskOK DEF TaskOK, NoTask
    <3>2. x \in Task /\ x.pc = "ensure" /\ x.orders = NoTask.orders
      BY <3>1 DEF Task
    <3> HIDE DEF x
    <3> QED BY <3>1, <3>2 DEF TaskOK
  <2>2. task' = [task EXCEPT ![p] = x]
    BY <1>2 DEF Ensure
  <2> HIDE DEF x
  <2>3. task' \in [Writers -> Task] /\ \A w \in Writers : TaskOK(task'[w])
    BY <2>1, <2>2, TaskReplaced
  <2> QED BY <1>2, <2>3 DEF CatalogueInv, Ensure
<1>3. ASSUME NEW p \in Writers, EnsureTopic(p) PROVE CatalogueInv'
  <2>1. PICK s \in task[p].missing :
          \/ /\ topics' = topics \cup {s}
             /\ task' = [task EXCEPT ![p].missing = @ \ {s},
                                     ![p].pc = IF task[p].missing = {s} THEN "read" ELSE @]
          \/ /\ task' = [task EXCEPT ![p] = NoTask]
             /\ UNCHANGED topics
    BY <1>3 DEF EnsureTopic
  <2>2. TaskOK(task[p]) /\ task[p] \in Task /\ task[p].pc = "ensure" /\ task \in [Writers -> Task]
    BY <1>3 DEF CatalogueInv, TaskOK, EnsureTopic
  <2>3. s \in Slugs
    <3>1. task[p].missing \subseteq Configured
      BY <2>2 DEF Task
    <3> QED BY <3>1, <2>1, CatalogueAssumption
  <2>4. CASE task' = [task EXCEPT ![p] = NoTask] /\ UNCHANGED topics
    <3>1. task' \in [Writers -> Task] /\ \A w \in Writers : TaskOK(task'[w])
      BY <2>4, NoTaskOK, TaskReplaced
    <3> QED BY <1>3, <2>4, <3>1 DEF CatalogueInv, EnsureTopic
  <2>5. CASE /\ topics' = topics \cup {s}
             /\ task' = [task EXCEPT ![p].missing = @ \ {s},
                                     ![p].pc = IF task[p].missing = {s} THEN "read" ELSE @]
    <3> DEFINE x == [task[p] EXCEPT !.missing = @ \ {s}, !.pc = IF task[p].missing = {s} THEN "read" ELSE @]
    <3>1. task' = [task EXCEPT ![p] = x]
      BY <2>2, <2>5
    <3>2. x \in Task /\ x.orders = task[p].orders /\ x.pc \in {"ensure", "read"}
      BY <2>2 DEF Task
    <3> HIDE DEF x
    <3>3. TaskOK(x)
      BY <2>2, <3>2 DEF TaskOK
    <3>4. task' \in [Writers -> Task] /\ \A w \in Writers : TaskOK(task'[w])
      BY <3>1, <3>3, TaskReplaced
    <3> QED BY <1>3, <2>3, <2>5, <3>4 DEF CatalogueInv, EnsureTopic
  <2> QED BY <2>1, <2>4, <2>5
<1>4. ASSUME NEW p \in Writers, NEW r \in Projects, NEW labels \in Labels, ClassifyCandidate(p, r, labels)
      PROVE  CatalogueInv'
  <2>1. PICK words \in Texts : /\ text' = [text EXCEPT ![r] = words]
                               /\ Working(p, SetToSeq(AutoOrders(r, words, labels)))
    BY <1>4 DEF ClassifyCandidate
  <2>2. SetToSeq(AutoOrders(r, words, labels)) \in Seq(Given)
    BY AutoOrdersGiven, OrdersGiven
  <2>3. task' \in [Writers -> Task] /\ \A w \in Writers : TaskOK(task'[w])
    BY <2>1, <2>2, WorkingOK
  <2> QED BY <1>4, <2>1, <2>3 DEF CatalogueInv, ClassifyCandidate
<1>5. ASSUME NEW p \in Writers, NEW r \in Projects, NEW s \in Slugs, AssignCandidates(p, r, s)
      PROVE  CatalogueInv'
  <2>1. PICK first \in {"imported", "auto"}, second \in {"imported", "auto"} :
          \E orders \in {<<LabelOrder(r, s, first)>>,
                         <<LabelOrder(r, s, first), LabelOrder(r, s, second)>>} :
             Working(p, Seen(orders))
    BY <1>5 DEF AssignCandidates
  <2>2. PICK orders \in {<<LabelOrder(r, s, first)>>,
                         <<LabelOrder(r, s, first), LabelOrder(r, s, second)>>} :
             Working(p, Seen(orders))
    BY <2>1
  <2> DEFINE one == LabelOrder(r, s, first)
             two == LabelOrder(r, s, second)
  <2>3. one \in Given /\ two \in Given
    BY DEF LabelOrder, Given, Sources
  <2> HIDE DEF one, two
  <2>4. <<one>> \in Seq(Given) /\ <<one, two>> \in Seq(Given) /\ orders \in {<<one>>, <<one, two>>}
    BY <2>2, <2>3 DEF one, two
  <2>5. Seen(orders) \in Seq(Given)
    <3>1. orders[1] = one
      BY <2>4
    <3>2. Seen(orders) = orders \/ Seen(orders) = <<one>>
      BY <3>1 DEF Seen
    <3> QED BY <2>4, <3>2
  <2>6. task' \in [Writers -> Task] /\ \A w \in Writers : TaskOK(task'[w])
    BY <2>2, <2>5, WorkingOK
  <2> QED BY <1>5, <2>6 DEF CatalogueInv, AssignCandidates
<1>6. ASSUME NEW p \in Writers, Reclassify(p) PROVE CatalogueInv'
  <2> DEFINE f == [r \in Projects |-> AutoOrders(r, text[r], Evidence(r))]
             all == {f[r] : r \in Projects}
  <2>1. IsFiniteSet(all)
    <3>1. IsFiniteSet(Projects)
      BY CatalogueAssumption
    <3> HIDE DEF f
    <3> QED BY <3>1, ImageIsFinite
  <2>2. \A T \in all : IsFiniteSet(T) /\ T \subseteq Given
    BY AutoOrdersGiven
  <2>3. all = {AutoOrders(r, text[r], Evidence(r)) : r \in Projects}
    OBVIOUS
  <2> HIDE DEF all, f
  <2>4. IsFiniteSet(UNION all) /\ UNION all \subseteq Given
    BY <2>1, <2>2, FS_UNION
  <2>5. SetToSeq(UNION all) \in Seq(Given)
    BY <2>4, OrdersGiven
  <2>6. Working(p, SetToSeq(UNION all))
    BY <1>6, <2>3 DEF Reclassify
  <2>7. task' \in [Writers -> Task] /\ \A w \in Writers : TaskOK(task'[w])
    BY <2>5, <2>6, WorkingOK
  <2> QED BY <1>6, <2>7 DEF CatalogueInv, Reclassify
<1>7. ASSUME NEW p \in Writers, NextAssignment(p) PROVE CatalogueInv'
  <2>1. TaskOK(task[p]) /\ task[p].pc = "assign"
    BY <1>7 DEF CatalogueInv, NextAssignment
  <2>2. Head(task[p].orders) \in Given /\ Tail(task[p].orders) \in Seq(Given)
    BY <2>1 DEF TaskOK
  <2>3. CASE task' = [task EXCEPT ![p] = NoTask] /\ UNCHANGED assigned
    <3>1. task' \in [Writers -> Task] /\ \A w \in Writers : TaskOK(task'[w])
      BY <2>3, NoTaskOK, TaskReplaced
    <3> QED BY <1>7, <2>3, <3>1 DEF CatalogueInv, NextAssignment
  <2>4. CASE Carry(Head(task[p].orders)) /\ Working(p, Tail(task[p].orders))
    <3>1. Head(task[p].orders) \in Order
      BY <2>2 DEF Given, Order
    <3>2. AssignedOK(assigned')
      BY <2>4, <3>1, CarryOK
    <3>3. task' \in [Writers -> Task] /\ \A w \in Writers : TaskOK(task'[w])
      BY <2>2, <2>4, WorkingOK
    <3> QED BY <1>7, <3>2, <3>3 DEF CatalogueInv, NextAssignment
  <2> QED BY <1>7, <2>3, <2>4 DEF NextAssignment
<1>8. ASSUME NEW p \in Writers, NEW r \in Projects, FindAnalysed(p, r) PROVE CatalogueInv'
  <2> DEFINE x == [NoTask EXCEPT !.pc = "summary", !.repo = r]
  <2>1. TaskOK(x)
    <3>1. NoTask \in Task /\ NoTask.orders \in Seq(Given)
      BY NoTaskOK DEF TaskOK
    <3>2. x \in Task /\ x.pc = "summary" /\ x.orders = NoTask.orders /\ x.repo = r
      BY <3>1 DEF Task
    <3> HIDE DEF x
    <3> QED BY <3>1, <3>2 DEF TaskOK
  <2>2. task' = [task EXCEPT ![p] = x]
    BY <1>8 DEF FindAnalysed
  <2> HIDE DEF x
  <2>3. task' \in [Writers -> Task] /\ \A w \in Writers : TaskOK(task'[w])
    BY <2>1, <2>2, TaskReplaced
  <2> QED BY <1>8, <2>3 DEF CatalogueInv, FindAnalysed
<1>9. \A r \in Projects : analysis[r] \in [revision : 0..MaxRevision, batch : BOOLEAN]
  BY DEF CatalogueInv
<1>10. ASSUME NEW r \in Projects, NEW batch \in BOOLEAN, analysis[r].revision < MaxRevision
       PROVE  Rewritten(r, batch) \in [revision : 0..MaxRevision, batch : BOOLEAN]
  <2>1. analysis[r].revision \in 0..MaxRevision /\ MaxRevision \in Nat
    BY <1>9, CatalogueAssumption
  <2>2. analysis[r].revision + 1 \in 0..MaxRevision
    BY <1>10, <2>1
  <2> QED BY <2>2 DEF Rewritten
<1>11. ASSUME NEW p \in Writers, PutAnalysis(p) PROVE CatalogueInv'
  <2>1. task[p].repo \in Projects /\ analysis[task[p].repo].revision < MaxRevision
    BY <1>11 DEF CatalogueInv, TaskOK, PutAnalysis
  <2>2. Rewritten(task[p].repo, FALSE) \in [revision : 0..MaxRevision, batch : BOOLEAN]
    BY <2>1, <1>10
  <2>3. analysis' = [analysis EXCEPT ![task[p].repo] = Rewritten(task[p].repo, FALSE)]
    BY <1>11 DEF PutAnalysis
  <2>4. analysis' \in [Projects -> [revision : 0..MaxRevision, batch : BOOLEAN]]
    BY <2>2, <2>3 DEF CatalogueInv
  <2>5. task' = [task EXCEPT ![p] = NoTask]
    BY <1>11 DEF PutAnalysis
  <2>6. task' \in [Writers -> Task] /\ \A w \in Writers : TaskOK(task'[w])
    BY <2>5, NoTaskOK, TaskReplaced
  <2> QED BY <1>11, <2>4, <2>6 DEF CatalogueInv, PutAnalysis
<1>12. ASSUME NEW entries \in SUBSET Projects, ImportBatch(entries) PROVE CatalogueInv'
  <2>1. \A r \in Projects : Fills(r) => Rewritten(r, TRUE) \in [revision : 0..MaxRevision, batch : BOOLEAN]
    <3>1. \A r \in Projects : Fills(r) => analysis[r].revision < MaxRevision
      BY CatalogueAssumption DEF Fills
    <3> QED BY <3>1, <1>10
  <2>2. analysis' = [r \in Projects |-> IF r \in entries /\ Fills(r) THEN Rewritten(r, TRUE) ELSE analysis[r]]
    BY <1>12 DEF ImportBatch
  <2>3. analysis' \in [Projects -> [revision : 0..MaxRevision, batch : BOOLEAN]]
    BY <2>1, <2>2, <1>9
  <2> QED BY <1>12, <2>3 DEF CatalogueInv, ImportBatch
<1>13. CASE CatalogueNext
  BY <1>1, <1>2, <1>3, <1>4, <1>5, <1>6, <1>7, <1>8, <1>11, <1>12, <1>13 DEF CatalogueNext
<1> QED BY <1>0, <1>13

LEMMA CatalogueInvariant == CatalogueSpec => []CatalogueInv
  BY CatalogueInvInit, CatalogueStepKeeps, PTL DEF CatalogueSpec

(***************************************************************************)
(* Theorems about Catalogue.                                               *)
(***************************************************************************)
(* The types of Catalogue: among others a confidence is a percentage and   *)
(* every order names a repository and a topic there is.                    *)
THEOREM CatalogueTypeCorrect == CatalogueSpec => []CatalogueTypeOK
<1>1. CatalogueInv => CatalogueTypeOK
  BY DEF CatalogueInv, CatalogueTypeOK, AssignedOK
<1> QED BY <1>1, CatalogueInvariant, PTL

(* A dry run of ReclassifyTopics counts exactly the rows the formal run    *)
(* would change, for every configuration, metadata and history of rows.    *)
THEOREM DryRunCorrect == CatalogueSpec => []DryRunForetells
<1>1. ASSUME CatalogueInv, NEW r \in Projects, NEW match \in Infer(text[r], Evidence(r)),
             match.slug \in Configured
      PROVE  DryRunCounts(r, match)
               <=> Assign(assigned[r][match.slug], AutoOrder(r, match)) # assigned[r][match.slug]
  <2> DEFINE row == assigned[r][match.slug]
             new == [source |-> "auto", confirmed |-> FALSE, confidence |-> match.confidence]
  <2>1. match.slug \in Slugs
    BY <1>1, CatalogueAssumption
  <2>2. row \in Assignment \cup {NoAssignment}
    BY <1>1, <2>1 DEF CatalogueInv, AssignedOK
  <2> HIDE DEF row
  <2>3. /\ row.confirmed \in BOOLEAN
        /\ row = [source |-> row.source, confirmed |-> row.confirmed, confidence |-> row.confidence]
    <3>1. CASE row \in Assignment
      BY <3>1 DEF Assignment
    <3>2. CASE row = NoAssignment
      BY <3>2 DEF NoAssignment
    <3> QED BY <2>2, <3>1, <3>2
  <2>4. Assign(row, AutoOrder(r, match)) = IF Protected(row) THEN row ELSE new
    BY DEF Assign, AutoOrder
  <2>5. ~Protected(row) => (new # row <=> (row.source # "auto" \/ row.confidence # match.confidence))
    BY <2>3 DEF Protected
  <2>6. DryRunCounts(r, match) <=> ~Protected(row) /\ (row.source # "auto" \/ row.confidence # match.confidence)
    BY DEF DryRunCounts, row
  <2>7. DryRunCounts(r, match) <=> Assign(row, AutoOrder(r, match)) # row
    BY <2>4, <2>5, <2>6
  <2> QED BY <2>7 DEF row
<1>2. CatalogueInv => DryRunForetells
  BY <1>1 DEF DryRunForetells
<1> QED BY <1>2, CatalogueInvariant, PTL

(* What a person decided about a category stands until a person decides    *)
(* otherwise, whatever the processes at work read before.                  *)
THEOREM DecisionsCorrect == CatalogueSpec => DecisionsStand
<1>1. ASSUME CatalogueInv, CatalogueNext, NEW r \in Projects, NEW s \in Slugs, assigned[r][s].source = "manual"
      PROVE  \/ assigned'[r][s] = assigned[r][s]
             \/ /\ \A p \in Writers : task'[p] = task[p]
                /\ assigned'[r][s].source = "manual"
  <2>1. CASE assigned' = assigned
    BY <2>1
  <2>2. ASSUME NEW x \in Projects, NEW y \in Slugs, AssignByHand(x, y)
        PROVE  \/ assigned'[r][s] = assigned[r][s]
               \/ /\ \A p \in Writers : task'[p] = task[p]
                  /\ assigned'[r][s].source = "manual"
    <3>1. PICK confidence \in {0, 100} : Carry(ManualOrder(x, y, confidence))
      BY <2>2 DEF AssignByHand
    <3> DEFINE order == ManualOrder(x, y, confidence)
    <3>2. order \in Order /\ order.source = "manual"
      BY DEF ManualOrder, Order, Sources
    <3> HIDE DEF order
    <3>3. assigned'[r][s] = assigned[r][s] \/ assigned'[r][s] = Assign(assigned[r][s], order)
      BY <1>1, <3>1, <3>2, CarryOK DEF order
    <3>4. Assign(assigned[r][s], order).source = "manual"
      BY <3>2 DEF Assign
    <3> QED BY <2>2, <3>3, <3>4 DEF AssignByHand
  <2>3. ASSUME NEW p \in Writers, NextAssignment(p)
        PROVE  assigned'[r][s] = assigned[r][s]
    <3>1. TaskOK(task[p]) /\ task[p].pc = "assign"
      BY <1>1, <2>3 DEF CatalogueInv, NextAssignment
    <3> DEFINE order == Head(task[p].orders)
    <3>2. order \in Given
      BY <3>1 DEF TaskOK
    <3>3. assigned' = assigned \/ Carry(order)
      BY <2>3 DEF NextAssignment
    <3> HIDE DEF order
    <3>4. order \in Order /\ order.source # "manual"
      BY <3>2 DEF Given, Order
    <3>5. Carry(order) => assigned'[r][s] = assigned[r][s] \/ assigned'[r][s] = Assign(assigned[r][s], order)
      BY <1>1, <3>4, CarryOK
    <3>6. Assign(assigned[r][s], order) = assigned[r][s]
      BY <1>1, <3>4 DEF Assign, Protected
    <3> QED BY <3>3, <3>5, <3>6
  <2>4. \/ assigned' = assigned
        \/ \E x \in Projects, y \in Slugs : AssignByHand(x, y)
        \/ \E p \in Writers : NextAssignment(p)
    BY <1>1 DEF CatalogueNext, Ensure, EnsureTopic, ClassifyCandidate, AssignCandidates, Reclassify,
       FindAnalysed, PutAnalysis, ImportBatch
  <2> QED BY <2>1, <2>2, <2>3, <2>4
<1>2. ASSUME CatalogueInv, [CatalogueNext]_catalogueVars
      PROVE  [\A r \in Projects, s \in Slugs :
                 assigned[r][s].source = "manual" =>
                    \/ assigned'[r][s] = assigned[r][s]
                    \/ /\ \A p \in Writers : task'[p] = task[p]
                       /\ assigned'[r][s].source = "manual"]_catalogueVars
  BY <1>1, <1>2
<1> QED BY <1>2, CatalogueInvariant, PTL DEF CatalogueSpec, DecisionsStand

(* A saved analysis is only replaced by an import of its own, which counts *)
(* one revision, and a batch leaves alone what is filled.                  *)
THEOREM AnalysesCorrect == CatalogueSpec => AnalysesKept
<1>1. ASSUME CatalogueInv, CatalogueNext, NEW r \in Projects, analysis'[r] # analysis[r]
      PROVE  /\ analysis'[r].revision = analysis[r].revision + 1
             /\ analysis'[r].batch => analysis[r].revision = 0
  <2>1. analysis \in [Projects -> [revision : 0..MaxRevision, batch : BOOLEAN]]
    BY <1>1 DEF CatalogueInv
  <2>2. ASSUME NEW p \in Writers, PutAnalysis(p)
        PROVE  analysis'[r].revision = analysis[r].revision + 1 /\ ~analysis'[r].batch
    <3>1. analysis' = [analysis EXCEPT ![task[p].repo] = Rewritten(task[p].repo, FALSE)]
      BY <2>2 DEF PutAnalysis
    <3>2. analysis'[r] = Rewritten(r, FALSE)
      BY <1>1, <2>1, <3>1
    <3> QED BY <3>2 DEF Rewritten
  <2>3. ASSUME NEW entries \in SUBSET Projects, ImportBatch(entries)
        PROVE  analysis'[r].revision = analysis[r].revision + 1 /\ analysis[r].revision = 0
    <3>1. analysis'[r] = Rewritten(r, TRUE) /\ Fills(r)
      BY <1>1, <2>3 DEF ImportBatch
    <3> QED BY <3>1 DEF Rewritten, Fills
  <2>4. \/ analysis' = analysis
        \/ \E p \in Writers : PutAnalysis(p)
        \/ \E entries \in SUBSET Projects : ImportBatch(entries)
    BY <1>1 DEF CatalogueNext, AssignByHand, Ensure, EnsureTopic, ClassifyCandidate, AssignCandidates,
       Reclassify, NextAssignment, FindAnalysed
  <2> QED BY <1>1, <2>2, <2>3, <2>4
<1>2. ASSUME CatalogueInv, [CatalogueNext]_catalogueVars
      PROVE  [\A r \in Projects :
                 analysis'[r] # analysis[r] =>
                    /\ analysis'[r].revision = analysis[r].revision + 1
                    /\ analysis'[r].batch => analysis[r].revision = 0]_catalogueVars
  BY <1>1, <1>2
<1> QED BY <1>2, CatalogueInvariant, PTL DEF CatalogueSpec, AnalysesKept
(***************************************************************************)
(* The two together, as the runs compose them (MCWeb).                     *)
(***************************************************************************)
(* The later state of the process the runs start from is one the inductive *)
(* invariant of Login allows.                                              *)
LEMMA LoginLaterOK == LoginLater => LoginInv
<1> SUFFICES ASSUME LoginLater PROVE LoginInv
  OBVIOUS
<1> DEFINE a == Stored(1, u, 1)
           b == Stored(2, u, 0)
           c == Stored(3, v, 0)
<1>1. /\ clock = 1 /\ drawn = 3 /\ states = {} /\ sessions = {a, b, c}
      /\ request = [q \in Requests |-> NoRequest] /\ buckets = [x \in Addresses |-> NoBucket]
      /\ allowed \in SUBSET Users \ {{}}
      /\ cookie = [x \in Browsers |-> [binding |-> 0, session |-> 1]]
  BY DEF LoginLater
<1>2. 3 \in Drawn /\ 2 \in Drawn /\ 1 \in Drawn /\ {u, v} \subseteq Users
  BY LoginNumbers, WebAssumption DEF Drawn
<1>3. 0 \in Times /\ 1 \in Times /\ SessionTicks \in Times /\ 0 + SessionTicks \in Times /\ 1 + SessionTicks \in Times
  BY LoginNumbers DEF Times
<1>4. a \in Session /\ b \in Session /\ c \in Session
  BY <1>2, <1>3 DEF Stored, Session
<1>5. /\ a.row = 1 /\ b.row = 2 /\ c.row = 3 /\ a.login = 1 /\ b.login = 2 /\ c.login = 3
  BY DEF Stored
<1> HIDE DEF a, b, c
<1>6. IsFiniteSet({a, b, c})
  <2>1. IsFiniteSet({a} \cup {b})
    BY FS_Singleton, FS_Union
  <2>2. IsFiniteSet(({a} \cup {b}) \cup {c})
    BY <2>1, FS_Singleton, FS_Union
  <2>3. ({a} \cup {b}) \cup {c} = {a, b, c}
    OBVIOUS
  <2> QED BY <2>2, <2>3
<1>7. SessionsOK(sessions)
  BY <1>1, <1>4, <1>5, <1>6 DEF SessionsOK
<1>8. StatesOK(states)
  BY <1>1, FS_EmptySet, LoginNumbers DEF StatesOK
<1>9. RequestOK(NoRequest, 3) /\ NoRequest.pc \notin Holding /\ NoRequest.token = 0
  BY NoRequestOK DEF NoRequest, Holding
<1>10. RequestsOK(request, drawn)
  BY <1>1, <1>9 DEF RequestsOK, RequestOK
<1>11. \A q \in Requests : request[q] = NoRequest
  BY <1>1
<1>12. HoldersApart(request) /\ TokensApart(request)
  BY <1>9, <1>11 DEF HoldersApart, TokensApart
<1>13. RowsApart(request, states, sessions)
  BY <1>1, <1>5, <1>9, <1>11 DEF RowsApart
<1>14. RowsDrawn(states, sessions, drawn)
  BY <1>1, <1>5 DEF RowsDrawn
<1>15. TokensFresh(request, cookie, drawn)
  BY <1>1, <1>9, <1>11 DEF TokensFresh
<1>16. NoBucket \in Bucket
  BY LoginNumbers DEF NoBucket, Bucket
<1>17. cookie \in [Browsers -> Cookies]
  BY <1>1, <1>2, LoginNumbers DEF Cookies
<1>18. clock \in 0..MaxTime
  BY <1>1, LoginNumbers
<1>19. RestOK
  BY <1>1, <1>2, <1>16, <1>17, <1>18 DEF RestOK
<1> QED BY <1>7, <1>8, <1>10, <1>12, <1>13, <1>14, <1>15, <1>19 DEF LoginInv

(* Both parts keep their types in every behaviour of the runs.             *)
THEOREM WebTypeCorrect == WebSpec => []WebTypeOK
<1>1. WebInit => LoginInv /\ CatalogueInv
  BY LoginLaterOK, CatalogueInvInit DEF WebInit
<1>2. LoginInv /\ CatalogueInv /\ [WebNext]_<<loginVars, catalogueVars, part>> => (LoginInv /\ CatalogueInv)'
  <2> SUFFICES ASSUME LoginInv, CatalogueInv, [WebNext]_<<loginVars, catalogueVars, part>>
               PROVE  LoginInv' /\ CatalogueInv'
    OBVIOUS
  <2>1. [LoginNext]_loginVars /\ [CatalogueNext]_catalogueVars
    BY DEF WebNext, CatalogueStep
  <2> QED BY <2>1, LoginStep, CatalogueStepKeeps
<1>3. LoginInv /\ CatalogueInv => WebTypeOK
  BY DEF WebTypeOK, LoginInv, RestOK, RequestsOK, StatesOK, SessionsOK, LoginTypeOK,
     CatalogueInv, AssignedOK, CatalogueTypeOK
<1> QED BY <1>1, <1>2, <1>3, PTL DEF WebSpec
=============================================================================
