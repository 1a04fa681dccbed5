--------------------------- MODULE SessionsProofs ---------------------------
(***************************************************************************)
(* What Sessions promises, proved for any number of sign-ins and requests, *)
(* any clock and any freshness interval.  A request carries what it read   *)
(* across awaits, so the invariant says what is known of every copy: an    *)
(* authorisation, wherever it is kept, was checked no later than the last  *)
(* moment at which GitHub granted access.                                  *)
(***************************************************************************)
EXTENDS Sessions, TLAPS

Statuses == Denials \cup {"granted"}
Auth == [state : {"authorized", "denied"}, reason : Denials \cup {"none"}, config : 0 .. 2, checked : Nat]

\* The last grant was at `last': an authorisation was checked no later.
Earned(auth, last) == auth \in Auth /\ (auth.state = "authorized" => auth.checked <= last)

ClockOK ==
  /\ time \in Nat /\ lastGranted \in Nat /\ lastGranted <= time /\ config \in 0 .. 2
  /\ access \in {"granted", "user_access"} /\ (access = "granted" => lastGranted = time)

\* What a sign-in knows before its session is made.
TabOK(u, now, last) ==
  /\ u.pc \in {"verify", "create"} =>
       u.tokenExpires \in Nat /\ u.checked \in Nat /\ u.checked <= now /\ u.config \in 0 .. 2
  /\ u.pc = "create" => u.status \in Statuses /\ (u.status = "granted" => u.checked <= last)

Rows == [exists : {TRUE}, revoked : BOOLEAN, expires : Nat, token : BOOLEAN, tokenExpires : Nat, auth : Auth]

RowOK(w, last) ==
  \/ w = NoRow
  \/ w \in Rows /\ w.expires <= w.tokenExpires /\ Earned(w.auth, last)

\* What a request holds once it has read its row.
Working == {"access", "persist_mismatch", "persist", "revoke", "verify"}
Held == [pc : Working, session : Tabs, now : Nat, config : 0 .. 2, tokenExpires : Nat,
         granted : Nat, auth : Auth]

HeldOK(q, now, last) ==
  /\ q \in Held /\ q.now <= now /\ q.now < q.tokenExpires
  /\ Earned(q.auth, last)
  /\ q.auth.state = "authorized" \/ q.pc = "access" => q.granted + FreshFor > q.now

RequestOK(q, now, last) == q \in {[pc |-> "idle"], [pc |-> "refused"]} \/ HeldOK(q, now, last)

SessionsInv ==
  /\ ClockOK
  /\ DOMAIN tab = Tabs /\ DOMAIN row = Tabs /\ DOMAIN request = Requests
  /\ \A t \in Tabs : TabOK(tab[t], time, lastGranted)
  /\ \A t \in Tabs : RowOK(row[t], lastGranted)
  /\ \A t \in Tabs : row[t] # NoRow => tab[t].pc = "signed_in"
  /\ \A r \in Requests : /\ RequestOK(request[r], time, lastGranted)
                         /\ request[r].pc \in Working => row[request[r].session] # NoRow

\* The step of RevokedIsFrozen.
RevokedKept == \A s \in Tabs : row[s].exists /\ row[s].revoked => row'[s] = row[s]

-----------------------------------------------------------------------------
(* What is known stays known as the clock advances.                        *)

LEMMA LaterStillOK ==
  ASSUME NEW now \in Nat, NEW last \in Nat, NEW now1 \in Nat, NEW last1 \in Nat, now <= now1, last <= last1
  PROVE  /\ \A u : TabOK(u, now, last) => TabOK(u, now1, last1)
         /\ \A w : RowOK(w, last) => RowOK(w, last1)
         /\ \A q : RequestOK(q, now, last) => RequestOK(q, now1, last1)
<1>1. \A auth : Earned(auth, last) => Earned(auth, last1)
  BY DEF Earned, Auth
<1>2. \A u : TabOK(u, now, last) => TabOK(u, now1, last1)
  BY DEF TabOK
<1>3. \A w : RowOK(w, last) => RowOK(w, last1)
  BY <1>1 DEF RowOK
<1>4. \A q : RequestOK(q, now, last) => RequestOK(q, now1, last1)
  BY <1>1 DEF RequestOK, HeldOK, Held
<1> QED
  BY <1>2, <1>3, <1>4

\* A verdict of "granted" is given at a moment at which access is granted.
LEMMA VerdictsEarned ==
  ASSUME ClockOK, NEW status \in Verdicts
  PROVE  status \in Statuses /\ (status = "granted" => lastGranted = time)
  BY DEF ClockOK, Verdicts, Statuses, Denials

LEMMA AuthorizationEarned ==
  ASSUME NEW status \in Statuses, NEW cfg \in 0 .. 2, NEW now \in Nat, NEW last \in Nat,
         status = "granted" => now <= last
  PROVE  /\ Earned(Authorization(status, cfg, now), last)
         /\ Authorization(status, cfg, now).state = "authorized" <=> status = "granted"
<1>1. CASE status = "granted"
  BY <1>1 DEF Earned, Auth, Authorization, Record
<1>2. CASE status # "granted"
  <2>1. status \in Denials
    BY <1>2 DEF Statuses
  <2> QED
    BY <1>2, <2>1 DEF Earned, Auth, Authorization, Record
<1> QED
  BY <1>1, <1>2

-----------------------------------------------------------------------------
(* One sign-in, one row or one request changes.                            *)

LEMMA TabMoves ==
  ASSUME SessionsInv, NEW t \in Tabs, NEW u, tab' = [tab EXCEPT ![t] = u],
         TabOK(u, time, lastGranted), row[t] = NoRow, UNCHANGED <<outside, row, request>>
  PROVE  SessionsInv'
<1>1. ClockOK' /\ UNCHANGED <<time, lastGranted, row, request>>
  BY DEF SessionsInv, ClockOK, outside
<1>2. DOMAIN tab' = Tabs /\ tab'[t] = u /\ \A v \in Tabs \ {t} : tab'[v] = tab[v]
  BY DEF SessionsInv
<1> QED
  BY <1>1, <1>2 DEF SessionsInv

LEMMA RowMoves ==
  ASSUME SessionsInv, NEW s \in Tabs, NEW w, row' = [row EXCEPT ![s] = w],
         RowOK(w, lastGranted), w # NoRow, tab'[s].pc = "signed_in",
         DOMAIN tab' = Tabs, \A t \in Tabs \ {s} : tab'[t] = tab[t], UNCHANGED <<outside, request>>
  PROVE  SessionsInv'
<1>1. ClockOK' /\ UNCHANGED <<time, lastGranted, request>>
  BY DEF SessionsInv, ClockOK, outside
<1>2. DOMAIN row' = Tabs /\ row'[s] = w /\ \A t \in Tabs \ {s} : row'[t] = row[t]
  BY DEF SessionsInv
<1>3. \A t \in Tabs : TabOK(tab'[t], time, lastGranted)
  BY DEF SessionsInv, TabOK
<1>4. \A r \in Requests : request[r].pc \in Working => request[r].session \in Tabs
  BY DEF SessionsInv, RequestOK, HeldOK, Held, Working
<1> QED
  BY <1>1, <1>2, <1>3, <1>4 DEF SessionsInv

LEMMA RequestMoves ==
  ASSUME SessionsInv, NEW r \in Requests, NEW q, request' = [request EXCEPT ![r] = q],
         RequestOK(q, time, lastGranted), q.pc \in Working => row[q.session] # NoRow,
         UNCHANGED <<outside, tab, row>>
  PROVE  SessionsInv'
<1>1. ClockOK' /\ UNCHANGED <<time, lastGranted, row, tab>>
  BY DEF SessionsInv, ClockOK, outside
<1>2. DOMAIN request' = Requests /\ request'[r] = q /\ \A v \in Requests \ {r} : request'[v] = request[v]
  BY DEF SessionsInv
<1> QED
  BY <1>1, <1>2 DEF SessionsInv

\* A request that ends refused, whatever happened to a row.
LEMMA RequestRefused ==
  ASSUME SessionsInv, NEW r \in Requests, request' = [request EXCEPT ![r] = [pc |-> "refused"]],
         UNCHANGED <<outside, tab, row>>
  PROVE  SessionsInv'
<1>1. RequestOK([pc |-> "refused"], time, lastGranted) /\ [pc |-> "refused"].pc \notin Working
  BY DEF RequestOK, Working
<1> QED
  BY <1>1, RequestMoves, Zenon

\* A row changes in the same step as the request that changes it.
LEMMA RowAndRequestMove ==
  ASSUME SessionsInv, NEW r \in Requests, NEW q, NEW s \in Tabs, NEW w,
         request' = [request EXCEPT ![r] = q], RequestOK(q, time, lastGranted),
         q.pc \in Working => row[q.session] # NoRow,
         row' = [row EXCEPT ![s] = w], RowOK(w, lastGranted), w # NoRow, row[s] # NoRow,
         UNCHANGED <<outside, tab>>
  PROVE  SessionsInv'
<1>1. ClockOK' /\ UNCHANGED <<time, lastGranted, tab>>
  BY DEF SessionsInv, ClockOK, outside
<1>2. DOMAIN row' = Tabs /\ row'[s] = w /\ \A t \in Tabs \ {s} : row'[t] = row[t]
  BY DEF SessionsInv
<1>3. DOMAIN request' = Requests /\ request'[r] = q /\ \A v \in Requests \ {r} : request'[v] = request[v]
  BY DEF SessionsInv
<1>4. \A v \in Requests : request'[v].pc \in Working => request'[v].session \in Tabs
  BY <1>3 DEF SessionsInv, RequestOK, HeldOK, Held, Working
<1> QED
  BY <1>1, <1>2, <1>3, <1>4 DEF SessionsInv

-----------------------------------------------------------------------------
(* The steps of a sign-in.                                                 *)

LEMMA SignInSteps ==
  ASSUME SessionsInv, NEW t \in Tabs,
         StartSignIn(t) \/ Callback(t) \/ ExchangeCode(t) \/ VerifySignIn(t) \/ CreateSession(t)
  PROVE  SessionsInv' /\ RevokedKept
<1>0. row[t] = NoRow
  BY DEF SessionsInv, StartSignIn, Callback, ExchangeCode, VerifySignIn, CreateSession
<1>e. ASSUME SignInError(t), UNCHANGED <<outside, row, request>> PROVE SessionsInv' /\ RevokedKept
  <2>1. TabOK([pc |-> "error"], time, lastGranted)
    BY DEF TabOK
  <2> QED
    BY <1>0, <1>e, <2>1, TabMoves, Zenon DEF SignInError, RevokedKept
<1>1. CASE StartSignIn(t)
  <2>1. TabOK([pc |-> "github"], time, lastGranted)
    BY DEF TabOK
  <2> QED
    BY <1>0, <1>1, <1>e, <2>1, TabMoves DEF StartSignIn, RevokedKept
<1>2. CASE Callback(t)
  <2>1. TabOK([pc |-> "exchange"], time, lastGranted)
    BY DEF TabOK
  <2> QED
    BY <1>0, <1>2, <1>e, <2>1, TabMoves DEF Callback, RevokedKept
<1>3. CASE ExchangeCode(t)
  <2>1. ASSUME NEW life \in TokenLives,
               tab' = [tab EXCEPT ![t] = [pc |-> "verify", tokenExpires |-> time + life,
                                          checked |-> time, config |-> config]]
        PROVE  SessionsInv' /\ RevokedKept
    <3>1. TabOK([pc |-> "verify", tokenExpires |-> time + life, checked |-> time, config |-> config],
                time, lastGranted)
      BY SessionsAssumption DEF TabOK, SessionsInv, ClockOK
    <3> QED
      BY <1>0, <1>3, <2>1, <3>1, TabMoves, Zenon DEF ExchangeCode, RevokedKept
  <2> QED
    BY <1>3, <1>e, <2>1 DEF ExchangeCode
<1>4. CASE VerifySignIn(t)
  <2>1. PICK status \in Verdicts :
          tab' = [tab EXCEPT ![t] = [pc |-> "create", status |-> status, checked |-> tab[t].checked,
                                     config |-> tab[t].config, tokenExpires |-> tab[t].tokenExpires]]
    BY <1>4, Zenon DEF VerifySignIn
  <2>2. status \in Statuses /\ (status = "granted" => lastGranted = time)
    BY VerdictsEarned DEF SessionsInv
  <2>3. TabOK(tab[t], time, lastGranted) /\ tab[t].pc = "verify"
    BY <1>4 DEF VerifySignIn, SessionsInv
  <2>4. TabOK([pc |-> "create", status |-> status, checked |-> tab[t].checked,
               config |-> tab[t].config, tokenExpires |-> tab[t].tokenExpires], time, lastGranted)
    BY <2>2, <2>3 DEF TabOK
  <2> QED
    BY <1>0, <1>4, <2>1, <2>4, TabMoves, Zenon DEF VerifySignIn, RevokedKept
<1>5. CASE CreateSession(t)
  <2> DEFINE u == tab[t]
             auth == IF u.status = "granted" THEN Authorization("granted", u.config, u.checked)
                     ELSE Authorization(u.status, config, time)
             w == [exists |-> TRUE, revoked |-> FALSE, expires |-> SessionExpiry(time, u.tokenExpires),
                   token |-> ShouldRetainUserToken(u.status), tokenExpires |-> u.tokenExpires,
                   auth |-> auth]
  <2>1. ASSUME row' = [row EXCEPT ![t] = w], tab' = [tab EXCEPT ![t] = [pc |-> "signed_in"]]
        PROVE  SessionsInv' /\ RevokedKept
    <3>1. TabOK(u, time, lastGranted) /\ u.pc = "create"
      BY <1>5 DEF CreateSession, SessionsInv
    <3>2. time \in Nat /\ lastGranted \in Nat /\ config \in 0 .. 2
      BY DEF SessionsInv, ClockOK
    <3>3. Earned(auth, lastGranted)
      BY <3>1, <3>2, AuthorizationEarned DEF TabOK
    <3>4. SessionExpiry(time, u.tokenExpires) \in Nat /\ SessionExpiry(time, u.tokenExpires) <= u.tokenExpires
      BY <3>1, <3>2, SessionsAssumption DEF SessionExpiry, TabOK
    <3>5. ShouldRetainUserToken(u.status) \in BOOLEAN
      BY DEF ShouldRetainUserToken
    <3> HIDE DEF auth
    <3>6. RowOK(w, lastGranted) /\ w # NoRow
      BY <3>1, <3>3, <3>4, <3>5 DEF RowOK, Rows, Earned, NoRow, TabOK
    <3> HIDE DEF w
    <3>7. /\ tab'[t].pc = "signed_in" /\ DOMAIN tab' = Tabs
          /\ \A v \in Tabs \ {t} : tab'[v] = tab[v] /\ row'[v] = row[v]
      BY <2>1 DEF SessionsInv
    <3>8. SessionsInv'
      BY <1>5, <2>1, <3>6, <3>7, RowMoves, Zenon DEF CreateSession
    <3> QED
      BY <1>0, <3>7, <3>8 DEF RevokedKept, NoRow
  <2> QED
    BY <1>5, <1>e, <2>1 DEF CreateSession
<1> QED
  BY <1>1, <1>2, <1>3, <1>4, <1>5

-----------------------------------------------------------------------------
(* The steps of a request.                                                 *)

LEMMA BeginKeeps ==
  ASSUME SessionsInv, NEW r \in Requests, NEW s \in Tabs, BeginRequest(r, s)
  PROVE  SessionsInv' /\ RevokedKept
<1> DEFINE resolution == Resolution(row[s].auth, row[s].token, row[s].tokenExpires, time)
           q == [pc |-> resolution, session |-> s, now |-> time, config |-> config,
                 tokenExpires |-> row[s].tokenExpires, granted |-> lastGranted,
                 auth |-> Authorization("configuration", config, time)]
<1>1. CASE ~Configured \/ ~Active(s) \/ resolution = "denied"
  <2>1. request' = [request EXCEPT ![r] = [pc |-> "refused"]]
    BY <1>1, Zenon DEF BeginRequest
  <2> QED
    BY <2>1, RequestRefused, Zenon DEF BeginRequest, RevokedKept
<1>2. CASE Active(s) /\ resolution # "denied" /\ request' = [request EXCEPT ![r] = q]
  <2>1. row[s] # NoRow /\ row[s].expires > time
    BY <1>2 DEF Active, NoRow
  <2>2. /\ row[s] \in Rows /\ row[s].expires <= row[s].tokenExpires /\ Earned(row[s].auth, lastGranted)
        /\ time \in Nat /\ lastGranted \in Nat /\ config \in 0 .. 2
    BY <2>1 DEF SessionsInv, RowOK, ClockOK
  <2>3. resolution \in Working
    BY <1>2 DEF Resolution, Working
  <2>4. resolution = "access" => lastGranted + FreshFor > time
    BY <2>2, SessionsAssumption DEF Resolution, AuthorizationRequiresRevalidation, Earned, Auth
  <2>5. /\ Earned(Authorization("configuration", config, time), lastGranted)
        /\ Authorization("configuration", config, time).state # "authorized"
    BY <2>2, AuthorizationEarned DEF Statuses, Denials
  <2>6. time < row[s].tokenExpires /\ row[s].tokenExpires \in Nat
    <3>1. row[s].expires \in Nat /\ row[s].tokenExpires \in Nat
      BY <2>2, Zenon DEF Rows
    <3> QED
      BY <2>1, <2>2, <3>1
  <2>7. Authorization("configuration", config, time) \in Auth
    BY <2>5 DEF Earned
  <2> HIDE DEF resolution
  <2>8. HeldOK(q, time, lastGranted)
    BY <2>2, <2>3, <2>4, <2>5, <2>6, <2>7 DEF HeldOK, Held
  <2>9. q.session = s
    OBVIOUS
  <2> HIDE DEF q
  <2> QED
    BY <1>2, <2>1, <2>8, <2>9, RequestMoves, Zenon DEF BeginRequest, RequestOK, RevokedKept
<1> QED
  BY <1>1, <1>2, Zenon DEF BeginRequest

LEMMA VerifyKeeps ==
  ASSUME SessionsInv, NEW r \in Requests, VerifyRequest(r)
  PROVE  SessionsInv' /\ RevokedKept
<1> DEFINE q == request[r]
<1>1. q.pc = "verify" /\ q.pc \in Working
  BY DEF VerifyRequest, Working
<1>2. HeldOK(q, time, lastGranted) /\ row[q.session] # NoRow
  BY <1>1 DEF SessionsInv, RequestOK
<1>3. time \in Nat /\ lastGranted \in Nat /\ DOMAIN request = Requests
  BY DEF SessionsInv, ClockOK
<1>4. CASE \E status \in Verdicts :
             request' = [request EXCEPT ![r].pc = "persist", ![r].granted = lastGranted,
                           ![r].auth = Authorization(status, request[r].config, request[r].now)]
  <2>1. PICK status \in Verdicts :
             request' = [request EXCEPT ![r].pc = "persist", ![r].granted = lastGranted,
                           ![r].auth = Authorization(status, request[r].config, request[r].now)]
    BY <1>4, Zenon
  <2> DEFINE auth == Authorization(status, q.config, q.now)
             q1 == [q EXCEPT !.pc = "persist"]
             q2 == [q1 EXCEPT !.granted = lastGranted]
             p == [q2 EXCEPT !.auth = auth]
  <2>2. status \in Statuses /\ (status = "granted" => lastGranted = time)
    BY VerdictsEarned DEF SessionsInv
  <2>3. q \in Held /\ q.now <= time /\ q.now < q.tokenExpires
    BY <1>2 DEF HeldOK
  <2>4. q.now \in Nat /\ q.config \in 0 .. 2 /\ q.session \in Tabs /\ q.tokenExpires \in Nat
    BY <2>3 DEF Held
  <2>5. Earned(auth, lastGranted) /\ (auth.state = "authorized" <=> status = "granted")
    BY <1>3, <2>2, <2>3, <2>4, AuthorizationEarned
  <2> HIDE DEF auth
  <2>6. /\ p \in Held /\ p.session = q.session /\ p.now = q.now /\ p.tokenExpires = q.tokenExpires
        /\ p.granted = lastGranted /\ p.auth = auth /\ p.pc = "persist"
    <3>1. /\ q1 \in Held /\ q1.session = q.session /\ q1.now = q.now
          /\ q1.tokenExpires = q.tokenExpires /\ q1.pc = "persist"
      BY <2>3 DEF Held, Working
    <3> HIDE DEF q1
    <3>2. /\ q2 \in Held /\ q2.session = q1.session /\ q2.now = q1.now
          /\ q2.tokenExpires = q1.tokenExpires /\ q2.granted = lastGranted
          /\ q2.pc = q1.pc
      BY <1>3, <3>1 DEF Held
    <3> HIDE DEF q2
    <3>3. /\ p \in Held /\ p.session = q2.session /\ p.now = q2.now
          /\ p.tokenExpires = q2.tokenExpires /\ p.granted = q2.granted /\ p.auth = auth
          /\ p.pc = q2.pc
      BY <2>5, <3>2 DEF Held, Earned
    <3> QED
      BY <3>1, <3>2, <3>3
  <2>7. request' = [request EXCEPT ![r] = p]
    BY <1>3, <2>1, <2>6, Zenon DEF auth
  <2>8. HeldOK(p, time, lastGranted)
    <3> HIDE DEF p
    <3>1. FreshFor \in Nat /\ FreshFor > 0
      BY SessionsAssumption
    <3>2. p.auth.state = "authorized" => p.granted + FreshFor > p.now
      BY <1>3, <2>2, <2>3, <2>4, <2>5, <2>6, <3>1
    <3>3. p \in Held /\ p.now <= time /\ p.now < p.tokenExpires /\ Earned(p.auth, lastGranted)
      BY <2>3, <2>5, <2>6
    <3> QED
      BY <2>6, <3>2, <3>3 DEF HeldOK
  <2> HIDE DEF p
  <2> QED
    BY <1>2, <2>6, <2>7, <2>8, RequestMoves, Zenon DEF VerifyRequest, RequestOK, RevokedKept
<1>5. CASE request' = [request EXCEPT ![r].pc = "revoke"]
  <2>1. request' = [request EXCEPT ![r] = [q EXCEPT !.pc = "revoke"]]
    BY <1>5
  <2>2. HeldOK([q EXCEPT !.pc = "revoke"], time, lastGranted) /\ [q EXCEPT !.pc = "revoke"].session = q.session
    BY <1>2 DEF HeldOK, Held, Working
  <2> QED
    BY <1>2, <2>1, <2>2, RequestMoves, Zenon DEF VerifyRequest, RequestOK, RevokedKept
<1> QED
  BY <1>4, <1>5 DEF VerifyRequest

LEMMA PersistKeeps ==
  ASSUME SessionsInv, NEW r \in Requests, PersistAccess(r)
  PROVE  SessionsInv' /\ RevokedKept
<1> DEFINE q == request[r]
           s == q.session
<1>1. q.pc \in {"persist", "persist_mismatch"} /\ q.pc \in Working
  BY DEF PersistAccess, Working
<1>2. HeldOK(q, time, lastGranted) /\ row[s] # NoRow
  BY <1>1 DEF SessionsInv, RequestOK
<1>3. CASE request' = [request EXCEPT ![r] = [pc |-> "refused"]] /\ UNCHANGED row
  BY <1>3, RequestRefused, Zenon DEF PersistAccess, RevokedKept
<1>4. CASE /\ ~row[s].revoked
           /\ UpdateSessionAuthorization(s, q.auth)
           /\ request' = [request EXCEPT ![r] = IF q.auth.state = "authorized"
                                               THEN [q EXCEPT !.pc = "access"] ELSE [pc |-> "refused"]]
  <2> DEFINE w == [row[s] EXCEPT !.auth = q.auth]
             p == IF q.auth.state = "authorized" THEN [q EXCEPT !.pc = "access"] ELSE [pc |-> "refused"]
  <2>1. s \in Tabs /\ Earned(q.auth, lastGranted)
    BY <1>2 DEF HeldOK, Held
  <2>2. row[s] \in Rows /\ row[s].expires <= row[s].tokenExpires
    BY <1>2, <2>1 DEF SessionsInv, RowOK
  <2>3. RowOK(w, lastGranted) /\ w.exists
    BY <2>1, <2>2, Zenon DEF RowOK, Rows, Earned
  <2>4. w # NoRow
    BY <2>3 DEF NoRow
  <2>5. row' = [row EXCEPT ![s] = w]
    BY <1>4 DEF UpdateSessionAuthorization
  <2>6. RequestOK(p, time, lastGranted) /\ (p.pc \in Working => p.session = s)
    <3>1. CASE q.auth.state = "authorized"
      BY <1>2, <3>1 DEF RequestOK, HeldOK, Held, Working
    <3>2. CASE q.auth.state # "authorized"
      BY <3>2 DEF RequestOK, Working
    <3> QED
      BY <3>1, <3>2
  <2>7. request' = [request EXCEPT ![r] = p]
    BY <1>4
  <2> HIDE DEF p, w
  <2>8. SessionsInv'
    BY <1>2, <2>1, <2>3, <2>4, <2>5, <2>6, <2>7, RowAndRequestMove, Zenon DEF PersistAccess
  <2> QED
    BY <1>4, <2>1, <2>5, <2>8 DEF RevokedKept, SessionsInv
<1> QED
  BY <1>3, <1>4 DEF PersistAccess

\* revokeSessionId and destroySession.
LEMMA RevokedRow ==
  ASSUME SessionsInv, NEW s \in Tabs, row[s] # NoRow, row' = [row EXCEPT ![s].revoked = TRUE]
  PROVE  \E w : /\ row' = [row EXCEPT ![s] = w] /\ RowOK(w, lastGranted) /\ w # NoRow
                /\ row[s].revoked => w = row[s]
<1> DEFINE w == [row[s] EXCEPT !.revoked = TRUE]
<1>1. row[s] \in Rows /\ row[s].expires <= row[s].tokenExpires /\ Earned(row[s].auth, lastGranted)
  BY DEF SessionsInv, RowOK
<1>2. RowOK(w, lastGranted) /\ w.exists
  BY <1>1, Zenon DEF RowOK, Rows
<1>3. w # NoRow
  BY <1>2 DEF NoRow
<1>4. row[s].revoked => w = row[s]
  BY <1>1, Zenon DEF Rows
<1> QED
  BY <1>2, <1>3, <1>4, Zenon

LEMMA RevokeKeeps ==
  ASSUME SessionsInv, NEW r \in Requests, Revoke(r)
  PROVE  SessionsInv' /\ RevokedKept
<1> DEFINE s == request[r].session
<1>1. request[r].pc \in Working
  BY DEF Revoke, Working
<1>2. HeldOK(request[r], time, lastGranted) /\ row[s] # NoRow
  BY <1>1 DEF SessionsInv, RequestOK, Working
<1>3. s \in Tabs
  BY <1>2 DEF HeldOK, Held
<1>4. PICK w : /\ row' = [row EXCEPT ![s] = w] /\ RowOK(w, lastGranted) /\ w # NoRow
               /\ row[s].revoked => w = row[s]
  BY <1>2, <1>3, RevokedRow, Zenon DEF Revoke
<1>5. RequestOK([pc |-> "refused"], time, lastGranted) /\ [pc |-> "refused"].pc \notin Working
  BY DEF RequestOK, Working
<1>6. SessionsInv'
  BY <1>2, <1>3, <1>4, <1>5, RowAndRequestMove, Zenon DEF Revoke
<1> QED
  BY <1>3, <1>4, <1>6 DEF RevokedKept, SessionsInv

LEMMA SignOutKeeps ==
  ASSUME SessionsInv, NEW s \in Tabs, SignOut(s)
  PROVE  SessionsInv' /\ RevokedKept
<1>1. row[s] # NoRow
  BY DEF SignOut, NoRow
<1>2. PICK w : row' = [row EXCEPT ![s] = w] /\ RowOK(w, lastGranted) /\ w # NoRow
  BY <1>1, RevokedRow, Zenon DEF SignOut
<1>3. tab'[s].pc = "signed_in" /\ tab' = tab /\ DOMAIN tab = Tabs
  BY <1>1 DEF SignOut, SessionsInv
<1>4. SessionsInv'
  BY <1>2, <1>3, RowMoves, Zenon DEF SignOut
<1> QED
  BY <1>2, <1>4, Zenon DEF RevokedKept, SessionsInv, SignOut

LEMMA WorldKeeps ==
  ASSUME SessionsInv, TimePasses \/ AccessChanges \/ Redeploy \/ UNCHANGED sessionVars
  PROVE  SessionsInv' /\ RevokedKept
<1>1. time \in Nat /\ lastGranted \in Nat /\ UNCHANGED <<tab, row, request>>
  BY DEF SessionsInv, ClockOK, TimePasses, AccessChanges, Redeploy, sessionVars
<1>2. ClockOK'
  BY DEF SessionsInv, ClockOK, TimePasses, AccessChanges, Redeploy, sessionVars
<1>3. time' \in Nat /\ lastGranted' \in Nat /\ time <= time' /\ lastGranted <= lastGranted'
  BY <1>1, <1>2 DEF SessionsInv, ClockOK, TimePasses, AccessChanges, Redeploy, sessionVars
<1>4. SessionsInv'
  BY <1>1, <1>2, <1>3, LaterStillOK DEF SessionsInv
<1> QED
  BY <1>1, <1>4 DEF RevokedKept

-----------------------------------------------------------------------------
(* The theorems.                                                           *)

LEMMA SessionsInvInit == SessionsInit => SessionsInv
<1> SUFFICES ASSUME SessionsInit PROVE SessionsInv
  OBVIOUS
<1>1. ClockOK
  BY DEF SessionsInit, ClockOK
<1>2. TabOK([pc |-> "closed"], 0, 0) /\ RequestOK([pc |-> "idle"], 0, 0) /\ RowOK(NoRow, 0)
  BY DEF TabOK, RequestOK, RowOK
<1> QED
  BY <1>1, <1>2 DEF SessionsInit, SessionsInv, Working

LEMMA SessionsInvStep == SessionsInv /\ [SessionsNext]_sessionVars => SessionsInv' /\ RevokedKept
<1> SUFFICES ASSUME SessionsInv, [SessionsNext]_sessionVars PROVE SessionsInv' /\ RevokedKept
  OBVIOUS
<1> QED
  BY SignInSteps, BeginKeeps, VerifyKeeps, PersistKeeps, RevokeKeeps, SignOutKeeps, WorldKeeps
  DEF SessionsNext

\* A request is let through only on a grant of GitHub's younger than the freshness
\* interval, whatever overlaps (resolveRepositoryAccess).
THEOREM AccessRecent == SessionsSpec => []AccessIsRecent
<1>1. SessionsInv => AccessIsRecent
  BY DEF SessionsInv, AccessIsRecent, RequestOK, HeldOK, Working
<1> QED
  BY <1>1, SessionsInvInit, SessionsInvStep, PTL DEF SessionsSpec

\* A request is let through only while the user's token is valid: createSession
\* ends the session no later than the token.
THEOREM AccessInToken == SessionsSpec => []AccessWithinToken
<1>1. SessionsInv => AccessWithinToken
  BY DEF SessionsInv, AccessWithinToken, RequestOK, HeldOK, Working
<1> QED
  BY <1>1, SessionsInvInit, SessionsInvStep, PTL DEF SessionsSpec

\* No request, however late GitHub answers it, changes a revoked session
\* (updateSessionAuthorization).
THEOREM RevokedFrozen == SessionsSpec => RevokedIsFrozen
<1>1. SessionsInv /\ [SessionsNext]_sessionVars =>
        [\A s \in Tabs : row[s].exists /\ row[s].revoked => row'[s] = row[s]]_sessionVars
  BY SessionsInvStep DEF RevokedKept
<1> QED
  BY <1>1, SessionsInvInit, SessionsInvStep, PTL DEF SessionsSpec, RevokedIsFrozen
=============================================================================
