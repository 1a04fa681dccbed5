------------------------------- MODULE Sessions -------------------------------
(***************************************************************************)
(* Sign-in and repository access: lib/auth.ts, lib/auth-session-store.ts,  *)
(* lib/repository-authorization.ts and lib/oauth-route-handlers.ts.  A     *)
(* session row in D1 remembers when GitHub last confirmed that the user    *)
(* may use the configured repository; a request that finds the row too old *)
(* asks GitHub again and writes the answer back.  Requests of one session  *)
(* overlap, and the row may be revoked under them.                         *)
(***************************************************************************)
EXTENDS Naturals, FiniteSets

CONSTANTS
  Tabs,         \* sign-in attempts of one browser; each makes one session
  Requests,     \* authenticated requests
  FreshFor,     \* authorizationFreshnessMs, in clock ticks
  SessionTtl,   \* sessionTtlSeconds
  TokenLives,   \* lifetimes GitHub may give a user token (expires_in)
  MaxClock,     \* bound on the clock
  MaxChanges    \* bound on changes of the user's access and the deployment

ASSUME SessionsAssumption ==
  {SessionTtl, MaxClock, MaxChanges} \subseteq Nat /\ {FreshFor} \cup TokenLives \subseteq Nat \ {0}

VARIABLES
  time,
  access,       \* what GitHub says of the user now
  lastGranted,  \* the last time at which access was "granted" (history)
  config,       \* the deployment's configuration; 0 is an incomplete one
  cookie,       \* the sign-in whose state and PKCE verifier the browser holds
  tab,          \* sign-in -> where it is
  row,          \* session (named by its sign-in) -> its row in auth_sessions
  request,      \* request -> where it is, with its copy of the row
  changes

sessionVars == <<time, access, lastGranted, config, cookie, tab, row, request, changes>>
outside == <<time, access, lastGranted, config, changes>>

NoTab == "none"
NoRow == [exists |-> FALSE]
Denials == {"configuration", "allowlist", "app_access", "user_access", "temporary_unavailable"}

Record(state, reason, cfg, checked) ==
  [state |-> state, reason |-> reason, config |-> cfg, checked |-> checked]
\* createRepositoryAuthorizationRecord and createDeniedAuthorizationRecord.
Authorization(status, cfg, now) ==
  IF status = "granted" THEN Record("authorized", "none", cfg, now) ELSE Record("denied", status, cfg, now)

SessionsInit ==
  /\ time = 0 /\ access = "granted" /\ lastGranted = 0 /\ config = 1 /\ changes = 0
  /\ cookie = NoTab
  /\ tab = [t \in Tabs |-> [pc |-> "closed"]]
  /\ row = [t \in Tabs |-> NoRow]
  /\ request = [r \in Requests |-> [pc |-> "idle"]]

\* verifyRepositoryAuthorization: GitHub's verdict, or what classify makes of a
\* failed call.
Verdicts == {access, "temporary_unavailable", "configuration"}

\* validateProductionAuthReadiness and requireAuthenticationValues.
Configured == config # 0

-----------------------------------------------------------------------------
(* Sign-in                                                                 *)

\* The redirect to /sign-in with an error.
SignInError(t) == tab' = [tab EXCEPT ![t] = [pc |-> "error"]]

\* createOAuthStart: one set of cookies per browser, so the last start wins.
StartSignIn(t) ==
  /\ tab[t].pc = "closed"
  /\ IF Configured
     THEN tab' = [tab EXCEPT ![t] = [pc |-> "github"]] /\ cookie' = t
     ELSE SignInError(t) /\ UNCHANGED cookie
  /\ UNCHANGED <<outside, row, request>>

\* GitHub sends the browser back: consumeOAuthState drops the cookies whatever
\* it finds, then the state, the error parameter and the code are looked at.
Callback(t) ==
  /\ tab[t].pc = "github"
  /\ cookie' = NoTab
  /\ \/ cookie = t /\ tab' = [tab EXCEPT ![t] = [pc |-> "exchange"]]
     \/ SignInError(t)
  /\ UNCHANGED <<outside, row, request>>

\* exchangeGitHubCode up to the call of verifyRepositoryAuthorization, which
\* takes the time before it asks GitHub.
ExchangeCode(t) ==
  /\ tab[t].pc = "exchange"
  /\ \/ Configured /\ \E life \in TokenLives :
          tab' = [tab EXCEPT ![t] = [pc |-> "verify", tokenExpires |-> time + life,
                                     checked |-> time, config |-> config]]
     \/ SignInError(t)
  /\ UNCHANGED <<outside, cookie, row, request>>

VerifySignIn(t) ==
  /\ tab[t].pc = "verify"
  /\ \E status \in Verdicts :
       tab' = [tab EXCEPT ![t] = [pc |-> "create", status |-> status, checked |-> tab[t].checked,
                                  config |-> tab[t].config, tokenExpires |-> tab[t].tokenExpires]]
  /\ UNCHANGED <<outside, cookie, row, request>>

ShouldRetainUserToken(status) == status \in {"granted", "temporary_unavailable"}

SessionExpiry(now, tokenExpires) == IF now + SessionTtl < tokenExpires THEN now + SessionTtl ELSE tokenExpires

\* createSession; the insert may fail.
CreateSession(t) ==
  /\ tab[t].pc = "create" /\ Configured
  /\ \/ /\ row' = [row EXCEPT ![t] =
             [exists |-> TRUE, revoked |-> FALSE, expires |-> SessionExpiry(time, tab[t].tokenExpires),
              token |-> ShouldRetainUserToken(tab[t].status), tokenExpires |-> tab[t].tokenExpires,
              auth |-> IF tab[t].status = "granted"
                       THEN Authorization("granted", tab[t].config, tab[t].checked)
                       ELSE Authorization(tab[t].status, config, time)]]
        /\ tab' = [tab EXCEPT ![t] = [pc |-> "signed_in"]]
     \/ SignInError(t) /\ UNCHANGED row
  /\ UNCHANGED <<outside, cookie, request>>

-----------------------------------------------------------------------------
(* A request                                                               *)

\* findSession: revoked and expired rows are as good as none.
Active(s) == row[s].exists /\ ~row[s].revoked /\ row[s].expires > time

\* Mutant: one tick too late.
RevalidationLate(auth, now) ==
  auth.reason = "temporary_unavailable" \/ now > auth.checked + FreshFor

AuthorizationRequiresRevalidation(auth, now) ==
  auth.reason = "temporary_unavailable" \/ now >= auth.checked + FreshFor

\* storedAuthorizationMatchesConfig
Matches(auth) == auth.config = config

\* resolveRepositoryAccess up to its first await: what it does next.
Resolution(auth, token, tokenExpires, now) ==
  LET stale == AuthorizationRequiresRevalidation(auth, now)
  IN IF ~Matches(auth) THEN "persist_mismatch"
     ELSE IF ~stale THEN (IF auth.state = "authorized" THEN "access" ELSE "denied")
     ELSE IF ~token \/ tokenExpires <= now THEN "revoke" ELSE "verify"

\* requireApiRepositoryAccess: the row is read and the request decides.
BeginRequest(r, s) ==
  LET resolution == Resolution(row[s].auth, row[s].token, row[s].tokenExpires, time)
  IN /\ request[r].pc = "idle"
     /\ request' = [request EXCEPT ![r] =
          IF ~Configured \/ ~Active(s) \/ resolution = "denied" THEN [pc |-> "refused"]
          ELSE [pc |-> resolution, session |-> s, now |-> time, config |-> config,
                tokenExpires |-> row[s].tokenExpires, granted |-> lastGranted,
                auth |-> Authorization("configuration", config, time)]]
     /\ UNCHANGED <<outside, cookie, tab, row>>

\* The stored token is decrypted, which fails when the key was replaced, and
\* GitHub is asked.
VerifyRequest(r) ==
  /\ request[r].pc = "verify"
  /\ \/ \E status \in Verdicts :
          request' = [request EXCEPT ![r].pc = "persist", ![r].granted = lastGranted,
                        ![r].auth = Authorization(status, request[r].config, request[r].now)]
     \/ request' = [request EXCEPT ![r].pc = "revoke"]
  /\ UNCHANGED <<outside, cookie, tab, row>>

\* updateSessionAuthorization changes the row only while it is not revoked,
\* and persistAuthorization fails otherwise; so may the database.
UpdateSessionAuthorization(s, auth) == row' = [row EXCEPT ![s].auth = auth]

\* Mutant: the update does not look at revoked_at.
PersistAnyRow(r) ==
  LET q == request[r]
  IN /\ q.pc \in {"persist", "persist_mismatch"}
     /\ UpdateSessionAuthorization(q.session, q.auth)
     /\ request' = [request EXCEPT ![r] = IF q.auth.state = "authorized"
                                         THEN [q EXCEPT !.pc = "access"] ELSE [pc |-> "refused"]]
     /\ UNCHANGED <<outside, cookie, tab>>

PersistAccess(r) ==
  LET q == request[r]
  IN /\ q.pc \in {"persist", "persist_mismatch"}
     /\ \/ /\ ~row[q.session].revoked
           /\ UpdateSessionAuthorization(q.session, q.auth)
           /\ request' = [request EXCEPT ![r] = IF q.auth.state = "authorized"
                                               THEN [q EXCEPT !.pc = "access"] ELSE [pc |-> "refused"]]
        \/ request' = [request EXCEPT ![r] = [pc |-> "refused"]] /\ UNCHANGED row
     /\ UNCHANGED <<outside, cookie, tab>>

\* revokeSessionId
Revoke(r) ==
  /\ request[r].pc = "revoke"
  /\ row' = [row EXCEPT ![request[r].session].revoked = TRUE]
  /\ request' = [request EXCEPT ![r] = [pc |-> "refused"]]
  /\ UNCHANGED <<outside, cookie, tab>>

\* destroySession
SignOut(s) ==
  /\ row[s].exists /\ ~row[s].revoked
  /\ row' = [row EXCEPT ![s].revoked = TRUE]
  /\ UNCHANGED <<outside, cookie, tab, request>>

-----------------------------------------------------------------------------
(* The world (external): time, the user's access, the deployment.          *)

TimePasses ==
  /\ time < MaxClock /\ time' = time + 1
  /\ lastGranted' = IF access = "granted" THEN time + 1 ELSE lastGranted
  /\ UNCHANGED <<access, config, cookie, tab, row, request, changes>>

AccessChanges ==
  /\ changes < MaxChanges /\ changes' = changes + 1
  /\ access' \in {"granted", "user_access"} \ {access}
  /\ lastGranted' = IF access' = "granted" THEN time ELSE lastGranted
  /\ UNCHANGED <<time, config, cookie, tab, row, request>>

Redeploy ==
  /\ changes < MaxChanges /\ changes' = changes + 1
  /\ config' \in 0..2 \ {config}
  /\ UNCHANGED <<time, access, lastGranted, cookie, tab, row, request>>

SessionsNext ==
  \/ \E t \in Tabs : \/ StartSignIn(t) \/ Callback(t) \/ ExchangeCode(t) \/ VerifySignIn(t)
                     \/ CreateSession(t) \/ SignOut(t)
  \/ \E r \in Requests : \/ \E s \in Tabs : BeginRequest(r, s)
                         \/ VerifyRequest(r) \/ PersistAccess(r) \/ Revoke(r)
  \/ TimePasses \/ AccessChanges \/ Redeploy

SessionsSpec == SessionsInit /\ [][SessionsNext]_sessionVars

-----------------------------------------------------------------------------
(* Correctness                                                             *)

\* A request is let through only when GitHub granted the user access to the
\* repository less than the freshness interval before the request: however
\* sign-ins, revalidations and redeployments overlap, no stored authorisation
\* outlives that interval (resolveRepositoryAccess).
AccessIsRecent ==
  \A r \in Requests : request[r].pc = "access" => request[r].granted + FreshFor > request[r].now

\* A request is let through only while the user token of its session is valid:
\* createSession ends the session no later than the token, so that no access
\* rests on a token that could not be checked again.
AccessWithinToken ==
  \A r \in Requests : request[r].pc = "access" => request[r].now < request[r].tokenExpires

\* A revoked session never changes again: a revalidation that GitHub answers
\* after the user signed out does not write it (updateSessionAuthorization).
RevokedIsFrozen ==
  [][\A s \in Tabs : row[s].exists /\ row[s].revoked => row'[s] = row[s]]_sessionVars
=============================================================================
