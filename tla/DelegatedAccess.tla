--------------------------- MODULE DelegatedAccess ---------------------------
(***************************************************************************)
(* A delegated (Microsoft Work IQ) connection: the OAuth sign-in           *)
(* (lib/work-iq-oauth.ts and its routes), the private bundle in the vault, *)
(* which operators and executions rewrite by replaceIfRevision             *)
(* (lib/work-iq-auth.ts), and the definition in Git.                       *)
(*                                                                         *)
(* The bundle is secret 1: a client secret, and a refresh token with the   *)
(* authorization context it belongs to, or neither.                        *)
(***************************************************************************)
EXTENDS CredentialVault

CONSTANTS Callbacks, Executions, Editors,
          MaxStates, MaxEdits  \* bounds: sign-ins begun, operators' changes

VARIABLES
  sha,       \* revision of the connection's definition
  oauth,     \* work_iq_oauth_states: phase, revision, verifier, expired
  begun,     \* sign-ins begun
  contexts,  \* the last authorization context made
  tokens,    \* the last refresh token handed out
  callback, execution, editor,
  edits,
  exchanged, \* state -> codes exchanged for it (history)
  client     \* the client secret saved last (history)

delegatedVars == <<vaultVars, sha, oauth, begun, contexts, tokens, callback, execution, editor, edits, exchanged, client>>
provider == <<contexts, tokens>>
history == <<exchanged, client>>

Connection == 1
Bundle == vault[Connection].envelope.value
Revision == vault[Connection].revision
Connected(b) == b.token # 0
NoState == [phase |-> "none"]
Resting == [pc |-> "idle"]

DelegatedInit ==
  /\ root = 1 /\ created = 1
  /\ vault = [i \in SecretIds |-> IF i = Connection
       THEN [envelope |-> Encrypt([client |-> 0, token |-> 0, context |-> 0], i), revision |-> 1] ELSE NoSecret]
  /\ sha = 1 /\ oauth = [s \in 1..MaxStates |-> NoState] /\ begun = 0 /\ contexts = 0 /\ tokens = 0
  /\ callback = [c \in Callbacks |-> Resting] /\ execution = [e \in Executions |-> Resting]
  /\ editor = [o \in Editors |-> Resting] /\ edits = 0
  /\ exchanged = [s \in 1..MaxStates |-> 0] /\ client = 0

-----------------------------------------------------------------------------
(* Signing in                                                              *)

\* cleanup: rows past their time, and their verifiers.
Lapsed == {s \in 1..MaxStates : oauth[s] # NoState /\ oauth[s].expired}
Cleaned == [s \in 1..MaxStates |-> IF s \in Lapsed THEN NoState ELSE oauth[s]]
Without(ids) == [i \in SecretIds |-> IF i \in ids THEN NoSecret ELSE vault[i]]
LapsedVerifiers == {oauth[s].verifier : s \in Lapsed}

ConnectWhere(failed) ==
  /\ begun < MaxStates /\ created < MaxSecrets
  /\ begun' = begun + 1 /\ created' = created + 1
  /\ LET saved == [Without(LapsedVerifiers) EXCEPT ![created + 1] =
                     [envelope |-> Encrypt(begun + 1, created + 1), revision |-> 1]] IN
     \/ /\ vault' = saved
        /\ oauth' = [Cleaned EXCEPT ![begun + 1] =
             [phase |-> "pending", revision |-> sha, verifier |-> created + 1, expired |-> FALSE]]
     \/ vault' = (IF failed = "deleted" THEN Without(LapsedVerifiers) ELSE saved) /\ oauth' = Cleaned
  /\ UNCHANGED <<root, sha, provider, callback, execution, editor, edits, history>>

\* beginWorkIqOAuth; the state may fail to be saved, and the verifier goes again.
Connect == ConnectWhere("deleted")

Expire(s) ==
  /\ oauth[s] # NoState /\ ~oauth[s].expired
  /\ oauth' = [oauth EXCEPT ![s].expired = TRUE]
  /\ UNCHANGED <<vaultVars, sha, begun, provider, callback, execution, editor, edits, history>>

Pending(s) == oauth[s] # NoState /\ oauth[s].phase = "pending" /\ ~oauth[s].expired

\* The callback finds the state and reads the definition; a denied one is discarded.
Arrive(c, s) ==
  /\ callback[c] = Resting /\ Pending(s)
  /\ \/ /\ callback' = [callback EXCEPT ![c] = [pc |-> "consume", state |-> s, revision |-> sha]]
        /\ UNCHANGED <<vault, oauth>>
     \/ /\ vault' = Without({oauth[s].verifier}) /\ oauth' = [oauth EXCEPT ![s] = NoState]
        /\ UNCHANGED callback
  /\ UNCHANGED <<created, root, sha, begun, provider, execution, editor, edits, history>>

\* completeWorkIqOAuth: cleanup, consume, the binding is compared, the verifier is
\* read and deleted.  An error leaves the consumed row to a later cleanup.
ConsumeIf(c, allowed) ==
  LET s == callback[c].state IN
  /\ callback[c].pc = "consume"
  /\ IF allowed
     THEN /\ vault' = Without(LapsedVerifiers \cup {oauth[s].verifier})
          /\ oauth' = [Cleaned EXCEPT ![s].phase = "consumed"]
          /\ callback' = [callback EXCEPT ![c] =
               IF oauth[s].revision = callback[c].revision /\ Resolves(oauth[s].verifier)
               THEN [pc |-> "read", state |-> s] ELSE Resting]
     ELSE vault' = Without(LapsedVerifiers) /\ oauth' = Cleaned /\ callback' = [callback EXCEPT ![c] = Resting]
  /\ UNCHANGED <<created, root, sha, begun, provider, execution, editor, edits, history>>

Consume(c) == callback[c].pc = "consume" /\ ConsumeIf(c, Pending(callback[c].state))

ReadBundle(c) ==
  /\ callback[c].pc = "read"
  /\ callback' = [callback EXCEPT ![c] = [pc |-> "exchange", state |-> @.state, bundle |-> Bundle, at |-> Revision]]
  /\ UNCHANGED <<vaultVars, sha, oauth, begun, provider, execution, editor, edits, history>>

\* removeConsumed, in any case.
Removed(s) == [oauth EXCEPT ![s] = IF @ # NoState /\ @.phase = "consumed" THEN NoState ELSE @]

ExchangeAt(c, revision) ==
  LET s == callback[c].state
      b == [callback[c].bundle EXCEPT !.token = tokens + 1, !.context = contexts + 1] IN
  /\ callback[c].pc = "exchange"
  /\ exchanged' = [exchanged EXCEPT ![s] = @ + 1]
  /\ \/ /\ tokens' = tokens + 1 /\ contexts' = contexts + 1
        /\ ReplaceIfRevision(Connection, revision, b)
     \/ UNCHANGED <<provider, vaultVars>>
  /\ oauth' = Removed(s) /\ callback' = [callback EXCEPT ![c] = Resting]
  /\ UNCHANGED <<sha, begun, execution, editor, edits, client>>

\* The code is exchanged, or not; a token starts a new context.
Exchange(c) == callback[c].pc = "exchange" /\ ExchangeAt(c, callback[c].at)

-----------------------------------------------------------------------------
(* Operators: disconnect, another client secret, another configuration     *)

BeginEdit(o, kind) ==
  /\ editor[o] = Resting /\ edits < MaxEdits /\ edits' = edits + 1
  /\ kind = "configuration" => ~Connected(Bundle)  \* assertWorkIqConfigurationMutable
  /\ editor' = [editor EXCEPT ![o] = [pc |-> kind, sha |-> sha, bundle |-> Bundle, at |-> Revision]]
  /\ UNCHANGED <<vaultVars, sha, oauth, begun, provider, callback, execution, history>>

\* Mutant: the client secret is written whatever the revision.
RotateBlindly(o) ==
  /\ editor[o].pc = "client"
  /\ ReplaceIfRevision(Connection, Revision, [editor[o].bundle EXCEPT !.client = edits])
  /\ client' = edits
  /\ editor' = [editor EXCEPT ![o] = Resting]
  /\ UNCHANGED <<sha, oauth, begun, provider, callback, execution, edits, exchanged>>

RotateClientSecret(o) ==
  /\ editor[o].pc = "client"
  /\ ReplaceIfRevision(Connection, editor[o].at, [editor[o].bundle EXCEPT !.client = edits])
  /\ client' = IF AtRevision(Connection, editor[o].at) THEN edits ELSE client
  /\ editor' = [editor EXCEPT ![o] = Resting]
  /\ UNCHANGED <<sha, oauth, begun, provider, callback, execution, edits, exchanged>>

Disconnect(o) ==
  /\ editor[o].pc = "disconnect"
  /\ ReplaceIfRevision(Connection, editor[o].at, [editor[o].bundle EXCEPT !.token = 0, !.context = 0])
  /\ editor' = [editor EXCEPT ![o] = Resting]
  /\ UNCHANGED <<sha, oauth, begun, provider, callback, execution, edits, history>>

\* updateConnection takes the definition only at the sha that was read.
Reconfigure(o) ==
  /\ editor[o].pc = "configuration"
  /\ sha' = IF sha = editor[o].sha THEN sha + 1 ELSE sha
  /\ editor' = [editor EXCEPT ![o] = Resting]
  /\ UNCHANGED <<vaultVars, oauth, begun, provider, callback, execution, edits, history>>

-----------------------------------------------------------------------------
(* resolveWorkIqConnection: a node of a run with a snapshot of the connection *)

Snapshot(e) ==
  /\ execution[e] = Resting /\ Connected(Bundle)
  /\ execution' = [execution EXCEPT ![e] = [pc |-> "resolve", context |-> Bundle.context]]
  /\ UNCHANGED <<vaultVars, sha, oauth, begun, provider, callback, editor, edits, history>>

Fail(e) == execution' = [execution EXCEPT ![e] = [pc |-> "failed"]]
Authorized(e) == Connected(Bundle) /\ Bundle.context = execution[e].context

ResolveFirst(e) ==
  /\ execution[e].pc = "resolve"
  /\ IF Authorized(e)
     THEN execution' = [execution EXCEPT ![e] = [pc |-> "redeem", context |-> @.context, bundle |-> Bundle, at |-> Revision]]
     ELSE Fail(e)
  /\ UNCHANGED <<vaultVars, sha, oauth, begun, provider, callback, editor, edits, history>>

\* redeemWorkIqRefreshToken: it fails, or gives an access token and perhaps
\* another refresh token.
Redeem(e) ==
  /\ execution[e].pc = "redeem"
  /\ \/ Fail(e) /\ UNCHANGED tokens
     \/ execution' = [execution EXCEPT ![e].pc = "check"] /\ UNCHANGED tokens
     \/ execution' = [execution EXCEPT ![e].pc = "rotate", ![e].bundle.token = tokens + 1] /\ tokens' = tokens + 1
  /\ UNCHANGED <<vaultVars, sha, oauth, begun, contexts, callback, editor, edits, history>>

\* A write that comes too late is dropped.
RotateToken(e) ==
  /\ execution[e].pc = "rotate"
  /\ ReplaceIfRevision(Connection, execution[e].at, execution[e].bundle)
  /\ execution' = [execution EXCEPT ![e].pc = "check"]
  /\ UNCHANGED <<sha, oauth, begun, provider, callback, editor, edits, history>>

ResolveAgain(e) ==
  /\ execution[e].pc = "check"
  /\ IF Authorized(e) THEN execution' = [execution EXCEPT ![e] = [pc |-> "authorized", context |-> @.context]] ELSE Fail(e)
  /\ UNCHANGED <<vaultVars, sha, oauth, begun, provider, callback, editor, edits, history>>

DelegatedNext ==
  \/ Connect \/ \E s \in 1..MaxStates : Expire(s)
  \/ \E c \in Callbacks : \/ \E s \in 1..MaxStates : Arrive(c, s)
                          \/ Consume(c) \/ ReadBundle(c) \/ Exchange(c)
  \/ \E o \in Editors : \/ \E kind \in {"client", "disconnect", "configuration"} : BeginEdit(o, kind)
                        \/ RotateClientSecret(o) \/ Disconnect(o) \/ Reconfigure(o)
  \/ \E e \in Executions : Snapshot(e) \/ ResolveFirst(e) \/ Redeem(e) \/ RotateToken(e) \/ ResolveAgain(e)

DelegatedSpec == DelegatedInit /\ [][DelegatedNext]_delegatedVars

-----------------------------------------------------------------------------
(* Properties                                                              *)

\* Once disconnected, or connected anew, an authorization never comes back: the
\* refresh token of an execution that was under way is not written after a
\* disconnection, and a context that was replaced is not restored
\* (resolveWorkIqConnection, replaceIfRevision).
NoAuthorizationReturns ==
  [][Bundle'.context # Bundle.context => Bundle'.context \in {0, contexts + 1}]_delegatedVars

=============================================================================
