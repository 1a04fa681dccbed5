---------------------------- MODULE AgentExecution ----------------------------
(***************************************************************************)
(* Starting agent work at a provider: the Worker's adapters                *)
(* (lib/openai-responses-adapter.ts, lib/anthropic-messages-adapter.ts,    *)
(* lib/work-iq-rest-adapter.ts, lib/adt-runtime-client.ts), the ADT        *)
(* Runtime process behind the last one (adt-runtime/src), with its replay  *)
(* cache, its Adrian session and its tool gate, and the rule by which the  *)
(* durable driver starts the same work again.                              *)
(*                                                                         *)
(* A node of a workflow makes one attempt after another.  A request to a   *)
(* provider is what the provider did with it (work) and what it answered   *)
(* (reply); the requester may stop waiting at any moment, and the provider *)
(* goes on.                                                                *)
(***************************************************************************)
EXTENDS Naturals

CONSTANTS
  Nodes,        \* nodes that run agents
  Kinds,        \* the adapter kinds the nodes may have
  Test,         \* the security test of the settings page
  Nobody,       \* no holder
  MaxTries,  \* bound: attempts of a node (the code allows 3 in a row)
  MaxTurns,     \* bound: model turns of one agent run
  MaxMishaps     \* bound: redeliveries of a request and restarts of the Runtime

VARIABLES
  node,     \* node[n]: its kind, protection, attempt, what it waits for, its category
  sent,     \* sent[n][a]: what the provider did with attempt a and what it answered
  wire,     \* wire[n][a]: copies of the POST of attempt a on their way to the Runtime
  run,      \* run[n]: the Runtime's handler
  test,     \* the handler of the security test
  process,  \* of the Runtime process: shuttingDown, leaseHeld, the SDK's session, the nonces
  mishaps
executionVars == <<node, sent, wire, run, test, process, mishaps>>

Tries == 1..MaxTries
Mediated == {"openai-agents", "anthropic-messages", "work-iq-rest", "ollama-chat"}
Legacy == {"anthropic-messages", "work-iq-rest"}

Refusals == {"401", "403", "429", "4xx"}
\* What the requester itself sees of the transport.
Transport == {"network", "timeout"}
Unanswered == Refusals \cup Transport \cup {"5xx"}

\* transient, and the categories whose retry the explicit flag decides
TransientCategories == {"rate_limited", "provider_unavailable", "provider_timeout"}

-----------------------------------------------------------------------------
(* How an outcome is named                                                 *)

\* The answers every caller names alike: httpFailure, providerHttpFailure, classify.
HttpFailure(seen) ==
  CASE seen = "401" -> "authentication_failed"
    [] seen = "403" -> "permission_denied"
    [] seen = "429" -> "rate_limited"
    [] seen = "4xx" -> "provider_rejected"

\* A direct adapter's start; "local" is a request the Worker never sent.
DirectCategory(seen) ==
  CASE seen \in Refusals -> HttpFailure(seen)
    [] seen = "ok" -> "completed"
    [] seen = "malformed" -> "malformed_response"
    [] seen = "local" -> "internal_error"
    [] seen \in {"5xx"} \cup Transport -> "provider_start_ambiguous"

\* providerPost: only Ollama treats an unreadable body as uncertain.
PostCategory(kind, seen) ==
  CASE seen \in Refusals -> HttpFailure(seen)
    [] seen = "ok" -> "completed"
    [] seen = "malformed" -> IF kind = "ollama-chat" THEN "provider_start_ambiguous" ELSE "malformed_response"
    [] seen \in {"5xx"} \cup Transport -> "provider_start_ambiguous"

\* classify: of an agent run, an error it does not know is internal.
AgentCategory(seen) ==
  CASE seen \in Refusals -> HttpFailure(seen)
    [] seen = "5xx" -> "provider_unavailable"
    [] seen = "timeout" -> "provider_timeout"
    [] seen = "malformed" -> "malformed_response"
    [] seen = "network" -> "internal_error"

Category(kind, seen) == IF kind = "openai-agents" THEN AgentCategory(seen) ELSE PostCategory(kind, seen)

\* Mutant: the category alone decides.
RetryableCategory(kind, direct, category) == category \in TransientCategories

\* durableSafeFailure: a failure without a flag of its own may be retried when its category
\* is transient.  What adt-runtime-client throws says retryable: false, except what the Runtime
\* reports of a provider's refusal (execution_failed) for a kind other than openai-agents.
Retryable(kind, direct, category) == (direct \/ kind # "openai-agents") /\ category \in TransientCategories

-----------------------------------------------------------------------------
(* The Worker                                                              *)

Unasked == [work |-> "none", reply |-> "none"]
IdleRun == [at |-> "idle", attempt |-> 1, turns |-> 0, denied |-> FALSE, allowed |-> FALSE, result |-> "none"]
NewProcess == [shuttingDown |-> FALSE, leaseHeld |-> FALSE, sdk |-> Nobody, nonces |-> {}]

ExecutionInit ==
  /\ node \in [Nodes -> {[kind |-> k, secured |-> s, attempt |-> 1, at |-> "start", direct |-> d, category |-> "none"] :
                           k \in Kinds, s \in BOOLEAN, d \in BOOLEAN}]
  /\ \A n \in Nodes :
       /\ node[n].secured => node[n].kind = "openai-agents"
       /\ node[n].direct = (node[n].kind \notin Mediated)
  /\ sent = [n \in Nodes |-> [a \in Tries |-> Unasked]]
  /\ wire = [n \in Nodes |-> [a \in Tries |-> 0]]
  /\ run = [n \in Nodes |-> IdleRun]
  /\ test = "idle"
  /\ process = NewProcess
  /\ mishaps = 0

\* start's throw, and the driver's failStep: automatic attempts follow retryable failures.
Ended(n, category) ==
  IF category # "completed" /\ Retryable(node[n].kind, node[n].direct, category) /\ node[n].attempt < MaxTries
    THEN [node[n] EXCEPT !.attempt = @ + 1, !.at = "start", !.category = "none",
                         !.direct = node[n].kind \notin Mediated]
    ELSE [node[n] EXCEPT !.at = "ended", !.category = category]
End(n, category) == node' = [node EXCEPT ![n] = Ended(n, category)]

\* The provider of attempt a of n.
Ask(n, a) == sent' = [sent EXCEPT ![n][a].reply = "none", ![n][a].work = IF @ = "none" THEN "sent" ELSE "again"]

\* A direct adapter posts to the provider.
StartDirect(n) ==
  /\ node[n].at = "start" /\ node[n].direct
  /\ \/ /\ Ask(n, node[n].attempt)
        /\ node' = [node EXCEPT ![n].at = "waiting"]
     \/ End(n, DirectCategory("local")) /\ UNCHANGED sent
     \/ \* a Work IQ chat needs a conversation first
        /\ node[n].kind = "work-iq-rest"
        /\ \E seen \in Unanswered : End(n, DirectCategory(seen))
        /\ UNCHANGED sent
  /\ UNCHANGED <<wire, run, test, process, mishaps>>

DirectAnswered(n) ==
  LET reply == sent[n][node[n].attempt].reply IN
  /\ node[n].at = "waiting" /\ node[n].direct
  /\ \E seen \in {reply} \cup Transport :
       /\ seen # "none"
       /\ End(n, DirectCategory(seen))
  /\ UNCHANGED <<sent, wire, run, test, process, mishaps>>

\* start: configuration and credential, readiness, then the POST.  Without the capability for
\* generic execution the kinds that have a direct adapter use it.
StartMediated(n) ==
  /\ node[n].at = "start" /\ ~node[n].direct
  /\ \/ \E category \in {"configuration_invalid", "connection_unavailable", "malformed_response"} :
          End(n, category) /\ UNCHANGED wire
     \/ /\ node[n].kind \in Legacy
        /\ node' = [node EXCEPT ![n].direct = TRUE]
        /\ UNCHANGED wire
     \/ /\ node' = [node EXCEPT ![n].at = "waiting"]
        /\ wire' = [wire EXCEPT ![n][node[n].attempt] = 1]
  /\ UNCHANGED <<sent, run, test, process, mishaps>>

\* The Runtime's answer to attempt a of n, if the Worker still waits for it.
Respond(n, a, category) ==
  IF node[n].at = "waiting" /\ node[n].attempt = a THEN End(n, category) ELSE UNCHANGED node

\* The POST ends without an answer: a network error, the timeout, an unreadable body.
GiveUp(n) ==
  /\ node[n].at = "waiting" /\ ~node[n].direct
  /\ End(n, "provider_start_ambiguous")
  /\ UNCHANGED <<sent, wire, run, test, process, mishaps>>

-----------------------------------------------------------------------------
(* The Runtime: handle                                                     *)

\* Mutant: no replay cache.
NeverReplayed(n, a) == FALSE

\* ReplayCache.accept, of a cache that is not full
Replayed(n, a) == <<n, a>> \in process.nonces

\* The request or its wrapped credential is not valid.
Invalid(n, a) == Respond(n, a, "configuration_invalid") /\ UNCHANGED run

Deliver(n, a) ==
  /\ wire[n][a] > 0
  /\ wire' = [wire EXCEPT ![n][a] = @ - 1]
  /\ \/ /\ process.shuttingDown
        /\ Respond(n, a, "connection_unavailable")
        /\ UNCHANGED <<process, run>>
     \/ /\ ~process.shuttingDown /\ Replayed(n, a)
        /\ Respond(n, a, "authentication_failed")
        /\ UNCHANGED <<process, run>>
     \/ /\ ~process.shuttingDown /\ ~Replayed(n, a)
        /\ process' = [process EXCEPT !.nonces = @ \cup {<<n, a>>}]
        /\ \/ Invalid(n, a)
           \/ /\ run' = [run EXCEPT ![n] = [IdleRun EXCEPT !.at = IF node[n].secured THEN "lease" ELSE "enter",
                                                           !.attempt = a]]
              /\ UNCHANGED node
  /\ UNCHANGED <<sent, test, mishaps>>

\* The finally of the request's handler: the lease goes back with the answer.
Reply(n, category) ==
  /\ Respond(n, run[n].attempt, category)
  /\ run' = [run EXCEPT ![n] = IdleRun]

Step(n, at) == run' = [run EXCEPT ![n].at = at]
Conclude(n, category) == run' = [run EXCEPT ![n].at = IF node[n].secured THEN "shutdown" ELSE "reply", ![n].result = category]

\* Mutant: the lease is not looked at.
AcquireLeaseAnyway(n) ==
  /\ run[n].at = "lease"
  /\ process' = [process EXCEPT !.leaseHeld = TRUE]
  /\ Step(n, "init")
  /\ UNCHANGED <<node, sent, wire, test, mishaps>>

\* acquireAdrianExecutionLease
AcquireLease(n) ==
  /\ run[n].at = "lease"
  /\ \/ process.leaseHeld /\ Reply(n, "security_unavailable") /\ UNCHANGED process
     \/ /\ ~process.leaseHeld
        /\ process' = [process EXCEPT !.leaseHeld = TRUE]
        /\ Step(n, "init") /\ UNCHANGED node
  /\ UNCHANGED <<sent, wire, test, mishaps>>

\* withAdrianLocalLog: the log directory, then init; a failed init is shut down too.
OpenSession(n) ==
  /\ run[n].at = "init"
  /\ \/ run' = [run EXCEPT ![n].at = "reply", ![n].result = "security_unavailable"] /\ UNCHANGED process
     \/ Conclude(n, "security_unavailable") /\ UNCHANGED process
     \/ process' = [process EXCEPT !.sdk = n] /\ Step(n, "policy")
  /\ UNCHANGED <<node, sent, wire, test, mishaps>>

\* waitForPolicyReady
AwaitPolicy(n) ==
  /\ run[n].at = "policy"
  /\ Step(n, "enter") \/ Conclude(n, "security_unavailable")
  /\ UNCHANGED <<node, sent, wire, test, process, mishaps>>

\* executeProvider, and a turn of the agent's loop: one request to the model.
EnterProvider(n) ==
  /\ run[n].at = "enter"
  /\ \/ /\ run' = [run EXCEPT ![n].at = "model", ![n].turns = @ + 1]
        /\ Ask(n, run[n].attempt)
     \/ /\ node[n].kind = "work-iq-rest"
        /\ \E seen \in Unanswered : Conclude(n, PostCategory(node[n].kind, seen))
        /\ UNCHANGED sent
  /\ UNCHANGED <<node, wire, test, process, mishaps>>

\* assertNoFailure: a denied tool call ends the run even when the model went on without it.
Completed(n) == IF run[n].denied THEN "security_denied" ELSE "completed"

ModelAnswered(n) ==
  LET reply == sent[n][run[n].attempt].reply
      kind == node[n].kind IN
  /\ run[n].at = "model"
  /\ \/ reply = "ok" /\ Conclude(n, Completed(n))
     \/ /\ reply = "ok" /\ kind = "openai-agents" /\ run[n].turns < MaxTurns
        /\ Step(n, IF node[n].secured THEN "authorize" ELSE "tool")
     \/ \E seen \in ({reply} \cup Transport) \ {"none", "ok"} :
          Conclude(n, Category(kind, seen))
     \/ /\ node[n].secured
        /\ Conclude(n, "security_unavailable") \* modelTurnStarted, modelTurnCompleted
  /\ UNCHANGED <<node, sent, wire, test, process, mishaps>>

\* evaluateAdrianToolCall asks through the session the SDK has; only "allow" authorizes.
\* What the agent SDK does with the error of a call that was not authorized is its own choice.
Authorize(n) ==
  /\ run[n].at = "authorize"
  /\ \/ /\ process.sdk = n
        /\ run' = [run EXCEPT ![n].allowed = TRUE, ![n].at = "tool"]
     \/ \E next \in {"enter", "shutdown"} :
          \/ run' = [run EXCEPT ![n].denied = TRUE, ![n].at = next, ![n].result = "security_denied"]
          \/ \* handleToolStart failed: terminalFailure is not set
             run' = [run EXCEPT ![n].at = next, ![n].result = "security_unavailable"]
  /\ UNCHANGED <<node, sent, wire, test, process, mishaps>>

\* executeToolWithSecurityGate: the call itself
RunTool(n) ==
  /\ run[n].at = "tool"
  /\ run' = [run EXCEPT ![n].at = "enter", ![n].allowed = FALSE]
  /\ UNCHANGED <<node, sent, wire, test, process, mishaps>>

\* The finally of withAdrianLocalLog.
CloseSession(n) ==
  /\ run[n].at = "shutdown"
  /\ process' = [process EXCEPT !.sdk = Nobody]
  /\ Step(n, "reply")
  /\ UNCHANGED <<node, sent, wire, test, mishaps>>

AnswerWorker(n) ==
  /\ run[n].at = "reply"
  /\ Reply(n, run[n].result)
  /\ process' = [process EXCEPT !.leaseHeld = @ /\ ~node[n].secured]
  /\ UNCHANGED <<sent, wire, test, mishaps>>

-----------------------------------------------------------------------------
(* The security test takes the same lease and the same session.            *)

TestSession ==
  /\ \/ /\ test = "idle" /\ ~process.shuttingDown /\ ~process.leaseHeld
        /\ test' = "init" /\ process' = [process EXCEPT !.leaseHeld = TRUE]
     \/ /\ test = "init"
        /\ \/ test' = "ready" /\ process' = [process EXCEPT !.sdk = Test]
           \/ test' \in {"shutdown", "release"} /\ UNCHANGED process
     \/ test = "ready" /\ test' = "shutdown" /\ UNCHANGED process
     \/ test = "shutdown" /\ test' = "release" /\ process' = [process EXCEPT !.sdk = Nobody]
     \/ test = "release" /\ test' = "idle" /\ process' = [process EXCEPT !.leaseHeld = FALSE]
  /\ UNCHANGED <<node, sent, wire, run, mishaps>>

-----------------------------------------------------------------------------
(* The world                                                               *)

\* The provider takes a request up, refuses it, or ends its work.
Provider(n, a) ==
  /\ \/ /\ sent[n][a].work \in {"sent", "again"}
        /\ \/ sent' = [sent EXCEPT ![n][a].work = "working"]
           \/ \E status \in Refusals \cup {"5xx"} :
                sent' = [sent EXCEPT ![n][a] = [work |-> IF @.work = "sent" THEN "refused" ELSE "done",
                                                reply |-> status]]
     \/ /\ sent[n][a].work = "working"
        /\ \E status \in {"ok", "malformed", "5xx"} :
             sent' = [sent EXCEPT ![n][a] = [work |-> "done", reply |-> status]]
  /\ UNCHANGED <<node, wire, run, test, process, mishaps>>

\* The transport delivers the POST once more.
Redeliver(n) ==
  /\ mishaps < MaxMishaps /\ mishaps' = mishaps + 1
  /\ node[n].at = "waiting" /\ ~node[n].direct
  /\ wire' = [wire EXCEPT ![n][node[n].attempt] = @ + 1]
  /\ UNCHANGED <<node, sent, run, test, process>>

\* shutdown, on SIGTERM
Shutdown ==
  /\ ~process.shuttingDown
  /\ process' = [process EXCEPT !.shuttingDown = TRUE]
  /\ UNCHANGED <<node, sent, wire, run, test, mishaps>>

\* The process ends, with its handlers, and a new one starts.
Restart ==
  /\ mishaps < MaxMishaps /\ mishaps' = mishaps + 1
  /\ process' = NewProcess
  /\ run' = [n \in Nodes |-> IdleRun]
  /\ test' = "idle"
  /\ UNCHANGED <<node, sent, wire>>

ExecutionNext ==
  \/ \E n \in Nodes :
       \/ StartDirect(n) \/ DirectAnswered(n) \/ StartMediated(n) \/ GiveUp(n)
       \/ AcquireLease(n) \/ OpenSession(n) \/ AwaitPolicy(n) \/ EnterProvider(n) \/ ModelAnswered(n)
       \/ Authorize(n) \/ RunTool(n) \/ CloseSession(n) \/ AnswerWorker(n)
       \/ \E a \in Tries : Provider(n, a) \/ Deliver(n, a)
       \/ Redeliver(n)
  \/ TestSession \/ Shutdown \/ Restart
ExecutionSpec == ExecutionInit /\ [][ExecutionNext]_executionVars

-----------------------------------------------------------------------------
(* Properties                                                              *)

\* The driver starts an attempt by itself only when the attempt before it left nothing at the
\* provider: not taken up, not in a handler, and no later answer of a process can change that.
AutoRetryIsSafe ==
  \A n \in Nodes : \A a \in 1..(node[n].attempt - 1) :
    /\ sent[n][a].work \in {"none", "refused"}
    /\ run[n].at = "idle" \/ run[n].attempt # a

\* A request that is delivered again does not enter the provider again.
OneExecutionPerRequest ==
  \A n \in Nodes : run[n].at = "enter" /\ run[n].turns = 0 => sent[n][run[n].attempt] = Unasked

\* The SDK is a single object of the process: whoever works under the lease finds its own session
\* there, from the policy to the last tool, whatever other runs and tests do.
SessionIsOwn ==
  /\ \A n \in Nodes :
       node[n].secured /\ run[n].at \in {"policy", "enter", "model", "authorize", "tool"} => process.sdk = n
  /\ test = "ready" => process.sdk = Test

=============================================================================
