--------------------------- MODULE GraphNodeTurn ---------------------------
(***************************************************************************)
(* Node turns of an attached engine-v2 run: executeDurableGraphNodeTurn    *)
(* and reconcileFailedGraphRun (lib/workflow-durable-driver.ts), called    *)
(* through executeWorkflowGraphNode for an agent node.  ADT Runtime calls  *)
(* a node again until it answers, so several turns of one activation, and  *)
(* of several activations, run at once.  Each turn is a process, and each  *)
(* awaited statement, read or provider call is a step of its own.  A turn  *)
(* whose method throws has ended.                                          *)
(*                                                                         *)
(* Beside the turns run the durable orchestrator (admission, cancellation, *)
(* completion), the cancel route and the manual-retry route.               *)
(***************************************************************************)
EXTENDS WorkflowStore

CONSTANTS
  Turns,         \* node turns that may be in flight at once
  Deps,          \* Deps[a]: the activations whose output activation a reads
  TerminalStep,  \* the plan's terminal node
  MaxPolls,      \* 720: MAX_PROVIDER_POLLS
  MaxCrashes,    \* bound of the model on requests that end half-way
  Cancellable,   \* may the cancel route be called?
  Overdue,       \* may the run exceed MAX_WORKFLOW_RUN_MS?
  SlowStarts,    \* may a starting turn outlive graphStartUncertaintyMs?
  FlakyChecks,   \* may runtime.check fail with a transient category?
  GivesUp        \* may the orchestrator exhaust its recovery and fail the run?

ASSUME TurnAssumption ==
  /\ Deps \in [Activations -> SUBSET Activations]
  /\ TerminalStep \in Steps
  /\ MaxPolls \in Nat /\ MaxCrashes \in Nat
  /\ {Cancellable, Overdue, SlowStarts, FlakyChecks, GivesUp} \subseteq BOOLEAN
  /\ Activations \cup {"overdue", "internal"} \subseteq Failures
  /\ {"overdue", "internal"} \cap Activations = {}

VARIABLES
  retryable,   \* retryable[a]: failed attempts, retryable and transient
  polls,       \* polls[a][n]: provider_poll_count
  aged,        \* starting attempts older than graphStartUncertaintyMs
  prov,        \* prov[a][n]: the provider's work for the attempt
  starts,      \* starts[a][n]: how many times runtime.start was called
  spent,       \* the claims on the strength of which it was called
  returned,    \* activations whose turn answered `completed' to the graph
  pc, act, num, loc,   \* control, activation, attempt, locals of a turn
  outer,       \* the orchestrator
  retrier,     \* the manual-retry route
  crashes      \* requests that ended half-way

provVars == <<retryable, polls, aged, prov, starts, spent>>
turnVars == <<pc, act, num, loc>>
envVars == <<outer, retrier, crashes>>
vars == <<storeVars, provVars, returned, turnVars, envVars>>


\* gen: the generation of the request; mode: what the turn read of the run;
\* claim: the attempt the turn has claimed, whichever attempt it reads afterwards;
\* then, retry: continuation and flag of failStep; orig: the failure of a failed
\* run; tasks, out, cur: cancellation of the admitted tasks.
NoLocals == [gen |-> 0, mode |-> "none", claim |-> 0, then |-> "none", retry |-> FALSE,
             orig |-> NoFailure, tasks |-> {}, out |-> "none", cur |-> "none"]

\* The orchestrator is at work on a turn of the graph, or inside one of its
\* methods; `dead' is an instance whose run method has thrown.
Orchestrating == [pc |-> "turn", a |-> "none"]
OuterAt(label) == [Orchestrating EXCEPT !.pc = label]

NoRetry == [pc |-> "idle", a |-> "none", n |-> 0, g |-> 0]

\* The graph's frontier, and the part of it without an attempt yet.
Frontier == {a \in Activations : Deps[a] \subseteq returned /\ a \notin returned}
Unadmitted == {a \in Frontier : Rows(a) = {}}

AllAttempts == Activations \X Attempts
Outstanding == {x \in AllAttempts :
                  att[x[1]][x[2]] \in {"starting", "waiting_provider"}}

\* The turns that hold the claim of an attempt and have not called the
\* provider, and those that have and are storing its answer.
Claimants(a, n) == {t \in Turns : /\ pc[t] \in {"claim2", "claimed", "recheck", "start"}
                                  /\ act[t] = a /\ num[t] = n}
Storers(a, n) == {t \in Turns : /\ pc[t] \in {"persist", "complete", "failStep"}
                                /\ loc[t].mode = "own" /\ act[t] = a /\ num[t] = n}

-----------------------------------------------------------------------------
(***************************************************************************)
(* Control of a turn.                                                      *)
(***************************************************************************)

Goto(t, label) ==
  /\ pc' = [pc EXCEPT ![t] = label]
  /\ UNCHANGED <<act, num, loc>>

GotoWith(t, label, n, locals) ==
  /\ pc' = [pc EXCEPT ![t] = label]
  /\ num' = [num EXCEPT ![t] = n]
  /\ loc' = [loc EXCEPT ![t] = locals]
  /\ UNCHANGED act

Return(t) ==
  /\ pc' = [pc EXCEPT ![t] = "idle"]
  /\ act' = [act EXCEPT ![t] = "none"]
  /\ num' = [num EXCEPT ![t] = 0]
  /\ loc' = [loc EXCEPT ![t] = NoLocals]

\* failStep, then `label'.
FailThen(t, n, locals, retry, label) ==
  GotoWith(t, "failStep", n, [locals EXCEPT !.then = label, !.retry = retry])

\* Mutant: the attempt itself is not failed.
FailingRunOnly(t, n, retry) ==
  GotoWith(t, IF loc[t].mode = "failed" THEN "finish" ELSE "defer", n, loc[t])

\* A failure caught while the turn works on attempt n: in a failed run the turn
\* goes on to finish the run and the attempt is not retried; otherwise a
\* transient failure ends the turn and any other is recorded in the run.
Failing(t, n, retry) ==
  IF loc[t].mode = "failed" THEN FailThen(t, n, loc[t], FALSE, "finish")
  ELSE FailThen(t, n, loc[t], retry, IF retry THEN "idle" ELSE "defer")

\* executeDurableGraphNodeTurn on the attempt n it has read in a live run; owns
\* is ownsStart.
Dispatch(t, n, owns) ==
  LET a == act[t]
      st == att[a][n]
      here == [loc[t] EXCEPT !.mode = IF owns THEN "own" ELSE "live"]
  IN /\ returned' = IF st = "succeeded" THEN returned \cup {a} ELSE returned
     /\ \/ /\ \/ st \in {"succeeded", "cancelled"}
              \/ st = "pending" /\ owns
              \/ st = "starting" /\ ~owns /\ <<a, n>> \notin aged
           /\ Return(t)
        \/ st = "pending" /\ ~owns /\ GotoWith(t, "claim", n, here)
        \/ st = "starting" /\ owns /\ GotoWith(t, "recheck", n, here)
        \/ /\ st = "starting" /\ ~owns /\ <<a, n>> \in aged
           /\ FailThen(t, n, here, FALSE, "defer")
        \* MAX_PROVIDER_STEP_MS may pass at any time.
        \/ st = "waiting_provider" /\ FailThen(t, n, here, FALSE, "defer")
        \/ /\ st = "waiting_provider" /\ polls[a][n] < MaxPolls
           /\ GotoWith(t, "poll", n, here)
        \/ /\ st = "failed"
           /\ GotoWith(t, IF n \in retryable[a] /\ n < AutoLimit
                          THEN "autoRetry" ELSE "defer", n, here)

\* reconcileFailedGraphRun on the attempt n of a run read with failure_code f.
Reconcile(t, n, f) ==
  LET a == act[t]
      st == att[a][n]
      here == [loc[t] EXCEPT !.mode = "failed", !.orig = f]
  IN /\ returned' = returned
     /\ \/ st = "starting" /\ <<a, n>> \notin aged /\ Return(t)
        \/ st = "starting" /\ <<a, n>> \in aged /\ FailThen(t, n, here, FALSE, "finish")
        \/ st = "waiting_provider" /\ GotoWith(t, "stop", n, here)
        \/ st \notin {"starting", "waiting_provider"} /\ GotoWith(t, "finish", n, here)

-----------------------------------------------------------------------------
(***************************************************************************)
(* Steps of a turn.                                                        *)
(***************************************************************************)

\* The orchestrator calls the nodes of its frontier once all of them are admitted;
\* executeWorkflowGraphNode accepts a request of the current generation for the
\* current attempt.
BeginTurn(t, a) ==
  /\ pc[t] = "idle"
  /\ launch = "attached" /\ outer.pc = "turn" /\ status \notin TerminalRuns
  /\ a \in Frontier /\ Unadmitted = {}
  /\ pc' = [pc EXCEPT ![t] = "readRun"]
  /\ act' = [act EXCEPT ![t] = a]
  /\ loc' = [loc EXCEPT ![t].gen = gen]
  /\ UNCHANGED <<storeVars, provVars, returned, num, envVars>>

\* getRun's SELECT of the run.
ReadRun(t) ==
  /\ pc[t] = "readRun"
  /\ \/ status \in {"succeeded", "cancelled"} /\ Return(t)
     \/ status \notin {"succeeded", "cancelled"} /\ Overdue /\ Goto(t, "expire")
     \/ /\ status \notin {"succeeded", "cancelled"}
        /\ GotoWith(t, "readAttempts", 0,
             [loc[t] EXCEPT !.orig = failure,
                            !.mode = IF status = "cancelling" \/ cancelReq THEN "cancel"
                                     ELSE IF failure # NoFailure THEN "failed" ELSE "live"])
  /\ UNCHANGED <<storeVars, provVars, returned, envVars>>

\* getRun's SELECT of the attempts, and what the turn decides on both.
ReadAttempts(t) ==
  /\ pc[t] = "readAttempts"
  /\ LET n == LastAttempt(act[t]) IN
     \/ /\ loc[t].mode = "cancel"
        /\ GotoWith(t, "cancelTasks", n, [loc[t] EXCEPT !.tasks =
             {x \in AllAttempts : att[x[1]][x[2]] = "waiting_provider"}])
        /\ returned' = returned
     \/ loc[t].mode = "failed" /\ Reconcile(t, n, loc[t].orig)
     \/ loc[t].mode = "live" /\ Dispatch(t, n, FALSE)
  /\ UNCHANGED <<storeVars, provVars, envVars>>

\* Mutant: an attempt is claimed although the run has recorded a failure.
ClaimInFailedRun(t) ==
  /\ pc[t] = "claim"
  /\ LET a == act[t]
         n == LastAttempt(a)
     IN \/ /\ att[a][n] = "pending" /\ status \in {"queued", "running"}
           /\ att' = [att EXCEPT ![a][n] = "starting"]
           /\ UNCHANGED <<runVars, iter>>
           /\ GotoWith(t, "claim2", n, [loc[t] EXCEPT !.claim = n])
           /\ returned' = returned
        \/ att[a][n] # "pending" /\ Dispatch(t, n, FALSE) /\ UNCHANGED storeVars
  /\ UNCHANGED <<provVars, envVars>>

\* claimGraphNode: the attempt is claimed, or is left alone and read again.
Claim(t) ==
  /\ pc[t] = "claim"
  /\ LET a == act[t]
         n == LastAttempt(a)
         claims == att[a][n] = "pending" /\ status \in {"queued", "running"}
                     /\ failure = NoFailure
     IN \/ /\ ClaimAttemptStmt(a, n)
           /\ GotoWith(t, "claim2", n, [loc[t] EXCEPT !.claim = n])
           /\ returned' = returned
        \/ /\ ~claims
           /\ \/ att[a][n] # "pending" /\ Dispatch(t, n, FALSE)
              \/ /\ att[a][n] = "pending" /\ failure # NoFailure
                 /\ Reconcile(t, n, failure)
              \/ /\ att[a][n] = "pending" /\ failure = NoFailure
                 /\ Return(t) /\ returned' = returned
           /\ UNCHANGED storeVars
  /\ UNCHANGED <<provVars, envVars>>

Claim2(t) ==
  /\ pc[t] = "claim2"
  /\ \/ RunningStmt
     \/ status \notin {"queued", "running"} /\ UNCHANGED storeVars
  /\ Goto(t, "claimed")
  /\ UNCHANGED <<provVars, returned, envVars>>

Claimed(t) ==
  /\ pc[t] = "claimed"
  /\ Dispatch(t, LastAttempt(act[t]), TRUE)
  /\ UNCHANGED <<storeVars, provVars, envVars>>

\* The run is read once more before the provider is called; the invocation may
\* then be refused locally.
Recheck(t) ==
  /\ pc[t] = "recheck"
  /\ \/ (status \in {"cancelled", "cancelling"} \/ cancelReq) /\ Return(t)
     \/ /\ status \notin {"cancelled", "cancelling"} /\ ~cancelReq
        /\ \/ Goto(t, "start")
           \/ Failing(t, num[t], FALSE)
  /\ UNCHANGED <<storeVars, provVars, returned, envVars>>

\* runtime.start: the provider takes the work and answers with a task or with the
\* output; it refuses, for a transient or a permanent reason; or it takes the
\* work and the answer is lost (provider_start_ambiguous).
Start(t) ==
  /\ pc[t] = "start"
  /\ LET a == act[t]
         n == num[t]
         Provider(p) == prov' = [prov EXCEPT ![a][n] = p]
     IN /\ starts' = [starts EXCEPT ![a][n] = @ + 1]
        /\ spent' = spent \cup {<<a, loc[t].claim>>}
        /\ \/ Provider("working") /\ Goto(t, "persist")
           \/ Provider("finished") /\ Goto(t, "complete")
           \/ \E r \in BOOLEAN : prov' = prov /\ Failing(t, n, r)
           \/ Provider("working") /\ Failing(t, n, FALSE)
  /\ UNCHANGED <<storeVars, retryable, polls, aged, returned, envVars>>

Persist(t) ==
  /\ pc[t] = "persist"
  /\ LET a == act[t]
         n == num[t]
     IN \/ PersistTaskStmt(a, n) /\ Return(t)
        \/ att[a][n] # "starting" /\ UNCHANGED storeVars /\ Failing(t, n, FALSE)
  /\ UNCHANGED <<provVars, returned, envVars>>

\* reconcileFailedGraphRun asks the provider to stop a sibling's task.
Stop(t) ==
  /\ pc[t] = "stop"
  /\ LET a == act[t]
         n == num[t]
     IN \/ /\ prov[a][n] \in {"working", "stopped"}
           /\ prov' = [prov EXCEPT ![a][n] = "stopped"]
           /\ Failing(t, n, FALSE)
        \/ /\ prov' = prov
           /\ \/ Failing(t, n, FALSE)
              \/ polls[a][n] < MaxPolls /\ Goto(t, "poll")
  /\ UNCHANGED <<storeVars, retryable, polls, aged, starts, spent, returned, envVars>>

\* Mutant: polls are not counted.
PollUncounted(t) ==
  /\ pc[t] = "poll"
  /\ \/ att[act[t]][num[t]] = "waiting_provider" /\ Goto(t, "check")
     \/ att[act[t]][num[t]] # "waiting_provider" /\ Failing(t, num[t], FALSE)
  /\ UNCHANGED <<storeVars, provVars, returned, envVars>>

\* incrementPollCount.
Poll(t) ==
  /\ pc[t] = "poll"
  /\ LET a == act[t]
         n == num[t]
     IN \/ /\ att[a][n] = "waiting_provider"
           /\ polls' = [polls EXCEPT ![a][n] = @ + 1]
           /\ Goto(t, "check")
        \/ att[a][n] # "waiting_provider" /\ polls' = polls /\ Failing(t, n, FALSE)
  /\ UNCHANGED <<storeVars, retryable, aged, prov, starts, spent, returned, envVars>>

\* The attempt is read again (in a live run the latest one of the activation)
\* and runtime.check called for its task: the work is still going on, has
\* finished, has ended without output, or the call itself fails.
Check(t) ==
  /\ pc[t] = "check"
  /\ LET a == act[t]
         n == IF loc[t].mode = "failed" THEN num[t] ELSE LastAttempt(a)
         Provider(p) == prov' = [prov EXCEPT ![a][n] = p]
         task == att[a][n] \notin {"pending", "starting"} /\ prov[a][n] # "none"
     IN \/ /\ task /\ prov[a][n] = "working" /\ prov' = prov
           /\ GotoWith(t, "progress", n, loc[t])
        \/ /\ task /\ prov[a][n] \in {"working", "finished"} /\ Provider("finished")
           /\ GotoWith(t, "complete", n, loc[t])
        \/ /\ task /\ prov[a][n] \in {"working", "stopped"} /\ Provider("stopped")
           /\ \E r \in BOOLEAN : Failing(t, n, r)
        \/ prov' = prov /\ Failing(t, n, FALSE)
        \/ task /\ FlakyChecks /\ prov' = prov /\ Failing(t, n, TRUE)
  /\ UNCHANGED <<storeVars, retryable, polls, aged, starts, spent, returned, envVars>>

\* persistProviderProgress writes columns the model leaves out.
Progress(t) ==
  /\ pc[t] = "progress"
  /\ IF att[act[t]][num[t]] = "waiting_provider" THEN Return(t)
     ELSE Failing(t, num[t], FALSE)
  /\ UNCHANGED <<storeVars, provVars, returned, envVars>>

\* completeStep.  It reads the attempt before it updates it: an attempt that
\* succeeds between the two is a conflict, one that has succeeded is not.
Complete(t) ==
  /\ pc[t] = "complete"
  /\ LET a == act[t]
         n == num[t]
         st == att[a][n]
     IN \/ /\ \/ CompleteStepStmt(a, n)
              \/ st = "succeeded" /\ UNCHANGED storeVars
           /\ IF loc[t].mode = "failed"
              THEN Goto(t, "finish") /\ returned' = returned
              ELSE Return(t) /\ returned' = returned \cup {a}
        \/ /\ st \notin {"starting", "waiting_provider"}
           /\ Failing(t, n, FALSE)
           /\ UNCHANGED <<storeVars, returned>>
  /\ UNCHANGED <<provVars, envVars>>

\* failStep, with the same two statements as completeStep.
FailStep(t) ==
  /\ pc[t] = "failStep"
  /\ LET a == act[t]
         n == num[t]
         Continue == IF loc[t].then = "idle" THEN Return(t) ELSE Goto(t, loc[t].then)
     IN \/ /\ FailStepStmt(a, n)
           /\ retryable' = IF loc[t].retry THEN [retryable EXCEPT ![a] = @ \cup {n}]
                           ELSE retryable
           /\ Continue
        \/ /\ att[a][n] \notin {"starting", "waiting_provider"}
           /\ (att[a][n] = "failed" /\ Continue) \/ Return(t)
           /\ UNCHANGED <<storeVars, retryable>>
  /\ UNCHANGED <<polls, aged, prov, starts, spent, returned, envVars>>

\* deferFailure: recordGraphFailure, then the turn runs again from its start.
Defer(t) ==
  /\ pc[t] = "defer"
  /\ \/ /\ GraphFailureStmt(act[t])
        /\ GotoWith(t, "readRun", 0, [NoLocals EXCEPT !.gen = loc[t].gen])
     \/ status \notin ActiveRuns /\ UNCHANGED storeVars /\ Return(t)
  /\ UNCHANGED <<provVars, returned, envVars>>

\* createAutomaticRetryAttempt.
AutoRetry(t) ==
  /\ pc[t] = "autoRetry"
  /\ LET n == LastAttempt(act[t]) IN
     \/ AutoRetryInsert(act[t], n)
     \/ /\ status # "running" \/ att[act[t]][n] # "failed" \/ n >= AutoLimit
        /\ UNCHANGED storeVars
  /\ Return(t)
  /\ UNCHANGED <<provVars, returned, envVars>>

\* reconcileFailedGraphRun's finish: nothing may be outstanding, then failRun.
Finish(t) ==
  /\ pc[t] = "finish"
  /\ IF Outstanding # {} THEN Return(t) ELSE Goto(t, "failRun")
  /\ UNCHANGED <<storeVars, provVars, returned, envVars>>

FailRun(t) ==
  /\ pc[t] = "failRun"
  /\ FailRunStmt(loc[t].orig) \/ (status \notin ActiveRuns /\ UNCHANGED storeVars)
  /\ Return(t)
  /\ UNCHANGED <<provVars, returned, envVars>>

\* Mutant: an overdue run is failed whatever its status.
ExpireAnyStatus(t) ==
  /\ pc[t] = "expire"
  /\ status' = "failed" /\ failure' = "overdue"
  /\ UNCHANGED <<launchVars, cancelVars, attVars>>
  /\ Return(t)
  /\ UNCHANGED <<provVars, returned, envVars>>

Expire(t) ==
  /\ pc[t] = "expire"
  /\ FailRunStmt("overdue") \/ (status \notin ActiveRuns /\ UNCHANGED storeVars)
  /\ Return(t)
  /\ UNCHANGED <<provVars, returned, envVars>>

\* runtime.cancel for every admitted task, and the outcome of them all.
CancelOutcome(outcomes) ==
  IF "cancellation_pending" \in outcomes THEN "cancellation_pending"
  ELSE IF "safe_failure" \in outcomes THEN "safe_failure"
  ELSE IF "unsupported" \in outcomes THEN "unsupported"
  ELSE IF "cancelled" \in outcomes THEN "cancelled" ELSE "already_terminal"

CancelTasks(t) ==
  /\ pc[t] = "cancelTasks"
  /\ \E o \in [loc[t].tasks -> CancellationResult] :
       /\ \A x \in loc[t].tasks :
            IF prov[x[1]][x[2]] = "working" THEN o[x] # "already_terminal"
            ELSE o[x] \in {"already_terminal", "safe_failure"}
       /\ prov' = [a \in Activations |-> [n \in Attempts |->
            IF <<a, n>> \in loc[t].tasks /\ o[<<a, n>>] = "cancelled"
            THEN "stopped" ELSE prov[a][n]]]
       /\ GotoWith(t, "record", num[t], [loc[t] EXCEPT !.tasks = {},
            !.out = CancelOutcome({o[x] : x \in loc[t].tasks})])
  /\ UNCHANGED <<storeVars, retryable, polls, aged, starts, spent, returned, envVars>>

\* recordCancellationResult: the read, then the compare-and-set.
Recorded(t) == IF loc[t].out = "cancellation_pending" THEN Return(t) ELSE Goto(t, "cancel1")

Record(t) ==
  /\ pc[t] = "record"
  /\ IF status # "cancelling" \/ ~TransitionAllowed(cancelRes, loc[t].out) THEN Return(t)
     ELSE IF cancelRes = loc[t].out THEN Recorded(t)
     ELSE GotoWith(t, "recordCas", num[t], [loc[t] EXCEPT !.cur = cancelRes])
  /\ UNCHANGED <<storeVars, provVars, returned, envVars>>

RecordCas(t) ==
  /\ pc[t] = "recordCas"
  /\ \/ CancellationResultStmt(loc[t].cur, loc[t].out) /\ Recorded(t)
     \/ /\ status # "cancelling" \/ cancelRes # loc[t].cur
        /\ UNCHANGED storeVars
        /\ IF status = "cancelling" /\ cancelRes = loc[t].out THEN Recorded(t) ELSE Return(t)
  /\ UNCHANGED <<provVars, returned, envVars>>

\* cancelRun.
Cancel1(t) ==
  /\ pc[t] = "cancel1"
  /\ \/ CancelAttemptsStmt
     \/ status \notin {"cancelling", "cancelled"} /\ UNCHANGED storeVars
  /\ Goto(t, "cancel2")
  /\ UNCHANGED <<provVars, returned, envVars>>

Cancel2(t) ==
  /\ pc[t] = "cancel2"
  /\ CancelRunStmt \/ (status # "cancelling" /\ UNCHANGED storeVars)
  /\ Return(t)
  /\ UNCHANGED <<provVars, returned, envVars>>

\* The request dies between two awaits.
CrashTurn(t) ==
  /\ pc[t] # "idle" /\ crashes < MaxCrashes
  /\ crashes' = crashes + 1
  /\ Return(t)
  /\ UNCHANGED <<storeVars, provVars, returned, outer, retrier>>

\* A starting attempt outlasts graphStartUncertaintyMs.  The window is longer than
\* the provider's own deadline, so unless starts are slow its turn has ended.
Age(a, n) ==
  /\ att[a][n] = "starting" /\ <<a, n>> \notin aged
  /\ SlowStarts \/ Claimants(a, n) \cup Storers(a, n) = {}
  /\ aged' = aged \cup {<<a, n>>}
  /\ UNCHANGED <<storeVars, retryable, polls, prov, starts, spent, returned, turnVars, envVars>>

TurnStep(t) ==
  \/ ReadRun(t) \/ ReadAttempts(t) \/ Claim(t) \/ Claim2(t) \/ Claimed(t)
  \/ Recheck(t) \/ Start(t) \/ Persist(t) \/ Stop(t) \/ Poll(t) \/ Check(t)
  \/ Progress(t) \/ Complete(t) \/ FailStep(t) \/ Defer(t) \/ AutoRetry(t)
  \/ Finish(t) \/ FailRun(t) \/ Expire(t)
  \/ CancelTasks(t) \/ Record(t) \/ RecordCas(t) \/ Cancel1(t) \/ Cancel2(t)

-----------------------------------------------------------------------------
(***************************************************************************)
(* The orchestrator and the routes.                                        *)
(***************************************************************************)

\* executeLangGraphWorkflow admits a frontier activation: ensureGraphActivation
\* reads the run, then inserts.
AdmitRead(a) ==
  /\ outer.pc = "turn"
  /\ launch = "attached" /\ status \notin TerminalRuns /\ failure = NoFailure
  /\ a \in Unadmitted
  /\ outer' = [pc |-> "insert", a |-> a]
  /\ UNCHANGED <<storeVars, provVars, returned, turnVars, retrier, crashes>>

AdmitInsert ==
  /\ outer.pc = "insert"
  /\ \/ ActivationInsert(outer.a)
     \/ (Rows(outer.a) # {} \/ failure # NoFailure) /\ UNCHANGED storeVars
  /\ outer' = Orchestrating
  /\ UNCHANGED <<provVars, returned, turnVars, retrier, crashes>>

\* The head of the loop and reconcileOrchestrationRace: a terminal run ends the
\* orchestration, a cancelling one is cancelled (cancelRun).
OuterDone ==
  /\ outer.pc = "turn" /\ status \in TerminalRuns
  /\ outer' = OuterAt("done")
  /\ UNCHANGED <<storeVars, provVars, returned, turnVars, retrier, crashes>>

OuterCancel1 ==
  /\ outer.pc = "turn" /\ status = "cancelling"
  /\ CancelAttemptsStmt
  /\ outer' = OuterAt("cancel2")
  /\ UNCHANGED <<provVars, returned, turnVars, retrier, crashes>>

OuterCancel2 ==
  /\ outer.pc = "cancel2"
  /\ CancelRunStmt \/ (status # "cancelling" /\ UNCHANGED storeVars)
  /\ outer' = OuterAt("done")
  /\ UNCHANGED <<provVars, returned, turnVars, retrier, crashes>>

\* The graph has answered `completed'; completeRun throws in any state but
\* running and succeeded, and nothing catches it.
OuterComplete ==
  /\ outer.pc = "turn" /\ returned = Activations
  /\ \/ CompleteRunStmt(TerminalStep) /\ outer' = OuterAt("done")
     \/ /\ status \notin {"running", "succeeded"}
        /\ outer' = OuterAt("dead")
        /\ UNCHANGED storeVars
  /\ UNCHANGED <<provVars, returned, turnVars, retrier, crashes>>

\* handleFailure finds the run active, and its failures beyond recovery: failRun,
\* which throws when a cancellation has come between.
OuterGiveUp ==
  /\ GivesUp /\ outer.pc = "turn" /\ status \in ActiveRuns
  /\ outer' = OuterAt("giveUp")
  /\ UNCHANGED <<storeVars, provVars, returned, turnVars, retrier, crashes>>

\* A node of the frontier cannot be admitted once a failure is on record:
\* invalid_graph_admission, turn after turn, until recovery is exhausted.
OuterRefuse ==
  /\ outer.pc = "turn" /\ launch = "attached" /\ status \in ActiveRuns
  /\ failure # NoFailure /\ Unadmitted # {}
  /\ outer' = OuterAt("giveUp")
  /\ UNCHANGED <<storeVars, provVars, returned, turnVars, retrier, crashes>>

OuterFailRun ==
  /\ outer.pc = "giveUp"
  /\ \/ FailRunStmt("internal") /\ outer' = OuterAt("done")
     \/ /\ status \notin ActiveRuns
        /\ outer' = OuterAt(IF status \in TerminalRuns THEN "done" ELSE "dead")
        /\ UNCHANGED storeVars
  /\ UNCHANGED <<provVars, returned, turnVars, retrier, crashes>>

RequestCancellation ==
  /\ Cancellable
  /\ RequestCancellationStmt
  /\ UNCHANGED <<provVars, returned, turnVars, envVars>>

\* manualRetryEligibility picks the node of the failed row that comes last by
\* iteration and row; prepareManualRetry retries that node's last row.
EligibleRows == {x \in AllAttempts : /\ att[x[1]][x[2]] = "failed"
                                     /\ \A y \in AllAttempts : att[y[1]][y[2]] = "failed"
                                          => iter[y[1]] <= iter[x[1]]}
Prior(s) == LET a == CHOOSE b \in Activations : StepOf[b] = s /\ iter[b] = MaxIteration(s)
            IN <<a, LastAttempt(a)>>

RetryRead ==
  /\ retrier = NoRetry /\ status = "failed" /\ gen < MaxGen
  /\ \E x \in EligibleRows :
       LET p == Prior(StepOf[x[1]]) IN
       /\ x[2] < ManualLimit /\ p[2] < ManualLimit
       /\ att[p[1]][p[2]] = "failed"
       /\ retrier' = [pc |-> "insert", a |-> p[1], n |-> p[2], g |-> gen]
  /\ UNCHANGED <<storeVars, provVars, returned, turnVars, outer, crashes>>

RetryInsert ==
  /\ retrier.pc = "insert"
  /\ \/ ManualRetryInsert(retrier.a, retrier.n)
     \/ att[retrier.a][retrier.n + 1] # "none" /\ UNCHANGED storeVars
  /\ retrier' = [retrier EXCEPT !.pc = "update"]
  /\ UNCHANGED <<provVars, returned, turnVars, outer, crashes>>

RetryUpdate ==
  /\ retrier.pc = "update"
  /\ \/ RetryRunStmt(retrier.g)
     \/ (status # "failed" \/ gen # retrier.g) /\ UNCHANGED storeVars
  /\ retrier' = NoRetry
  /\ UNCHANGED <<provVars, returned, turnVars, outer, crashes>>

CrashRetry ==
  /\ retrier # NoRetry /\ crashes < MaxCrashes
  /\ crashes' = crashes + 1
  /\ retrier' = NoRetry
  /\ UNCHANGED <<storeVars, provVars, returned, turnVars, outer>>

\* The generation a retry opened is launched (WorkflowLaunch has the detail).
Relaunch ==
  /\ gen > 1
  /\ \/ ClaimLaunchStmt(gen) /\ UNCHANGED outer
     \/ AttachStmt(gen, gen) /\ outer' = Orchestrating
  /\ UNCHANGED <<provVars, returned, turnVars, retrier, crashes>>

-----------------------------------------------------------------------------
\* A run of the first generation to which its instance has just attached.
TurnInit ==
  /\ status = "queued" /\ launch = "attached"
  /\ gen = 1 /\ reserved = 1 /\ instance = 1
  /\ cancelReq = FALSE /\ cancelRes = "none"
  /\ failure = NoFailure
  /\ iter = [a \in Activations |-> 0]
  /\ att = [a \in Activations |-> [n \in Attempts |-> "none"]]
  /\ retryable = [a \in Activations |-> {}]
  /\ polls = [a \in Activations |-> [n \in Attempts |-> 0]]
  /\ aged = {}
  /\ prov = [a \in Activations |-> [n \in Attempts |-> "none"]]
  /\ starts = [a \in Activations |-> [n \in Attempts |-> 0]]
  /\ spent = {}
  /\ returned = {}
  /\ pc = [t \in Turns |-> "idle"]
  /\ act = [t \in Turns |-> "none"]
  /\ num = [t \in Turns |-> 0]
  /\ loc = [t \in Turns |-> NoLocals]
  /\ outer = Orchestrating /\ retrier = NoRetry /\ crashes = 0

OuterStep ==
  \/ \E a \in Activations : AdmitRead(a)
  \/ AdmitInsert \/ OuterDone \/ OuterCancel1 \/ OuterCancel2
  \/ OuterComplete \/ OuterGiveUp \/ OuterRefuse \/ OuterFailRun

TurnNext ==
  \/ \E t \in Turns, a \in Activations : BeginTurn(t, a)
  \/ \E t \in Turns : TurnStep(t) \/ CrashTurn(t)
  \/ \E a \in Activations, n \in Attempts : Age(a, n)
  \/ OuterStep
  \/ RequestCancellation
  \/ RetryRead \/ RetryInsert \/ RetryUpdate \/ CrashRetry \/ Relaunch

TurnSpec == TurnInit /\ [][TurnNext]_vars

\* A request that has begun goes on unless it crashes; the orchestrator keeps
\* asking for every node of its frontier; time passes.
FairTurnSpec ==
  /\ TurnSpec
  /\ \A t \in Turns : WF_vars(TurnStep(t))
  /\ \A a \in Activations : SF_vars(\E t \in Turns : BeginTurn(t, a))
  /\ \A a \in Activations, n \in Attempts : WF_vars(Age(a, n))
  /\ WF_vars(OuterStep)

-----------------------------------------------------------------------------

\* Turns, orchestrator and routes, whatever they interleave with, change the store
\* only by its statements: what is proved of WorkflowStore holds of this module.
StoreSteps == [][UNCHANGED storeVars \/ Next]_storeVars

\* Starting is claimed before the provider is called: each call of runtime.start
\* is paid for by an attempt that was claimed for it and has paid for no call
\* before, however many turns of an activation run at once, crash, are repeated
\* or belong to an earlier generation.
SpendStep ==
  \A x \in Activations : starts'[x] # starts[x] =>
    \E c \in Attempts : /\ att[x][c] \notin {"none", "pending"}
                        /\ <<x, c>> \notin spent /\ <<x, c>> \in spent'
StartsAreClaimed == [][SpendStep]_vars

\* `Workflow execution uses stable identities to prevent accidental duplicate
\* external work': runtime.start is called at most once for an attempt.
StartedOnce == \A a \in Activations, n \in Attempts : starts[a][n] <= 1

\* `Successful output is persisted before downstream work can depend on it': an
\* activation is admitted only when each one it reads has a succeeded attempt.
OutputBeforeDependents ==
  \A a \in Activations : Rows(a) # {} =>
    \A d \in Deps[a] : \E n \in Attempts : att[d][n] = "succeeded"

\* `Branch failure ... reconciles already-admitted sibling work before a truthful
\* terminal outcome is reported': a run that ends by a branch's failure, by
\* cancellation or by success has no attempt starting or waiting.  finish of
\* reconcileFailedGraphRun, cancelRun and completeRun take several statements
\* each, against turns of the other branches.  It is a property of one generation
\* of a run that is neither overdue nor given up (Overdue and GivesUp FALSE,
\* MaxGen = 1): failRun for those two looks at no attempt, and a turn of an
\* earlier generation may fail a later one.
TerminalMeansReconciled == status \in TerminalRuns => Outstanding = {}

\* The failure a run reports is that of an activation with a failed attempt.
FailureIsBacked ==
  failure \in Activations => \E n \in Attempts : att[failure][n] = "failed"

\* `External work with a known durable task identity is observed or reconciled
\* rather than recreated': no attempt is started while the provider still works
\* on the known (polled) task of an earlier attempt of the same activation.
RecreateStep ==
  \A x \in Activations, n \in Attempts : starts'[x][n] # starts[x][n] =>
    \A m \in 1 .. n - 1 : polls[x][m] > 0 => prov[x][m] # "working"
KnownTaskNotRecreated == [][RecreateStep]_vars

\* Every run ends: polls, retries and uncertain starts are bounded, failed
\* branches are reconciled and a cancelled run is cancelled.
RunSettles == <>(status \in TerminalRuns)

\* `Cancellation remains explicit until the framework can safely determine the
\* relevant local outcome': the outcome is determined in the end.
CancellationSettles == status = "cancelling" ~> status \in TerminalRuns

=============================================================================
