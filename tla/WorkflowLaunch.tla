--------------------------- MODULE WorkflowLaunch ---------------------------
(***************************************************************************)
(* How a run gets its durable orchestrator and keeps it:                   *)
(*   - requests that launch (ensureWorkflowLaunched, called by             *)
(*     reconcileWorkflowLaunch for POST /workflow-runs and GET             *)
(*     /workflow-runs/[runId], and by the manual-retry route);             *)
(*   - the Cloudflare Workflow instances of the run, one per generation:   *)
(*     executeWorkflowRun and the control of executeLangGraphWorkflow.     *)
(* What node turns do to the attempts (GraphNodeTurn) is abstracted to     *)
(* their statements, in any order while an instance is at work.            *)
(***************************************************************************)
EXTENDS WorkflowStore

CONSTANTS
  Launchers,     \* requests in flight
  TerminalStep,  \* the plan's terminal node
  MaxFaults,     \* bound of the model on crashed requests and failed creates
  LostReplies,   \* may binding.create make the instance and still fail?
  Cancellable    \* may the cancel route be called?

ASSUME LaunchAssumption ==
  /\ TerminalStep \in Steps /\ MaxFaults \in Nat
  /\ {LostReplies, Cancellable} \subseteq BOOLEAN
  /\ {"launch", "graph", "internal"} \subseteq Failures

VARIABLES
  req,     \* req[l]: control and locals of a request
  fresh,   \* the launch claim is younger than WORKFLOW_LAUNCH_STALE_MS
  wf,      \* wf[i]: control of the instance of generation i
  seen,    \* seen[i]: the generation it read last
  faults   \* crashes and failed creates so far

launchSysVars == <<req, fresh, wf, seen, faults>>
vars == <<storeVars, launchSysVars>>

Generations == 1 .. MaxGen
NoRequest == [pc |-> "idle", g |-> 0, a |-> "none", n |-> 0]
Launching(g) == [pc |-> "claim", g |-> g, a |-> "none", n |-> 0]

\* Instances that have attached and whose run method has not ended.
Serving == {i \in Generations : wf[i] \notin {"none", "attach", "done", "dead"}}

-----------------------------------------------------------------------------
(***************************************************************************)
(* Requests.                                                               *)
(***************************************************************************)

Goto(l, label) == req' = [req EXCEPT ![l].pc = label]
Ends(l) == req' = [req EXCEPT ![l] = NoRequest]
Fault == faults < MaxFaults /\ faults' = faults + 1

\* POST with the run's idempotency key: reconcileWorkflowLaunch.
PostRun(l) ==
  /\ req[l].pc = "idle"
  /\ \/ launch \in {"unclaimed", "launch_failed"}
     \/ launch = "launching" /\ status \notin TerminalRuns
  /\ req' = [req EXCEPT ![l] = Launching(gen)]
  /\ UNCHANGED <<storeVars, fresh, wf, seen, faults>>

\* GET: getWorkflowRunDetail only takes up a launch in progress.
GetRun(l) ==
  /\ req[l].pc = "idle"
  /\ launch = "launching" /\ status \notin TerminalRuns
  /\ req' = [req EXCEPT ![l] = Launching(gen)]
  /\ UNCHANGED <<storeVars, fresh, wf, seen, faults>>

\* The retry route: prepareManualRetry's read, INSERT and UPDATE.
RetryRead(l, a) ==
  /\ req[l].pc = "idle"
  /\ status = "failed" /\ gen < MaxGen
  /\ LET n == LastAttempt(a) IN
     /\ n \in 1 .. ManualLimit - 1 /\ att[a][n] = "failed"
     /\ req' = [req EXCEPT ![l] = [pc |-> "insert", g |-> gen, a |-> a, n |-> n]]
  /\ UNCHANGED <<storeVars, fresh, wf, seen, faults>>

RetryInsert(l) ==
  /\ req[l].pc = "insert"
  /\ \/ ManualRetryInsert(req[l].a, req[l].n)
     \/ att[req[l].a][req[l].n + 1] # "none" /\ UNCHANGED storeVars
  /\ Goto(l, "update")
  /\ UNCHANGED <<fresh, wf, seen, faults>>

\* Mutant: the generation read before is written whatever has happened since.
RetryUpdateAnyGeneration(l) ==
  /\ req[l].pc = "update"
  /\ gen' = req[l].g + 1 /\ instance' = 0 /\ reserved' = 0 /\ launch' = "unclaimed"
  /\ UNCHANGED <<status, cancelVars, failure, attVars>>
  /\ req' = [req EXCEPT ![l] = Launching(req[l].g + 1)]
  /\ UNCHANGED <<fresh, wf, seen, faults>>

RetryUpdate(l) ==
  /\ req[l].pc = "update"
  /\ LET g == req[l].g
         next == Launching(g + 1)
     IN \/ RetryRunStmt(g) /\ req' = [req EXCEPT ![l] = next]
        \/ /\ status # "failed" \/ gen # g
           /\ req' = [req EXCEPT ![l] = IF gen = g + 1 THEN next ELSE NoRequest]
           /\ UNCHANGED storeVars
  /\ UNCHANGED <<fresh, wf, seen, faults>>

\* Mutant: a stale claim is never taken over.
ClaimOnce(l) ==
  /\ req[l].pc = "claim"
  /\ \/ ClaimLaunchStmt(req[l].g) /\ fresh' = TRUE /\ Goto(l, "create")
     \/ launch = "launching" /\ UNCHANGED <<storeVars, fresh>> /\ Ends(l)
  /\ UNCHANGED <<wf, seen, faults>>

\* claimWorkflowLaunch: a claim, the takeover of a stale claim, or an answer that
\* ends the request (attached, in progress, terminal, conflict).
Claim(l) ==
  /\ req[l].pc = "claim"
  /\ LET g == req[l].g
         stale == gen = g /\ launch = "launching" /\ status \notin TerminalRuns /\ ~fresh
     IN \/ ClaimLaunchStmt(g) /\ fresh' = TRUE /\ Goto(l, "create")
        \/ /\ ~(gen = g /\ launch \in {"unclaimed", "launch_failed"}
                  /\ status \in {"queued", "failed"})
           /\ UNCHANGED storeVars
           /\ IF stale
              THEN fresh' = TRUE /\ Goto(l, "create")
              ELSE fresh' = fresh /\ Ends(l)
  /\ UNCHANGED <<wf, seen, faults>>

\* Mutant: a failed create is taken for a duplicate.
CreateFailedAttaches(l) ==
  /\ req[l].pc = "create"
  /\ \/ wf' = [wf EXCEPT ![req[l].g] = "attach"] /\ Goto(l, "attach") /\ faults' = faults
     \/ wf' = wf /\ Fault /\ Goto(l, "attachDuplicate")
  /\ UNCHANGED <<storeVars, fresh, seen>>

\* binding.create.
Create(l) ==
  /\ req[l].pc = "create"
  /\ LET g == req[l].g IN
     \/ /\ wf[g] = "none" /\ wf' = [wf EXCEPT ![g] = "attach"]
        /\ Goto(l, "attach") /\ faults' = faults
     \/ /\ wf[g] # "none" /\ wf' = wf
        /\ Goto(l, "attachDuplicate") /\ faults' = faults
     \/ wf' = wf /\ Fault /\ Goto(l, "recordFailure")
     \/ /\ LostReplies /\ wf[g] = "none" /\ wf' = [wf EXCEPT ![g] = "attach"]
        /\ Fault /\ Goto(l, "recordFailure")
  /\ UNCHANGED <<storeVars, fresh, seen>>

\* attachWorkflowInstance by the request; only the first form records a failure
\* when the attach is refused.
Attach(l) ==
  /\ req[l].pc \in {"attach", "attachDuplicate"}
  /\ LET g == req[l].g
         ours == gen = g /\ launch = "attached" /\ instance = g
     IN \/ AttachStmt(g, g) /\ Ends(l)
        \/ /\ ~(gen = g /\ launch = "launching" /\ reserved = g)
           /\ UNCHANGED storeVars
           /\ IF ~ours /\ req[l].pc = "attach" THEN Goto(l, "recordFailure") ELSE Ends(l)
  /\ UNCHANGED <<fresh, wf, seen, faults>>

RecordFailure(l) ==
  /\ req[l].pc = "recordFailure"
  /\ LET g == req[l].g IN
     \/ LaunchFailureStmt(g, g, "launch")
     \/ ~(gen = g /\ launch = "launching" /\ reserved = g) /\ UNCHANGED storeVars
  /\ Ends(l)
  /\ UNCHANGED <<fresh, wf, seen, faults>>

CrashRequest(l) ==
  /\ req[l].pc # "idle" /\ Fault
  /\ Ends(l)
  /\ UNCHANGED <<storeVars, fresh, wf, seen>>

LeaseExpires ==
  /\ fresh
  /\ fresh' = FALSE
  /\ UNCHANGED <<storeVars, req, wf, seen, faults>>

RequestStep(l) ==
  \/ RetryInsert(l) \/ RetryUpdate(l) \/ Claim(l) \/ Create(l) \/ Attach(l)
  \/ RecordFailure(l)

-----------------------------------------------------------------------------
(***************************************************************************)
(* Instances.                                                              *)
(***************************************************************************)

InstanceAt(i, label) == wf' = [wf EXCEPT ![i] = label] /\ UNCHANGED <<req, fresh, faults>>

\* executeWorkflowRun reads the current generation and attaches itself to it.
Enter(i) ==
  /\ wf[i] = "attach"
  /\ \/ AttachStmt(gen, i) /\ InstanceAt(i, "loop")
     \/ /\ ~(launch = "launching" /\ reserved = i)
        /\ InstanceAt(i, IF launch = "attached" /\ instance = i THEN "loop" ELSE "dead")
        /\ UNCHANGED storeVars
  /\ UNCHANGED seen

\* Hibernation: the run method starts again from its first line.
Replay(i) ==
  /\ i \in Serving
  /\ InstanceAt(i, "attach")
  /\ seen' = [seen EXCEPT ![i] = 0]
  /\ UNCHANGED storeVars

\* The head of executeLangGraphWorkflow's loops.  It takes the generation from the
\* row it reads, and cancels on a request even if the status does not say so.
LoopHead(i) ==
  /\ wf[i] = "loop"
  /\ InstanceAt(i, IF status \in TerminalRuns THEN "done"
                   ELSE IF status = "cancelling" \/ cancelReq THEN "cancelAttempts"
                   ELSE "work")
  /\ seen' = [seen EXCEPT ![i] = gen]
  /\ UNCHANGED storeVars

\* A turn of the graph ends without a result: reconcileOrchestrationRace, then
\* a sleep and the head of the loop again.
Again(i) ==
  /\ wf[i] = "work"
  /\ InstanceAt(i, IF gen # seen[i] \/ status \in TerminalRuns THEN "done"
                   ELSE IF status = "cancelling" THEN "cancelAttempts"
                   ELSE IF cancelReq THEN "done" ELSE "loop")
  /\ UNCHANGED <<storeVars, seen>>

\* It ends with a result: `completed', with the terminal node's output on record,
\* or a failure to be written to the run, in the generation the instance knows
\* (recovery exhausted) or in any (the others).
HasOutput == \E a \in Activations, n \in Attempts :
               StepOf[a] = TerminalStep /\ att[a][n] = "succeeded"

Result(i) ==
  /\ wf[i] = "work"
  /\ \/ HasOutput /\ InstanceAt(i, "complete")
     \/ InstanceAt(i, "failGeneration")
     \/ InstanceAt(i, "fail")
  /\ UNCHANGED <<storeVars, seen>>

\* completeRun and failRun throw when they find a run neither active nor ended;
\* nothing catches that.
CompleteRun(i) ==
  /\ wf[i] = "complete"
  /\ \/ CompleteRunStmt(TerminalStep) /\ InstanceAt(i, "done")
     \/ /\ status # "running"
        /\ InstanceAt(i, IF status = "succeeded" THEN "done" ELSE "dead")
        /\ UNCHANGED storeVars
  /\ UNCHANGED seen

FailRun(i) ==
  /\ wf[i] \in {"fail", "failGeneration"}
  /\ LET own == wf[i] = "fail" \/ gen = seen[i] IN
     \/ own /\ FailRunStmt("internal") /\ InstanceAt(i, "done")
     \/ /\ ~own \/ status \notin ActiveRuns
        /\ InstanceAt(i, IF status \in TerminalRuns THEN "done" ELSE "dead")
        /\ UNCHANGED storeVars
  /\ UNCHANGED seen

\* cancelRun.
CancelAttempts(i) ==
  /\ wf[i] = "cancelAttempts"
  /\ \/ CancelAttemptsStmt
     \/ status \notin {"cancelling", "cancelled"} /\ UNCHANGED storeVars
  /\ InstanceAt(i, "cancelRun")
  /\ UNCHANGED seen

CancelRun(i) ==
  /\ wf[i] = "cancelRun"
  /\ \/ CancelRunStmt /\ InstanceAt(i, "done")
     \/ /\ status # "cancelling"
        /\ InstanceAt(i, IF status = "cancelled" THEN "done" ELSE "dead")
        /\ UNCHANGED storeVars
  /\ UNCHANGED seen

InstanceStep(i) ==
  \/ Enter(i) \/ LoopHead(i) \/ Again(i) \/ Result(i)
  \/ CompleteRun(i) \/ FailRun(i) \/ CancelAttempts(i) \/ CancelRun(i)

-----------------------------------------------------------------------------
\* What the turns of GraphNodeTurn may write once an instance has been at work;
\* a turn may outlive the instance that asked for it.
NodeWork ==
  /\ \E i \in Generations : seen[i] # 0
  /\ \/ \E a \in Activations : ActivationInsert(a)
     \/ \E a \in Activations, n \in Attempts :
          \/ ClaimAttemptStmt(a, n) \/ CompleteStepStmt(a, n) \/ FailStepStmt(a, n)
     \/ RunningStmt
     \/ GraphFailureStmt("graph")
     \/ failure # NoFailure /\ FailRunStmt(failure)
  /\ UNCHANGED launchSysVars

RequestCancellation ==
  /\ Cancellable
  /\ RequestCancellationStmt
  /\ UNCHANGED launchSysVars

LaunchInit ==
  /\ Init
  /\ req = [l \in Launchers |-> NoRequest]
  /\ fresh = FALSE
  /\ wf = [i \in Generations |-> "none"]
  /\ seen = [i \in Generations |-> 0]
  /\ faults = 0

LaunchNext ==
  \/ \E l \in Launchers :
       \/ PostRun(l) \/ GetRun(l) \/ RequestStep(l) \/ CrashRequest(l)
       \/ \E a \in Activations : RetryRead(l, a)
  \/ LeaseExpires
  \/ \E i \in Generations : InstanceStep(i) \/ Replay(i)
  \/ NodeWork
  \/ RequestCancellation

LaunchSpec == LaunchInit /\ [][LaunchNext]_vars

\* A request that has begun goes on unless it crashes, a created instance runs,
\* the lease expires, and somebody keeps looking at the run.
FairLaunchSpec ==
  /\ LaunchSpec
  /\ \A l \in Launchers : WF_vars(RequestStep(l))
  /\ \A i \in Generations : WF_vars(InstanceStep(i))
  /\ WF_vars(LeaseExpires)
  /\ WF_vars(\E l \in Launchers : GetRun(l))

-----------------------------------------------------------------------------

\* A run is never attached to an instance that does not exist: create precedes
\* attach in every request, also when claims are stolen and creates fail.
AttachedInstanceExists == launch = "attached" => wf[instance] # "none"

\* Requests and instances, whatever they interleave with, implement the store: they
\* create its row and change it only by its statements.  This is WorkflowStore's Spec,
\* so what is proved of that module holds of this one.
ImplementsStore == Init /\ [][UNCHANGED storeVars \/ Next]_storeVars

\* `Cancellation remains explicit until the framework can safely determine the
\* relevant local outcome': a cancelling run stays so until it is cancelled.
ExplicitStep == status = "cancelling" => status' \in {"cancelling", "cancelled"}
CancellationExplicit == [][ExplicitStep]_vars

\* `A two-minute lease avoids stealing a live request while bounding abandoned
\* launch recovery': a launch in progress does not stay so for ever.
LaunchRecovers == launch = "launching" ~> launch # "launching"

=============================================================================
