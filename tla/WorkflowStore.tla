--------------------------- MODULE WorkflowStore ---------------------------
(***************************************************************************)
(* The durable state of one engine-v2 workflow run: its row of             *)
(* workflow_runs and its rows of workflow_step_attempts, and the SQL       *)
(* statements of D1WorkflowRunStorage (lib/workflow-d1-storage.ts) that    *)
(* change them.  Every statement is awaited on its own, so a statement,    *)
(* not a method, is the unit of atomicity: a method of several statements  *)
(* is several actions.                                                     *)
(*                                                                         *)
(* Spec is the store as its callers may use it in the worst case: any      *)
(* statement, with any argument, whenever its WHERE clause holds.  The     *)
(* modules of the callers (GraphNodeTurn, WorkflowLaunch) are built from   *)
(* the same statements in the order the code issues them, and implement    *)
(* Spec; what is proved of Spec therefore holds of every caller.           *)
(*                                                                         *)
(* A statement whose WHERE clause selects no row changes nothing: it is a  *)
(* stuttering step here, and what the caller does about `changes === 0' is *)
(* modelled with the caller.                                               *)
(***************************************************************************)
EXTENDS Naturals, FiniteSets

CONSTANTS
  Steps,         \* nodes of the frozen plan that admit attempts
  Activations,   \* graph activations, one per visit of a node
  StepOf,        \* the node an activation visits
  AutoLimit,     \* 3: no automatic retry of attempt number 3 or later
  ManualLimit,   \* 10: no manual retry of attempt number 10
  MaxGen,        \* bound of the model on workflow_generation
  NoFailure,     \* failure_code IS NULL
  Failures       \* the failure codes told apart

ASSUME StepAssumption == StepOf \in [Activations -> Steps]
ASSUME LimitAssumption ==
  /\ AutoLimit \in Nat /\ ManualLimit \in Nat
  /\ 1 <= AutoLimit /\ AutoLimit <= ManualLimit
ASSUME GenAssumption == MaxGen \in Nat \ {0}
ASSUME FailureAssumption == NoFailure \notin Failures

VARIABLES
  status,      \* workflow_runs.status
  launch,      \* workflow_launch_state
  gen,         \* workflow_generation
  reserved,    \* reserved_workflow_instance_id, 0 when NULL
  instance,    \* workflow_instance_id, 0 when NULL
  cancelReq,   \* cancel_requested_at IS NOT NULL
  cancelRes,   \* cancellation_result, "none" when NULL
  failure,     \* failure_code
  iter,        \* iteration of an activation's rows, 0 when it has none
  att          \* att[a][n]: status of attempt n of activation a, "none" when
               \* there is no such row

launchVars == <<launch, gen, reserved, instance>>
cancelVars == <<cancelReq, cancelRes>>
runVars == <<status, launchVars, cancelVars, failure>>
attVars == <<iter, att>>
storeVars == <<runVars, attVars>>

RunStatus == {"queued", "running", "waiting_approval", "cancelling",
              "succeeded", "failed", "cancelled"}
StepStatus == {"pending", "starting", "waiting_provider",
               "succeeded", "failed", "cancelled"}
LaunchState == {"unclaimed", "launching", "attached", "launch_failed"}
CancellationResult == {"cancelled", "cancellation_pending",
                       "already_terminal", "unsupported", "safe_failure"}

TerminalRuns == {"succeeded", "failed", "cancelled"}
ActiveRuns == {"queued", "running", "waiting_approval"}
LiveSteps == {"pending", "starting", "waiting_provider"}
TerminalSteps == {"succeeded", "failed", "cancelled"}

Attempts == 1 .. ManualLimit

-----------------------------------------------------------------------------
(***************************************************************************)
(* Queries.                                                                *)
(***************************************************************************)

\* The rows of activation a, and its latest attempt (0 when it has none).
Rows(a) == {n \in Attempts : att[a][n] # "none"}
LastAttempt(a) ==
  IF Rows(a) = {} THEN 0 ELSE CHOOSE n \in Rows(a) : \A m \in Rows(a) : m <= n

\* MAX(iteration) over the rows of step s, 0 when it has none.
MaxIteration(s) ==
  LET its == {iter[a] : a \in {b \in Activations : StepOf[b] = s}} \cup {0}
  IN CHOOSE i \in its : \A j \in its : j <= i

\* transitionCancellationResult: is the result r accepted after the result c?
TransitionAllowed(c, r) ==
  c = r \/ c = "none" \/ (c = "cancellation_pending" /\ r \in CancellationResult)

-----------------------------------------------------------------------------
(***************************************************************************)
(* Launch statements.  The durable instance proposed for generation g is   *)
(* named `${runId}-g${g}'; the model names it g.                           *)
(***************************************************************************)

\* claimWorkflowLaunch, first UPDATE.  (The takeover of a stale claim only
\* renews workflow_launch_attempted_at.)
ClaimLaunchStmt(g) ==
  /\ gen = g
  /\ launch \in {"unclaimed", "launch_failed"}
  /\ status \in {"queued", "failed"}
  /\ launch' = "launching"
  /\ reserved' = g
  /\ UNCHANGED <<status, gen, instance, cancelVars, failure, attVars>>

\* attachWorkflowInstance: no condition on the status it overwrites.
AttachStmt(g, i) ==
  /\ gen = g
  /\ launch = "launching"
  /\ reserved = i
  /\ launch' = "attached"
  /\ instance' = i
  /\ status' = "queued"
  /\ failure' = NoFailure
  /\ UNCHANGED <<gen, reserved, cancelVars, attVars>>

\* recordWorkflowLaunchFailure.
LaunchFailureStmt(g, i, f) ==
  /\ gen = g
  /\ launch = "launching"
  /\ reserved = i
  /\ launch' = "launch_failed"
  /\ status' = "failed"
  /\ failure' = f
  /\ UNCHANGED <<gen, reserved, instance, cancelVars, attVars>>

-----------------------------------------------------------------------------
(***************************************************************************)
(* Attempt statements.                                                     *)
(***************************************************************************)

\* ensureGraphActivation's INSERT ... SELECT.
ActivationInsert(a) ==
  /\ Rows(a) = {}
  /\ failure = NoFailure
  /\ iter' = [iter EXCEPT ![a] = MaxIteration(StepOf[a]) + 1]
  /\ att' = [att EXCEPT ![a][1] = "pending"]
  /\ UNCHANGED runVars

\* Mutant: an attempt that is starting can be claimed again.
ClaimAttemptAgain(a, n) ==
  /\ att[a][n] \in {"pending", "starting"}
  /\ status \in {"queued", "running"}
  /\ failure = NoFailure
  /\ att' = [att EXCEPT ![a][n] = "starting"]
  /\ UNCHANGED <<runVars, iter>>

\* claimGraphNode: the UPDATE of the attempt, then the UPDATE of the run.
ClaimAttemptStmt(a, n) ==
  /\ att[a][n] = "pending"
  /\ status \in {"queued", "running"}
  /\ failure = NoFailure
  /\ att' = [att EXCEPT ![a][n] = "starting"]
  /\ UNCHANGED <<runVars, iter>>

RunningStmt ==
  /\ status \in {"queued", "running"}
  /\ status' = "running"
  /\ UNCHANGED <<launchVars, cancelVars, failure, attVars>>

\* persistProviderTask: provider_task_id is not NULL from here on.
PersistTaskStmt(a, n) ==
  /\ att[a][n] = "starting"
  /\ att' = [att EXCEPT ![a][n] = "waiting_provider"]
  /\ UNCHANGED <<runVars, iter>>

CompleteStepStmt(a, n) ==
  /\ att[a][n] \in {"starting", "waiting_provider"}
  /\ att' = [att EXCEPT ![a][n] = "succeeded"]
  /\ UNCHANGED <<runVars, iter>>

FailStepStmt(a, n) ==
  /\ att[a][n] \in {"starting", "waiting_provider"}
  /\ att' = [att EXCEPT ![a][n] = "failed"]
  /\ UNCHANGED <<runVars, iter>>

\* createAutomaticRetryAttempt's INSERT ... SELECT; the row's primary key
\* refuses a second attempt n + 1.
AutoRetryInsert(a, n) ==
  /\ n < AutoLimit
  /\ att[a][n] = "failed"
  /\ status = "running"
  /\ att[a][n + 1] = "none"
  /\ att' = [att EXCEPT ![a][n + 1] = "pending"]
  /\ UNCHANGED <<runVars, iter>>

\* Mutant: any row is followed by another.
RetryInsertAnyRow(a, n) ==
  /\ n < ManualLimit
  /\ att[a][n] # "none"
  /\ att[a][n + 1] = "none"
  /\ att' = [att EXCEPT ![a][n + 1] = "pending"]
  /\ UNCHANGED <<runVars, iter>>

\* prepareManualRetry's INSERT ... SELECT: it does not look at the run.
ManualRetryInsert(a, n) ==
  /\ n < ManualLimit
  /\ att[a][n] = "failed"
  /\ att[a][n + 1] = "none"
  /\ att' = [att EXCEPT ![a][n + 1] = "pending"]
  /\ UNCHANGED <<runVars, iter>>

\* Mutant: the new generation keeps the old instance.
RetryRunKeepsInstance(g) ==
  /\ status = "failed"
  /\ gen = g
  /\ g < MaxGen
  /\ gen' = g + 1
  /\ reserved' = 0
  /\ launch' = "unclaimed"
  /\ UNCHANGED <<status, instance, cancelVars, failure, attVars>>

\* prepareManualRetry's UPDATE of the run it read in generation g.
RetryRunStmt(g) ==
  /\ status = "failed"
  /\ gen = g
  /\ g < MaxGen
  /\ gen' = g + 1
  /\ instance' = 0
  /\ reserved' = 0
  /\ launch' = "unclaimed"
  /\ UNCHANGED <<status, cancelVars, failure, attVars>>

-----------------------------------------------------------------------------
(***************************************************************************)
(* Run statements.                                                         *)
(***************************************************************************)

\* Mutant: completeRun does not ask for the terminal node's output.
CompleteRunUnbacked(s) ==
  /\ status = "running"
  /\ status' = "succeeded"
  /\ UNCHANGED <<launchVars, cancelVars, failure, attVars>>

\* completeRun; s is the terminal node of the plan.
CompleteRunStmt(s) ==
  /\ status = "running"
  /\ \E a \in Activations, n \in Attempts :
        StepOf[a] = s /\ att[a][n] = "succeeded"
  /\ status' = "succeeded"
  /\ UNCHANGED <<launchVars, cancelVars, failure, attVars>>

\* recordGraphFailure: COALESCE keeps the failure recorded first.
GraphFailureStmt(f) ==
  /\ status \in ActiveRuns
  /\ failure' = IF failure = NoFailure THEN f ELSE failure
  /\ UNCHANGED <<status, launchVars, cancelVars, attVars>>

\* failRun without a generation, the form most callers use.
FailRunStmt(f) ==
  /\ status \in ActiveRuns
  /\ status' = "failed"
  /\ failure' = f
  /\ UNCHANGED <<launchVars, cancelVars, attVars>>

RequestCancellationStmt ==
  /\ status \in ActiveRuns \cup {"cancelling"}
  /\ status' = "cancelling"
  /\ cancelReq' = TRUE
  /\ UNCHANGED <<launchVars, cancelRes, failure, attVars>>

\* recordCancellationResult's compare-and-set from the result read, c.
CancellationResultStmt(c, r) ==
  /\ status = "cancelling"
  /\ cancelRes = c
  /\ TransitionAllowed(c, r)
  /\ cancelRes' = r
  /\ UNCHANGED <<status, launchVars, cancelReq, failure, attVars>>

\* Mutants: cancelRun rewrites failed attempts; it forgets starting ones.
CancelFailedAttempts ==
  /\ status \in {"cancelling", "cancelled"}
  /\ att' = [a \in Activations |-> [n \in Attempts |->
               IF att[a][n] \in LiveSteps \cup {"failed"} THEN "cancelled" ELSE att[a][n]]]
  /\ UNCHANGED <<runVars, iter>>

CancelAllButStarting ==
  /\ status \in {"cancelling", "cancelled"}
  /\ att' = [a \in Activations |-> [n \in Attempts |->
               IF att[a][n] \in LiveSteps \ {"starting"} THEN "cancelled" ELSE att[a][n]]]
  /\ UNCHANGED <<runVars, iter>>

\* cancelRun: the UPDATE of the attempts, then the UPDATE of the run.
CancelAttemptsStmt ==
  /\ status \in {"cancelling", "cancelled"}
  /\ att' = [a \in Activations |-> [n \in Attempts |->
               IF att[a][n] \in LiveSteps THEN "cancelled" ELSE att[a][n]]]
  /\ UNCHANGED <<runVars, iter>>

CancelRunStmt ==
  /\ status = "cancelling"
  /\ status' = "cancelled"
  /\ UNCHANGED <<launchVars, cancelVars, failure, attVars>>

\* require of lib/workflow-approvals.ts, its UPDATE of the run, and the
\* UPDATE of consume.
WaitApprovalStmt(g) ==
  /\ gen = g
  /\ status \in ActiveRuns
  /\ ~cancelReq
  /\ status' = "waiting_approval"
  /\ UNCHANGED <<launchVars, cancelVars, failure, attVars>>

ResumeApprovalStmt ==
  /\ status = "waiting_approval"
  /\ ~cancelReq
  /\ status' = "running"
  /\ UNCHANGED <<launchVars, cancelVars, failure, attVars>>

-----------------------------------------------------------------------------
\* createRun: the row newLangGraphWorkflowRun describes.
Init ==
  /\ status = "queued"
  /\ launch = "unclaimed"
  /\ gen = 1
  /\ reserved = 0
  /\ instance = 0
  /\ cancelReq = FALSE
  /\ cancelRes = "none"
  /\ failure = NoFailure
  /\ iter = [a \in Activations |-> 0]
  /\ att = [a \in Activations |-> [n \in Attempts |-> "none"]]

LaunchStmts ==
  \/ \E g \in 1 .. gen : ClaimLaunchStmt(g)
  \/ \E g \in 1 .. gen : AttachStmt(g, g)
  \/ \E g \in 1 .. gen, f \in Failures : LaunchFailureStmt(g, g, f)
  \/ \E g \in 1 .. gen : RetryRunStmt(g)

AttemptStmts ==
  \/ \E a \in Activations : ActivationInsert(a)
  \/ \E a \in Activations, n \in Attempts :
       \/ ClaimAttemptStmt(a, n)
       \/ PersistTaskStmt(a, n)
       \/ CompleteStepStmt(a, n)
       \/ FailStepStmt(a, n)
       \/ AutoRetryInsert(a, n)
       \/ ManualRetryInsert(a, n)

RunStmts ==
  \/ RunningStmt
  \/ \E s \in Steps : CompleteRunStmt(s)
  \/ \E f \in Failures : GraphFailureStmt(f) \/ FailRunStmt(f)
  \/ RequestCancellationStmt
  \/ \E c \in CancellationResult \cup {"none"}, r \in CancellationResult :
       CancellationResultStmt(c, r)
  \/ CancelAttemptsStmt
  \/ CancelRunStmt
  \/ \E g \in 1 .. gen : WaitApprovalStmt(g)
  \/ ResumeApprovalStmt

Next == LaunchStmts \/ AttemptStmts \/ RunStmts

Spec == Init /\ [][Next]_storeVars

-----------------------------------------------------------------------------
(***************************************************************************)
(* What the store promises, whatever the callers do.                       *)
(***************************************************************************)

\* The columns hold the values their CHECK constraints allow.
TypeOK ==
  /\ status \in RunStatus
  /\ launch \in LaunchState
  /\ gen \in 1 .. MaxGen
  /\ reserved \in 0 .. MaxGen
  /\ instance \in 0 .. MaxGen
  /\ cancelReq \in BOOLEAN
  /\ cancelRes \in CancellationResult \cup {"none"}
  /\ failure \in Failures \cup {NoFailure}
  /\ iter \in [Activations -> Nat]
  /\ att \in [Activations -> [Attempts -> StepStatus \cup {"none"}]]

\* Retries of an activation are a history, not a race: its attempts are
\* numbered 1, 2, ... without a gap, and all but the latest have failed, so at
\* most one attempt is ever pending, starting or waiting, and no attempt
\* follows a success or a cancellation.  It rests on the two retry INSERTs,
\* which two requests may issue at once, for the same prior attempt.
RetryHistory ==
  \A a \in Activations, n \in Attempts :
    att[a][n] # "none" => \A m \in 1 .. n - 1 : att[a][m] = "failed"

\* The iterations of a node number its visits: two activations of the same
\* node never share one, and each has a predecessor down to 1.  It rests on
\* ensureGraphActivation computing MAX(iteration) + 1 and testing NOT EXISTS in
\* the INSERT itself.
IterationsNumberVisits ==
  \A a \in Activations :
    /\ iter[a] # 0 <=> att[a][1] # "none"
    /\ iter[a] > 1 => \E b \in Activations :
                         StepOf[b] = StepOf[a] /\ iter[b] = iter[a] - 1
    /\ \A b \in Activations \ {a} :
         StepOf[b] = StepOf[a] /\ iter[a] # 0 => iter[b] # iter[a]

\* The launch columns agree: a claim reserves the instance of the current
\* generation, an instance is recorded exactly while attached and is the one
\* that was reserved, and a generation that failed to launch, or that a manual
\* retry has opened and nobody has attached to yet, is a failed run.
LaunchColumnsAgree ==
  /\ launch \in {"launching", "attached"} => reserved = gen
  /\ instance = IF launch = "attached" THEN gen ELSE 0
  /\ launch = "launch_failed" => status = "failed"
  /\ launch = "unclaimed" /\ gen > 1 => status = "failed"

\* A run is reported succeeded only on the strength of a recorded output
\* (completeRun's EXISTS), and whatever says `cancelled' was asked for.
OutcomesAreBacked ==
  /\ status = "succeeded" =>
       \E a \in Activations, n \in Attempts : att[a][n] = "succeeded"
  /\ \/ status \in {"cancelling", "cancelled"}
     \/ cancelRes # "none"
     \/ \E a \in Activations, n \in Attempts : att[a][n] = "cancelled"
     => cancelReq

\* History is never rewritten: a row of workflow_step_attempts stays, moves
\* only forward, and once succeeded, failed or cancelled never changes again;
\* an activation keeps its iteration; a cancellation request is never taken
\* back; generations only grow.
HistoryStep ==
  /\ \A a \in Activations, n \in Attempts :
       /\ att[a][n] # "none" => att'[a][n] # "none"
       /\ att[a][n] \in TerminalSteps => att'[a][n] = att[a][n]
       /\ att[a][n] = "waiting_provider" =>
            att'[a][n] \notin {"pending", "starting"}
       /\ att[a][n] = "starting" => att'[a][n] # "pending"
  /\ \A a \in Activations : iter[a] # 0 => iter'[a] = iter[a]
  /\ cancelReq => cancelReq'
  /\ gen' \in {gen, gen + 1}

HistoryKept == [][HistoryStep]_storeVars

\* A run that has succeeded or was cancelled is settled unless its launch was
\* still in progress: no statement reopens it, and no statement can begin to
\* launch it again.
SettledStep ==
  status \in {"succeeded", "cancelled"} /\ launch # "launching"
    => status' = status /\ launch' = launch /\ gen' = gen

SettledStays == [][SettledStep]_storeVars

=============================================================================
