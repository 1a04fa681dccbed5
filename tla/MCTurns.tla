------------------------------ MODULE MCTurns ------------------------------
(***************************************************************************)
(* The safety of node turns on two plans, checked side by side: the first  *)
(* state chooses a plan, and the behaviour is one of GraphNodeTurn with    *)
(* that plan's constants.                                                  *)
(*   retry:  the constants of the configuration: one node, manual retries, *)
(*           a second generation, a run overdue or given up, a crash;      *)
(*   cancel: two parallel nodes of a run that may be cancelled; what is    *)
(*           checked of either plan is checked of the node they share.     *)
(***************************************************************************)
EXTENDS MCGraphNodeTurn

VARIABLE plan

Cancel == INSTANCE GraphNodeTurn WITH
  Activations <- Two, Steps <- {"a", "b"}, StepOf <- TwoStepOf, Deps <- TwoDeps,
  AutoLimit <- 1, ManualLimit <- ManualLimit, MaxGen <- 1, MaxPolls <- 0, MaxCrashes <- 0,
  Cancellable <- TRUE, Overdue <- FALSE, SlowStarts <- FALSE, FlakyChecks <- TRUE, GivesUp <- FALSE

PlansInit ==
  \/ plan = "retry" /\ TurnInit
  \/ plan = "cancel" /\ Cancel!TurnInit

PlansNext ==
  /\ UNCHANGED plan
  /\ \/ plan = "retry" /\ TurnNext
     \/ plan = "cancel" /\ Cancel!TurnNext

PlansSpec == PlansInit /\ [][PlansNext]_<<vars, plan>>

-----------------------------------------------------------------------------
\* TerminalMeansReconciled against a cancellation: cancelRun comes after every
\* admitted task has been stopped or observed, in the outer loop or by a turn.
CancelledMeansReconciled == plan = "cancel" => Cancel!TerminalMeansReconciled

\* StoreSteps with a second generation: turns, orchestrator and routes change the
\* store only by its statements.
RetriesAreStoreSteps == [][plan = "retry" => UNCHANGED storeVars \/ Next]_<<vars, plan>>

=============================================================================
