SPECIFICATION PlansSpec
CONSTANTS
  nodeA = nodeA
  nodeB = nodeB
  t1 = t1
  t2 = t2
  Activations <- One
  Steps = {"a"}
  StepOf <- OneStepOf
  Deps <- OneDeps
  NoFailure = NoFailure
  Failures <- Codes
  AutoLimit = 1
  ManualLimit = 2
  MaxGen = 2
  MaxPolls = 0
  MaxCrashes = 1
  Cancellable = FALSE
  Overdue = TRUE
  SlowStarts = TRUE
  FlakyChecks = TRUE
  GivesUp = TRUE
  TerminalStep = "a"
  Turns = {t1, t2}
SYMMETRY TurnSymmetry
INVARIANTS
  CancelledMeansReconciled
  FailureIsBacked
PROPERTIES
  StartsAreClaimed
  RetriesAreStoreSteps
CHECK_DEADLOCK FALSE
