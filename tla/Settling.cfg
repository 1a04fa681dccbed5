SPECIFICATION FairSettlingSpec
CONSTANTS
  nodeA = nodeA
  nodeB = nodeB
  t1 = t1
  t2 = t2
  Activations <- Two
  Steps = {"a", "b"}
  StepOf <- TwoStepOf
  Deps <- ChainDeps
  NoFailure = NoFailure
  Failures <- Codes
  AutoLimit = 2
  ManualLimit = 2
  MaxGen = 1
  MaxPolls = 1
  MaxCrashes = 0
  Cancellable = FALSE
  Overdue = FALSE
  SlowStarts = FALSE
  FlakyChecks = FALSE
  GivesUp = FALSE
  TerminalStep = "a"
  Turns = {t1, t2}
INVARIANTS
  EndedMeansReconciled
PROPERTIES
  RunSettles
CHECK_DEADLOCK FALSE
