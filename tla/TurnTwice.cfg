SPECIFICATION TurnSpec
CONSTANTS
  nodeA = nodeA
  nodeB = nodeB
  t1 = t1
  t2 = t2
  Activations <- One
  Steps = {"a"}
  StepOf <- OneStepOf
  Deps <- OneDeps
  NoFailure = NoFailure
  Failures <- Codes
  AutoLimit = 2
  ManualLimit = 3
  MaxGen = 2
  MaxPolls = 1
  MaxCrashes = 0
  Cancellable = FALSE
  Overdue = FALSE
  SlowStarts = FALSE
  FlakyChecks = TRUE
  GivesUp = FALSE
  TerminalStep = "a"
  Turns = {t1, t2}
SYMMETRY TurnSymmetry
INVARIANTS
  StartedOnce
CHECK_DEADLOCK FALSE
