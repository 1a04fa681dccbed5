SPECIFICATION TurnSpec
CONSTANTS
  nodeA = nodeA
  nodeB = nodeB
  t1 = t1
  t2 = t2
  Activations <- One
  Steps = {"a"}
  StepOf <- OneStepOf
  Deps <- OneDeps
  NoFailure = NoFailure
  Failures <- Codes
  AutoLimit = 2
  ManualLimit = 2
  MaxGen = 1
  MaxPolls = 1
  MaxCrashes = 0
  Cancellable = FALSE
  Overdue = FALSE
  SlowStarts = FALSE
  FlakyChecks = TRUE
  GivesUp = FALSE
  TerminalStep = "a"
  Turns = {t1}
PROPERTIES
  KnownTaskNotRecreated
CHECK_DEADLOCK FALSE
