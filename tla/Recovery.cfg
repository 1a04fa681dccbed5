SPECIFICATION FairRecoverySpec
CONSTANTS
  nodeA = nodeA
  l1 = l1
  l2 = l2
  StepOf <- MCStepOf
  NoFailure = NoFailure
  Failures <- MCFailures
  Activations = {nodeA}
  Steps = {"a"}
  AutoLimit = 1
  ManualLimit = 1
  MaxGen = 1
  MaxFaults = 1
  LostReplies = TRUE
  Cancellable = TRUE
  TerminalStep = "a"
  Launchers = {l1, l2}
  Targets = {"runner"}
  Queries = {"q1", "q2"}
  MaxPolls = 2
  MaxTroubles = 1
INVARIANTS
  CurrentMeansAllAsked
PROPERTIES
  LaunchRecovers
  FooterConverges
CHECK_DEADLOCK FALSE
