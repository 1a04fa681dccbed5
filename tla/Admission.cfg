SPECIFICATION AdmissionSpec
CONSTANTS
  nodeA = nodeA
  l1 = l1
  l2 = l2
  StepOf <- MCStepOf
  NoFailure = NoFailure
  Failures <- MCFailures
  Activations = {nodeA}
  Steps = {"a"}
  AutoLimit = 1
  ManualLimit = 2
  MaxGen = 2
  MaxFaults = 1
  LostReplies = TRUE
  Cancellable = FALSE
  TerminalStep = "a"
  Launchers = {l1, l2}
  RequestIds = {r1, r2}
  Admins = {l1, l2}
  Hosts = {h1, h2}
  NoProfile = NoProfile
  NoSecret = NoSecret
  MaxSecrets = 3
  MaxProfileShas = 3
  MaxProfileFaults = 1
  Changes <- MainChanges
  MaxMain = 4
  MaxOutages = 1
  FirstChanges <- RequestChanges
  LaterChanges <- LaterPushes
  MaxHeads = 2
  Runs = {l1, l2}
  MaxEdits = 3
  MaxFailures = 1
SYMMETRY LauncherSymmetry
INVARIANTS
  AttachedInstanceExists
  KeyStaysAtItsHost
  
  AutoMergeIsHarmless
  
PROPERTIES
  ImplementsStore
  
CHECK_DEADLOCK FALSE
