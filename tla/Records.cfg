SPECIFICATION RecordsSpec
CONSTANTS
  a1 = a1
  a2 = a2
  d1 = d1
  d2 = d2
  Activations <- MCActivations
  Steps <- MCSteps
  StepOf <- MCStepOf
  AutoLimit = 2
  ManualLimit = 2
  MaxGen = 2
  NoFailure = NoFailure
  Failures = {f}
  Jobs = {j1}
  None = None
  MaxGeneration = 2
  MaxFaults = 1
  MaxCrashes = 1
  Databases <- TwoDatabases
  Sidecars = {w1}
  Retention = 1
  ListLimit = 3
  MaxEpoch = 3
  MaxBackups = 2
  MaxIoFaults = 2
  MaxStops = 1
  Nodes = {n1}
  Kinds <- AllKinds
  Test = Test
  Nobody = Nobody
  MaxTries = 2
  MaxTurns = 2
  MaxMishaps = 1
  Callbacks = {a1, a2}
  Executions = {n1}
  Editors = {a1, a2}
  NoSecret = NoSecret
  MaxSecrets = 3
  MaxStates = 2
  MaxEdits = 2
  Tabs = {a1, a2}
  Requests = {r1}
  FreshFor = 1
  SessionTtl = 3
  TokenLives = {2}
  MaxClock = 2
  MaxChanges = 1
SYMMETRY RecordsSymmetry
INVARIANTS
  RetryHistory
  LaunchColumnsAgree
  OutcomesAreBacked
  JobRunsOnce
  OriginalsRecoverable
  RestoredIsExact
  
  AutoRetryIsSafe
  
  SessionIsOwn
  AccessIsRecent
PROPERTIES
  HistoryKept
  
  
  NoAuthorizationReturns
  RevokedIsFrozen
CHECK_DEADLOCK FALSE
