SPECIFICATION WorkSpec
CONSTANTS
  k1 = k1
  k2 = k2
  k3 = k3
  o1 = o1
  o2 = o2
  urlA = urlA
  urlB = urlB
  Tasks = {k1, k2, k3}
  BranchOf <- TaskBranch
  Publishers = {o1, o2}
  Missing = Missing
  MaxTaskEdits = 2
  MaxMishaps = 2
  Operators = {o1, o2}
  Endpoints = {urlA, urlB}
  NoServer = NoServer
  NoSecret = NoSecret
  MaxSecrets = 2
  MaxRevisions = 3
  MaxMcpFaults = 1
  MaxNodes = 5
  Samples <- LargerGraphs
  MaxStepExecutions = 8
SYMMETRY WorkSymmetry
INVARIANTS
  InputsAreAvailable
  
  PublishedIsOnBranch
  
  TokenStaysAtItsEndpoint
CHECK_DEADLOCK FALSE
