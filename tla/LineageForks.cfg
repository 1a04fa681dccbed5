SPECIFICATION GraphSpec
CONSTANTS
  MaxNodes = 1
  Samples <- OneGraph
  MaxStepExecutions = 8
INVARIANTS
  LineageIsOrdered
CHECK_DEADLOCK FALSE
