CONSTANTS
  States <- BoundStates
  Operators <- MCOperators
  Transitions <- BoundTransitions
  Cost <- MCCost
  InitialState = 1
  GoalStates = {6}
  CostType = "NORMAL"
  NoState = 0
  Infinity = 1000000
  NoOperator = "none"
  Bound = 4
  ReopenClosed = TRUE
  PathDependent = TRUE
  Estimates <- MCEstimates
  GWeight = 0
  HWeight = 1
SPECIFICATION Spec
INVARIANTS
  NoEdgeLost
  FailureProvesUnsolvable
PROPERTIES
  SSSpec
  Termination
