CONSTANTS
  States <- BoundStates
  Operators <- MCOperators
  Transitions <- BoundTransitions
  Cost <- MCBoundCost
  InitialState = 1
  GoalStates = {6}
  CostType = "NORMAL"
  NoState = 0
  Infinity = 1000000
  NoOperator = "none"
  Bound = 3
  ReopenClosed = TRUE
  LazyEvaluator = FALSE
  PathDependent = TRUE
  FEvaluator = TRUE
  Pruning = FALSE
  Estimates <- MCEstimates
  GWeight = 0
  HWeight = 0
SPECIFICATION Spec
INVARIANTS
  PlanWithinBound
  FailureProvesUnsolvable
