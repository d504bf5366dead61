CONSTANTS
  States <- BoundStates
  Operators <- MCOperators
  Transitions <- BoundTransitions
  Cost <- MCCost
  InitialState = 1
  GoalStates = {6}
  CostType = "ONE"
  NoState = 0
  Infinity = 1000000
  NoOperator = "none"
  Bound = 4
  ReopenClosed = TRUE
  LazyEvaluator = FALSE
  PathDependent = FALSE
  FEvaluator = TRUE
  Pruning = FALSE
  Estimates <- MCBlind
  GWeight = 0
  HWeight = 0
SPECIFICATION Spec
INVARIANTS
  PlanWithinBound
