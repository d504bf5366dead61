CONSTANTS
  States <- ReopenStates
  Operators <- MCOperators
  Transitions <- ReopenTransitions
  Cost <- MCCost
  InitialState = 1
  GoalStates = {5}
  CostType = "NORMAL"
  NoState = 0
  Infinity = 1000000
  NoOperator = "none"
  Bound = 1000000
  ReopenClosed = TRUE
  LazyEvaluator = TRUE
  PathDependent = TRUE
  FEvaluator = TRUE
  Pruning = FALSE
  Estimates <- MCAdmissible
  GWeight = 1
  HWeight = 1
SPECIFICATION Spec
INVARIANTS
  OptimalPlan
  ClosedNodesExpanded
  OpenNodesQueued
PROPERTIES
  Termination
