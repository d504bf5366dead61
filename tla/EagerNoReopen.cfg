CONSTANTS
  States <- ReopenStates
  Operators <- MCOperators
  Transitions <- ReopenTransitions
  Cost <- MCCost
  InitialState = 1
  GoalStates = {5}
  CostType = "NORMAL"
  NoState = 0
  Infinity = 1000000
  NoOperator = "none"
  Bound = 1000000
  ReopenClosed = FALSE
  LazyEvaluator = FALSE
  PathDependent = FALSE
  FEvaluator = FALSE
  Pruning = FALSE
  Estimates <- MCAnything
  GWeight = 1
  HWeight = 1
SPECIFICATION Spec
INVARIANTS
  ParentsAcyclic
  TracedPlansExecute
