CONSTANTS
  States <- MCStates
  Operators <- MCOperators
  Transitions <- MCTransitions
  Cost <- MCCost
  InitialState = 1
  GoalStates = {5}
  CostType = "NORMAL"
  NoState = 0
  Infinity = 1000000
  NoOperator = NoOperator
  Bound = 6
  PathDependent = TRUE
  Estimates <- MCEstimates
  GWeight = 0
  HWeight = 1
  Configs <- MCConfigs
  SinglePlan = FALSE
  FactsOf <- MCFactsOf
  EffectFacts <- MCEffectFacts
  Width = 2
  PruneByPreferred = FALSE
SPECIFICATION Spec
INVARIANTS
  BestPlan
  FailureHasReason
  ExploredCompletely
  FailedPhaseIsExhausted
  ShortestPaths
  NovelStatesAreNew
  PhasesAreSeparate
PROPERTIES
  Termination
