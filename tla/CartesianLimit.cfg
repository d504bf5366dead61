CONSTANTS
  TaskStates = {1, 2, 3, 4, 5, 6}
  Edges <- MCEdges
  StartState = 1
  EndStates = {6}
  NumLandmarks = 4
  TrueIn <- MCTrueIn
  Orders <- MCOrders
  GreedyNecessary <- MCGreedyNecessary
  TrueInGoal = {2}
  Nothing = 0
  CVars = {1, 2, 3}
  CDomain <- MCDomain
  CInit <- MCInit
  COperators = {"walk", "back", "take", "open", "drop", "enter"}
  CPre <- MCPre
  CEff <- MCEff
  CCost <- MCCost
  CGoal <- MCGoal
  Undefined = Undefined
  Infinity = 9999
  Dirty <- MCDirty
  EarlyTimeout = FALSE
  Scale = 16
  Decompositions <- MCDecompositions
  GeneralCosts = {TRUE, FALSE}
  MaxStates = 3
  MaxTransitions = 100
SPECIFICATION Spec
INVARIANTS
  SumIsAdmissible
CHECK_DEADLOCK FALSE
