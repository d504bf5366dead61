CONSTANTS
  PlanCosts <- MCPlanCosts
  GeneralCost = TRUE
  InitialStateIsGoal = FALSE
  Portfolios <- MCPortfolios
  PortfolioBound = 4
  NoConfig = NoConfig
  Incomplete = Incomplete
  NoFile = NoFile
SPECIFICATION Spec
INVARIANTS
  PlansOnDisk
  
PROPERTIES
  BoundedRunsAreAccepted
  PlansAreKept
  Termination
