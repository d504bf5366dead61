CONSTANTS
  EngineConfigs <- MCConfigs
  Bound = 8
  Options <- MCOptions
  InitialIsGoal = FALSE
  NoPlan = NoPlan
SPECIFICATION Spec
PROPERTIES
  ImplementsAnytime
  NoFutileRepeat
  Termination
