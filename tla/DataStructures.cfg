CONSTANTS
  Evaluators = {"ff", "lm"}
  Insertions <- MCInsertions
  Infinity = 2
  Reliable = {"ff"}
  AlternationLists <- MCAlternationLists
  BoostAmount = 2
  MaxEntries = 4
  MaxBoosts = 1
  Objects = {o1, o2}
  Addresses = {a1, a2}
  Blocks = {b1, b2, b3}
  MaxIds = 2
  Entries = {Default, other}
  Default = Default
  Null = Null
  Variables <- MCVariables
  Values <- MCValues
  Operators <- MCOperators
  Precondition <- MCPrecondition
  Effects <- MCEffects
  InitialValues <- MCInitialValues
  HasAxioms = FALSE
  EvaluateAxioms <- NoAxioms
  EngineClient = TRUE
  MaxStates = 4
  MaxHandles = 3
  Unused = Unused
SPECIFICATION StructureSpec
INVARIANTS
  BucketsConsistent
  NoEntryLost
  ReadsAreLatest
  PointersValid
  NoDuplicates
  HandlesReadTheirState
PROPERTIES
  RegisteredForever
CHECK_DEADLOCK FALSE
