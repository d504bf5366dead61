---------------------------- MODULE PlanningTask ----------------------------
(***************************************************************************)
(* The task every search engine works on, as the engines see it through    *)
(* TaskProxy, StateRegistry::get_successor_state and the successor         *)
(* generator: a labelled transition system with real operator costs, and   *)
(* the cost type that an engine adjusts them with.                         *)
(*                                                                         *)
(* States are the registered states; the packed values inside them are the *)
(* business of module StateRegistry.  A triple <<s, o, t>> of Transitions  *)
(* says that o is applicable in s and leads to t.                          *)
(***************************************************************************)
EXTENDS Integers, FiniteSets

CONSTANTS
  States,         \* the states of the task
  Operators,      \* its operators; axioms are compiled into the transitions
  Transitions,    \* the applicable operators and where they lead
  Cost,           \* OperatorProxy::get_cost
  InitialState,
  GoalStates,
  CostType,       \* the option cost_type of a search engine
  NoState,        \* StateID::no_state
  NoOperator,     \* OperatorID::no_operator
  Infinity        \* numeric_limits<int>::max(), the default of the option bound;
                  \* here also the distance of an unreachable goal

ASSUME TaskAssumption ==
  /\ InitialState \in States
  /\ NoState \notin States
  /\ NoOperator \notin Operators
  /\ Transitions \subseteq States \X Operators \X States
  /\ GoalStates \subseteq States
  /\ CostType \in {"NORMAL", "ONE", "PLUSONE"}

ASSUME InfinityAssumption == Infinity \in Nat /\ Infinity > 0

ASSUME CostAssumption == Cost \in [Operators -> Nat]

\* One operator leads from a state to at most one state.
ASSUME DeterminismAssumption ==
  \A x, y \in Transitions : x[1] = y[1] /\ x[2] = y[2] => x[3] = y[3]

IsUnitCost == \A o \in Operators : Cost[o] = 1

AdjustedCost(o) ==
  CASE CostType = "NORMAL"  -> Cost[o]
    [] CostType = "ONE"     -> 1
    [] CostType = "PLUSONE" -> IF IsUnitCost THEN 1 ELSE Cost[o] + 1

\* The pairs <<o, t>> of an operator applicable in s and its successor state.
Successors(s) == {x \in Operators \X States : <<s, x[1], x[2]>> \in Transitions}

-----------------------------------------------------------------------------
(***************************************************************************)
(* Reference definitions, which the properties compare the engines with:   *)
(* the least cost c of leading from a state to a goal state through the    *)
(* states of a set, found among the paths of at most that many operators.  *)
(***************************************************************************)

GoalDistance(c, through) ==
  LET paths[k \in 0..Cardinality(through)] ==   \* <<s, cost of a path to a goal>>
        IF k = 0 THEN (GoalStates \intersect through) \X {0}
        ELSE LET shorter == paths[k-1]
             IN  shorter \union
                   {<<z[1][1], c[z[1][2]] + z[2][2]>> :
                      z \in {y \in Transitions \X shorter :
                               y[1][3] = y[2][1] /\ y[1][1] \in through}}
      Least(S) == CHOOSE m \in S : \A x \in S : m <= x
      cost == paths[Cardinality(through)]
  IN  [s \in States |-> Least({x[2] : x \in {y \in cost : y[1] = s}} \union {Infinity})]

RealGoalDistance(through) == GoalDistance(Cost, through)

AdjustedGoalDistance == GoalDistance([o \in Operators |-> AdjustedCost(o)], States)

=============================================================================
