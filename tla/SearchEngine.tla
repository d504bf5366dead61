---------------------------- MODULE SearchEngine ----------------------------
(***************************************************************************)
(* The base class of the engines: SearchEngine::search() calls initialize()*)
(* once and then step() until a step returns something else than           *)
(* IN_PROGRESS or the timer has expired, which it only looks at after a    *)
(* step.  An engine extends this module with its own initialize and step.  *)
(***************************************************************************)
EXTENDS SearchSpace, Evaluation

CONSTANT Bound      \* the option bound: plans have to be cheaper than this

ASSUME BoundAssumption == Bound \in Nat

VARIABLES
  search_status,    \* SearchEngine::status, "INITIALIZE" before initialize()
  solution          \* the goal state whose traced path set_plan() was given

enginevars == <<search_status, solution>>

SearchStatus ==
  {"INITIALIZE", "IN_PROGRESS", "SOLVED", "FAILED", "UNSOLVABLE", "TIMEOUT"}

EngineTypeOK ==
  /\ search_status \in SearchStatus
  /\ solution \in States \union {NoState}

EngineInit ==
  /\ search_status = "INITIALIZE"
  /\ solution = NoState

\* The end of one iteration of the loop in search(): the result of step() is
\* overwritten, even SOLVED, when the timer has expired meanwhile.
StepReturns(result) == search_status' \in {result, "TIMEOUT"}

\* check_goal_and_set_plan(n), when it finds n to be a goal state.
IsGoal(n) == n \in GoalStates
SetPlan(n) == solution' = n

Finished == search_status \in {"SOLVED", "FAILED", "UNSOLVABLE", "TIMEOUT"}

FoundPlan == TracePath(solution)

-----------------------------------------------------------------------------

\* The real cost of the plan that an engine reports is below the bound that it
\* was given (the bound is exclusive), whatever was reopened after its nodes
\* were tested against the bound.
PlanWithinBound ==
  solution # NoState => PlanCost(FoundPlan) < Bound

\* With real costs, every opened node but the initial one has been reached for
\* less than the bound, and its real_g covers the real cost of its last
\* operator on top of the present real_g of its parent.  The sum of these
\* inequalities along the parent pointers is PlanWithinBound.
RealCostsBelowBound ==
  CostType = "NORMAL" =>
    \A n \in States : Reached(n) /\ n # InitialState =>
      /\ real_g[n] < Bound
      /\ real_g[n] >= real_g[parent_state_id[n]] + Cost[creating_operator[n]]

\* The search comes to an end, whatever the order of expansions and whatever
\* the evaluators answer, without the help of the timer.
Termination == <>Finished

=============================================================================
