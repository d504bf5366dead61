--------------------------- MODULE CostSaturation ---------------------------
(***************************************************************************)
(* Additive Cartesian abstractions: one abstraction is refined for every   *)
(* subtask under the costs that the earlier ones left, and takes the       *)
(* operator costs that it needs for its distances.  The heuristic value of *)
(* a state is the sum of its distances in all abstractions.                *)
(***************************************************************************)
EXTENDS Cegar

CONSTANTS
  CCost,                 \* of every operator
  CGoal,                 \* a partial assignment
  Decompositions,        \* sequences of subgoals
  GeneralCosts,          \* a set of Booleans
  MaxStates,
  MaxTransitions

\* What a subtask may ask for: all goals, or one fact.  The fact is a goal or a
\* landmark, without which the delete relaxation does not reach some goal.
\* remove_initial_state_facts leaves out a fact that is true from the start.
Subgoals ==
  {goal \in UNION {[vars -> UNION Range(CDomain)] : vars \in (SUBSET CVars) \ {{}}} :
     /\ \A v \in DOMAIN goal : goal[v] \in CDomain[v]
     /\ IF Cardinality(DOMAIN goal) = 1
        THEN \A f \in Facts(goal) :
               /\ f \notin Facts(CInit)
               /\ \E fact \in Facts(CGoal) : fact = f \/ fact \notin PossibleBefore(f)
        ELSE goal = CGoal}

ASSUME SubtaskAssumption ==
  /\ CCost \in [COperators -> 0..Infinity-1]
  /\ DOMAIN CGoal \subseteq CVars /\ \A v \in DOMAIN CGoal : CGoal[v] \in CDomain[v]
  /\ \A d \in Decompositions : d \in Seq(Subgoals)

VARIABLES
  use_general_costs,
  subtasks,              \* the subgoals without an abstraction
  remaining_costs,
  heuristic_functions,   \* of every concrete state: its distance in the abstraction
  num_states,
  num_non_looping_transitions

saturationvars == <<use_general_costs, subtasks, remaining_costs, heuristic_functions,
                    num_states, num_non_looping_transitions>>

SaturationInit ==
  /\ use_general_costs \in GeneralCosts
  /\ subtasks \in Decompositions
  /\ remaining_costs = CCost
  /\ heuristic_functions = <<>>
  /\ num_states = 0 /\ num_non_looping_transitions = 0
  /\ AbstractionInit /\ subgoal = <<>>
  /\ phase = "next" /\ todo = <<>>
  /\ operator_costs = CCost /\ budget = [states |-> 0, transitions |-> 0]
  /\ goal_distances = <<>> /\ shortest_path = <<>>
  /\ candidate_queue = {} /\ dirty_states = <<>> /\ open_queue = {}

\* The rest of the limits is divided by the number of subtasks that are left.
StartSubtask ==
  /\ phase = "next" /\ subtasks # <<>>
  /\ StartRefining(Head(subtasks), remaining_costs,
       [states |-> Max({1, (MaxStates - num_states) \div Len(subtasks)}),
        transitions |->
          Max({1, (MaxTransitions - num_non_looping_transitions) \div Len(subtasks)})])
  /\ subtasks' = Tail(subtasks)
  /\ UNCHANGED <<use_general_costs, remaining_costs, heuristic_functions,
                 num_states, num_non_looping_transitions>>

\* Neither states that cannot be reached nor dead ends matter: g and h are the
\* distances from the initial state and to the goal.
Matters(id, g, h) == g[id] # Infinity /\ h[id] # Infinity

Needs(o, g, h) ==
  {h[t[1]] - h[t[3]] :
     t \in {t \in transitions : t[2] = o /\ Matters(t[1], g, h) /\ h[t[3]] # Infinity}}

\* With general costs, a loop must not become a negative cycle.
HasLoop(o, g, h) == \E id \in DOMAIN states : <<id, o>> \in loops /\ Matters(id, g, h)

SaturatedCost(o, g, h) ==
  LET lowest == IF ~use_general_costs \/ HasLoop(o, g, h) THEN 0 ELSE -Infinity
  IN Max({lowest} \union Needs(o, g, h))

\* Fault: costs that are only left over once are given to every abstraction.
ReducedCostNever(o, g, h) == remaining_costs[o]

\* reduce_remaining_costs
ReducedCost(o, g, h) ==
  LET remaining == remaining_costs[o]
      saturated == SaturatedCost(o, g, h)
  IN IF remaining = Infinity \/ saturated = -Infinity THEN Infinity
     ELSE remaining - saturated

IsDeadEnd(functions, s) == \E i \in DOMAIN functions : functions[i][s] = Infinity

\* A limit, or time or memory, may end the construction after any subtask.
FinishSubtask ==
  /\ phase = "refined"
  /\ LET g == InitDistances
         h == GoalDistances
     IN /\ heuristic_functions' =
             Append(heuristic_functions, [s \in CStates |-> h[AbstractStateOf(s)]])
        /\ remaining_costs' = [o \in COperators |-> ReducedCost(o, g, h)]
  /\ num_states' = num_states + NumStates
  /\ num_non_looping_transitions' = num_non_looping_transitions + num_non_loops
  /\ \/ phase' = "ready"
     \/ /\ num_states' < MaxStates /\ num_non_looping_transitions' < MaxTransitions
        /\ ~IsDeadEnd(heuristic_functions', CInit)
        /\ phase' = IF subtasks = <<>> THEN "ready" ELSE "next"
  /\ UNCHANGED <<abstractionvars, todo, operator_costs, budget, treevars,
                 use_general_costs, subtasks>>

SaturationStep ==
  \/ StartSubtask
  \/ CegarStep /\ UNCHANGED saturationvars
  \/ FinishSubtask

SaturationSpec == SaturationInit /\ [][SaturationStep]_<<cegarvars, saturationvars>>

-----------------------------------------------------------------------------
(* Correctness.                                                            *)

\* compute_heuristic
Heuristic(s) ==
  IF IsDeadEnd(heuristic_functions, s) THEN Infinity
  ELSE LET sum[n \in 0..Len(heuristic_functions)] ==
             IF n = 0 THEN 0 ELSE sum[n-1] + heuristic_functions[n][s]
       IN sum[Len(heuristic_functions)]

ConcreteEdges ==
  {<<x[1], x[2], Successor(x[2], x[1])>>
     : x \in {x \in CStates \X COperators : Applicable(x[2], x[1])}}

\* Pairs of a state and the cost of a plan for it.  The cheapest plan of a state
\* has fewer steps than there are states.
PlanCosts ==
  LET edges == ConcreteEdges
      plans[n \in 0..Cardinality(CStates)] ==
        IF n = 0 THEN {s \in CStates : \A v \in DOMAIN CGoal : s[v] = CGoal[v]} \X {0}
        ELSE LET p == plans[n-1]
             IN p \union {<<x[1][1], x[2][2] + CCost[x[1][2]]>>
                            : x \in {x \in edges \X p : x[1][3] = x[2][1]}}
  IN plans[Cardinality(CStates)]

ReachableStates ==
  LET edges == ConcreteEdges
      reached[n \in 0..Cardinality(CStates)] ==
        IF n = 0 THEN {CInit}
        ELSE LET r == reached[n-1]
             IN r \union {e[3] : e \in {e \in edges : e[1] \in r}}
  IN reached[Cardinality(CStates)]

\* However the operator costs are divided among the abstractions, the sum of the
\* distances of a reachable state is never above the cost of its cheapest plan,
\* no solvable state is called a dead end, and no cost that is left is negative.
SumIsAdmissible ==
  /\ phase \in {"next", "ready"} =>
       LET reachable == ReachableStates
       IN \A p \in PlanCosts : p[1] \in reachable => Heuristic(p[1]) <= p[2]
  /\ \A o \in COperators : remaining_costs[o] >= 0
=============================================================================
