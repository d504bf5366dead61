------------------------------- MODULE Cegar -------------------------------
(***************************************************************************)
(* Counterexample-guided refinement of a Cartesian abstraction for one     *)
(* subtask, with the abstract goal distances and a shortest path tree that *)
(* are repaired after every split (search_strategy=incremental).           *)
(*                                                                         *)
(* Left open: which of several flawed variables is split, which of several *)
(* equally good transitions enters the tree, and when time or memory runs  *)
(* out.                                                                    *)
(***************************************************************************)
EXTENDS CartesianAbstraction, SequencesExt

CONSTANTS
  Infinity,              \* above every distance
  Dirty,                 \* a negative number
  EarlyTimeout,          \* whether time or memory may run out in the separation
  Scale                  \* bound: 2^32 in the code, above the length of a path here

ASSUME DistanceAssumption ==
  Infinity \in Nat /\ Infinity > 0 /\ Dirty \in Int /\ Dirty < 0 /\ Scale \in Nat /\ Scale > 0

VARIABLES
  phase,
  todo,                  \* variables or goal facts that still have to be separated
  operator_costs,        \* those of the subtask
  budget,                \* numbers of states and transitions at which to stop
  goal_distances,        \* in 64 bits, or Dirty
  shortest_path,         \* of every id: <<operator, target>> or Undefined
  candidate_queue,       \* ids that may have lost their shortest path
  dirty_states,
  open_queue             \* ids, in the order of their goal distances

treevars == <<goal_distances, shortest_path, candidate_queue, dirty_states, open_queue>>
cegarvars == <<abstractionvars, phase, todo, operator_costs, budget, treevars>>

-----------------------------------------------------------------------------
(* Costs and distances.                                                    *)

AddCosts(a, b) == IF Infinity \in {a, b} THEN Infinity ELSE a + b

HasZeroCosts == \E o \in COperators : operator_costs[o] = 0

\* With operators of cost 0, costs count in the upper half and steps in the lower.
Cost64(o) ==
  LET cost == operator_costs[o]
  IN IF cost = Infinity \/ ~HasZeroCosts THEN cost
     ELSE IF cost = 0 THEN 1 ELSE cost * Scale

Cost32(distance) ==
  IF distance = Infinity \/ ~HasZeroCosts THEN distance ELSE distance \div Scale

\* compute_distances: from the ids of start along the edges.
DistancesFrom(start, edges) ==
  LET distance[n \in 0..NumStates] ==
        IF n = 0 THEN [id \in DOMAIN states |-> IF id \in start THEN 0 ELSE Infinity]
        ELSE LET d == distance[n-1]
             IN [id \in DOMAIN states |->
                  Min({d[id]} \union {AddCosts(d[e[1]], operator_costs[e[2]])
                                       : e \in {e \in edges : e[3] = id}})]
  IN distance[NumStates]

InitDistances == DistancesFrom({InitId}, transitions)
GoalDistances == DistancesFrom(goals, {<<t[3], t[2], t[1]>> : t \in transitions})

-----------------------------------------------------------------------------
(* Separating the goal.                                                    *)

Facts(s) == {<<v, s[v]>> : v \in DOMAIN s}

\* Fault: a single round over the operators.
PossibleInOneRound(goal) ==
  Facts(CInit) \union {goal} \union
  UNION {Facts(CEff[o]) : o \in {o \in COperators : Facts(CPre[o]) \subseteq Facts(CInit)}}

\* get_relaxed_possible_before: what the delete relaxation reaches without an
\* operator that achieves the goal, and the goal.
PossibleBefore(goal) ==
  LET fewer == {o \in COperators : goal \notin Facts(CEff[o])}
      reached[n \in 0..Cardinality(COperators)] ==
        IF n = 0 THEN Facts(CInit)
        ELSE LET r == reached[n-1]
             IN r \union UNION {Facts(CEff[o]) : o \in {o \in fewer : Facts(CPre[o]) \subseteq r}}
  IN reached[Cardinality(COperators)] \union {goal}

MayKeepRefining ==
  /\ NumStates < budget.states
  /\ num_non_loops < budget.transitions

StartRefining(goal, costs, limits) ==
  /\ InitializeTrivialAbstraction(goal)
  /\ operator_costs' = costs
  /\ budget' = limits
  /\ IF Cardinality(DOMAIN goal) = 1
     THEN phase' = "separate" /\ todo' = [i \in 1..Cardinality(CVars) |-> i]
     ELSE phase' = "split_goals" /\ todo' = <<InitId>> \o Enumeration(DOMAIN goal)
  /\ goal_distances' = <<>> /\ shortest_path' = <<>>
  /\ candidate_queue' = {} /\ dirty_states' = <<>> /\ open_queue' = {}

GoalFact == CHOOSE f \in Facts(subgoal) : TRUE

\* separate_facts_unreachable_before_goal, one variable
SeparateUnreachable ==
  /\ phase = "separate" /\ todo # <<>> /\ MayKeepRefining
  /\ LET var == Head(todo)
         unreachable == {d \in CDomain[var] : <<var, d>> \notin PossibleBefore(GoalFact)}
     IN IF unreachable = {} THEN UNCHANGED abstractionvars
        ELSE Refine(InitId, var, unreachable, goals)
  /\ todo' = Tail(todo)
  /\ UNCHANGED <<phase, operator_costs, budget, treevars>>

\* ShortestPaths::recompute starts at the goals.
Recompute(ids, goal_ids) ==
  /\ goal_distances' = [id \in ids |-> IF id \in goal_ids THEN 0 ELSE Infinity]
  /\ shortest_path' = [id \in ids |-> Undefined]
  /\ open_queue' = goal_ids
  /\ UNCHANGED <<candidate_queue, dirty_states>>

\* A limit may cut the separation of variables short, but not that of the goal.
SplitOffGoal ==
  /\ phase = "separate"
  /\ todo = <<>> \/ ~MayKeepRefining \/ EarlyTimeout
  /\ Refine(InitId, GoalFact[1], {GoalFact[2]}, DOMAIN states)
  /\ Recompute(DOMAIN states', goals')
  /\ phase' = "dijkstra" /\ todo' = <<>>
  /\ UNCHANGED <<operator_costs, budget>>

\* One of several goal facts; the first of todo is the current goal state.
SplitNextGoal ==
  /\ phase = "split_goals"
  /\ LET current == Head(todo)
         var == todo[2]
         wanted == IF KeepInitial(current, {subgoal[var]}, var) THEN current ELSE NumStates
         rest == Tail(Tail(todo))
     IN /\ Refine(current, var, {subgoal[var]}, goals)
        /\ IF rest = <<>>
           THEN Recompute(DOMAIN states', goals') /\ phase' = "dijkstra" /\ todo' = <<>>
           ELSE todo' = <<wanted>> \o rest /\ UNCHANGED <<phase, treevars>>
  /\ UNCHANGED <<operator_costs, budget>>

-----------------------------------------------------------------------------
(* The abstract solution and its flaw.                                     *)

\* Every function that picks one of the options for each id.
ChoicesOf(options) ==
  LET upto[n \in 0..Cardinality(DOMAIN options)] ==
        IF n = 0 THEN {<<>>}
        ELSE LET shorter == upto[n-1]
             IN {[id \in 0..n-1 |-> IF id = n-1 THEN x ELSE f[id]]
                   : x \in options[n-1], f \in shorter}
  IN upto[Cardinality(DOMAIN options)]

Deviates(p) ==
  LET step == shortest_path[p.id]
  IN \/ ~Applicable(step[1], p.concrete)
     \/ ~Includes(states[step[2]].set, Successor(step[1], p.concrete))

\* extract_solution and the walk of find_flaw along it: the last abstract and
\* concrete state.
LastOfTrace ==
  LET walk[n \in 0..NumStates] ==
        IF n = 0 THEN [id |-> InitId, concrete |-> CInit]
        ELSE LET p == walk[n-1]
             IN IF p.id \in goals \/ shortest_path[p.id] = Undefined \/ Deviates(p) THEN p
                ELSE LET step == shortest_path[p.id]
                     IN [id |-> step[2], concrete |-> Successor(step[1], p.concrete)]
  IN walk[NumStates]

CartesianSet(facts) ==
  [v \in CVars |-> IF v \in DOMAIN facts THEN {facts[v]} ELSE CDomain[v]]

Regress(set, o) ==
  [v \in CVars |-> IF v \in DOMAIN CPre[o] THEN {CPre[o][v]}
                   ELSE IF v \in DOMAIN CEff[o] THEN CDomain[v] ELSE set[v]]

IsConcreteSolution(p) == p.id \in goals /\ Includes(CartesianSet(subgoal), p.concrete)

Desired(p) ==
  IF p.id \in goals THEN CartesianSet(subgoal)
  ELSE LET step == shortest_path[p.id]
       IN IF ~Applicable(step[1], p.concrete) THEN CartesianSet(CPre[step[1]])
          ELSE Regress(states[step[2]].set, step[1])

PossibleSplits(p) ==
  {[var |-> v, wanted |-> states[p.id].set[v] \intersect Desired(p)[v]]
     : v \in {v \in CVars : p.concrete[v] \notin Desired(p)[v]}}

\* Tree edges to v become edges of the same cost to one of its parts, to the
\* part with the new id if there are any.
NewParents(u, v, new) ==
  LET same == {t \in transitions' :
                 t[1] = u /\ t[3] \in {v, new} /\ Cost64(t[2]) = Cost64(shortest_path[u][1])}
      toNew == {t \in same : t[3] = new}
  IN {<<t[2], t[3]>> : t \in IF toNew = {} THEN same ELSE toNew}

NewTree(v, new) ==
  ChoicesOf([u \in 0..new |->
    IF u = new THEN {Undefined}
    ELSE IF shortest_path[u] # Undefined /\ shortest_path[u][2] = v /\ NewParents(u, v, new) # {}
    THEN NewParents(u, v, new) ELSE {shortest_path[u]}])

\* One round of refinement_loop.  The new id is NumStates, either part may get it.
RefineFlaw ==
  /\ phase = "loop" /\ MayKeepRefining
  /\ goal_distances[InitId] # Infinity
  /\ ~IsConcreteSolution(LastOfTrace)
  /\ \E split \in PossibleSplits(LastOfTrace) :
       LET v == LastOfTrace.id
       IN /\ Refine(v, split.var, split.wanted, goals)
          /\ shortest_path' \in NewTree(v, NumStates)
          /\ goal_distances' =
               [id \in 0..NumStates |-> goal_distances[IF id = NumStates THEN v ELSE id]]
          /\ candidate_queue' = {v, NumStates}
  /\ phase' = "reconnect"
  /\ UNCHANGED <<todo, operator_costs, budget, dirty_states, open_queue>>

\* There is no abstract solution, or it has no flaw, or a limit is reached.
StopRefining ==
  /\ phase = "loop" /\ phase' = "refined"
  /\ UNCHANGED <<abstractionvars, todo, operator_costs, budget, treevars>>

-----------------------------------------------------------------------------
(* ShortestPaths::update_incrementally.                                    *)

Nearest(ids) == {id \in ids : \A other \in ids : goal_distances[id] <= goal_distances[other]}

Through(t) == AddCosts(goal_distances[t[3]], Cost64(t[2]))

SettledEdges(id) == {t \in transitions : t[1] = id /\ goal_distances[t[3]] # Dirty}

\* Fault: children in the tree are not looked at.
OrphansNone(id) == {}

Orphans(id) ==
  {u \in DOMAIN shortest_path \ candidate_queue :
     /\ goal_distances[u] # Dirty
     /\ shortest_path[u] # Undefined /\ shortest_path[u][2] = id}

\* Keep the distance of a candidate that has an edge on a path of this length, or
\* else make the candidate dirty and its children candidates.
Reconnect ==
  /\ phase = "reconnect"
  /\ \E id \in Nearest(candidate_queue) :
       LET asGood == {t \in SettledEdges(id) : Through(t) = goal_distances[id]}
           rest == candidate_queue \ {id}
       IN IF asGood # {}
          THEN /\ \E t \in asGood : shortest_path' = [shortest_path EXCEPT ![id] = <<t[2], t[3]>>]
               /\ candidate_queue' = rest
               /\ UNCHANGED <<goal_distances, dirty_states>>
          ELSE /\ goal_distances' = [goal_distances EXCEPT ![id] = Dirty]
               /\ shortest_path' = [shortest_path EXCEPT ![id] = Undefined]
               /\ dirty_states' = Append(dirty_states, id)
               /\ candidate_queue' = rest \union Orphans(id)
  /\ UNCHANGED <<abstractionvars, phase, todo, operator_costs, budget, open_queue>>

EndReconnecting ==
  /\ phase = "reconnect" /\ candidate_queue = {} /\ phase' = "settle"
  /\ UNCHANGED <<abstractionvars, todo, operator_costs, budget, treevars>>

\* A dirty state gets the best distance through the states that are not dirty.
SettleDirty ==
  /\ phase = "settle" /\ dirty_states # <<>>
  /\ LET id == Head(dirty_states)
         best == Min({Infinity} \union {Through(t) : t \in SettledEdges(id)})
     IN /\ goal_distances' = [goal_distances EXCEPT ![id] = best]
        /\ IF best = Infinity THEN UNCHANGED <<shortest_path, open_queue>>
           ELSE /\ \E t \in {t \in SettledEdges(id) : Through(t) = best} :
                     shortest_path' = [shortest_path EXCEPT ![id] = <<t[2], t[3]>>]
                /\ open_queue' = open_queue \union {id}
  /\ dirty_states' = Tail(dirty_states)
  /\ UNCHANGED <<abstractionvars, phase, todo, operator_costs, budget, candidate_queue>>

EndSettling ==
  /\ phase = "settle" /\ dirty_states = <<>> /\ phase' = "dijkstra"
  /\ UNCHANGED <<abstractionvars, todo, operator_costs, budget, treevars>>

\* Dijkstra's algorithm, in recompute from the goals and after a split from the
\* dirty states that were settled.
ExpandNearest ==
  /\ phase = "dijkstra"
  /\ \E id \in Nearest(open_queue) :
       LET into(u) == {t \in transitions : t[1] = u /\ t[3] = id}
           best(u) == Min({goal_distances[u]} \union {Through(t) : t \in into(u)})
           improved == {u \in DOMAIN states : best(u) < goal_distances[u]}
       IN /\ goal_distances' = [u \in DOMAIN states |-> best(u)]
          /\ shortest_path' \in ChoicesOf([u \in DOMAIN states |->
               IF u \in improved
               THEN {<<t[2], t[3]>> : t \in {t \in into(u) : Through(t) = best(u)}}
               ELSE {shortest_path[u]}])
          /\ open_queue' = (open_queue \ {id}) \union improved
  /\ UNCHANGED <<abstractionvars, phase, todo, operator_costs, budget,
                 candidate_queue, dirty_states>>

EndDijkstra ==
  /\ phase = "dijkstra" /\ open_queue = {} /\ phase' = "loop"
  /\ UNCHANGED <<abstractionvars, todo, operator_costs, budget, treevars>>

CegarStep ==
  \/ SeparateUnreachable \/ SplitOffGoal \/ SplitNextGoal
  \/ RefineFlaw \/ StopRefining
  \/ Reconnect \/ EndReconnecting
  \/ SettleDirty \/ EndSettling
  \/ ExpandNearest \/ EndDijkstra

-----------------------------------------------------------------------------
(* Correctness.                                                            *)

\* The abstract transitions that some concrete transition induces.
Induced ==
  {<<AbstractStateOf(x[1]), x[2], AbstractStateOf(Successor(x[2], x[1]))>>
     : x \in {x \in CStates \X COperators : Applicable(x[2], x[1])}}

\* After any number of splits that each rewire only the transitions of the state
\* that is split, the transitions and loops are exactly those that the concrete
\* transitions induce, the hierarchy leads every concrete state to the one
\* abstract state that includes it, and the initial state is in the state 0.
AbstractionIsInduced ==
  /\ transitions \union {<<l[1], l[2], l[1]>> : l \in loops} = Induced
  /\ \A t \in transitions : t[1] # t[3]
  /\ num_non_loops = Cardinality(transitions)
  /\ \A s \in CStates :
       {id \in DOMAIN states : Includes(states[id].set, s)} = {AbstractStateOf(s)}
  /\ AbstractStateOf(CInit) = InitId

\* The test that follows every incremental update: no state is dirty, every
\* distance is exact, and every tree edge of a solvable state that can be reached
\* is a transition on a shortest path.
DistancesExact ==
  phase = "loop" =>
    LET g == InitDistances
        h == GoalDistances
    IN \A id \in {id \in DOMAIN states : g[id] # Infinity} :
      /\ goal_distances[id] # Dirty
      /\ Cost32(goal_distances[id]) = h[id]
      /\ id \notin goals /\ goal_distances[id] # Infinity =>
           LET step == shortest_path[id]
           IN /\ step # Undefined /\ <<id, step[1], step[2]>> \in transitions
              /\ goal_distances[id] = AddCosts(Cost64(step[1]), goal_distances[step[2]])

\* When the abstract solution fails, the state at which it fails is no goal state,
\* it includes the concrete state, some variable can be split, and every split
\* leaves values on both sides.
FlawsAreSplittable ==
  phase = "loop" /\ goal_distances[InitId] # Infinity =>
    LET p == LastOfTrace
    IN IsConcreteSolution(p) \/
       /\ p.id \notin goals /\ Includes(states[p.id].set, p.concrete)
       /\ PossibleSplits(p) # {}
       /\ \A split \in PossibleSplits(p) : split.wanted # {}
=============================================================================
