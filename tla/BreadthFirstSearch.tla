------------------------ MODULE BreadthFirstSearch ------------------------
(***************************************************************************)
(* BreadthFirstSearch: the registry is its queue, since the states have    *)
(* consecutive ids in the order of their generation, and the parents are   *)
(* kept per state instead of a search space.  The options bound and        *)
(* max_time cannot be given.                                               *)
(***************************************************************************)
EXTENDS Expansion

CONSTANT SinglePlan     \* option single_plan

ASSUME BreadthFirstAssumption == SinglePlan \in BOOLEAN

VARIABLES
  registered,           \* the state registry: the state with id i is registered[i+1]
  current_state_id,
  parents,              \* <<parent, operator>> of a state
  brfs_plans            \* the plans saved

brfsvars == <<registered, current_state_id, parents, brfs_plans>>

BrFSInit ==
  /\ registered = <<>>
  /\ current_state_id = 0
  /\ parents = [s \in States |-> <<NoState, NoOperator>>]
  /\ brfs_plans = <<>>

BrFSInitialize ==
  /\ search_status = "INITIALIZE"
  /\ search_status' = "IN_PROGRESS"
  /\ registered' = <<InitialState>>
  /\ UNCHANGED <<solution, expansionvars, current_state_id, parents, brfs_plans>>

TraceParents(n) ==
  LET path[s \in States] == IF parents[s][2] = NoOperator THEN <<>>
                            ELSE Append(path[parents[s][1]], parents[s][2])
  IN  path[n]

Exploring == search_status = "IN_PROGRESS" /\ node = NoState

\* A fault: the last registered state is not expanded.
AllExploredEarly == current_state_id + 1 = Len(registered)

AllExplored == current_state_id = Len(registered)

BrFSExplored ==
  /\ Exploring
  /\ AllExplored
  /\ search_status' = IF brfs_plans # <<>> THEN "SOLVED" ELSE "UNSOLVABLE"
  /\ UNCHANGED <<solution, expansionvars, brfsvars>>

NextState == registered[current_state_id + 1]

\* A plan is only saved if it is dearer than the one before.
SavedPlans(plan) ==
  IF brfs_plans = <<>> \/ PlanCost(plan) > PlanCost(brfs_plans[Len(brfs_plans)])
    THEN Append(brfs_plans, plan) ELSE brfs_plans

BrFSExpand ==
  /\ Exploring
  /\ ~AllExplored
  /\ current_state_id' = current_state_id + 1
  /\ brfs_plans' = IF IsGoal(NextState) THEN SavedPlans(TraceParents(NextState)) ELSE brfs_plans
  /\ IF IsGoal(NextState) /\ SinglePlan
       THEN search_status' = "SOLVED" /\ UNCHANGED expansionvars
       ELSE StartExpansion(NextState) /\ UNCHANGED search_status
  /\ UNCHANGED <<solution, registered, parents>>

Registered(s) == s \in {registered[i] : i \in DOMAIN registered}

\* A fault: a state that is registered already gets a new parent.
GenerateAlways(x) ==
  /\ NextOperator(x)
  /\ registered' = IF Registered(x[2]) THEN registered ELSE Append(registered, x[2])
  /\ parents' = [parents EXCEPT ![x[2]] = <<node, x[1]>>]
  /\ UNCHANGED <<enginevars, current_state_id, brfs_plans>>

Generate(x) ==
  /\ NextOperator(x)
  /\ IF Registered(x[2])
       THEN UNCHANGED <<registered, parents>>
       ELSE /\ registered' = Append(registered, x[2])
            /\ parents' = [parents EXCEPT ![x[2]] = <<node, x[1]>>]
  /\ UNCHANGED <<enginevars, current_state_id, brfs_plans>>

BrFSStep ==
  /\ \/ BrFSInitialize \/ BrFSExplored \/ BrFSExpand
     \/ \E x \in pending : Generate(x)
     \/ EndExpansion /\ UNCHANGED <<enginevars, brfsvars>>
  /\ UNCHANGED <<ssvars, evalvars>>

-----------------------------------------------------------------------------

\* The path that is traced for a registered state takes as few operators as any
\* path of the task, and the states are registered in the order of the lengths
\* of these paths: in particular the first plan is a shortest one.
ShortestPaths ==
  LET OneStep(P) == {t[3] : t \in {u \in Transitions : u[1] \in P}}
      layer[k \in 0..Cardinality(States)] ==  \* the states at most k operators away
        IF k = 0 THEN {InitialState} ELSE layer[k-1] \union OneStep(layer[k-1])
      Length(s) == Len(TraceParents(s))
  IN  \A i \in DOMAIN registered :
        /\ registered[i] \in layer[Length(registered[i])]
        /\ Length(registered[i]) > 0 => registered[i] \notin layer[Length(registered[i]) - 1]
        /\ \A j \in 1..i : Length(registered[j]) <= Length(registered[i])

\* When the state space is declared completely explored, it is: every state that
\* can be reached is registered, and the task is declared unsolvable if and only
\* if none of them is a goal state.
ExploredCompletely ==
  ~SinglePlan /\ search_status \in {"SOLVED", "UNSOLVABLE"} /\ registered # <<>> =>
    /\ \A t \in Transitions : Registered(t[1]) => Registered(t[3])
    /\ search_status = "UNSOLVABLE" <=> \A s \in GoalStates : ~Registered(s)

=============================================================================
