---------------------------- MODULE TreeSearch ----------------------------
(***************************************************************************)
(* The engines that search the tree of operator sequences by recursion:    *)
(* DepthFirstSearch ("dfs"), IDAstarSearch ("idastar") and                 *)
(* IterativeDeepeningSearch ("ids").  They register no states; what they   *)
(* know is on the stack of calls, on the path, and in the cache of IDA*.   *)
(*                                                                         *)
(* A behaviour runs one of them, with the options in config.  All of it is *)
(* one call of step(), so that the timer has no say before the end.        *)
(***************************************************************************)
EXTENDS SearchEngine, SequencesExt

CONSTANT Configs     \* the engines to run, with their options

ASSUME ConfigAssumption ==
  Configs \subseteq [engine : {"dfs", "idastar", "ids"}, single_plan : BOOLEAN,
                     bound : Nat,         \* option bound; dfs and ids
                     limit : Nat,         \* option initial_f_limit; idastar
                     cache_size : Nat]    \* option cache_size; idastar

VARIABLES
  config,
  limit,              \* dfs: bound; idastar: f_limit; ids: depth_limit
  iteration,          \* calls of recursive_search for the initial state
  stack,              \* the calls of recursive_search that loop over operators
  operator_sequence,
  returned,           \* what the last call returned, until its caller takes it
  cache,              \* FifoCache: its queue of states ...
  cache_value,        \* ... and its map from states to g and iteration
  plans               \* the plans saved, found_solution() once there is one

treevars == <<config, limit, iteration, stack, operator_sequence, returned, cache,
              cache_value, plans>>

Engine(e) == config.engine = e

\* calculate_plan_cost.  Iterative deepening refuses tasks without unit costs.
SequenceCost(seq) == IF Engine("ids") THEN Len(seq) ELSE PlanCost(seq)

Found == plans # <<>>
Running == search_status = "IN_PROGRESS"
None == -2            \* no call has returned

TreeInit ==
  /\ config \in Configs
  /\ limit = CASE Engine("dfs") -> config.bound
               [] Engine("idastar") -> config.limit
               [] Engine("ids") -> 0
  /\ iteration = 0
  /\ stack = <<>> /\ operator_sequence = <<>> /\ plans = <<>>
  /\ returned = None
  /\ cache = <<>> /\ cache_value = <<>>

-----------------------------------------------------------------------------
(***************************************************************************)
(* FifoCache.                                                              *)
(***************************************************************************)

CacheAdd(s, cost) ==
  LET queue == IF s \in DOMAIN cache_value THEN cache ELSE Append(cache, s)
      value == [u \in DOMAIN cache_value \union {s} |->
                  IF u = s THEN <<cost, iteration>> ELSE cache_value[u]]
      full == Cardinality(DOMAIN value) > config.cache_size
  IN  /\ cache' = IF full THEN Tail(queue) ELSE queue
      /\ cache_value' = IF full THEN Restrict(value, DOMAIN value \ {Head(queue)}) ELSE value

\* A fault: a state that was as cheap in an earlier iteration is skipped too.
CacheHitOfAnyIteration(s, cost) == s \in DOMAIN cache_value /\ cost >= cache_value[s][1]

\* The state was reached more cheaply, or as cheaply in this iteration.
CacheHit(s, cost) ==
  /\ s \in DOMAIN cache_value
  /\ \/ cost > cache_value[s][1]
     \/ cost = cache_value[s][1] /\ iteration = cache_value[s][2]

-----------------------------------------------------------------------------
(***************************************************************************)
(* recursive_search.  A frame is a call that loops over operators; node is *)
(* the argument of a call, with h = 0 but for IDA*.                        *)
(***************************************************************************)

Top == Last(stack)

\* dfs: states_on_path.
StatesOnPath == {stack[i].state : i \in DOMAIN stack}

OverLimit(node) == CASE Engine("dfs") -> node.g >= limit
                     [] Engine("idastar") -> node.g + node.h > limit
                     [] Engine("ids") -> FALSE

\* Whether a plan of that cost is saved: DFS and IDA* save cheaper plans than
\* the last one, iterative deepening dearer ones.
Saves(cost) ==
  Found => LET last == SequenceCost(Last(plans))
           IN  IF Engine("ids") THEN cost > last ELSE cost < last

NewLimit(cost) == CASE Engine("dfs") -> cost
                    [] Engine("idastar") -> cost - 1
                    [] Engine("ids") -> limit

Node(s, cost, h) == [state |-> s, g |-> cost, h |-> IF h = DEAD_END THEN Infinity ELSE h]

\* The call for a node up to its loop over the operators, from the frames of its
\* callers, with the operator sequence seq.
Call(node, callers, seq) ==
  \/ /\ OverLimit(node)
     /\ returned' = node.g + node.h
     /\ stack' = callers
     /\ UNCHANGED <<limit, plans>>
  \/ /\ ~OverLimit(node)
     /\ IsGoal(node.state)
     /\ returned' = -1
     /\ IF Saves(SequenceCost(seq))
          THEN plans' = Append(plans, seq) /\ limit' = NewLimit(SequenceCost(seq))
          ELSE UNCHANGED <<limit, plans>>
     /\ stack' = callers
  \/ /\ ~OverLimit(node)
     /\ ~IsGoal(node.state)
     /\ stack' = Append(callers, [state |-> node.state, g |-> node.g, next_limit |-> Infinity,
                                pending |-> IF Engine("ids") /\ Len(seq) >= limit
                                              THEN {} ELSE Successors(node.state)])
     /\ UNCHANGED <<limit, plans, returned>>

\* compute_h_value: IDA* asks an evaluator that does not cache, but whose
\* answers are always the same.
ComputeH(s, v) ==
  IF Engine("idastar") THEN Evaluate(s, {}, v) ELSE v = 0 /\ UNCHANGED evalvars

Initialize ==
  /\ search_status = "INITIALIZE"
  /\ search_status' = "IN_PROGRESS"
  /\ UNCHANGED <<evalvars, treevars>>

\* step(): the loop that calls recursive_search for the initial state.
Repeats ==
  CASE Engine("dfs") -> iteration = 0
    [] Engine("idastar") -> limit \notin {Infinity, -1} /\ ~(config.single_plan /\ Found)
    [] Engine("ids") -> limit < config.bound /\ ~(config.single_plan /\ Found)

NextIteration ==
  /\ Running /\ stack = <<>> /\ returned = None
  /\ Repeats
  /\ iteration' = iteration + 1
  /\ \E h \in Estimates[InitialState] \union {0} :
       ComputeH(InitialState, h) /\ Call(Node(InitialState, 0, h), <<>>, <<>>)
  /\ UNCHANGED <<search_status, config, operator_sequence, cache, cache_value>>

\* Only a node that is neither a cycle nor in the cache nor dead is called.
Descend(x) ==
  LET succ_g == Top.g + AdjustedCost(x[1])
      seq == Append(operator_sequence, x[1])
      rest == [stack EXCEPT ![Len(stack)].pending = @ \ {x}]
      hit == Engine("idastar") /\ config.cache_size > 0 /\ CacheHit(x[2], succ_g)
      skip == hit \/ (Engine("dfs") /\ x[2] \in StatesOnPath)
  IN  /\ Running /\ stack # <<>> /\ returned = None
      /\ x \in Top.pending
      /\ IF Engine("idastar") /\ config.cache_size > 0 /\ ~hit
           THEN CacheAdd(x[2], succ_g) ELSE UNCHANGED <<cache, cache_value>>
      /\ \/ /\ skip
            /\ stack' = rest
            /\ UNCHANGED <<limit, operator_sequence, plans, returned, evalvars>>
         \/ /\ ~skip
            /\ \E h \in Estimates[x[2]] \union {0} :
                 /\ ComputeH(x[2], h)
                 /\ IF h = DEAD_END
                      THEN /\ stack' = rest
                           /\ UNCHANGED <<limit, operator_sequence, plans, returned>>
                      ELSE /\ operator_sequence' = seq
                           /\ Call(Node(x[2], succ_g, h), rest, seq)
      /\ UNCHANGED <<search_status, config, iteration>>

\* The loop over the operators of a call ends.
Loops ==
  /\ Running /\ stack # <<>> /\ returned = None
  /\ Top.pending = {}
  /\ returned' = Top.next_limit
  /\ stack' = Front(stack)
  /\ UNCHANGED <<search_status, evalvars, config, limit, iteration, operator_sequence,
                 cache, cache_value, plans>>

\* A fault: the limit of the last call is kept instead of the least.
LastLimit(old, new) == new
NextLimit(old, new) == IF new < old THEN new ELSE old

Unwinds == config.single_plan /\ Found

\* A call returns to its caller, which goes on with its next operator.
Resume ==
  /\ Running /\ stack # <<>> /\ returned # None
  /\ ~Unwinds
  /\ operator_sequence' = Front(operator_sequence)
  /\ stack' = [stack EXCEPT ![Len(stack)].next_limit = NextLimit(@, returned)]
  /\ returned' = None
  /\ UNCHANGED <<search_status, evalvars, config, limit, iteration, cache, cache_value, plans>>

\* With single_plan the first plan ends all calls, and only iterative deepening
\* tidies up on the way.
Unwind ==
  /\ Running /\ stack # <<>> /\ returned # None
  /\ Unwinds
  /\ stack' = <<>>
  /\ operator_sequence' = IF Engine("ids") THEN <<>> ELSE operator_sequence
  /\ returned' = -1
  /\ UNCHANGED <<search_status, evalvars, config, limit, iteration, cache, cache_value, plans>>

\* The call for the initial state returns.
EndIteration ==
  /\ Running /\ stack = <<>> /\ returned # None
  /\ limit' = CASE Engine("dfs") -> limit
                [] Engine("idastar") -> returned
                [] Engine("ids") -> limit + 1
  /\ returned' = None
  /\ UNCHANGED <<search_status, evalvars, config, iteration, stack, operator_sequence,
                 cache, cache_value, plans>>

\* step() returns.  Depth-first search refuses the option max_time.
EndStep ==
  /\ Running /\ stack = <<>> /\ returned = None
  /\ ~Repeats
  /\ LET result == IF Found THEN "SOLVED" ELSE "FAILED"
     IN  IF Engine("dfs") THEN search_status' = result ELSE StepReturns(result)
  /\ UNCHANGED <<evalvars, treevars>>

TreeStep ==
  /\ \/ Initialize \/ NextIteration
     \/ stack # <<>> /\ \E x \in Top.pending : Descend(x)
     \/ Loops \/ Resume \/ Unwind \/ EndIteration \/ EndStep
  /\ UNCHANGED <<ssvars, solution>>

-----------------------------------------------------------------------------
(***************************************************************************)
(* Properties.                                                             *)
(***************************************************************************)

NeverDead == {s \in States : heuristic_cache[s] # DEAD_END}

\* With real costs, a search that ends has the plan it promises.  Depth-first search for all
\* plans and IDA* return a cheapest plan, IDA* if its estimates are admissible
\* and it was not told to begin with a limit beyond the cost of that plan, for
\* any size of the cache; the first plan of iterative deepening is a shortest one.
BestPlan ==
  search_status = "SOLVED" /\ CostType = "NORMAL" /\ iteration > 0 =>
    LET optimum == RealGoalDistance(States)[InitialState]
        UnitCost == [o \in Operators |-> 1]
        admissible == \A s \in States : heuristic_cache[s] # DEAD_END /\
                         heuristic_cache[s] <= RealGoalDistance(States)[s]
    IN  CASE Engine("dfs") -> ~config.single_plan => PlanCost(Last(plans)) = optimum
          [] Engine("idastar") ->
               admissible /\ (config.limit <= optimum \/ ~config.single_plan)
                 => PlanCost(Last(plans)) = optimum
          [] Engine("ids") ->
               Len(plans[1]) = GoalDistance(UnitCost, States)[InitialState]

\* A search that fails has a reason: there is no plan below the bound, or (for
\* IDA*, which has no bound) no plan through the states that are not declared
\* dead, unless it was told to begin with an infinite limit.
FailureHasReason ==
  search_status = "FAILED" /\ CostType = "NORMAL" /\ iteration > 0 =>
    LET UnitCost == [o \in Operators |-> 1]
    IN  CASE Engine("dfs") -> RealGoalDistance(States)[InitialState] >= config.bound
          [] Engine("idastar") -> RealGoalDistance(NeverDead)[InitialState] = Infinity
          [] Engine("ids") -> GoalDistance(UnitCost, States)[InitialState] >= config.bound

=============================================================================
