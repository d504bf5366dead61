# planner8: specifications of the search component and of the portfolio driver

planner8 is a classical planner built on Fast Downward.  A Python driver
(`src/driver`) translates a PDDL task and runs the C++ search component
(`src/src/search`), once or, for portfolios, many times.  This directory holds
TLA+ specifications of the parts whose correctness rests on order, reuse of
state and failure rather than on a single computation, the TLC configurations
that check them on small instances, and theorems about them that TLAPS proves
for all instances.

`PROJECT.json` lists components, runs, theorems, hazards and, for every
definition, the lines of code that it stands for.

    tlc -config EagerAStar.cfg MCEagerSearch.tla
    tlapm EagerSearchProofs.tla

## 1. Inventory

### The search component (one thread, C++)

| Part | State it keeps | Operations | Where |
|---|---|---|---|
| State registry | pool of packed states, hash set of ids, cached initial state; `State` objects that point into the pool | `get_initial_state`, `get_successor_state`, `lookup_state` | `state_registry.cc` |
| Search space | per state: status, g, real_g, parent, creating operator | `open_initial`, `open`, `reopen`, `update_parent`, `close`, `mark_as_dead_end`, `trace_path` | `search_space.cc` |
| Evaluators | per-heuristic cache of estimates with dirty flags | `compute_result`, `notify_state_transition` | `heuristic.cc` |
| Per-state information | per object and registry a vector of entries, the registry and vector used last; subscriptions | `operator[]`, `notify_service_destroyed`, both destructors | `per_state_information.h`, `algorithms/subscriber.h` |
| Open lists | entries in buckets, priorities of alternation lists, random state | `insert`, `remove_min`, `boost_preferred`, `clear`, `is_dead_end` | `open_lists/` |
| Search engine | status, plan, bound, timer | `search` = `initialize`, then `step` until it returns or time is up | `search_engine.cc` |
| Eager search | open list | `initialize`, `step` | `search_engines/eager_search.cc` |
| Lazy search | open list of edges, current state and its g values | `initialize`, `step`, `generate_successors`, `fetch_next_state` | `search_engines/lazy_search.cc` |
| Depth-first search, IDA\*, iterative deepening | the stack of recursive calls, the operators on it, the limit, IDA\*'s FIFO cache of states | `step`, `recursive_search`, `check_goal_and_set_plan` | `search_engines/depth_first_search.cc`, `idastar_search.cc`, `iterative_deepening_search.cc` |
| Breadth-first search | id of the current state, parents per state; the registry is the queue | `initialize`, `step`, `trace_path` | `search_engines/breadth_first_search.cc` |
| Iterated width | queue, table of facts and pairs seen | `initialize`, `step`, `visit_state_and_check_if_novel` | `search_engines/iterative_width_search.cc`, `novelty/novelty_table.cc` |
| Enforced hill-climbing | current state with its estimate, edges of the phase | `initialize`, `step`, `ehc`, `expand` | `search_engines/enforced_hill_climbing_search.cc` |
| Iterated search | phase, best bound, what the phases found | `step`, `create_current_phase` | `search_engines/iterated_search.cc` |
| Landmark status manager | per state: landmarks that every path reported so far has reached; status of the landmarks of the state last evaluated | `process_initial_state`, `process_state_transition`, `update_lm_status` | `landmarks/landmark_status_manager.cc` |
| Cartesian abstractions | abstract states, refinement hierarchy, transitions and loops, shortest path tree and goal distances | `refinement_loop`, `find_flaw`, `refine`, `rewire`, `update_incrementally` | `cegar/` |
| Additive Cartesian heuristic | remaining costs, heuristic functions, numbers of states and transitions used | `generate_heuristic_functions`, `reduce_remaining_costs`, `compute_heuristic` | `cegar/cost_saturation.cc`, `cegar/additive_cartesian_heuristic.cc` |
| Other heuristics and abstractions | delete relaxation, landmark factories, cost partitioning, PDBs, merge-and-shrink, LP-based | | `heuristics/`, `landmarks/`, `pdbs/`, ... |
| Plan manager | number of plans written | `save_plan` | `plan_manager.cc` |

An engine asks the registry for successor states; the id of a state indexes
all per-state information, the search space and the evaluator caches among
them.  A registry that is destroyed (an iterated search has one per phase)
notifies the objects that store information about its states.
The evaluators are called back for every transition (`notify_state_transition`)
and may mark cached estimates as dirty.  The open list asks the evaluators for
keys.  Iterated search builds an engine per phase, passes it the cost of the
best plan as bound, and writes the plans.

### The driver (one process, Python, and one planner process at a time)

| Part | State | Operations | Where |
|---|---|---|---|
| Portfolio runner | configurations of this and the next round, whether cost types were switched | `run_sat`, `run_opt`, `run` | `portfolio_runner.py` |
| Plan manager | costs of the plans found so far; the plan files are the shared state of driver and planner | `process_new_plans`, `get_next_portfolio_cost_bound` | `plan_manager.py` |
| Exit codes | | `generate_portfolio_exitcode` | `returncodes.py` |

### What is hard

* **Sequences of reuse.** A node may be opened, closed, reopened while its
  children keep g values that are no longer exact, declared dead, and be found
  again.  The open lists keep entries of earlier keys.
* **Stale values.** Cached estimates that a transition made dirty; g values
  read before and used after a reopening; `State` objects that point at a slot
  which the next registration overwrites.
* **Two cost functions.** Search orders by adjusted costs (g), the bound is
  about real costs (real_g); they disagree as soon as a parent changes.
* **The end of a search.** Failure has to be a proof; the loop has to end
  although nodes are reopened and entries reinserted; the timer may overwrite
  any result.
* **Repair instead of recomputation.** CEGAR splits one abstract state and
  repairs transitions, loops and distances around it only; the novelty table
  looks only at the effects of an operator; the status manager updates the
  landmarks of a state at every new path.
* **Memory that is used again.** A registry at the address of a destroyed one, a
  vector in the block of a deleted one, an index of a bucket that moved.
* **Failure of the planner.** It may be killed between any two plans or in the
  middle of a plan file; the driver has to go on from what is on disk.
* **Zero.** Zero-cost operators, the empty plan, the exclusive bound.

There is no concurrency inside the search component; the interleavings are
those of calls, of planner and driver, and of the order in which equal keys
are removed.  `PROJECT.json` lists the hazards at their lines with the
properties that cover them.

### What makes each part correct

* Registry: a state has one id for ever; every `State` in use reads the values
  of its id; only reachable states are registered.
* Search space: parent pointers are real transitions, never form a cycle, and
  their plans cost at most g.
* Evaluation: an estimate is not reused once it is dirty, and always if not.
* Engines: they respect the contract of the search space; they lose no node
  and no edge; plans are within the bound; failure is a certificate; A* is
  optimal; they terminate.
* Other engines: each returns the best plan it promises (IDA\* and iterative
  deepening the cheapest or shortest, depth-first search one below its bound,
  breadth-first search shortest paths), gives up for a reason, keeps its
  phases apart, and terminates.
* Per-state information: what is read is what was last written for that state of
  that registry, and no pointer to a vector outlives it.
* Open lists: indices and buckets fit each other, and as long as dead ends are
  treated alike by all sublists no entry is lost before it is removed.
* Landmark status: a landmark that is counted is needed on every continuation
  of the path; else the heuristic is inadmissible.
* Cartesian abstractions: the transition system is the one the partition
  induces, distances are exact after every repair, every flaw can be split, and
  the saturated distances sum to at most the cost of any plan.
* Iterated search: plans get cheaper, success means that there is one, no phase
  is repeated in vain.
* Driver: plan files are complete, consecutively numbered and improving; no
  bogus plan is reported; the exit code is true.

## 2. Modules

    PlanningTask
      +- SearchSpace ................. SearchSpaceProofs
      +- Evaluation
           SearchEngine  (extends SearchSpace and Evaluation)
             +- EagerSearch .......... EagerSearchProofs, MCEagerSearch
             +- LazySearch ........... MCLazySearch
             +- TreeSearch ........... TreeSearchProofs          \
             +- EnforcedHillClimbing ...........................  \
             +- Expansion                                         MCOtherEngines
                  +- BreadthFirstSearch ........................  /
                  +- IterativeWidthSearch ...................... /
    (these and LazySearch, without TreeSearch) ... OtherEnginesProofs
    StateRegistry .............................................. \
    PerStateInformation ........................................  MCDataStructures
    OpenLists .................................................. /
    LandmarkStatusManager ...................................... \
    (these four) ..................... DataStructuresProofs
    CartesianAbstraction ............. CartesianProofs           MCHeuristics
      +- Cegar
           +- CostSaturation ................................... /
    AnytimeSearch
      +- IteratedSearch .............. IteratedSearchProofs, MCIteratedSearch
    PortfolioRunner .................. PortfolioRunnerProofs, MCPortfolioRunner

An MC module on the right of several modules runs one of them per behaviour, on
an instance of its own; this shares the start-up of the model checker, and the
modules do not interact there.

**PlanningTask** is the task as engines see it: a deterministic labelled
transition system with real costs and a cost type.  The values inside the
states are the business of StateRegistry.  It also has reference definitions
(goal distances, for a cost function, by enumeration of paths through a set of states)
for the properties.  `Infinity`, the largest int in the code, is a parameter.

**SearchSpace** has the fields of `SearchNodeInfo` as functions of the states
and one operator per `SearchNode` operation, guarded by its assertions.  SSSpec
is the *contract*: an engine opens only successors of reached nodes and gives a
node another parent only if its g gets strictly smaller.  It is the abstract
specification of the bookkeeping of eager, lazy and iterated width search, which
are shown to implement it.

**Evaluation** is `Heuristic::compute_result` with its cache and dirty flags.
What a heuristic computes is left open: for each state a set of estimates, one
of which it answers.  Without path dependence the first answer is kept, so that
one behaviour sees one fixed heuristic and all behaviours see all of them.

**SearchEngine** is the loop of `search()`.  `StepReturns` expresses that the
timer may overwrite the result of a step, SOLVED included.

**EagerSearch** splits `step()` at the points where it calls other code: an
iteration of the popping loop (`Skip`, `FoundDead`, `Reinsert`, `Expand`,
`OpenListEmpty`), one iteration of the loop over the successors (`CutOff`,
`NothingNew`, `NewSuccessor`, `ReopenSuccessor`, `UpdateSuccessor`) and
`Expanded`.  Operators are handled in any order, equal keys removed in any
order.  With both weights 0, any entry can be next: this stands for the
randomised and alternating open lists as far as safety goes.  The evaluation
for the f-value statistics (`UpdateFValueStatistics`) is modelled because it
has a side effect: it refreshes a dirty estimate.

**LazySearch** splits `step()` into `EvaluateCurrent` or `IgnoreCurrent`,
`CloseCurrent` (goal test, successors) and `FetchNextState`.

**TreeSearch** is depth-first search, IDA\* and iterative deepening, which have
the same recursion.  The stack of calls is a sequence of frames (state, g, the
operators left, what the loop has collected); `Call` is what a call does
before its loop (bound, cache, goal test); `Descend` makes one for the next
operator, `Resume` takes its result, `EndIteration` and `NextIteration` are the
outer loop.  IDA\*'s `FifoCache` is its queue
of states with the g and the iteration of each.

**Expansion** is the loop over the successors that **BreadthFirstSearch** and
**IterativeWidthSearch** share.  In the first the registry doubles as the queue,
as in the code.  The second has both forms of the novelty test: a state is
looked at as a whole, a successor only at the facts that the effects of the
operator name, with the conditions of the effects ignored.

**EnforcedHillClimbing** has the current state with the estimate that its
context keeps, and the open list of one phase; `ExpandNode` is
one call of `expand()`; `IgnoreEdge`, `EdgeToDeadEnd` and `FollowEdge`, which may end
the phase, are the loop of `ehc()`.

**OpenLists** models insertion into and removal from an alternation list of
tie-breaking, Pareto, type-based and epsilon-greedy lists.  Buckets are kept as
the code keeps them: the Pareto list's set of nondominated keys beside its
buckets, the type-based list's vector with its index, from which a bucket is
removed by moving the last one into its place.  Random choices are choices.

**PerStateInformation** has objects, addresses of registries and blocks of
memory as separate sets, so that an address or a block can be used again after
its owner was destroyed.  `info` is a history variable: what a reader expects.

**LandmarkStatusManager** splits `process_state_transition` and
`update_lm_status`.  Transitions are reported in any order and more than once,
as the paths of a search with reopening are.  The landmark graph and its orders
are constants whose soundness is the assumption
LandmarkGraphSound.

**CartesianAbstraction** is the abstraction and `refine` with `rewire` for
transitions and loops; **Cegar** is the refinement loop around it (separation
of facts, abstract solution, flaw, split, repair of distances), with the three
queues of the incremental shortest path search; **CostSaturation** builds one
abstraction per subtask under what the earlier ones left of the costs.

**StateRegistry** goes below the level of ids.  `get_successor_state` writes the
successor into the slot behind the last state, and takes the slot back if the
state is known; the `State` that it returns keeps pointing to that slot.  The
model keeps the memory of popped slots, as the segmented vector does.  The
constant EngineClient says whether clients behave as the engines do: they ask
for a successor only while they hold no handle of an earlier duplicate.

**AnytimeSearch** is what the driver relies on: plans are written in order of
decreasing cost, each below the bound, and success means that there is a plan.
**IteratedSearch** implements it.  An engine of a phase is known by the costs of
the plans it may return and whether it honours its bound, which is what the
engine modules establish.
The history variables `last_run` and `odd` make a phase that is
repeated without any effect visible as a step, so that Termination and
NoFutileRepeat notice it.

**PortfolioRunner** models the driver.  An action is a run of the planner with
all that the driver does until the next one starts; the planner may do what
AnytimeSearch allows, or be stopped anywhere, with the file it was writing left
incomplete.  A configuration is known by whether it is an iterated search and
by the cost type of its search: a placeholder that the driver replaces, one
(also for plusone), or normal.  From a goal state, and with cost type one on a task of general
costs, a run may find plans beyond its bound (IgnoresBound), as EagerBoundCostType
shows of the engine; an iterated search does not write those.

Operators whose comments begin with "A fault", "Fault:" or "Faults:" are not used
by the specifications.  Each is a small bug put in the place of the definition after it, to make sure that the
property named in `PROJECT.json` notices it.

## 3. Runs

| Run | Question | Instance |
|---|---|---|
| EagerAStar | Is A\* optimal with an inconsistent, path-dependent, lazily re-evaluated admissible heuristic? Does it lose nodes, terminate? | 6 states; a state reached by a dear path before the cheap one, a zero-cost cycle, a dead end that may be recognised only when it is popped; every admissible estimate |
| EagerBound | Plans below the exclusive bound, failure only if there is none, in every order of expansion, with changing estimates | 8 states; cheapest plan 2, bound 3, other ways at or beyond it; two states that may be declared dead although they are not, so that the search also fails |
| EagerNoReopen | Do parents form a forest, and do traced plans execute and cost at most g, whatever the estimates? | the 6-state task; every heuristic with values 0..2 or infinite |
| Lazy | Is an edge lost, are the current g values fresh, is the contract kept, does it terminate? | the same 8 states with other costs, bound 4, path-dependent estimates, true and false dead ends |
| OtherEngines | Best plans, justified failures, phases, novelty, termination of the other engines | 5 states, cheapest plan of four operators, shortest of three and dearer, cycles, one of them free; 14 configurations of the tree searches: bounds at and above the cheapest plan, depth limits at and above the shortest plan, caches for 0, 1, 2 and 5 states, both values of `single_plan`; width 2, a bound that some orders of expansion exceed (about 38500 states) |
| DataStructures | Ids and handles of the registry, arrays of per-state information, buckets of the open lists | registry: 2 variables of 2 values, conditional effects that swap; 2 objects, 2 addresses, 3 blocks, 2 states per registry; four alternation lists, 4 insertions of 7 kinds (two with an infinite key of a reliable or of an unreliable evaluator), 1 boost (about 760000 states, a minute) |
| Heuristics | Are counted landmarks needed? Are abstractions induced and distances exact after every split? Is the sum admissible? | 6 states with cycles, four landmarks, one of which becomes true twice; 3 variables with 18 concrete states, two free operators, a dead end, both decompositions and both kinds of costs, stopping after any split |
| Iterated | Anytime contract, no futile repetition, end | 4 phases that can find plans of cost 0..8, one of which exceeds its bound (as `cost_type=one` can); `pass_bound`, `repeat_last`, `continue_on_fail` and `continue_on_solve` all on, then without `continue_on_fail`, then without `pass_bound` and `repeat_last` (about 4600 states) |
| Portfolio | Files and notes agree, critical errors only after runs that may ignore their bound, true exit code, termination | 3 plan costs, one of them beyond the portfolio's bound; eight portfolios: placeholders with a final configuration (as seq_sat_fdss_1, 2014), with a builder (seq_sat_fdss_2), before other configurations, in an iterated search, cost type one hard-coded in several configurations (seq_sat_maidu, 2018), real costs with and without a final configuration, optimal; with and without single-plan mode; every exit code after every run (about 19000 states) |

The tasks are as small as the behaviours permit: reopening needs two paths to a
state of which the dearer is found first, reopening of a *closed* state needs
successors behind it, disagreement of g and real_g needs a third path, and a
bound is only interesting if a plan lies below it and one at it.  The fault that
each property detects under its own configuration shows that the cases occur.

Bounds.  `Infinity` stands for the default of `bound` or for
`EvaluationResult::INFTY`.  `MaxStates` and `MaxHandles` bound the registry, and
hold every state of its task and the handles of a predecessor, a successor and
one more.  `MaxIds` bounds the states of a registry with per-state information;
two are enough for an array that is shorter than its registry.  `MaxEntries` and
`MaxBoosts` bound calls to the open list; four entries can fill two buckets and
empty one of them, and a boost makes the order of sublists differ from
alternation.  In CostSaturation `MaxStates` and `MaxTransitions` are the
options of the heuristic, and `Scale` stands for the factor 2^32 with which costs
are multiplied so that zero-cost operators count among equally dear paths; it
has to exceed the number of free operators on a cheapest path, or else
DistancesExact would notice.

`EarlyTimeout` (time or memory may run out in the middle of the separation of
facts), `PruneByPreferred` and `SinglePlan` (of breadth-first search, which then only
stops earlier) are FALSE in all runs; CartesianLimit shows with a
limit on states that SumIsAdmissible is false when the separation is cut short, and
AlwaysAdmissible proves it otherwise.  No run
covers `Pruning = TRUE`, `HasAxioms = TRUE` or `EngineClient = FALSE`; the theorems below
hold for these constants where they do not assume otherwise.  And no theorem
covers the phase that exceeds its bound in run Iterated: ExactPhases excludes it.

### Disagreements of code and documentation

Three runs end with a violation on purpose.

* **EagerBoundCostType.** The bound is documented as one on real costs,
  whatever the cost type (search_engine.cc:140).  With `cost_type=one` reopening
  follows g, can raise the real_g of a node whose successors already passed the
  test, and the plan returned costs as much as the bound or more.
* **WidthConditional.** A successor is tested for novelty by the effects of the
  operator, without their conditions.  With conditional effects a fact that did
  not become true counts, the state may be an old one, and the assertion in
  iterative_width_search.cc:85 fails.  NovelTheorem shows that it holds on
  tasks without axioms and conditional effects.  Axioms, which the table also
  accepts, break it for width 2, since a derived fact that changes is not an
  effect: of the pairs of a new state, those of a derived fact and a fact
  that was true before are not entered, and count as novel when an operator
  with that effect leads to the same state.
* **CartesianLimit.** When a limit stops the separation of facts that may have
  been true before the goal fact, the states left together are still outside the
  abstract goals, although the comment at cegar.cc:193 says why they must not be,
  and the heuristic documented as admissible overestimates.

Others need no run: they were met when the properties were stated, which except
them, or are visible in a line.  `PROJECT.json` quotes the lines.

* iterated_search.cc stops repeating a phase that "would just behave the same
  way again".  From a goal state every phase returns the empty plan, whatever
  its bound: `repeat_last` repeats it until time runs out.
* For the same reason a portfolio whose first configuration solves such a task
  is ended by its second with a critical error: the plan has "not improved".
  By EagerBoundCostType this can also happen to portfolios that hard-code
  `cost_type=one` or `plusone` (seq_sat_maidu.py, seq_agl_maidu.py,
  seq_sat_fdss_2018.py), on tasks of general costs and in any run after the first
  plan (plan_manager.py:100-101).  The run Portfolio contains such behaviours;
  BoundedRunsAreAccepted says that there are no others, and that a
  plan file that was left incomplete is never the reason.
* An iterated search whose phase finds a plan beyond the bound does not save it
  (iterated_search.cc:80), but if it then stops because of `continue_on_solve=false`
  or because a later phase fails with `continue_on_fail=false`, it exits with
  SUCCESS and no plan (lines 109 and 117); a portfolio that starts with such a
  configuration and may change its cost type ends with "no plans found yet".
* A run that writes plans and is then stopped by its limits ends with an
  out-of-time or out-of-memory code; if all runs end so, the portfolio's exit
  code says that no plan was found (returncodes.py:103).
* The handle of a duplicate reads the wrong values after the next registration
  (state_registry.cc:95); the engines never keep one.  The fault `MayPushAlways`
  shows it, HandlesTheorem that the engines' discipline is enough.
* Breadth-first search with `write_plan=false` stores no parents but still traces
  a plan.  With `single_plan=false` it and iterative deepening save plans that
  are *dearer* than the last, which the driver treats as a critical error.
* IDA\* never tests its bound, and with `initial_f_limit=infinity` it
  searches nothing and reports failure.
* Depth-first search compares the sum of adjusted costs with the bound, which is
  documented as one on real costs.
* Enforced hill-climbing asserts (and divides by) a positive number of phases when
  it prints statistics, although there may have been none.
* The Pareto list's `state_uniform_selection` weights a bucket with the number of
  evaluators in its key, not with its entries (pareto_open_list.cc:167).
* cegar.cc:217 asserts that the abstract initial state is no goal state, which
  fails if the goal facts of `subtasks=original` are all true initially.

### Fairness

Every specification of an engine or of the driver has weak fairness of its step
relation as a whole, and no more.  Search is a single thread without waiting,
the driver a single process whose child ends at its time limit at the latest,
so a step that is possible is taken.  No choice is fair: not the order of
removals, not the answers of evaluators, and the timer need never expire.
Termination of a search is therefore shown without the help of the timer and
for every order, including evaluators whose estimates change at every call.
It comes from the finite number of improvements of g, each of which makes only
finitely many estimates dirty.  The recursive engines end because of their limits,
which grow through finitely many values, and hill-climbing because its estimates
decrease.

The data structures and heuristics have no fairness and no liveness: their
clients may stop calling them, which is also why their runs do not check for
deadlocks.

## 4. Proofs

The proofs hold for all tasks, evaluators, weights, bounds and options.  Six
theorems (OptimalTheorem, ShortestPathsTheorem, PhasesTheorem,
FailedPhaseTheorem, BestPlanTheorem, FailureReasonTheorem) assume that a task has
finitely many states, because the distances and sets they speak of are computed in
that many rounds; the others do not.  The last two also assume that the numbers fit:
no bound exceeds Infinity, and an estimate plus the cost of as many of the dearest
operators as there are states stays below it.  Infinity is any positive number.  Named assumptions on constants are in the modules that declare them
(TaskAssumption, CostAssumption: costs are naturals; DeterminismAssumption; and so
on).

*Induction and recursion.*  The library's induction theorems take an operator as a
parameter and cannot be used.  What the proofs need is got from the least
element of a set of naturals: a counterexample of least size or least length
is refuted (LeastElement, Induction), a recursive function exists because its
finite approximations do (Recursion), and it is unique by induction.
Recursive functions of the models are connected with relations that need no
recursion (Trace, Layers, DistancesAre), and the invariants speak of the latter.

**SearchSpaceProofs.**  The inductive invariant is
`SSInv == SSTypeOK /\ NodeConsistent /\ ParentTransition /\ ParentsAcyclic`.
ParentsAcyclic alone is not inductive: that a redirected parent pointer closes
no cycle follows from the g values along the old pointers.  By ParentTransition
g never decreases from a parent to its child, so a descendant of a node has no
smaller g than the node; but the new parent's g plus the cost of the operator
is strictly smaller than the g of the node, hence it is no descendant.  This
needs the strict comparison in the code; the run fails with `<=`.  Acyclicity is
stated without recursion (no set of nodes contains the parents of all its
members), which makes it provable.
Theorems: ParentTheorem, ConsistentTheorem, AcyclicTheorem, GTheorem.
TracedPlansTheorem adds `trace_path`: as the pointers form no cycle, every
opened node has exactly one sequence of operators back to the initial state
(TraceExists, TraceUnique), and this sequence executes and costs at most g.  The goal
distances of PlanningTask are shown to be those of paths of any length
(GoalDistanceFacts): a finite distance is 0 at a goal or else is continued by a
successor on a cheapest path (for which GoalRank gives a measure, as costs may be
zero), and no operator leads to a distance smaller by more than its cost.

**EagerSearchProofs.**  The inductive invariant is
`EagerTypeOK /\ SSInv /\ Control /\ OpenNodesQueued`, where Control ties the
node under expansion to its status, to the operators left and to the status of
the search.  Each action is shown to be an SSNext step or to leave the search
space alone (EagerImplementsContract); from this, type correctness and the
forest properties follow.  OpenNodesQueued is inductive with Control, and
ClosedNodesExpanded (ClosedNodesTheorem, with reopening) needs it.
FailureTheorem combines the two: with an empty open list there is no open node
whose estimate is finite, hence what is closed is closed under successors below
the bound.  BoundTheorem is the step-wise form of the bound (with real costs
every reached node is below it and covers the *present* real_g of its parent), and
PlanBoundTheorem follows from it and from SolutionInv: the solution is an
opened goal node.

OptimalTheorem is the argument for A\* with arbitrary admissible estimates,
inconsistent, path-dependent and re-evaluated ones included.  While the cheapest
plan has not been found, some node on it is open with its g exact: the last one
whose predecessors on the plan are closed and whose g is that of the plan, because
the operators of closed nodes have all been applied with their present g
(ClosedNodesExpanded).  That node has an entry whose key is at most
the cost of the plan, so no goal that costs more can be the entry of least key.
EntriesInv gives the other direction: no key is below the present g of its node.

ConsistentTheoremEager states that with consistent estimates a closed node is
never improved (eager_search.cc:242 wishes for this test).  IncreasingF is the
invariant: nodes are expanded in the order of their f values.  The proof attempt
showed that the property needs reopening: without it the parent of a closed
node may keep a g from before an improvement that was never passed on.  No run
checks this property.  BoundTheorem and the lazy search's FreshTheorem,
that the g values fetched with an edge are still those of its predecessor when
they are used, are not the subject of a run either: the faults they would notice
are noticed by PlanWithinBound and NoEdgeLost.

**OtherEnginesProofs.**  NovelTheorem: a successor that passes the
novelty test is a new state, the assertion in iterative_width_search.cc:85.  The
invariant is OpenedFactsSeen: every fact, and for width 2 every pair of facts,
of a state with a node is in the table.  A state whose effects bring a new fact or pair
then has no node; the argument needs NoConditionalEffects, that the
effect facts are facts of the successor, which run WidthConditional shows to
be necessary, and NoAxioms, that all other facts of the successor are facts of
the parent.  Both are hypotheses of the two theorems, not assumptions of the module.  IWImplementsContract follows from it.

For breadth-first search the invariant is that *some* assignment of distances to the
registered states fits (DistancesAre): parents are one nearer, distances grow
along the registry, nothing is more than one beyond the state expanded last, and
the successors of what was expanded are registered at most one farther.
From it follow ShortestPathsTheorem, by induction over the layers of the
reference definition, and ExploredCompletelyTheorem, that UNSOLVABLE is true.

For enforced hill-climbing PhaseTried says that of the states reached in the phase
all but the one being expanded have been tried: their successors are known, too
dear, or edges of the open list.  The states of a phase are those that every set
contains that has the current state and, with a state, its children
(InBelow).  PhasesTheorem, FailedPhaseTheorem and EHCRefinesTheorem follow.

For lazy search there are the types, the freshness of the current g values, and the
contract.  NoEdgeLostTheorem: every edge of a closed node waits in the
open list, is the current one, was cut off by the bound, or leads to a
state that is known and not improved by it (EdgeHandled); EdgesInv adds what the
test of the bound rests on.  With StandInv (only the current state is ever open)
LazyFailureTheorem follows, with and without reopening.
LazyPlanBoundTheorem shows that testing the bound before an edge enters the open
list is enough with real costs.

**TreeSearchProofs.**  TreeBase says that the stack of calls is a path of the task from
the initial state, that its g values are the costs along it and that the operators
left to try are applicable.  From it Priced follows: no plan found is cheaper than
the goal distance.  What remains is that the plan of least cost is not missed.

For depth-first search and iterative deepening (DFSInv, IDSInv) this is Covers: the first
frames of the stack are on a cheapest path, and the last of them has
still to try the operator with which that path goes on (the rank says which, so that
no state occurs twice).  Trying it calls the next state of the path, or finds
the plan at its end.  DFSInv claims this as long as the limit, which shrinks
with each plan, exceeds the optimum; IDSInv claims it for the iteration whose limit
is the optimum, and that the limit does not pass the optimum without a plan.

For IDA\* a plan need not be found below a frame that is on a cheapest path: the
cache may have cut off a state because it was reached as cheaply
before in the same iteration.  IDAInv therefore keeps a set E of states, those called on a
cheapest way so far (Expanded): every cheapest way out of E leads through an operator that a
frame still has to try.  The cache holds with the number of this iteration
only states of E, or g values not on a cheapest way (Remembered), so what a hit cuts off is in E already;
what is dropped from a full cache does no harm.  When nothing is left to try, E
would be closed under cheapest ways, which cannot be, since by rank they end
at a goal (NeverExhausted).  Hence an iteration that finds no plan was cut off by
its limit on a cheapest way, and has noted an f of at most B for the next one (Noted).
IDAInv has as parameters the states T that
paths may use and this B.  BestPlanTheorem takes all states and the optimum;
FailureReasonTheorem, for heuristics that may be
inadmissible, takes the states never declared dead and Infinity - 1.
Both state what they say of the search that ends, so T is fixed by the final
contents of the heuristic cache, and the invariant is proved for every T and B that are Relevant.

**DataStructuresProofs.**  *Per-state information.*  The invariant PerStateInv says
who owns which block (OwnersInv: every block belongs to one object and registry), that
caches agree with the maps (CacheInv), that objects subscribe exactly where they
store (SubscribersInv) and that the contents are those expected (ContentsInv).
ReadsAreLatestTheorem and PointersValidTheorem follow for any number of objects,
addresses and blocks, used again in any way.

*State registry.*  PoolInv (ids are exactly 0..size-1 and their values
pairwise different) holds whatever clients do, and gives NoDuplicatesTheorem and
RegisteredTheorem.  HandleInv adds that every handle reads the values of its id;
a handle of a duplicate does so because the popped slot still holds the
duplicate's values, until the next push.  HandlesTheorem therefore assumes
EngineClient.  It covers tasks with axioms.

*Open lists.*  ListOK is the invariant of a sublist of each kind.  For the Pareto
list it says that the nondominated keys are exactly those of its buckets that no
bucket dominates.  The code compares a new key with the nondominated ones
only, and after a removal looks for keys that the removed one dominated; that this is
enough (ParetoInsertionExact, RemoveKeyExact) rests on SomeNondominated:
dominance is a strict order, so in a finite set every dominated key is dominated by a
nondominated one.  For the type-based list, IndexOK ties the vector of
buckets to its index through swaps and pops.  BucketsConsistentTheorem and
NoEntryLostTheorem follow, the latter from WaitingInLists and from the fact that a sublist that
holds an entry does not call itself empty (NonemptyOK: the size, the
nondominated keys or the vector).

*Landmarks.*  LandmarkInv contains UnreachedInv: a
landmark that is not among the reached ones of a state was not true before the
last state of some path to it and, once the marking loop has passed the landmark, is
not true in the state either.  Paths are not written as sequences: a state can be
reached, or reach the goal, without a landmark if it is in every set of states that is
closed under the edges that keep the landmark false (AvoidingClosed,
CanAvoidLeast); this avoids recursion.
UnreachedIsAvoidedTheorem and
CountedIsNeededTheorem hold for every sound landmark graph and every order of
reports.

**IteratedSearchProofs.**  AnytimeTheorem is a refinement proof: each step is a
step of AnytimeSearch or leaves its variables alone.  NoFutileRepeatTheorem
assumes engines that honour their bound and `pass_bound`, and that the initial
state is no goal state (ExactPhases); from a goal state it does not hold, as said above.

**PortfolioRunnerProofs.**  PortfolioInv has the types (RunInv) and what is on
disk while the planner writes (DiskInv): complete files come first, at most
the last one is incomplete.  PlansAreKeptHolds and ExitcodeIsTrueHolds (ExitInv:
the exit codes collected are those of the runs made) assume nothing of the
portfolio or the planner runs, and neither do the other two.  Whatever the
configurations do about their bounds, the plan manager accepts a plan only if it
is cheaper than the last one it knows (AcceptedUpToProperties), so its notes are
decreasing; it complains only if the first file it does not accept is complete
or not the last one (SatRun).  A run writes each plan cheaper than the one before
it, so that file is the first of the run, and its run ignored its
bound: this is BoundedRunsAreAcceptedHolds.  PlansOnDiskHolds adds that the first plan is below
the portfolio's bound where all runs that may ignore their bound are iterated
searches.

**CartesianProofs.**  For every task with finitely many variables, values and
operators (CartesianTask) and every sequence of subtasks; SubtaskAssumption says
what the generators give (subtask_generators.cc:50-171).  A subtask asks for all goals
or for a single fact that is not true from the start and is a goal or a landmark of the
delete relaxation (utils_landmarks.cc:24).  Copies of a task whose only goal is true
from the start are left out.
SaturationInvariant has these parts, which are all needed for one another:

* AbstractionOK: the sets of values of the abstract states are a partition of the
  concrete states that the hierarchy reproduces (PartitionOK, HierarchyOK), and
  there is a transition or a loop exactly where LeadsTo holds, a comparison of
  pre- and postcondition with the two sets for each variable on its own.  Since
  both states are products, this is the same as a concrete transition
  (OKIsInduced), and the three cases of `rewire` decide it from the values of the
  split variable alone (RefineKeeps), *provided both parts are nonempty* and the
  part with the initial state keeps the id 0.
* SeparatingFacts, SeparatingGoals and Separated: which values the state 0 and the
  current goal state still have while the goal is being split off, and afterwards
  that every abstract goal state has the goal fact or facts, or for a single fact
  is not possible before it.
* TreeOK: in each phase of `update_incrementally`, edges between states that are
  neither dirty nor queued do not improve a distance, a state that is not queued
  is at least as far away as its tree edge says, and distances grow along tree
  edges, so that the tree has no cycle.  Zero costs are the reason why the code scales its costs.
* CostsOK: remaining costs are naturals.

FlawsAreSplittable closes the circle: the trace ends at the latest after as many
steps as there are states, because distances decrease; where it deviates, the desired
set and the set of the state share a value in each variable, and the
concrete state misses one (LoopSplittable).  A goal state at the end of the trace
for which the goal is false cannot be for a single fact: the trace would
be a path to a state not possible before the goal (FactsBefore, which uses that
PossibleBefore is closed under the operators that do not achieve the goal).

AlwaysExact compares the tree with a computation from nothing, which the code's test
code does (`test_distances`).  Its hypothesis CostsFit says that, if
operators cost nothing, there are fewer states than Scale and a goal distance times
Scale, plus Scale, is below Infinity.  The code has 32-bit costs and numbers of
states, Scale = 2^32 and 64-bit distances, so only costs near 2^31 could break it.
Taken as an additional invariant of run Heuristics, TLC finds that CostsFit holds.  Without zero costs nothing is
assumed.

AlwaysAdmissible adds the abstractions up.  The invariant SumsOK is about the states
on a plan, that is reachable and solvable ones: the sum of their distances
is 0 if they are goal states, and an operator lowers it by at most what the abstractions took
of its cost so far.  A finished abstraction takes at least what the distance drops by, also
on a loop (StepSaturated), so FinishKeepsSums adds its distances to one side and
its saturated costs to the other; what was taken and what remains is together the
operator's cost, and the remaining cost is a natural.  Two steps need
more than consistent distances:

* The distance of a concrete goal state is 0 only if its abstract state is a goal state.
  For all goals this is the partition; for a single fact, which the goal state may have
  lost again, every abstract state that is not possible before the fact must count as a
  goal state.  SeparatesFully says so: variables already separated keep in state 0
  only values possible before the fact (GoalStatesKept, which uses that the
  fact is a goal or a landmark).
* Infinite distances, where nothing can be subtracted, do not occur on a plan:
  reachability forwards from the initial state and solvability backwards from the goal
  (ForwardInduction, BackwardInduction) keep them out, with paths again as closed
  sets instead of sequences (ReachedOnPlans, SolvedOnPlans).

It has two hypotheses besides.  CutShort is the step in which a limit ends the separation of
facts before its last variable; run CartesianLimit does that, and there SumIsAdmissible is
false.  SumsFit says that neither a finite distance plus a cost nor a remaining
cost that grows, because the saturated cost is negative, reaches Infinity; the code adds
in 32 bits and asserts only that remaining costs are not negative
(cost_saturation.cc:164).  Taken as additional properties of run Heuristics, TLC
finds that SumsFit holds and that no step is CutShort.

### Only model-checked

* Liveness: the prover handles neither fairness nor ENABLED.
* That the tree, open list and other state spaces of the runs are finite; in
  general a search need not end on an infinite task.

## 5. What is abstracted, and what is not modelled

* Preferred operators in the engines (OpenLists has them, with the boosts);
  randomised choice of operators; statistics, logging and progress checks.
* g has 30 bits in the code and is unbounded here.
* An evaluator may declare a state dead although a goal can be reached from it.
  FailureProvesUnsolvable therefore excepts the successors
  of such states; with a safe evaluator there are none.
* Of the open lists, the novelty list and the type-based best-first list; of
  per-state data, `PerStateArray` and `PerStateBitset`, which are built in the
  same way, and the segmented vectors below them.
* Of the novelty table, the indices of facts and pairs and the option to consider
  only states.  Exhaustive search, a variant of breadth-first search that dumps
  the state space, is left out.
* Of CEGAR, `search_strategy=astar` and the choice of the split (any flawed variable
  may be split); the search for subtasks that merges facts (`combine_facts`)
  and more than one generator of subtasks.  Distances are kept in 64 bits with a scale
  in the code; overflow needs costs near 2^31 and is not modelled.
* How landmark factories find landmarks and orders, and the cost partitioning
  over them.
* The driver's parsing and time arithmetic: a configuration is run or skipped.
  That the problem type read from a plan file changes between runs ("problem
  type has changed") cannot happen for one task and is left out.  Planner runs
  that crash end with SEARCH_CRITICAL_ERROR or SIGKILL, one of each kind.
* Of the cost types of a configuration only that of its search is modelled, and
  a configuration of several searches has one for all of them; H_COST_TRANSFORM
  alone counts as a placeholder.  Plan costs beyond the bound are
  one value in run Portfolio.
* Run Iterated leaves out the options under which its properties fail with a phase
  that exceeds its bound or with a last phase that is repeated with its old one:
  without `continue_on_solve` success can be reported without a plan, without
  `pass_bound` `repeat_last` is futile.  AnytimeTheorem covers every choice of
  `repeat_last`, `continue_on_fail` and `continue_on_solve` for exact phases.
* In single-plan mode an anytime configuration writes its numbered files from 1
  again, so a later run can truncate a complete plan; PlansOnDisk and
  PlansAreKept are about the normal mode only.
* SEARCH_UNSOLVABLE is returned by few engines (breadth-first search); the
  portfolio model includes it, AnytimeSearch does not.
* Not modelled: merge-and-shrink, pattern databases, saturated cost partitioning,
  delete relaxation, pruning methods, the translator, the h2 preprocessor, option
  parsing, LP-based heuristics, vendored and offline code (which makes up most
  of the repository's lines: clingo, cpddl with sqlite3, parallel_hashmap).
  `PROJECT.json` gives the reasons.

## 6. Plan

What is left, the behaviour most at risk first:

1. Merge-and-shrink: the factored transition system under label reduction,
   shrinking and pruning; label costs and distances.
2. Limited pruning with stubborn sets; saturated cost partitioning and its
   orders; the h2 fixpoint against a reference definition; delete relaxation
   with its priority queue.
3. The 30-bit width of g; preferred operators and boosts inside the engines.
4. Proofs: CostsFit and SumsFit from bounds on the costs of operators and the number
   of states, instead of as hypotheses.
