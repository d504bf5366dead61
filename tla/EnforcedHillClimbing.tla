----------------------- MODULE EnforcedHillClimbing -----------------------
(***************************************************************************)
(* EnforcedHillClimbingSearch: from the current state, a search by path    *)
(* cost for a state with a smaller estimate, which becomes the current one.*)
(* An entry of the open list is an edge, keyed by the g that it leads to;  *)
(* the order of equal keys is left open (preferred operators rank them).   *)
(***************************************************************************)
EXTENDS SearchEngine

CONSTANT PruneByPreferred     \* preferred_usage = prune_by_preferred

ASSUME EHCAssumption == PruneByPreferred \in BOOLEAN

VARIABLES
  current,                  \* the state of current_eval_context ...
  current_h,                \* ... and its estimate, which the context keeps
  current_phase_start_g,
  climbing,                 \* step() is in ehc()
  expanding,                \* the node that expand() is called for, or NoState
  edges                     \* the open list

ehcvars == <<current, current_h, current_phase_start_g, climbing, expanding, edges>>

EHCInit ==
  /\ current = InitialState
  /\ current_h = NO_VALUE
  /\ current_phase_start_g = -1
  /\ climbing = FALSE
  /\ expanding = NoState
  /\ edges = {}

EHCInitialize ==
  /\ search_status = "INITIALIZE"
  /\ \E h \in Estimates[InitialState] :
       /\ Evaluate(InitialState, dirty, h)
       /\ current_h' = h
       /\ IF h = DEAD_END    \* the planner exits with one code or the other
            THEN /\ search_status' \in {"UNSOLVABLE", "FAILED"}
                 /\ UNCHANGED <<ssvars, current_phase_start_g>>
            ELSE /\ search_status' = "IN_PROGRESS"
                 /\ OpenInitial
                 /\ current_phase_start_g' = 0
  /\ UNCHANGED <<solution, current, climbing, expanding, edges>>

\* step() up to the call of ehc().
BeginPhase ==
  /\ search_status = "IN_PROGRESS" /\ ~climbing
  /\ IF IsGoal(current)
       THEN SetPlan(current) /\ StepReturns("SOLVED") /\ UNCHANGED <<climbing, expanding>>
       ELSE climbing' = TRUE /\ expanding' = current /\ UNCHANGED enginevars
  /\ UNCHANGED <<ssvars, evalvars, current, current_h, current_phase_start_g, edges>>

Edges(n) ==
  {[key |-> g[n] + AdjustedCost(x[1]), parent |-> n, op |-> x[1], state |-> x[2]] :
     x \in Successors(n)}

\* A fault: operators are pruned even if the preferred ones should only rank first.
InsertedPruned(n) == SUBSET Edges(n)

\* expand() inserts the edges of a node, or those of preferred operators only.
Inserted(n) == IF PruneByPreferred THEN SUBSET Edges(n) ELSE {Edges(n)}

ExpandNode ==
  /\ expanding # NoState
  /\ \E inserted \in Inserted(expanding) : edges' = edges \union inserted
  /\ Close(expanding)
  /\ expanding' = NoState
  /\ UNCHANGED <<evalvars, enginevars, current, current_h, current_phase_start_g, climbing>>

EHCFails ==
  /\ climbing /\ expanding = NoState /\ edges = {}
  /\ StepReturns("FAILED")
  /\ climbing' = FALSE
  /\ UNCHANGED <<ssvars, evalvars, solution, current, current_h, current_phase_start_g,
                 expanding, edges>>

PopEdge(e) ==
  /\ climbing /\ expanding = NoState
  /\ e \in edges
  /\ \A f \in edges : e.key <= f.key

EdgeIgnored(e) ==
  real_g[e.parent] + Cost[e.op] >= Bound \/ status[e.state] # "NEW"

\* A fault: an edge that is ignored stays in the open list.
IgnoreEdgeKept(e) ==
  /\ PopEdge(e)
  /\ EdgeIgnored(e)
  /\ UNCHANGED <<ssvars, evalvars, enginevars, ehcvars>>

IgnoreEdge(e) ==
  /\ PopEdge(e)
  /\ EdgeIgnored(e)
  /\ edges' = edges \ {e}
  /\ UNCHANGED <<ssvars, evalvars, enginevars, current, current_h, current_phase_start_g,
                 climbing, expanding>>

EdgeToDeadEnd(e) ==
  /\ PopEdge(e)
  /\ ~EdgeIgnored(e)
  /\ Evaluate(e.state, NotifyTransition(e.state), DEAD_END)
  /\ MarkAsDeadEnd(e.state)
  /\ edges' = edges \ {e}
  /\ UNCHANGED <<enginevars, current, current_h, current_phase_start_g, climbing, expanding>>

\* A fault: the edges of the phase stay in the open list.
EdgesAfterClimbKept(e) == edges \ {e}

EdgesAfterClimb(e) == {}

\* A state with a smaller estimate begins a new phase, upon which the open list
\* is cleared; any other is expanded.
FollowEdge(e) ==
  /\ PopEdge(e)
  /\ ~EdgeIgnored(e)
  /\ Open(e.state, e.parent, e.op)
  /\ \E h \in Estimates[e.state] \ {DEAD_END} :
       /\ Evaluate(e.state, NotifyTransition(e.state), h)
       /\ IF h < current_h
            THEN /\ current' = e.state
                 /\ current_h' = h
                 /\ current_phase_start_g' = g'[e.state]
                 /\ edges' = EdgesAfterClimb(e)
                 /\ climbing' = FALSE
                 /\ StepReturns("IN_PROGRESS")
                 /\ UNCHANGED <<solution, expanding>>
            ELSE /\ expanding' = e.state
                 /\ edges' = edges \ {e}
                 /\ UNCHANGED <<enginevars, current, current_h, current_phase_start_g, climbing>>

EHCStep ==
  \/ EHCInitialize \/ BeginPhase \/ ExpandNode \/ EHCFails
  \/ \E e \in edges : IgnoreEdge(e) \/ EdgeToDeadEnd(e) \/ FollowEdge(e)

-----------------------------------------------------------------------------

\* The states reached through the current one.
Below ==
  LET below[k \in 0..Cardinality(States)] ==
        IF k = 0 THEN {current}
        ELSE below[k-1] \union {s \in States : parent_state_id[s] \in below[k-1]}
  IN  below[Cardinality(States)]

\* A phase is a search of its own below the current state, which is the best
\* state seen in this phase and in all earlier ones: no edge of an earlier phase
\* is left in the open list, and nothing reached below has a smaller estimate.
PhasesAreSeparate ==
  current_h >= 0 =>
    /\ current_phase_start_g = g[current]
    /\ \A s \in States : Reached(s) => heuristic_cache[s] >= current_h
    /\ \A e \in edges : e.parent \in Below /\ e.key >= current_phase_start_g

\* The search fails only after its last phase has tried everything: unless
\* operators were pruned, every successor of a state below the current one is
\* known, or beyond the bound.
FailedPhaseIsExhausted ==
  search_status = "FAILED" /\ current_h >= 0 /\ ~PruneByPreferred =>
    \A t \in Transitions :
      t[1] \in Below => status[t[3]] # "NEW" \/ real_g[t[1]] + Cost[t[2]] >= Bound

=============================================================================
