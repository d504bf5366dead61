---------------------------- MODULE LazySearch ----------------------------
(***************************************************************************)
(* LazySearch (lazy greedy and weighted A* best-first search).  The open   *)
(* list holds edges, a closed state and an operator to apply in it, with   *)
(* the key of the state's estimate; the successor is generated and         *)
(* evaluated when the edge is removed.                                     *)
(*                                                                         *)
(* One step() is split at the calls that other code could observe:         *)
(* EvaluateCurrent or IgnoreCurrent, then CloseCurrent, then FetchNextState*)
(***************************************************************************)
EXTENDS SearchEngine

CONSTANT ReopenClosed        \* option reopen_closed

ASSUME LazyAssumption == ReopenClosed \in BOOLEAN

VARIABLES
  open_list,
  current_state,
  current_predecessor_id,
  current_operator_id,
  current_g,
  current_real_g,
  phase              \* where step() is

currentvars == <<current_state, current_predecessor_id, current_operator_id,
                 current_g, current_real_g>>
vars == <<ssvars, enginevars, evalvars, open_list, currentvars, phase>>

Edge == [key : Nat, state : States, op : Operators, successor : States]

LazyTypeOK ==
  /\ SSTypeOK
  /\ EngineTypeOK
  /\ EvaluationTypeOK
  /\ open_list \in SUBSET Edge
  /\ current_state \in States
  /\ current_predecessor_id \in States \union {NoState}
  /\ current_operator_id \in Operators \union {NoOperator}
  /\ current_g \in Nat
  /\ current_real_g \in Nat
  /\ phase \in {"evaluate", "close", "fetch"}

\* The constructor makes the initial state the current one.
Init ==
  /\ SSInit
  /\ EngineInit
  /\ EvaluationInit
  /\ open_list = {}
  /\ current_state = InitialState
  /\ current_predecessor_id = NoState
  /\ current_operator_id = NoOperator
  /\ current_g = 0
  /\ current_real_g = 0
  /\ phase = "evaluate"

\* LazySearch::initialize only reports the initial state to the evaluators.
Initialize ==
  /\ search_status = "INITIALIZE"
  /\ search_status' = "IN_PROGRESS"
  /\ UNCHANGED <<ssvars, solution, evalvars, open_list, currentvars, phase>>

-----------------------------------------------------------------------------
(***************************************************************************)
(* LazySearch::step up to the opening of the current state.                *)
(***************************************************************************)

InPhase(p) == search_status = "IN_PROGRESS" /\ phase = p

IsNew == status[current_state] = "NEW"

\* A fault: a path that is as dear reopens the node.
ReopensCurrentIfEqual ==
  ReopenClosed /\ status[current_state] \in {"OPEN", "CLOSED"}
    /\ current_g <= g[current_state]

\* A fault: nodes of the closed list are never reopened.
ReopensOpenOnly ==
  ReopenClosed /\ status[current_state] = "OPEN" /\ current_g < g[current_state]

ReopensCurrent ==
  /\ ReopenClosed
  /\ status[current_state] \in {"OPEN", "CLOSED"}
  /\ current_g < g[current_state]

\* The evaluators hear of the transition, but not for the initial state.
Notified ==
  IF current_operator_id = NoOperator THEN dirty ELSE NotifyTransition(current_state)

OpenCurrent ==
  IF current_predecessor_id = NoState
    THEN OpenInitial
    ELSE \/ ReopensCurrent /\ Reopen(current_state, current_predecessor_id, current_operator_id)
         \/ IsNew /\ Open(current_state, current_predecessor_id, current_operator_id)

EvaluateCurrent ==
  /\ InPhase("evaluate")
  /\ IsNew \/ ReopensCurrent
  /\ \E h \in Estimates[current_state] :
       /\ Evaluate(current_state, Notified, h)
       /\ IF h = DEAD_END THEN MarkAsDeadEnd(current_state) ELSE OpenCurrent
       /\ phase' = IF h = DEAD_END THEN "fetch" ELSE "close"
  /\ UNCHANGED <<enginevars, open_list, currentvars>>

IgnoreCurrent ==
  /\ InPhase("evaluate")
  /\ ~IsNew /\ ~ReopensCurrent
  /\ phase' = "fetch"
  /\ UNCHANGED <<ssvars, enginevars, evalvars, open_list, currentvars>>

-----------------------------------------------------------------------------
(***************************************************************************)
(* close(), the goal test and generate_successors().                       *)
(***************************************************************************)

NewEdge(x) ==
  [key |-> Key(current_g + AdjustedCost(x[1]), heuristic_cache[current_state]),
   state |-> current_state, op |-> x[1], successor |-> x[2]]

\* A fault: the estimate is counted as well, as a bound on f would.
FBelowBound(o) == current_real_g + Cost[o] + heuristic_cache[current_state] < Bound

BelowBound(o) == current_real_g + Cost[o] < Bound

GenerateSuccessors ==
  open_list' = open_list \union
                 {NewEdge(x) : x \in {y \in Successors(current_state) : BelowBound(y[1])}}

CloseCurrent ==
  /\ InPhase("close")
  /\ Close(current_state)
  /\ IF IsGoal(current_state)
       THEN /\ SetPlan(current_state)
            /\ StepReturns("SOLVED")
            /\ UNCHANGED <<open_list, phase>>
       ELSE /\ GenerateSuccessors
            /\ phase' = "fetch"
            /\ UNCHANGED enginevars
  /\ UNCHANGED <<evalvars, currentvars>>

-----------------------------------------------------------------------------
(***************************************************************************)
(* fetch_next_state(), which ends every step.                              *)
(***************************************************************************)

OpenListEmpty ==
  /\ InPhase("fetch")
  /\ open_list = {}
  /\ StepReturns("FAILED")
  /\ UNCHANGED <<ssvars, solution, evalvars, open_list, currentvars, phase>>

\* A fault: the edge stays in the open list.
FetchNextStateNotRemoved(e) ==
  /\ InPhase("fetch")
  /\ e \in open_list
  /\ \A f \in open_list : e.key <= f.key
  /\ current_predecessor_id' = e.state
  /\ current_operator_id' = e.op
  /\ current_state' = e.successor
  /\ current_g' = g[e.state] + AdjustedCost(e.op)
  /\ current_real_g' = real_g[e.state] + Cost[e.op]
  /\ phase' = "evaluate"
  /\ StepReturns("IN_PROGRESS")
  /\ UNCHANGED <<ssvars, solution, evalvars, open_list>>

FetchNextState(e) ==
  /\ InPhase("fetch")
  /\ e \in open_list
  /\ \A f \in open_list : e.key <= f.key
  /\ open_list' = open_list \ {e}
  /\ current_predecessor_id' = e.state
  /\ current_operator_id' = e.op
  /\ current_state' = e.successor
  /\ current_g' = g[e.state] + AdjustedCost(e.op)
  /\ current_real_g' = real_g[e.state] + Cost[e.op]
  /\ phase' = "evaluate"
  /\ StepReturns("IN_PROGRESS")
  /\ UNCHANGED <<ssvars, solution, evalvars>>

-----------------------------------------------------------------------------

LazyStep ==
  \/ Initialize
  \/ EvaluateCurrent
  \/ IgnoreCurrent
  \/ CloseCurrent
  \/ OpenListEmpty
  \/ \E e \in open_list : FetchNextState(e)

\* search() has returned.
Terminated == Finished /\ UNCHANGED vars

Next == LazyStep \/ Terminated

\* One thread runs the search and nothing blocks it.
Spec == Init /\ [][Next]_vars /\ WF_vars(LazyStep)

-----------------------------------------------------------------------------
(***************************************************************************)
(* Properties.                                                             *)
(***************************************************************************)

\* The current g values, computed when the edge was fetched, are not stale
\* while the current state is handled: they are those of the predecessor.
CurrentIsFresh ==
  current_predecessor_id # NoState =>
    /\ current_g = g[current_predecessor_id] + AdjustedCost(current_operator_id)
    /\ current_real_g = real_g[current_predecessor_id] + Cost[current_operator_id]
    /\ Reached(current_predecessor_id)
    /\ <<current_predecessor_id, current_operator_id, current_state>> \in Transitions

\* The edge by x from n is still to be looked at.
EdgeWaits(n, x) ==
  \/ \E e \in open_list : e.state = n /\ e.op = x[1]
  \/ /\ phase = "evaluate"
     /\ current_predecessor_id = n /\ current_operator_id = x[1]

\* No edge is lost: of a closed state every operator has been looked at to
\* the effect that its successor is reached (with reopening at least as
\* cheaply) or dead, or waits in the open list, or leads beyond the bound.
NoEdgeLost ==
  \A n \in States : status[n] = "CLOSED" /\ n # solution =>
    \A x \in Successors(n) :
      \/ real_g[n] + Cost[x[1]] >= Bound
      \/ EdgeWaits(n, x)
      \/ status[x[2]] = "DEAD_END"
      \/ status[x[2]] # "NEW" /\ (ReopenClosed => ~Improves(x[2], n, x[1]))

\* If the search fails, what it leaves behind proves that there is no plan
\* below the bound that avoids the dead ends: it closed states that contain no
\* goal state and from which only dead ends and the bound lead away.
FailureProvesUnsolvable ==
  LET closed == {n \in States : status[n] = "CLOSED"}
      dead == {n \in States : status[n] = "DEAD_END"}
  IN search_status = "FAILED" =>
       /\ InitialState \in closed \union dead
       /\ \A t \in Transitions : t[1] \in closed =>
            t[3] \in closed \union dead \/ real_g[t[1]] + Cost[t[2]] >= Bound
       /\ closed \intersect GoalStates = {}

=============================================================================
