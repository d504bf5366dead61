---------------------------- MODULE EagerSearch ----------------------------
(***************************************************************************)
(* EagerSearch (A*, eager greedy and weighted A* best-first search), with  *)
(* the part of Heuristic that decides when an estimate is reused.          *)
(*                                                                         *)
(* One iteration of the loop that pops the open list, the expansion of the *)
(* popped node and the handling of each of its successors are the actions. *)
(* The open list holds entries of a key and a state; remove_min takes one  *)
(* with the least key, the insertion order among equal keys being left     *)
(* open.  With both weights 0 every entry can be next, which covers the    *)
(* randomised open lists.                                                  *)
(***************************************************************************)
EXTENDS SearchEngine

CONSTANTS
  ReopenClosed,       \* option reopen_closed
  LazyEvaluator,      \* the evaluator is also given as lazy_evaluator
  FEvaluator,         \* an f_eval is given, which depends on the evaluator
  Pruning             \* a pruning method other than null() is used

ASSUME EagerAssumption ==
  {ReopenClosed, LazyEvaluator, FEvaluator, Pruning} \subseteq BOOLEAN

VARIABLES
  open_list,
  node,               \* the node under expansion, NoState while popping
  pending             \* its operators not yet looked at, with the successors

vars == <<ssvars, enginevars, evalvars, open_list, node, pending>>

Entry(n, cost, h) == [key |-> Key(cost, h), state |-> n]

EagerTypeOK ==
  /\ SSTypeOK
  /\ EngineTypeOK
  /\ EvaluationTypeOK
  /\ open_list \in SUBSET [key : Nat, state : States]
  /\ node \in States \union {NoState}
  /\ pending \subseteq Operators \X States

Init ==
  /\ SSInit
  /\ EngineInit
  /\ EvaluationInit
  /\ open_list = {}
  /\ node = NoState
  /\ pending = {}

\* A fault: the key leaves out the cost, as a greedy search does.
InsertedGreedily(n, cost, h) == IF h = DEAD_END THEN {} ELSE {Entry(n, 0, h)}

\* OpenList::insert drops entries with an infinite estimate.
Inserted(n, cost, h) == IF h = DEAD_END THEN {} ELSE {Entry(n, cost, h)}

-----------------------------------------------------------------------------
(***************************************************************************)
(* EagerSearch::initialize.                                                *)
(***************************************************************************)

Initialize ==
  /\ search_status = "INITIALIZE"
  /\ search_status' = "IN_PROGRESS"
  /\ \E h \in Estimates[InitialState] :
       /\ Evaluate(InitialState, dirty, h)
       /\ IF h = DEAD_END THEN UNCHANGED ssvars ELSE OpenInitial
       /\ open_list' = Inserted(InitialState, 0, h)
  /\ UNCHANGED <<solution, node, pending>>

-----------------------------------------------------------------------------
(***************************************************************************)
(* EagerSearch::step, the loop that looks for a node to expand.            *)
(***************************************************************************)

Popping == search_status = "IN_PROGRESS" /\ node = NoState

RemoveMin(e) ==
  /\ Popping
  /\ e \in open_list
  /\ \A f \in open_list : e.key <= f.key

OpenListEmpty ==
  /\ Popping
  /\ open_list = {}
  /\ StepReturns("FAILED")
  /\ UNCHANGED <<ssvars, solution, open_list, evalvars, node, pending>>

\* A fault: the entry of a closed node stays in the open list.
SkipKeepingEntry(e) ==
  /\ RemoveMin(e)
  /\ \/ status[e.state] = "CLOSED"
     \/ LazyEvaluator /\ status[e.state] = "DEAD_END"
  /\ UNCHANGED vars

\* A node that is closed, or (with a lazy evaluator only) dead, is ignored.
Skip(e) ==
  /\ RemoveMin(e)
  /\ \/ status[e.state] = "CLOSED"
     \/ LazyEvaluator /\ status[e.state] = "DEAD_END"
  /\ open_list' = open_list \ {e}
  /\ UNCHANGED <<ssvars, enginevars, evalvars, node, pending>>

Reevaluates(s) == LazyEvaluator /\ heuristic_cache[s] # NO_VALUE

\* The lazy evaluator now declares the popped node a dead end ...
FoundDead(e) ==
  /\ RemoveMin(e)
  /\ status[e.state] \notin {"CLOSED", "DEAD_END"}
  /\ Reevaluates(e.state)
  /\ Evaluate(e.state, dirty, DEAD_END)
  /\ MarkAsDeadEnd(e.state)
  /\ open_list' = open_list \ {e}
  /\ UNCHANGED <<enginevars, node, pending>>

\* ... or gives another estimate than the cached one: back into the list.
Reinsert(e) ==
  /\ RemoveMin(e)
  /\ status[e.state] \notin {"CLOSED", "DEAD_END"}
  /\ Reevaluates(e.state)
  /\ \E h \in Estimates[e.state] \ {DEAD_END} :
       /\ Evaluate(e.state, dirty, h)
       /\ h # heuristic_cache[e.state]
       /\ open_list' = (open_list \ {e}) \union Inserted(e.state, g[e.state], h)
  /\ UNCHANGED <<ssvars, enginevars, node, pending>>

\* update_f_value_statistics only wants to report the f value of s, but for
\* that it evaluates s anew if its estimate is dirty.
UpdateFValueStatistics(s) ==
  IF FEvaluator THEN \E h \in Estimates[s] : Evaluate(s, dirty, h) ELSE UNCHANGED evalvars

\* Otherwise the node is closed.  A goal state ends the search; any other is
\* expanded, with the operators that the pruning method leaves.
Expand(e) ==
  /\ RemoveMin(e)
  /\ status[e.state] # "CLOSED"
  /\ IF Reevaluates(e.state)
       THEN Evaluate(e.state, dirty, heuristic_cache[e.state])
       ELSE UpdateFValueStatistics(e.state)
  /\ Close(e.state)
  /\ open_list' = open_list \ {e}
  /\ IF IsGoal(e.state)
       THEN SetPlan(e.state) /\ StepReturns("SOLVED") /\ UNCHANGED <<node, pending>>
       ELSE /\ node' = e.state
            /\ \E kept \in IF Pruning THEN SUBSET Successors(e.state)
                                      ELSE {Successors(e.state)} :
                 pending' = kept
            /\ UNCHANGED enginevars

-----------------------------------------------------------------------------
(***************************************************************************)
(* EagerSearch::step, the loop over the successors of the expanded node.   *)
(* x is the operator and the successor it handles.                         *)
(***************************************************************************)

NextSuccessor(x) ==
  /\ node # NoState
  /\ x \in pending
  /\ pending' = pending \ {x}
  /\ UNCHANGED <<enginevars, node>>

\* Faults: the bound is inclusive; an exclusive bound is made exclusive again.
OverInclusiveBound(o) == real_g[node] + Cost[o] > Bound
OverBoundTwice(o) == real_g[node] + Cost[o] >= Bound - 1

OverBound(o) == real_g[node] + Cost[o] >= Bound

CutOff(x) ==
  /\ NextSuccessor(x)
  /\ OverBound(x[1])
  /\ UNCHANGED <<ssvars, open_list, evalvars>>

\* The successor is a known dead end, or was reached as cheaply before.
NothingNew(x) ==
  /\ NextSuccessor(x)
  /\ ~OverBound(x[1])
  /\ \/ status[x[2]] = "DEAD_END"
     \/ /\ status[x[2]] \in {"OPEN", "CLOSED"}
        /\ ~Improves(x[2], node, x[1])
  /\ dirty' = NotifyTransition(x[2])
  /\ UNCHANGED <<ssvars, open_list, heuristic_cache>>

\* The successor was never seen: evaluate it, and open it or mark it dead.
NewSuccessor(x) ==
  /\ NextSuccessor(x)
  /\ ~OverBound(x[1])
  /\ status[x[2]] = "NEW"
  /\ \E h \in Estimates[x[2]] :
       /\ Evaluate(x[2], NotifyTransition(x[2]), h)
       /\ IF h = DEAD_END THEN MarkAsDeadEnd(x[2]) ELSE Open(x[2], node, x[1])
       /\ open_list' = open_list \union
                         Inserted(x[2], g[node] + AdjustedCost(x[1]), h)

\* A fault: a cheaper path is recorded, but the node keeps its old entry only.
ReopenSuccessorNotInserted(x) ==
  /\ NextSuccessor(x)
  /\ ~OverBound(x[1])
  /\ ReopenClosed
  /\ Improves(x[2], node, x[1])
  /\ Reopen(x[2], node, x[1])
  /\ \E h \in Estimates[x[2]] : Evaluate(x[2], NotifyTransition(x[2]), h)
  /\ UNCHANGED open_list

\* A fault: a closed node gets its cheaper path without being reopened.
ReopenSuccessorStaysClosed(x) ==
  /\ NextSuccessor(x)
  /\ ~OverBound(x[1])
  /\ ReopenClosed
  /\ Improves(x[2], node, x[1])
  /\ UpdateParent(x[2], node, x[1])
  /\ \E h \in Estimates[x[2]] :
       /\ Evaluate(x[2], NotifyTransition(x[2]), h)
       /\ open_list' = open_list \union Inserted(x[2], g'[x[2]], h)

\* A cheaper path to a node in the open or the closed list.
ReopenSuccessor(x) ==
  /\ NextSuccessor(x)
  /\ ~OverBound(x[1])
  /\ ReopenClosed
  /\ Improves(x[2], node, x[1])
  /\ Reopen(x[2], node, x[1])
  /\ \E h \in Estimates[x[2]] :
       /\ Evaluate(x[2], NotifyTransition(x[2]), h)
       /\ open_list' = open_list \union Inserted(x[2], g'[x[2]], h)

\* A fault: the path is not compared with the one that is known.
UpdateSuccessorAlways(x) ==
  /\ NextSuccessor(x)
  /\ ~OverBound(x[1])
  /\ ~ReopenClosed
  /\ UpdateParent(x[2], node, x[1])
  /\ dirty' = NotifyTransition(x[2])
  /\ UNCHANGED <<open_list, heuristic_cache>>

UpdateSuccessor(x) ==
  /\ NextSuccessor(x)
  /\ ~OverBound(x[1])
  /\ ~ReopenClosed
  /\ Improves(x[2], node, x[1])
  /\ UpdateParent(x[2], node, x[1])
  /\ dirty' = NotifyTransition(x[2])
  /\ UNCHANGED <<open_list, heuristic_cache>>

Expanded ==
  /\ node # NoState
  /\ pending = {}
  /\ node' = NoState
  /\ StepReturns("IN_PROGRESS")
  /\ UNCHANGED <<ssvars, solution, open_list, evalvars, pending>>

-----------------------------------------------------------------------------

EagerStep ==
  \/ Initialize
  \/ OpenListEmpty
  \/ \E e \in open_list : Skip(e) \/ FoundDead(e) \/ Reinsert(e) \/ Expand(e)
  \/ \E x \in pending :
       CutOff(x) \/ NothingNew(x) \/ NewSuccessor(x) \/ ReopenSuccessor(x)
         \/ UpdateSuccessor(x)
  \/ Expanded

\* search() has returned.
Terminated == Finished /\ UNCHANGED vars

Next == EagerStep \/ Terminated

\* One thread runs the search and nothing blocks it.
Spec == Init /\ [][Next]_vars /\ WF_vars(EagerStep)

-----------------------------------------------------------------------------
(***************************************************************************)
(* Properties.                                                             *)
(***************************************************************************)

Queued(n) == \E e \in open_list : e.state = n

\* A node that is open is never lost: the open list holds an entry for it.
\* When nodes are reopened, one of its entries carries the key of its present
\* g and present estimate, so that it is not expanded too late because of the
\* entries made before it was reached more cheaply.  (The exception is an
\* estimate that became infinite: insert drops the entry of such a node.)
OpenNodesQueued ==
  \A n \in States :
    status[n] = "OPEN" =>
      \/ heuristic_cache[n] = DEAD_END
      \/ ~ReopenClosed /\ Queued(n)
      \/ Entry(n, g[n], heuristic_cache[n]) \in open_list

\* What is left to do for a successor of an expanded node n: nothing if it is
\* cut off by the bound or dead, or if it was reached at least as cheaply.
Settled(n, x) ==
  \/ real_g[n] + Cost[x[1]] >= Bound
  \/ status[x[2]] = "DEAD_END"
  \/ /\ status[x[2]] # "NEW"
     /\ ReopenClosed => ~Improves(x[2], n, x[1])

\* Every operator of a closed node has been applied, except those that the
\* loop over the successors of the node under expansion still has to handle.
ClosedNodesExpanded ==
  ~Pruning /\ (ReopenClosed \/ Bound >= Infinity) =>
    \A n \in States : status[n] = "CLOSED" /\ n # solution =>
      \A x \in Successors(n) :
        Settled(n, x) \/ (n = node /\ x \in pending)

\* If the search fails although it pruned no operators, what it leaves behind
\* proves that there is no plan below the bound that avoids the dead ends: the
\* closed states contain no goal state, and every successor of a closed state
\* is closed, was declared a dead end or lies beyond the bound.
FailureProvesUnsolvable ==
  LET closed == {n \in States : status[n] = "CLOSED"}
      dead == {n \in States : status[n] = "DEAD_END" \/ heuristic_cache[n] = DEAD_END}
  IN search_status = "FAILED" /\ ~Pruning /\ (ReopenClosed \/ Bound >= Infinity)
      => /\ InitialState \in closed \union dead
         /\ \A t \in Transitions : t[1] \in closed =>
              t[3] \in closed \union dead \/ real_g[t[1]] + Cost[t[2]] >= Bound
         /\ closed \intersect GoalStates = {}

\* A* (keys by f = g + h) with reopening and an admissible evaluator returns
\* a cheapest plan, even if the evaluator is inconsistent or path-dependent.
OptimalPlan ==
  solution # NoState /\ ReopenClosed /\ ~Pruning /\ Admissible
    /\ GWeight > 0 /\ GWeight = HWeight
  => g[solution] = AdjustedGoalDistance[InitialState]

Consistent ==
  \A t \in Transitions :
    heuristic_cache[t[1]] >= 0 /\ heuristic_cache[t[3]] >= 0 =>
      heuristic_cache[t[1]] <= AdjustedCost(t[2]) + heuristic_cache[t[3]]

\* With a fixed evaluator whose estimates are consistent along the transitions
\* evaluated so far, A* never finds a cheaper path to a closed node, so that
\* its reopening only ever concerns open nodes (a comment in the code asks for
\* this test).  Without the option to reopen this is not so: an open node that
\* is reached more cheaply then keeps its place in the open list, and is
\* expanded after nodes that it leads to more cheaply.
ConsistentClosesForGood ==
  [][ReopenClosed /\ ~PathDependent /\ GWeight > 0 /\ GWeight = HWeight /\ Consistent' =>
       \A n \in States : status[n] = "CLOSED" => status'[n] = "CLOSED" /\ g'[n] = g[n]]_vars

=============================================================================
