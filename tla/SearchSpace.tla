---------------------------- MODULE SearchSpace ----------------------------
(***************************************************************************)
(* SearchSpace and SearchNode: what the engines remember of every state    *)
(* they have seen (a SearchNodeInfo record, kept here as one function per  *)
(* field), the operations that change it, and the contract an engine has   *)
(* to respect when it calls them.                                          *)
(*                                                                         *)
(* SSSpec is the abstract specification of a search engine's bookkeeping:  *)
(* EagerSearch and LazySearch are shown to implement it.                   *)
(***************************************************************************)
EXTENDS PlanningTask, Sequences

VARIABLES
  status,              \* SearchNodeInfo::status
  g,                   \* path cost under the cost type; -1 if never opened
  real_g,              \* path cost under the real costs; -1 if never opened
  parent_state_id,
  creating_operator

ssvars == <<status, g, real_g, parent_state_id, creating_operator>>

NodeStatus == {"NEW", "OPEN", "CLOSED", "DEAD_END"}

SSTypeOK ==
  /\ status \in [States -> NodeStatus]
  /\ g \in [States -> Int]
  /\ real_g \in [States -> Int]
  /\ parent_state_id \in [States -> States \union {NoState}]
  /\ creating_operator \in [States -> Operators \union {NoOperator}]

SSInit ==
  /\ status = [s \in States |-> "NEW"]
  /\ g = [s \in States |-> -1]
  /\ real_g = [s \in States |-> -1]
  /\ parent_state_id = [s \in States |-> NoState]
  /\ creating_operator = [s \in States |-> NoOperator]

-----------------------------------------------------------------------------
(***************************************************************************)
(* The operations of SearchNode.  Their guards are the assertions of the   *)
(* code; n is the node, p the parent node, o the operator from p to n.     *)
(***************************************************************************)

OpenInitial ==
  /\ status[InitialState] = "NEW"
  /\ status' = [status EXCEPT ![InitialState] = "OPEN"]
  /\ g' = [g EXCEPT ![InitialState] = 0]
  /\ real_g' = [real_g EXCEPT ![InitialState] = 0]
  /\ parent_state_id' = [parent_state_id EXCEPT ![InitialState] = NoState]
  /\ creating_operator' = [creating_operator EXCEPT ![InitialState] = NoOperator]

\* A fault: g is taken from the parent without the cost of the operator.
SetParentWithoutCost(n, p, o) ==
  /\ g' = [g EXCEPT ![n] = g[p]]
  /\ real_g' = [real_g EXCEPT ![n] = real_g[p] + Cost[o]]
  /\ parent_state_id' = [parent_state_id EXCEPT ![n] = p]
  /\ creating_operator' = [creating_operator EXCEPT ![n] = o]

\* The assignments that open, reopen and update_parent share.
SetParent(n, p, o) ==
  /\ g' = [g EXCEPT ![n] = g[p] + AdjustedCost(o)]
  /\ real_g' = [real_g EXCEPT ![n] = real_g[p] + Cost[o]]
  /\ parent_state_id' = [parent_state_id EXCEPT ![n] = p]
  /\ creating_operator' = [creating_operator EXCEPT ![n] = o]

Open(n, p, o) ==
  /\ status[n] = "NEW"
  /\ status' = [status EXCEPT ![n] = "OPEN"]
  /\ SetParent(n, p, o)

Reopen(n, p, o) ==
  /\ status[n] \in {"OPEN", "CLOSED"}
  /\ status' = [status EXCEPT ![n] = "OPEN"]
  /\ SetParent(n, p, o)

UpdateParent(n, p, o) ==
  /\ status[n] \in {"OPEN", "CLOSED"}
  /\ UNCHANGED status
  /\ SetParent(n, p, o)

Close(n) ==
  /\ status[n] = "OPEN"
  /\ status' = [status EXCEPT ![n] = "CLOSED"]
  /\ UNCHANGED <<g, real_g, parent_state_id, creating_operator>>

\* Asserts nothing: a node of any status can be declared a dead end, and its
\* g and its parent pointer stay.
MarkAsDeadEnd(n) ==
  /\ status' = [status EXCEPT ![n] = "DEAD_END"]
  /\ UNCHANGED <<g, real_g, parent_state_id, creating_operator>>

-----------------------------------------------------------------------------
(***************************************************************************)
(* SearchSpace::trace_path and calculate_plan_cost.                        *)
(***************************************************************************)

TracePath(n) ==
  LET path[x \in States] ==
        IF creating_operator[x] = NoOperator
          THEN <<>>
          ELSE Append(path[parent_state_id[x]], creating_operator[x])
  IN  path[n]

PlanCost(plan) ==
  LET sum[i \in 0..Len(plan)] == IF i = 0 THEN 0 ELSE sum[i-1] + Cost[plan[i]]
  IN  sum[Len(plan)]

-----------------------------------------------------------------------------
(***************************************************************************)
(* The contract.  An engine opens a node only as the successor of a node   *)
(* it has opened before, and gives a node a new parent only when that      *)
(* makes its g strictly smaller.                                           *)
(***************************************************************************)

Reached(n) == g[n] >= 0

Improves(n, p, o) == g[p] + AdjustedCost(o) < g[n]

OpenSome == \E p \in States : \E x \in Successors(p) :
              Reached(p) /\ Open(x[2], p, x[1])

ReopenSome == \E p \in States : \E x \in Successors(p) :
                Reached(p) /\ Improves(x[2], p, x[1]) /\ Reopen(x[2], p, x[1])

UpdateParentSome ==
  \E p \in States : \E x \in Successors(p) :
    Reached(p) /\ Improves(x[2], p, x[1]) /\ UpdateParent(x[2], p, x[1])

CloseSome == \E n \in States : Close(n)

MarkSomeAsDeadEnd == \E n \in States : MarkAsDeadEnd(n)

SSNext ==
  \/ OpenInitial
  \/ OpenSome
  \/ ReopenSome
  \/ UpdateParentSome
  \/ CloseSome
  \/ MarkSomeAsDeadEnd

SSSpec == SSInit /\ [][SSNext]_ssvars

-----------------------------------------------------------------------------
(***************************************************************************)
(* Properties.                                                             *)
(***************************************************************************)

\* Every node that was opened, except the initial one, was reached by a real
\* transition from an opened parent, and its g is at least the g of that
\* parent plus the adjusted cost of the operator.  (Not equal: reopen and
\* update_parent lower the g of a parent and leave its children alone.)
ParentTransition ==
  \A n \in States : parent_state_id[n] # NoState =>
    /\ Reached(parent_state_id[n])
    /\ <<parent_state_id[n], creating_operator[n], n>> \in Transitions
    /\ g[n] >= g[parent_state_id[n]] + AdjustedCost(creating_operator[n])

\* The status of a node, its g and its parent pointer fit together; the
\* initial state is the only opened node without a parent.
NodeConsistent ==
  \A n \in States :
    /\ status[n] \in {"OPEN", "CLOSED"} => Reached(n)
    /\ status[n] = "NEW" => g[n] = -1
    /\ g[n] >= -1
    /\ parent_state_id[n] = NoState <=> creating_operator[n] = NoOperator
    /\ parent_state_id[n] # NoState => Reached(n) /\ n # InitialState
    /\ Reached(n) /\ n # InitialState => parent_state_id[n] # NoState
    /\ Reached(InitialState) => g[InitialState] = 0

\* The parent pointers never form a cycle, zero-cost operators included: no
\* non-empty set of nodes contains the parent of each of its members.  Without
\* this trace_path does not return.
ParentsAcyclic ==
  \A S \in SUBSET {n \in States : parent_state_id[n] # NoState} :
    S # {} => \E n \in S : parent_state_id[n] \notin S

\* The plan that trace_path extracts for an opened node is applicable in the
\* initial state step by step and leads to that node, for an adjusted cost of
\* at most g, whatever reopening happened on the way.
TracedPlansExecute ==
  \A n \in States : Reached(n) =>
    LET plan == TracePath(n)
        run[i \in 0..Len(plan)] ==
          IF i = 0 THEN {<<InitialState, 0>>}
          ELSE {<<z[1][3], z[2][2] + AdjustedCost(plan[i])>> :
                  z \in {y \in Transitions \X run[i-1] :
                           y[1][1] = y[2][1] /\ y[1][2] = plan[i]}}
    IN  \E y \in run[Len(plan)] : y[1] = n /\ y[2] <= g[n]

\* The g of an opened node never increases, and a node once opened stays
\* opened: no step may forget or lengthen a path.
GNeverIncreases ==
  [][\A n \in States : Reached(n) => 0 <= g'[n] /\ g'[n] <= g[n]]_ssvars

=============================================================================
