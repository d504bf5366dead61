------------------------ MODULE CartesianAbstraction ------------------------
(***************************************************************************)
(* A Cartesian abstraction: abstract states that are products of sets of   *)
(* values, the transitions between them, and the refinement hierarchy that *)
(* leads from a concrete state to its abstract state.  Refine splits an    *)
(* abstract state in two and rewires the transitions of that state only.   *)
(*                                                                         *)
(* A partial assignment of values is a function whose domain is the set of *)
(* variables it assigns to.                                                *)
(***************************************************************************)
EXTENDS Integers, Sequences, FiniteSets, Functions

CONSTANTS
  CVars,                 \* numbered from 1
  CDomain,               \* of every variable: the set of its values
  CInit,                 \* the initial state
  COperators,
  CPre,                  \* of every operator: a partial assignment
  CEff,                  \* of every operator: a partial assignment
  Undefined              \* no value, no node

CStates == {s \in [CVars -> UNION Range(CDomain)] : \A v \in CVars : s[v] \in CDomain[v]}

\* Every variable has finitely many values, and more than one.
ASSUME CartesianTask ==
  /\ IsFiniteSet(CVars) /\ CVars = 1..Cardinality(CVars) /\ CInit \in CStates
  /\ CDomain = [v \in CVars |-> CDomain[v]] /\ IsFiniteSet(COperators)
  /\ \A v \in CVars : IsFiniteSet(CDomain[v]) /\ Cardinality(CDomain[v]) > 1
  /\ \A o \in COperators : \A f \in {CPre[o], CEff[o]} :
       DOMAIN f \subseteq CVars /\ \A v \in DOMAIN f : f[v] \in CDomain[v]

ASSUME UndefinedAssumption ==
  /\ Undefined \notin Nat /\ \A v \in CVars : Undefined \notin CDomain[v]
  /\ Undefined \notin COperators \X Nat

VARIABLES
  subgoal,               \* of the subtask: a partial assignment
  states,                \* of every id: the sets of values, and the node of the hierarchy
  goals,                 \* the ids of the abstract goal states
  transitions,           \* triples <<id, operator, id>> of different ids
  loops,                 \* pairs <<id, operator>>
  num_non_loops,
  nodes                  \* of the refinement hierarchy

abstractionvars == <<subgoal, states, goals, transitions, loops, num_non_loops, nodes>>

NumStates == Cardinality(DOMAIN states)
InitId == 0

Includes(set, s) == \A v \in DOMAIN s : s[v] \in set[v]

Applicable(o, s) == \A v \in DOMAIN CPre[o] : s[v] = CPre[o][v]
Successor(o, s) == [v \in CVars |-> IF v \in DOMAIN CEff[o] THEN CEff[o][v] ELSE s[v]]

PreconditionValue(o, var) == IF var \in DOMAIN CPre[o] THEN CPre[o][var] ELSE Undefined
PostconditionValue(o, var) ==
  IF var \in DOMAIN CEff[o] THEN CEff[o][var] ELSE PreconditionValue(o, var)

Leaf(id) == [var |-> Undefined, value |-> id, left |-> Undefined, right |-> Undefined]

TrivialStates == [id \in {InitId} |-> [set |-> CDomain, node |-> 1]]

AbstractionInit ==
  /\ states = TrivialStates /\ nodes = <<Leaf(InitId)>>
  /\ goals = {InitId}
  /\ transitions = {} /\ num_non_loops = 0
  /\ loops = {InitId} \X COperators

\* The abstraction of the next subtask.
InitializeTrivialAbstraction(goal) ==
  /\ subgoal' = goal
  /\ states' = TrivialStates /\ nodes' = <<Leaf(InitId)>>
  /\ goals' = {InitId}
  /\ transitions' = {} /\ num_non_loops' = 0
  /\ loops' = {InitId} \X COperators

-----------------------------------------------------------------------------
(* TransitionSystem::rewire.  State v becomes v1 and v2: records of an id  *)
(* and the values that are left of the variable that is split.             *)

\* Fault: an operator without precondition or effect on the variable is assumed
\* to lead to both parts.
EndsInBoth(u, v1, v2) == {v1.id, v2.id}

\* The parts of v that overlap with the values of u.
Overlapping(u, v1, v2) ==
  {w.id : w \in {w \in {v1, v2} : u \intersect w.values # {}}}

\* The part that has the value.
With(value, v1, v2) == IF value \in v1.values THEN v1.id ELSE v2.id

RewiredIncoming(v, v1, v2, var) ==
  UNION {LET post == PostconditionValue(t[2], var)
             targets == IF post = Undefined THEN Overlapping(states[t[1]].set[var], v1, v2)
                        ELSE {With(post, v1, v2)}
         IN {<<t[1], t[2], w>> : w \in targets}
         : t \in {t \in transitions : t[3] = v}}

RewiredOutgoing(v, v1, v2, var) ==
  UNION {LET pre == PreconditionValue(t[2], var)
             post == PostconditionValue(t[2], var)
             sources == IF post = Undefined THEN Overlapping(states[t[3]].set[var], v1, v2)
                        ELSE IF pre = Undefined THEN {v1.id, v2.id}
                        ELSE {With(pre, v1, v2)}
         IN {<<w, t[2], t[3]>> : w \in sources}
         : t \in {t \in transitions : t[1] = v}}

\* The loops of v: triples of which some are loops again.
RewiredLoops(v, v1, v2, var) ==
  UNION {LET pre == PreconditionValue(o, var)
             post == PostconditionValue(o, var)
             sources == IF pre = Undefined THEN {v1.id, v2.id} ELSE {With(pre, v1, v2)}
         IN {<<w, o, IF post = Undefined THEN w ELSE With(post, v1, v2)>> : w \in sources}
         : o \in {o \in COperators : <<v, o>> \in loops}}

Rewire(v, v1, v2, var) ==
  LET old == {t \in transitions : v \in {t[1], t[3]}}
      fromLoops == RewiredLoops(v, v1, v2, var)
      new == RewiredIncoming(v, v1, v2, var) \union RewiredOutgoing(v, v1, v2, var)
               \union {t \in fromLoops : t[1] # t[3]}
  IN /\ transitions' = (transitions \ old) \union new
     /\ num_non_loops' = num_non_loops - Cardinality(old) + Cardinality(new)
     /\ loops' = {l \in loops : l[1] # v}
                   \union {<<t[1], t[2]>> : t \in {t \in fromLoops : t[1] = t[3]}}

-----------------------------------------------------------------------------
(* RefinementHierarchy.                                                    *)

\* A chain of nodes, one for each of the values, that all lead to the same right
\* child.  The right child comes first behind the old nodes, then the rest of
\* the chain, whose last node is the left child.
SplitNode(node, var, values, left, right) ==
  LET rest == Len(nodes) + 1
      helper(i) == IF i = 0 THEN node ELSE rest + i
      inner(i) == [var |-> var, value |-> values[i+1], left |-> helper(i+1), right |-> rest]
  IN [n \in 1..rest + Len(values) |->
        IF n = node THEN inner(0)
        ELSE IF n < rest THEN nodes[n]
        ELSE IF n = rest THEN Leaf(right)
        ELSE IF n - rest = Len(values) THEN Leaf(left)
        ELSE inner(n - rest)]

\* get_node_id
NodeOf(s) ==
  LET below[n \in DOMAIN nodes] ==
        IF nodes[n].left = Undefined THEN n
        ELSE below[IF s[nodes[n].var] = nodes[n].value THEN nodes[n].right ELSE nodes[n].left]
  IN below[1]

\* get_abstract_state_id
AbstractStateOf(s) == nodes[NodeOf(s)].value

-----------------------------------------------------------------------------
(* Abstraction::refine.                                                    *)

\* The part with these values must keep the id of v.
KeepInitial(v, values, var) == v = InitId /\ CInit[var] \in values

\* Any order of the values, a choice the code makes by their size.
Enumeration(values) == CHOOSE s \in [1..Cardinality(values) -> values] : IsInjective(s)

\* Split v by the wanted values of var.  The smaller part becomes the right
\* child, and takes a new id unless it has the initial state.
Refine(v, var, wanted, goal_ids) ==
  LET all == states[v].set[var]
      rest == all \ wanted
      swapped == Cardinality(wanted) > 1 /\ Cardinality(wanted) > Cardinality(rest)
      values2 == IF swapped THEN rest ELSE wanted
      values1 == IF swapped THEN wanted ELSE rest
      \* The ids are swapped with the sets, and again to keep the initial state.
      keeps == ~swapped /\ KeepInitial(v, values2, var)
      id1 == IF swapped \/ keeps THEN NumStates ELSE v
      id2 == IF swapped \/ keeps THEN v ELSE NumStates
      set1 == [states[v].set EXCEPT ![var] = values1]
      set2 == [states[v].set EXCEPT ![var] = values2]
      v1 == [id |-> id1, values |-> values1]
      v2 == [id |-> id2, values |-> values2]
      new_nodes == SplitNode(states[v].node, var, Enumeration(values2), id1, id2)
      right == Len(nodes) + 1
  IN /\ nodes' = new_nodes
     /\ states' = [id \in DOMAIN states \union {NumStates} |->
          IF id = id1 THEN [set |-> set1, node |-> Len(new_nodes)]
          ELSE IF id = id2 THEN [set |-> set2, node |-> right]
          ELSE states[id]]
     /\ goals' = (goal_ids \ {v}) \union
          (IF v \in goal_ids
           THEN {w \in {id1, id2} :
                   Includes(IF w = id1 THEN set1 ELSE set2, subgoal)}
           ELSE {})
     /\ Rewire(v, v1, v2, var)
     /\ UNCHANGED subgoal

=============================================================================
