-------------------------- MODULE SearchSpaceProofs --------------------------
(***************************************************************************)
(* The search space invariants hold for every task, however large, under   *)
(* every client that respects the contract SSNext.                         *)
(***************************************************************************)
EXTENDS SearchSpace, WellFoundedInduction, SequenceTheorems, FiniteSetTheorems, TLAPS

\* The three structural properties together with the types are inductive:
\* ParentsAcyclic alone is not, because the step that redirects a parent
\* pointer is safe only thanks to the g values along the old pointers.
SSInv == SSTypeOK /\ NodeConsistent /\ ParentTransition /\ ParentsAcyclic

\* Operator costs stay natural numbers under every cost type.
LEMMA AdjustedCostNat ==
  ASSUME NEW o \in Operators
  PROVE  AdjustedCost(o) \in Nat
BY TaskAssumption, CostAssumption DEF AdjustedCost

\* A successor comes from a transition of the task.
LEMMA SuccessorTransition ==
  ASSUME NEW p \in States, NEW x \in Successors(p)
  PROVE  /\ x[1] \in Operators
         /\ x[2] \in States
         /\ <<p, x[1], x[2]>> \in Transitions
         /\ x[1] # NoOperator
BY TaskAssumption DEF Successors

\* The fresh search space, in which no state has been seen, satisfies all.
LEMMA SSInitInv == SSInit => SSInv
<1> SUFFICES ASSUME SSInit PROVE SSInv
  OBVIOUS
<1>1. SSTypeOK
  BY DEF SSInit, SSTypeOK, NodeStatus
<1>2. NodeConsistent
  BY TaskAssumption DEF SSInit, NodeConsistent, Reached
<1>3. ParentTransition
  BY DEF SSInit, ParentTransition
<1>4. ParentsAcyclic
  BY DEF SSInit, ParentsAcyclic
<1> QED
  BY <1>1, <1>2, <1>3, <1>4 DEF SSInv

\* Giving node n the parent p keeps the invariant, if p was opened and n is
\* either new or strictly improved: the step that open, reopen and
\* update_parent have in common.
LEMMA SetParentInv ==
  ASSUME SSInv,
         NEW p \in States, NEW x \in Successors(p), NEW n, NEW o,
         n = x[2], o = x[1],
         Reached(p),
         status[n] = "NEW" \/ Improves(n, p, o),
         SetParent(n, p, o),
         NEW new \in {"OPEN", "CLOSED"},
         status' = [status EXCEPT ![n] = new]
  PROVE  SSInv'
<1>1. /\ n \in States /\ o \in Operators /\ AdjustedCost(o) \in Nat
      /\ <<p, o, n>> \in Transitions /\ o # NoOperator
      /\ p # NoState /\ n # NoState /\ NoState \notin States /\ NoOperator \notin Operators
  BY SuccessorTransition, AdjustedCostNat, TaskAssumption
<1>2. /\ SSTypeOK /\ NodeConsistent /\ ParentTransition /\ ParentsAcyclic
  BY DEF SSInv
<1>3. /\ g[p] \in Int /\ g[n] \in Int /\ g[p] >= 0
      /\ real_g[p] + Cost[o] \in Int
  BY <1>1, <1>2, CostAssumption DEF SSTypeOK, Reached
<1>4. SSTypeOK'
  BY <1>1, <1>2, <1>3 DEF SSTypeOK, SetParent, NodeStatus
\* The old g of n was larger, or -1 if n is new; the others keep theirs.
<1>5. /\ g'[n] = g[p] + AdjustedCost(o)
      /\ parent_state_id'[n] = p
      /\ creating_operator'[n] = o
      /\ \A m \in States \ {n} :
           /\ g'[m] = g[m] /\ status'[m] = status[m]
           /\ parent_state_id'[m] = parent_state_id[m]
           /\ creating_operator'[m] = creating_operator[m]
      /\ g'[n] \in Int /\ g'[n] >= 0
  BY <1>1, <1>2, <1>3 DEF SetParent, SSTypeOK
<1>6. n # p /\ n # InitialState
  <2>1. CASE status[n] = "NEW"
    <3>1. g[n] = -1
      BY <2>1, <1>1, <1>2 DEF NodeConsistent
    <3>2. CASE n = InitialState
      \* A reached node has a chain of parents, which would end in n.
      <4> DEFINE R == {m \in States : parent_state_id[m] # NoState}
      <4>1. ~Reached(n)
        BY <3>1 DEF Reached
      <4>2. \A m \in R : parent_state_id[m] \in R
        BY <4>1, <3>2, <1>2 DEF NodeConsistent, ParentTransition, SSTypeOK
      <4>3. p \in R
        BY <4>1, <3>2, <1>2, <1>3 DEF NodeConsistent, Reached
      <4> QED
        BY <4>2, <4>3, <1>2 DEF ParentsAcyclic
    <3> QED
      BY <3>1, <3>2, <1>3
  <2>2. CASE Improves(n, p, o)
    BY <2>2, <1>1, <1>2, <1>3 DEF Improves, NodeConsistent, Reached
  <2> QED
    BY <2>1, <2>2
<1>7. NodeConsistent'
  <2>1. ASSUME NEW m \in States PROVE
         /\ status'[m] \in {"OPEN", "CLOSED"} => g'[m] >= 0
         /\ status'[m] = "NEW" => g'[m] = -1
         /\ g'[m] >= -1
         /\ parent_state_id'[m] = NoState <=> creating_operator'[m] = NoOperator
         /\ parent_state_id'[m] # NoState => g'[m] >= 0 /\ m # InitialState
         /\ g'[m] >= 0 /\ m # InitialState => parent_state_id'[m] # NoState
         /\ g'[InitialState] >= 0 => g'[InitialState] = 0
    <3>1. CASE m = n
      BY <3>1, <1>1, <1>2, <1>3, <1>5, <1>6, TaskAssumption DEF NodeConsistent, SSTypeOK, Reached
    <3>2. CASE m # n
      BY <3>2, <1>2, <1>5, <1>6, TaskAssumption DEF NodeConsistent, Reached
    <3> QED
      BY <3>1, <3>2
  <2> QED
    BY <2>1 DEF NodeConsistent, Reached
<1>8. ParentTransition'
  <2> SUFFICES ASSUME NEW m \in States, parent_state_id'[m] # NoState
      PROVE /\ g'[parent_state_id'[m]] >= 0
            /\ <<parent_state_id'[m], creating_operator'[m], m>> \in Transitions
            /\ g'[m] >= g'[parent_state_id'[m]] + AdjustedCost(creating_operator'[m])
    BY DEF ParentTransition, Reached
  <2>1. CASE m = n
    BY <2>1, <1>1, <1>3, <1>5, <1>6
  <2>2. CASE m # n
    <3> DEFINE q == parent_state_id[m]
    <3>1. /\ parent_state_id'[m] = q /\ creating_operator'[m] = creating_operator[m]
          /\ g'[m] = g[m] /\ q # NoState
      BY <2>2, <1>5
    <3>2. /\ q \in States /\ creating_operator[m] \in Operators
          /\ g[q] >= 0 /\ <<q, creating_operator[m], m>> \in Transitions
          /\ g[m] >= g[q] + AdjustedCost(creating_operator[m])
      BY <3>1, <1>1, <1>2 DEF ParentTransition, SSTypeOK, NodeConsistent, Reached
    <3>3. AdjustedCost(creating_operator[m]) \in Nat
      BY <3>2, AdjustedCostNat
    <3>4. CASE q = n
      <4>1. status[n] # "NEW"
        BY <3>2, <3>4, <1>1, <1>2 DEF NodeConsistent
      <4>2. g'[n] < g[n]
        BY <4>1, <1>5 DEF Improves
      <4> QED
        BY <4>2, <3>1, <3>2, <3>3, <3>4, <1>2, <1>3, <1>5 DEF SSTypeOK
    <3>5. CASE q # n
      BY <3>1, <3>2, <3>5, <1>5
    <3> QED
      BY <3>4, <3>5
  <2> QED
    BY <2>1, <2>2
<1>9. ParentsAcyclic'
  \* Take a closed set S after the step; without n in it, it was closed before.
  <2> SUFFICES ASSUME NEW S \in SUBSET {m \in States : parent_state_id'[m] # NoState},
                      S # {},
                      \A m \in S : parent_state_id'[m] \in S
               PROVE  FALSE
    BY DEF ParentsAcyclic
  <2> DEFINE had(T) == T \in SUBSET {m \in States : parent_state_id[m] # NoState}
  <2>1. CASE n \notin S
    <3>1. had(S) /\ \A m \in S : parent_state_id[m] \in S
      BY <2>1, <1>5
    <3> QED
      BY <3>1, <1>2 DEF ParentsAcyclic
  <2>2. CASE n \in S /\ status[n] = "NEW"
    <3> DEFINE T == S \ {n}
    <3>1. p \in T
      BY <2>2, <1>5, <1>6
    <3>2. had(T)
      BY <1>5
    <3>3. ASSUME NEW m \in T PROVE parent_state_id[m] \in T
      <4>1. parent_state_id[m] \in S /\ parent_state_id[m] # NoState
        BY <3>3, <1>5
      <4>2. g[parent_state_id[m]] >= 0
        BY <4>1, <3>3, <1>2 DEF ParentTransition, Reached
      <4>3. g[n] = -1
        BY <2>2, <1>1, <1>2 DEF NodeConsistent
      <4> QED
        BY <4>1, <4>2, <4>3
    <3> QED
      BY <3>1, <3>2, <3>3, <1>2 DEF ParentsAcyclic
  <2>3. CASE n \in S /\ status[n] # "NEW"
    \* Along the old pointers g does not increase, so the members of S that
    \* are no costlier than p were closed under them, and n is not one.
    <3> DEFINE T == {m \in S : g[m] <= g[p]}
    <3>1. g[n] > g[p]
      BY <2>3, <1>1, <1>3 DEF Improves
    <3>2. p \in T
      BY <2>3, <1>3, <1>5
    <3>3. had(T)
      <4>1. n \notin T
        BY <3>1, <1>3
      <4> QED
        BY <4>1, <1>5
    <3>4. ASSUME NEW m \in T PROVE parent_state_id[m] \in T
      <4>1. m # n /\ m \in States /\ g[m] \in Int /\ g[m] <= g[p]
        BY <3>1, <3>4, <1>2, <1>3 DEF SSTypeOK
      <4>2. parent_state_id[m] \in S /\ parent_state_id[m] # NoState
        BY <4>1, <1>5
      <4>3. /\ parent_state_id[m] \in States /\ creating_operator[m] \in Operators
            /\ g[m] >= g[parent_state_id[m]] + AdjustedCost(creating_operator[m])
        BY <4>1, <4>2, <1>2 DEF ParentTransition, SSTypeOK, NodeConsistent
      <4>4. AdjustedCost(creating_operator[m]) \in Nat /\ g[parent_state_id[m]] \in Int
        BY <4>3, <1>2, AdjustedCostNat DEF SSTypeOK
      <4> QED
        BY <4>1, <4>2, <4>3, <4>4, <1>3
    <3> QED
      BY <3>2, <3>3, <3>4, <1>2 DEF ParentsAcyclic
  <2> QED
    BY <2>1, <2>2, <2>3
<1> QED
  BY <1>4, <1>7, <1>8, <1>9 DEF SSInv


\* Every step of a client that respects the contract keeps the invariant.
LEMMA SSNextInv == SSInv /\ [SSNext]_ssvars => SSInv'
<1> SUFFICES ASSUME SSInv, [SSNext]_ssvars PROVE SSInv'
  OBVIOUS
<1>1. CASE OpenInitial
  <2> DEFINE R == {m \in States : parent_state_id[m] # NoState}
  <2>1. SSTypeOK'
    BY <1>1, TaskAssumption DEF OpenInitial, SSInv, SSTypeOK, NodeStatus
  <2>2. /\ g[InitialState] = -1 /\ ~Reached(InitialState)
        /\ parent_state_id[InitialState] = NoState
        /\ creating_operator[InitialState] = NoOperator
    BY <1>1, TaskAssumption DEF OpenInitial, SSInv, NodeConsistent, Reached
  <2>3. UNCHANGED <<parent_state_id, creating_operator>>
    BY <1>1, <2>2 DEF OpenInitial, SSInv, SSTypeOK
  <2>4. NodeConsistent'
    BY <1>1, <2>2, <2>3, TaskAssumption
    DEF OpenInitial, SSInv, SSTypeOK, NodeConsistent, Reached
  <2>5. ASSUME NEW m \in R
        PROVE  parent_state_id[m] \in States /\ parent_state_id[m] # InitialState /\ m # InitialState
    BY <2>2 DEF SSInv, SSTypeOK, ParentTransition
  <2>6. ParentTransition'
    BY <1>1, <2>3, <2>5 DEF OpenInitial, SSInv, SSTypeOK, ParentTransition, Reached
  <2>7. ParentsAcyclic'
    BY <2>3 DEF SSInv, ParentsAcyclic
  <2> QED
    BY <2>1, <2>4, <2>6, <2>7 DEF SSInv
<1>2. CASE OpenSome
  <2> PICK p \in States : \E x \in Successors(p) : Reached(p) /\ Open(x[2], p, x[1])
    BY <1>2 DEF OpenSome
  <2> PICK x \in Successors(p) : Reached(p) /\ Open(x[2], p, x[1])
    OBVIOUS
  <2> QED
    BY SetParentInv DEF Open
<1>3. CASE ReopenSome
  <2> PICK p \in States : \E x \in Successors(p) :
        Reached(p) /\ Improves(x[2], p, x[1]) /\ Reopen(x[2], p, x[1])
    BY <1>3 DEF ReopenSome
  <2> PICK x \in Successors(p) :
        Reached(p) /\ Improves(x[2], p, x[1]) /\ Reopen(x[2], p, x[1])
    OBVIOUS
  <2> QED
    BY SetParentInv DEF Reopen
<1>4. CASE UpdateParentSome
  <2> PICK p \in States : \E x \in Successors(p) :
        Reached(p) /\ Improves(x[2], p, x[1]) /\ UpdateParent(x[2], p, x[1])
    BY <1>4 DEF UpdateParentSome
  <2> PICK x \in Successors(p) :
        Reached(p) /\ Improves(x[2], p, x[1]) /\ UpdateParent(x[2], p, x[1])
    OBVIOUS
  <2>1. status' = [status EXCEPT ![x[2]] = status[x[2]]] /\ status[x[2]] \in {"OPEN", "CLOSED"}
    BY SuccessorTransition DEF UpdateParent, SSInv, SSTypeOK
  <2> QED
    BY <2>1, SetParentInv DEF UpdateParent
<1>5. CASE CloseSome
  <2> PICK n \in States : Close(n)
    BY <1>5 DEF CloseSome
  <2>1. SSTypeOK' /\ NodeConsistent'
    BY DEF Close, SSInv, SSTypeOK, NodeStatus, NodeConsistent, Reached
  <2>2. ParentTransition' /\ ParentsAcyclic'
    BY DEF Close, SSInv, ParentTransition, ParentsAcyclic, Reached
  <2> QED
    BY <2>1, <2>2 DEF SSInv
<1>6. CASE MarkSomeAsDeadEnd
  <2> PICK n \in States : MarkAsDeadEnd(n)
    BY <1>6 DEF MarkSomeAsDeadEnd
  <2>1. SSTypeOK' /\ NodeConsistent'
    BY DEF MarkAsDeadEnd, SSInv, SSTypeOK, NodeStatus, NodeConsistent, Reached
  <2>2. ParentTransition' /\ ParentsAcyclic'
    BY DEF MarkAsDeadEnd, SSInv, ParentTransition, ParentsAcyclic, Reached
  <2> QED
    BY <2>1, <2>2 DEF SSInv
<1>7. CASE UNCHANGED ssvars
  BY <1>7 DEF ssvars, SSInv, SSTypeOK, NodeConsistent, ParentTransition, ParentsAcyclic, Reached
<1> QED
  BY <1>1, <1>2, <1>3, <1>4, <1>5, <1>6, <1>7 DEF SSNext

\* In every behaviour the search space is consistent at all times.
THEOREM SSInvariant == SSSpec => []SSInv
<1> QED
  BY SSInitInv, SSNextInv, PTL DEF SSSpec

\* Parent pointers never form a cycle, so that trace_path returns, for every
\* task, with zero-cost operators and with reopening.
THEOREM AcyclicTheorem == SSSpec => []ParentsAcyclic
<1>1. SSInv => ParentsAcyclic
  BY DEF SSInv
<1> QED
  BY <1>1, SSInvariant, PTL

\* Every parent pointer is a transition of the task, from an opened node
\* that is cheaper by at least the adjusted cost of the operator.
THEOREM ParentTheorem == SSSpec => []ParentTransition
<1>1. SSInv => ParentTransition
  BY DEF SSInv
<1> QED
  BY <1>1, SSInvariant, PTL

\* Status, g and parent pointer of every node fit together.
THEOREM ConsistentTheorem == SSSpec => [](SSTypeOK /\ NodeConsistent)
<1>1. SSInv => SSTypeOK /\ NodeConsistent
  BY DEF SSInv
<1> QED
  BY <1>1, SSInvariant, PTL

\* No step of a client forgets or lengthens a known path.
LEMMA GStep ==
  ASSUME SSInv, SSNext
  PROVE  \A n \in States : Reached(n) => 0 <= g'[n] /\ g'[n] <= g[n]
<1> USE DEF Reached
<1> SUFFICES ASSUME NEW m \in States, g[m] >= 0 PROVE 0 <= g'[m] /\ g'[m] <= g[m]
  OBVIOUS
<1>1. SSInv'
  BY SSNextInv
<1>2. g \in [States -> Int] /\ g' \in [States -> Int] /\ InitialState \in States
  BY <1>1, TaskAssumption DEF SSInv, SSTypeOK
<1>3. CASE OpenInitial
  BY <1>2, <1>3 DEF OpenInitial, SSInv, NodeConsistent
<1>4. ASSUME NEW p \in States, NEW x \in Successors(p), Reached(p), SetParent(x[2], p, x[1]),
             status[x[2]] = "NEW" \/ Improves(x[2], p, x[1])
      PROVE  0 <= g'[m] /\ g'[m] <= g[m]
  <2>1. x[2] \in States /\ x[1] \in Operators /\ AdjustedCost(x[1]) \in Nat
    BY SuccessorTransition, AdjustedCostNat
  <2>2. CASE m = x[2]
    BY <1>2, <1>4, <2>1, <2>2 DEF SetParent, Improves, SSInv, NodeConsistent
  <2>3. CASE m # x[2]
    BY <1>2, <1>4, <2>1, <2>3 DEF SetParent
  <2> QED
    BY <2>2, <2>3
<1>5. CASE OpenSome \/ ReopenSome \/ UpdateParentSome
  BY <1>4, <1>5 DEF OpenSome, ReopenSome, UpdateParentSome, Open, Reopen, UpdateParent
<1>6. CASE CloseSome \/ MarkSomeAsDeadEnd
  BY <1>2, <1>6 DEF CloseSome, MarkSomeAsDeadEnd, Close, MarkAsDeadEnd
<1> QED
  BY <1>3, <1>5, <1>6 DEF SSNext

THEOREM GTheorem == SSSpec => GNeverIncreases
<1>1. SSInv /\ [SSNext]_ssvars =>
        [\A n \in States : Reached(n) => 0 <= g'[n] /\ g'[n] <= g[n]]_ssvars
  BY GStep
<1> QED
  BY <1>1, SSInvariant, PTL DEF SSSpec, GNeverIncreases

-----------------------------------------------------------------------------
(***************************************************************************)
(* Induction and recursion over the natural numbers, from the existence of *)
(* minimal elements.                                                       *)
(***************************************************************************)

\* Every set of natural numbers has a least element.
LEMMA LeastElement ==
  ASSUME NEW T, T \subseteq Nat, T # {}
  PROVE  \E x \in T : \A y \in T : x <= y
<1>1. IsWellFoundedOn(OpToRel(<, Nat), Nat)
  BY NatLessThanWellFounded
<1>2. PICK x \in T : \A y \in T : ~(<<y, x>> \in OpToRel(<, Nat))
  BY <1>1, WFMin
<1>3. \A y \in T : ~(y < x)
  BY <1>2 DEF OpToRel
<1> QED
  BY <1>3

LEMMA Induction ==
  ASSUME NEW S, 0 \in S, \A n \in Nat : n \in S => n + 1 \in S
  PROVE  Nat \subseteq S
<1>1. ASSUME Nat \ S # {} PROVE FALSE
  <2>1. PICK x \in Nat \ S : \A y \in Nat \ S : x <= y
    BY <1>1, LeastElement
  <2>2. x # 0 /\ x - 1 \in Nat
    BY <2>1
  <2>3. x - 1 \in S
    BY <2>1, <2>2
  <2> QED
    BY <2>1, <2>2, <2>3
<1> QED
  BY <1>1

\* The recursive functions over 0..n in which step[i] leads from the value for
\* i - 1 to the one for i.
Solutions(X, first, n, step) ==
  {f \in [0..n -> X] : f[0] = first /\ \A i \in 1..n : f[i] = step[i][f[i-1]]}

\* Such a function exists.
LEMMA Recursion ==
  ASSUME NEW X, NEW first \in X, NEW n \in Nat, NEW step \in [1..n -> [X -> X]]
  PROVE  Solutions(X, first, n, step) # {}
<1> DEFINE Upto(m, f) == /\ f \in [0..m -> X] /\ f[0] = first
                         /\ \A i \in 1..m : f[i] = step[i][f[i-1]]
           S == {m \in Nat : m <= n => \E f : Upto(m, f)}
<1>1. 0 \in S
  <2>1. Upto(0, [i \in 0..0 |-> first])
    OBVIOUS
  <2> QED
    BY <2>1
<1>2. ASSUME NEW m \in Nat, m \in S PROVE m + 1 \in S
  <2>1. SUFFICES ASSUME m + 1 <= n PROVE \E f : Upto(m + 1, f)
    OBVIOUS
  <2>2. PICK f : Upto(m, f)
    BY <1>2, <2>1
  <2> DEFINE h == [i \in 0..m+1 |-> IF i = m + 1 THEN step[m+1][f[m]] ELSE f[i]]
  <2>3. f[m] \in X /\ m + 1 \in 1..n
    BY <2>1, <2>2
  <2>4. step[m+1][f[m]] \in X
    BY <2>3
  <2>5. h \in [0..m+1 -> X] /\ h[0] = first
    BY <2>2, <2>4
  <2>6. ASSUME NEW i \in 1..m+1 PROVE h[i] = step[i][h[i-1]]
    <3>1. CASE i = m + 1
      BY <3>1
    <3>2. CASE i # m + 1
      <4>1. i \in 1..m /\ h[i] = f[i] /\ h[i-1] = f[i-1]
        BY <3>2
      <4> QED
        BY <2>2, <4>1
    <3> QED
      BY <3>1, <3>2
  <2> QED
    BY <2>5, <2>6
<1> HIDE DEF S
<1>3. n \in S
  BY <1>1, <1>2, Induction
<1> QED
  BY <1>3 DEF S, Solutions

-----------------------------------------------------------------------------
(***************************************************************************)
(* trace_path.  Along the parent pointers of an opened node runs exactly   *)
(* one path back to the initial state, because the pointers are acyclic;   *)
(* the recursion of TracePath collects its operators, and replayed from    *)
(* the initial state they lead to the node for at most its g.              *)
(***************************************************************************)

\* s names the operators along the parent pointers from a node without a
\* parent to n.
Trace(n, s) ==
  \E w \in [1..Len(s)+1 -> States] :
    /\ creating_operator[w[1]] = NoOperator
    /\ w[Len(s)+1] = n
    /\ \A i \in 1..Len(s) : /\ creating_operator[w[i+1]] = s[i]
                            /\ parent_state_id[w[i+1]] = w[i]

LEMMA TraceRoot ==
  ASSUME NEW x \in States, creating_operator[x] = NoOperator
  PROVE  Trace(x, <<>>)
<1> DEFINE w == [i \in 1..1 |-> x]
<1>1. /\ w \in [1..Len(<<>>)+1 -> States] /\ w[1] = x /\ w[Len(<<>>)+1] = x
      /\ 1..Len(<<>>) = {}
  OBVIOUS
<1> HIDE DEF w
<1> QED
  BY <1>1 DEF Trace

LEMMA TraceExtended ==
  ASSUME NEW x \in States, NEW s \in Seq(Operators), creating_operator[x] \in Operators,
         Trace(parent_state_id[x], s)
  PROVE  Trace(x, Append(s, creating_operator[x]))
<1> DEFINE o == creating_operator[x]
           k == Len(s)
<1>1. PICK w \in [1..k+1 -> States] :
        /\ creating_operator[w[1]] = NoOperator
        /\ w[k+1] = parent_state_id[x]
        /\ \A i \in 1..k : creating_operator[w[i+1]] = s[i] /\ parent_state_id[w[i+1]] = w[i]
  BY DEF Trace
<1>2. /\ k \in Nat /\ Len(Append(s, o)) = k + 1
      /\ \A i \in 1..k : Append(s, o)[i] = s[i]
      /\ Append(s, o)[k+1] = o
  BY AppendProperties
<1> DEFINE v == [i \in 1..(k+1)+1 |-> IF i = (k + 1) + 1 THEN x ELSE w[i]]
<1>3. /\ v \in [1..(k+1)+1 -> States]
      /\ v[1] = w[1] /\ v[(k+1)+1] = x /\ v[k+1] = w[k+1]
      /\ \A i \in 1..k : v[i+1] = w[i+1] /\ v[i] = w[i]
  BY <1>2
<1>4. ASSUME NEW i \in 1..k+1
      PROVE  creating_operator[v[i+1]] = Append(s, o)[i] /\ parent_state_id[v[i+1]] = v[i]
  <2>1. CASE i = k + 1
    BY <1>1, <1>2, <1>3, <2>1
  <2>2. CASE i # k + 1
    <3>1. i \in 1..k
      BY <1>2, <2>2
    <3> QED
      BY <1>1, <1>2, <1>3, <3>1
  <2> QED
    BY <2>1, <2>2
<1> HIDE DEF v
<1> DEFINE so == Append(s, o)
<1>5. /\ v \in [1..Len(so)+1 -> States]
      /\ creating_operator[v[1]] = NoOperator
      /\ v[Len(so)+1] = x
      /\ \A i \in 1..Len(so) : creating_operator[v[i+1]] = so[i] /\ parent_state_id[v[i+1]] = v[i]
  BY <1>1, <1>2, <1>3, <1>4
<1> HIDE DEF so
<1>6. Trace(x, so)
  BY <1>5 DEF Trace
<1> QED
  BY <1>6 DEF so

\* The last operator of a trace is the one that created the node; the others
\* are a trace of its parent.
LEMMA TraceLast ==
  ASSUME NEW x \in States, NEW s \in Seq(Operators), Trace(x, s), s # <<>>
  PROVE  /\ s[Len(s)] = creating_operator[x]
         /\ \E t \in Seq(Operators) :
              Trace(parent_state_id[x], t) /\ s = Append(t, creating_operator[x])
<1>1. PICK k \in Nat : Len(s) = k + 1
  <2>1. Len(s) - 1 \in Nat
    BY EmptySeq
  <2> QED
    BY <2>1
<1>2. PICK w \in [1..(k+1)+1 -> States] :
        /\ creating_operator[w[1]] = NoOperator
        /\ w[(k+1)+1] = x
        /\ \A i \in 1..k+1 : creating_operator[w[i+1]] = s[i] /\ parent_state_id[w[i+1]] = w[i]
  BY <1>1 DEF Trace
<1>3. creating_operator[x] = s[k+1] /\ parent_state_id[x] = w[k+1]
  BY <1>1, <1>2
<1>4. PICK t \in Seq(Operators), o \in Operators : s = Append(t, o)
  BY SequenceEmptyOrAppend
<1>5. Len(t) = k /\ o = s[k+1] /\ \A i \in 1..k : t[i] = s[i]
  BY <1>1, <1>4, AppendProperties
<1> DEFINE v == [i \in 1..k+1 |-> w[i]]
<1>6. /\ v \in [1..k+1 -> States] /\ v[1] = w[1] /\ v[k+1] = w[k+1]
      /\ \A i \in 1..k : v[i+1] = w[i+1] /\ v[i] = w[i]
  BY <1>1
<1> HIDE DEF v
<1>7. \A i \in 1..k : creating_operator[v[i+1]] = t[i] /\ parent_state_id[v[i+1]] = v[i]
  <2> SUFFICES ASSUME NEW i \in 1..k
               PROVE  creating_operator[v[i+1]] = t[i] /\ parent_state_id[v[i+1]] = v[i]
    OBVIOUS
  <2>1. i \in 1..k+1
    BY <1>1
  <2> QED
    BY <1>2, <1>5, <1>6, <2>1
<1>8. Trace(parent_state_id[x], t)
  <2>1. /\ v \in [1..Len(t)+1 -> States]
        /\ creating_operator[v[1]] = NoOperator
        /\ v[Len(t)+1] = parent_state_id[x]
        /\ \A i \in 1..Len(t) : creating_operator[v[i+1]] = t[i] /\ parent_state_id[v[i+1]] = v[i]
    BY <1>2, <1>3, <1>5, <1>6, <1>7
  <2> QED
    BY <2>1 DEF Trace
<1> QED
  BY <1>1, <1>3, <1>4, <1>5, <1>8

\* The parent of a node that was created by an operator is a node again.
LEMMA ParentOfNode ==
  ASSUME SSInv, NEW x \in States, creating_operator[x] # NoOperator
  PROVE  /\ parent_state_id[x] # NoState /\ parent_state_id[x] \in States
         /\ creating_operator[x] \in Operators
BY DEF SSInv, SSTypeOK, NodeConsistent

\* What holds of a node whenever it holds of the node's parent holds of all.
LEMMA ParentInduction ==
  ASSUME SSInv, NEW S,
         \A x \in States : creating_operator[x] # NoOperator /\ parent_state_id[x] \in S => x \in S,
         \A x \in States : creating_operator[x] = NoOperator => x \in S
  PROVE  States \subseteq S
<1> DEFINE B == States \ S
<1>1. \A x \in B : parent_state_id[x] # NoState /\ parent_state_id[x] \in B
  BY ParentOfNode
<1>2. B \in SUBSET {n \in States : parent_state_id[n] # NoState}
  BY <1>1
<1>3. B = {}
  BY <1>1, <1>2 DEF SSInv, ParentsAcyclic
<1> QED
  BY <1>3

LEMMA TraceExists ==
  ASSUME SSInv
  PROVE  \A x \in States : \E s \in Seq(Operators) : Trace(x, s)
<1> DEFINE S == {x \in States : \E s \in Seq(Operators) : Trace(x, s)}
<1>1. ASSUME NEW x \in States, creating_operator[x] # NoOperator, parent_state_id[x] \in S
      PROVE  x \in S
  <2>1. PICK s \in Seq(Operators) : Trace(parent_state_id[x], s)
    BY <1>1
  <2>2. creating_operator[x] \in Operators
    BY <1>1, ParentOfNode
  <2>3. Append(s, creating_operator[x]) \in Seq(Operators)
    BY <2>2, AppendProperties
  <2> QED
    BY <2>1, <2>2, <2>3, TraceExtended
<1>2. ASSUME NEW x \in States, creating_operator[x] = NoOperator PROVE x \in S
  <2>1. <<>> \in Seq(Operators)
    OBVIOUS
  <2> QED
    BY <1>2, <2>1, TraceRoot
<1> HIDE DEF S
<1>3. States \subseteq S
  BY <1>1, <1>2, ParentInduction
<1> QED
  BY <1>3 DEF S

LEMMA TraceUnique ==
  ASSUME SSInv
  PROVE  \A x \in States : \A s, t \in Seq(Operators) : Trace(x, s) /\ Trace(x, t) => s = t
<1> DEFINE S == {x \in States : \A s, t \in Seq(Operators) : Trace(x, s) /\ Trace(x, t) => s = t}
<1>0. NoOperator \notin Operators
  BY TaskAssumption
<1>1. ASSUME NEW x \in States, creating_operator[x] = NoOperator,
             NEW s \in Seq(Operators), Trace(x, s)
      PROVE  s = <<>>
  <2>1. SUFFICES ASSUME s # <<>> PROVE FALSE
    OBVIOUS
  <2>2. s[Len(s)] = creating_operator[x]
    BY <1>1, <2>1, TraceLast
  <2>3. Len(s) \in 1..Len(s)
    BY <2>1, EmptySeq
  <2>4. s[Len(s)] \in Operators
    BY <2>3, ElementOfSeq
  <2> QED
    BY <1>0, <1>1, <2>2, <2>4
<1>2. ASSUME NEW x \in States, creating_operator[x] # NoOperator,
             NEW s \in Seq(Operators), Trace(x, s)
      PROVE  s # <<>>
  <2>1. SUFFICES ASSUME s = <<>> PROVE FALSE
    OBVIOUS
  <2>2. PICK w \in [1..0+1 -> States] : creating_operator[w[1]] = NoOperator /\ w[0+1] = x
    BY <1>2, <2>1 DEF Trace
  <2> QED
    BY <1>2, <2>2
<1>3. ASSUME NEW x \in States, creating_operator[x] # NoOperator, parent_state_id[x] \in S
      PROVE  x \in S
  <2>1. SUFFICES ASSUME NEW s \in Seq(Operators), NEW t \in Seq(Operators), Trace(x, s), Trace(x, t)
                 PROVE  s = t
    OBVIOUS
  <2>2. PICK s1 \in Seq(Operators) :
          Trace(parent_state_id[x], s1) /\ s = Append(s1, creating_operator[x])
    BY <1>2, <1>3, <2>1, TraceLast
  <2>3. PICK t1 \in Seq(Operators) :
          Trace(parent_state_id[x], t1) /\ t = Append(t1, creating_operator[x])
    BY <1>2, <1>3, <2>1, TraceLast
  <2> QED
    BY <1>3, <2>2, <2>3
<1>4. \A x \in States : creating_operator[x] = NoOperator => x \in S
  BY <1>1
<1> HIDE DEF S
<1>5. States \subseteq S
  BY <1>3, <1>4, ParentInduction
<1> QED
  BY <1>5 DEF S

\* trace_path follows the parent pointers to their end.
LEMMA TracePathIsTrace ==
  ASSUME SSInv, NEW n \in States
  PROVE  TracePath(n) \in Seq(Operators) /\ Trace(n, TracePath(n))
<1> DEFINE IsPath(f) ==
      f = [x \in States |-> IF creating_operator[x] = NoOperator THEN <<>>
                            ELSE Append(f[parent_state_id[x]], creating_operator[x])]
           T == [x \in States |-> CHOOSE s \in Seq(Operators) : Trace(x, s)]
           path == CHOOSE f : IsPath(f)
<1>1. \A x \in States : T[x] \in Seq(Operators) /\ Trace(x, T[x])
  BY TraceExists
<1>2. IsPath(T)
  <2>1. ASSUME NEW x \in States
        PROVE  T[x] = IF creating_operator[x] = NoOperator THEN <<>>
                      ELSE Append(T[parent_state_id[x]], creating_operator[x])
    <3>1. CASE creating_operator[x] = NoOperator
      <4>1. <<>> \in Seq(Operators) /\ Trace(x, <<>>)
        BY <3>1, TraceRoot
      <4> QED
        BY <1>1, <3>1, <4>1, TraceUnique
    <3>2. CASE creating_operator[x] # NoOperator
      <4>1. parent_state_id[x] \in States /\ creating_operator[x] \in Operators
        BY <3>2, ParentOfNode
      <4>2. /\ Append(T[parent_state_id[x]], creating_operator[x]) \in Seq(Operators)
            /\ Trace(x, Append(T[parent_state_id[x]], creating_operator[x]))
        BY <1>1, <4>1, TraceExtended, AppendProperties
      <4> QED
        BY <1>1, <3>2, <4>2, TraceUnique
    <3> QED
      BY <3>1, <3>2
  <2>2. T = [x \in States |-> T[x]]
    OBVIOUS
  <2> HIDE DEF T
  <2> QED
    BY <2>1, <2>2
<1> HIDE DEF T
<1>3. IsPath(path)
  BY <1>2
<1> HIDE DEF path
<1>4. TracePath(n) = path[n]
  BY DEF TracePath, path
<1> DEFINE S == {x \in States : path[x] \in Seq(Operators) /\ Trace(x, path[x])}
<1>5. ASSUME NEW x \in States
      PROVE  path[x] = IF creating_operator[x] = NoOperator THEN <<>>
                       ELSE Append(path[parent_state_id[x]], creating_operator[x])
  BY <1>3
<1>6. ASSUME NEW x \in States, creating_operator[x] # NoOperator, parent_state_id[x] \in S
      PROVE  x \in S
  <2>1. path[x] = Append(path[parent_state_id[x]], creating_operator[x])
    BY <1>5, <1>6
  <2>2. creating_operator[x] \in Operators
    BY <1>6, ParentOfNode
  <2>3. path[x] \in Seq(Operators)
    BY <1>6, <2>1, <2>2, AppendProperties
  <2> QED
    BY <1>6, <2>1, <2>2, <2>3, TraceExtended
<1>7. ASSUME NEW x \in States, creating_operator[x] = NoOperator PROVE x \in S
  <2>1. path[x] = <<>> /\ <<>> \in Seq(Operators)
    BY <1>5, <1>7
  <2> QED
    BY <1>7, <2>1, TraceRoot
<1> HIDE DEF S
<1>8. n \in S
  BY <1>6, <1>7, ParentInduction
<1> QED
  BY <1>4, <1>8 DEF S

\* The trace of an opened node starts in the initial state.
LEMMA TraceOfReached ==
  ASSUME SSInv, NEW n \in States, Reached(n), NEW s \in Seq(Operators), Trace(n, s)
  PROVE  \E w \in [1..Len(s)+1 -> States] :
           /\ w[1] = InitialState /\ w[Len(s)+1] = n
           /\ \A i \in 1..Len(s) :
                /\ s[i] \in Operators
                /\ <<w[i], s[i], w[i+1]>> \in Transitions
                /\ creating_operator[w[i+1]] = s[i] /\ parent_state_id[w[i+1]] = w[i]
                /\ w[i+1] # InitialState /\ Reached(w[i+1])
                /\ g[w[i+1]] >= g[w[i]] + AdjustedCost(s[i])
<1>0. NodeConsistent /\ ParentTransition /\ NoOperator \notin Operators
  BY TaskAssumption DEF SSInv
<1>1. PICK w \in [1..Len(s)+1 -> States] :
        /\ creating_operator[w[1]] = NoOperator
        /\ w[Len(s)+1] = n
        /\ \A i \in 1..Len(s) : creating_operator[w[i+1]] = s[i] /\ parent_state_id[w[i+1]] = w[i]
  BY DEF Trace
<1>2. Len(s) \in Nat
  OBVIOUS
<1>3. ASSUME NEW i \in 1..Len(s)
      PROVE  /\ s[i] \in Operators
             /\ <<w[i], s[i], w[i+1]>> \in Transitions
             /\ creating_operator[w[i+1]] = s[i] /\ parent_state_id[w[i+1]] = w[i]
             /\ w[i+1] # InitialState /\ Reached(w[i+1]) /\ Reached(w[i])
             /\ g[w[i+1]] >= g[w[i]] + AdjustedCost(s[i])
  <2>1. w[i] \in States /\ w[i+1] \in States /\ s[i] \in Operators
    BY <1>2, ElementOfSeq
  <2>2. creating_operator[w[i+1]] = s[i] /\ parent_state_id[w[i+1]] = w[i]
    BY <1>1
  <2>3. parent_state_id[w[i+1]] # NoState
    BY <1>0, <2>1, <2>2 DEF NodeConsistent
  <2>4. w[i+1] # InitialState /\ Reached(w[i+1])
    BY <1>0, <2>1, <2>3 DEF NodeConsistent
  <2> QED
    BY <1>0, <2>1, <2>2, <2>3, <2>4 DEF ParentTransition
<1>4. w[1] = InitialState
  <2>1. w[1] \in States /\ Reached(w[1])
    <3>1. CASE Len(s) = 0
      BY <1>1, <3>1
    <3>2. CASE Len(s) # 0
      <4>1. 1 \in 1..Len(s)
        BY <1>2, <3>2
      <4>2. Reached(w[1])
        BY <1>3, <4>1
      <4> QED
        BY <1>2, <4>2
    <3> QED
      BY <3>1, <3>2
  <2> QED
    BY <1>0, <1>1, <2>1 DEF NodeConsistent
<1> QED
  BY <1>1, <1>3, <1>4

\* Once any node is opened, the initial state is.
LEMMA InitialReached ==
  ASSUME SSInv, NEW n \in States, Reached(n)
  PROVE  Reached(InitialState)
<1> DEFINE s == TracePath(n)
<1>1. s \in Seq(Operators) /\ Trace(n, s) /\ Len(s) \in Nat
  BY TracePathIsTrace
<1>2. PICK w \in [1..Len(s)+1 -> States] :
        /\ w[1] = InitialState /\ w[Len(s)+1] = n
        /\ \A i \in 1..Len(s) :
             /\ s[i] \in Operators
             /\ <<w[i], s[i], w[i+1]>> \in Transitions
             /\ creating_operator[w[i+1]] = s[i] /\ parent_state_id[w[i+1]] = w[i]
             /\ w[i+1] # InitialState /\ Reached(w[i+1])
             /\ g[w[i+1]] >= g[w[i]] + AdjustedCost(s[i])
  BY <1>1, TraceOfReached
<1> HIDE DEF s
<1>3. CASE Len(s) = 0
  BY <1>2, <1>3
<1>4. CASE Len(s) # 0
  <2>1. 1 \in 1..Len(s) /\ 1+1 \in 1..Len(s)+1
    BY <1>1, <1>4
  <2>2. parent_state_id[w[1+1]] = InitialState
    BY <1>2, <2>1, Zenon
  <2>3. w[1+1] \in States
    BY <2>1
  <2> QED
    BY <2>2, <2>3, TaskAssumption DEF SSInv, ParentTransition
<1> QED
  BY <1>3, <1>4

\* What trace_path extracts for an opened node is a path of the task.
LEMMA TracedPlanExecutes ==
  ASSUME SSInv
  PROVE  TracedPlansExecute
<1> SUFFICES ASSUME NEW n \in States, Reached(n)
    PROVE  LET plan == TracePath(n)
               run[i \in 0..Len(plan)] ==
                 IF i = 0 THEN {<<InitialState, 0>>}
                 ELSE {<<z[1][3], z[2][2] + AdjustedCost(plan[i])>> :
                         z \in {y \in Transitions \X run[i-1] :
                                  y[1][1] = y[2][1] /\ y[1][2] = plan[i]}}
           IN  \E y \in run[Len(plan)] : y[1] = n /\ y[2] <= g[n]
  BY DEF TracedPlansExecute
<1> DEFINE plan == TracePath(n)
           N == Len(plan)
           X == SUBSET (States \X Int)
           After(i, R) == {<<z[1][3], z[2][2] + AdjustedCost(plan[i])>> :
                             z \in {y \in Transitions \X R :
                                      y[1][1] = y[2][1] /\ y[1][2] = plan[i]}}
           IsRun(f) == f = [i \in 0..N |-> IF i = 0 THEN {<<InitialState, 0>>} ELSE After(i, f[i-1])]
           run == CHOOSE f : IsRun(f)
<1>1. plan \in Seq(Operators) /\ Trace(n, plan) /\ N \in Nat
  BY TracePathIsTrace
<1>2. PICK w \in [1..N+1 -> States] :
        /\ w[1] = InitialState /\ w[N+1] = n
        /\ \A i \in 1..N :
             /\ plan[i] \in Operators
             /\ <<w[i], plan[i], w[i+1]>> \in Transitions
             /\ creating_operator[w[i+1]] = plan[i] /\ parent_state_id[w[i+1]] = w[i]
             /\ w[i+1] # InitialState /\ Reached(w[i+1])
             /\ g[w[i+1]] >= g[w[i]] + AdjustedCost(plan[i])
  BY <1>1, TraceOfReached
<1> HIDE DEF plan, N
<1>3. \E f : IsRun(f)
  <2> DEFINE step == [i \in 1..N |-> [R \in X |-> After(i, R)]]
  <2>1. ASSUME NEW i \in 1..N, NEW R \in X PROVE After(i, R) \in X
    <3>1. AdjustedCost(plan[i]) \in Nat
      BY <1>2, AdjustedCostNat
    <3>2. ASSUME NEW y \in Transitions \X R
          PROVE  <<y[1][3], y[2][2] + AdjustedCost(plan[i])>> \in States \X Int
      <4>1. y[1] \in States \X Operators \X States /\ y[2] \in States \X Int
        BY TaskAssumption
      <4> QED
        BY <3>1, <4>1
    <3> QED
      BY <3>2
  <2>2. step \in [1..N -> [X -> X]]
    BY <2>1
  <2>3. {<<InitialState, 0>>} \in X
    BY TaskAssumption
  <2> HIDE DEF After
  <2>4. \A i \in 1..N : \A R \in X : step[i][R] = After(i, R)
    OBVIOUS
  <2> HIDE DEF X, step
  <2>5. PICK f \in [0..N -> X] :
          f[0] = {<<InitialState, 0>>} /\ \A i \in 1..N : f[i] = step[i][f[i-1]]
    <3>1. Solutions(X, {<<InitialState, 0>>}, N, step) # {}
      BY <1>1, <2>2, <2>3, Recursion
    <3> QED
      BY <3>1 DEF Solutions
  <2>6. \A i \in 0..N : i # 0 => i \in 1..N /\ i - 1 \in 0..N
    BY <1>1
  <2>7. \A i \in 0..N : f[i] = IF i = 0 THEN {<<InitialState, 0>>} ELSE After(i, f[i-1])
    BY <2>4, <2>5, <2>6
  <2>8. IsRun(f)
    BY <2>5, <2>7
  <2> QED
    BY <2>8
<1> HIDE DEF After
<1>4. IsRun(run)
  BY <1>3
<1> HIDE DEF run
<1>5. /\ run[0] = {<<InitialState, 0>>}
      /\ \A i \in 1..N : run[i] = After(i, run[i-1])
  <2>1. 0 \in 0..N /\ \A i \in 1..N : i \in 0..N /\ i # 0
    BY <1>1
  <2>2. \A i \in 0..N : run[i] = IF i = 0 THEN {<<InitialState, 0>>} ELSE After(i, run[i-1])
    BY <1>4
  <2> QED
    BY <2>1, <2>2
<1> DEFINE S == {i \in Nat : i <= N =>
                   \E y \in run[i] : y \in States \X Int /\ y[1] = w[i+1] /\ y[2] <= g[w[i+1]]}
<1>6. 0 \in S
  <2>1. g[InitialState] = 0
    <3>1. Reached(InitialState)
      BY InitialReached
    <3> QED
      BY <3>1, TaskAssumption DEF SSInv, NodeConsistent
  <2>2. w[0+1] = InitialState /\ <<InitialState, 0>> \in run[0]
    BY <1>2, <1>5
  <2> QED
    BY <2>1, <2>2, TaskAssumption
<1>7. ASSUME NEW i \in Nat, i \in S PROVE i + 1 \in S
  <2>1. SUFFICES ASSUME i + 1 <= N
        PROVE  \E y \in run[i+1] : y \in States \X Int /\ y[1] = w[(i+1)+1] /\ y[2] <= g[w[(i+1)+1]]
    OBVIOUS
  <2>2. PICK y \in run[i] : y \in States \X Int /\ y[1] = w[i+1] /\ y[2] <= g[w[i+1]]
    BY <1>1, <1>7, <2>1
  <2>3. i + 1 \in 1..N /\ run[i+1] = After(i+1, run[i])
    BY <1>1, <1>5, <2>1
  <2> DEFINE t == <<w[i+1], plan[i+1], w[(i+1)+1]>>
             o == plan[i+1]
             z == <<t, y>>
  <2>4. /\ t \in Transitions /\ o \in Operators
        /\ g[w[(i+1)+1]] >= g[w[i+1]] + AdjustedCost(o)
        /\ w[i+1] \in States /\ w[(i+1)+1] \in States
    BY <1>1, <1>2, <2>3
  <2>5. AdjustedCost(o) \in Nat /\ g[w[i+1]] \in Int /\ g[w[(i+1)+1]] \in Int
    BY <2>4, AdjustedCostNat DEF SSInv, SSTypeOK
  <2>6. <<w[(i+1)+1], y[2] + AdjustedCost(o)>> \in After(i+1, run[i])
    <3>1. /\ z \in Transitions \X run[i] /\ z[1][1] = z[2][1] /\ z[1][2] = plan[i+1]
          /\ z[1][3] = w[(i+1)+1] /\ z[2][2] = y[2]
      BY <2>2, <2>4
    <3> HIDE DEF z
    <3> QED
      BY <3>1 DEF After
  <2>7. y[2] + AdjustedCost(o) <= g[w[(i+1)+1]] /\ y[2] + AdjustedCost(o) \in Int
    BY <2>2, <2>4, <2>5
  <2> HIDE DEF o
  <2> QED
    BY <2>3, <2>4, <2>6, <2>7
<1> HIDE DEF S
<1>8. N \in S
  BY <1>1, <1>6, <1>7, Induction
<1>9. \E y \in run[N] : y[1] = n /\ y[2] <= g[n]
  BY <1>1, <1>2, <1>8 DEF S
<1> QED
  BY <1>9 DEF run, After, N, plan

\* The cost of a plan, if the real costs known for the nodes on its trace
\* cover those of the operators.
LEMMA PlanCostBelow ==
  ASSUME SSInv, NEW n \in States, Reached(n),
         real_g[InitialState] >= 0,
         \A m \in States : Reached(m) /\ m # InitialState =>
           real_g[m] >= real_g[parent_state_id[m]] + Cost[creating_operator[m]]
  PROVE  /\ PlanCost(TracePath(n)) \in Nat
         /\ PlanCost(TracePath(n)) <= real_g[n]
         /\ n = InitialState => PlanCost(TracePath(n)) = 0
<1> DEFINE plan == TracePath(n)
           N == Len(plan)
           IsSum(f) == f = [i \in 0..N |-> IF i = 0 THEN 0 ELSE f[i-1] + Cost[plan[i]]]
           sum == CHOOSE f : IsSum(f)
<1>0. SSTypeOK /\ InitialState \in States
  BY TaskAssumption DEF SSInv
<1>1. plan \in Seq(Operators) /\ Trace(n, plan) /\ N \in Nat
  BY TracePathIsTrace
<1>2. PICK w \in [1..N+1 -> States] :
        /\ w[1] = InitialState /\ w[N+1] = n
        /\ \A i \in 1..N :
             /\ plan[i] \in Operators
             /\ <<w[i], plan[i], w[i+1]>> \in Transitions
             /\ creating_operator[w[i+1]] = plan[i] /\ parent_state_id[w[i+1]] = w[i]
             /\ w[i+1] # InitialState /\ Reached(w[i+1])
             /\ g[w[i+1]] >= g[w[i]] + AdjustedCost(plan[i])
  BY <1>1, TraceOfReached
<1> HIDE DEF plan, N
<1>3. \A i \in 1..N : Cost[plan[i]] \in Nat
  BY <1>2, CostAssumption
<1>4. \E f : IsSum(f)
  <2> DEFINE step == [i \in 1..N |-> [c \in Int |-> c + Cost[plan[i]]]]
  <2>1. step \in [1..N -> [Int -> Int]]
    BY <1>3
  <2>2. \A i \in 1..N : \A c \in Int : step[i][c] = c + Cost[plan[i]]
    OBVIOUS
  <2> HIDE DEF step
  <2>3. PICK f \in [0..N -> Int] :
          f[0] = 0 /\ \A i \in 1..N : f[i] = step[i][f[i-1]]
    <3>1. 0 \in Int
      OBVIOUS
    <3>2. Solutions(Int, 0, N, step) # {}
      BY <1>1, <2>1, <3>1, Recursion
    <3> QED
      BY <3>2 DEF Solutions
  <2>4. \A i \in 0..N : i # 0 => i \in 1..N /\ i - 1 \in 0..N
    BY <1>1
  <2>5. \A i \in 0..N : f[i] = IF i = 0 THEN 0 ELSE f[i-1] + Cost[plan[i]]
    BY <2>2, <2>3, <2>4
  <2>6. IsSum(f)
    BY <2>3, <2>5
  <2> QED
    BY <2>6
<1>5. IsSum(sum)
  BY <1>4
<1> HIDE DEF sum
<1>6. sum[0] = 0 /\ \A i \in 1..N : sum[i] = sum[i-1] + Cost[plan[i]]
  <2>1. \A i \in 1..N : i \in 0..N /\ i # 0
    BY <1>1
  <2> QED
    BY <1>1, <1>5, <2>1
<1> DEFINE S == {i \in Nat : i <= N => sum[i] \in Nat /\ sum[i] <= real_g[w[i+1]]}
<1>7. 0 \in S
  BY <1>2, <1>6
<1>8. ASSUME NEW i \in Nat, i \in S PROVE i + 1 \in S
  <2>1. SUFFICES ASSUME i + 1 <= N
        PROVE  sum[i+1] \in Nat /\ sum[i+1] <= real_g[w[(i+1)+1]]
    OBVIOUS
  <2>2. sum[i] \in Nat /\ sum[i] <= real_g[w[i+1]] /\ i + 1 \in 1..N
    BY <1>1, <1>8, <2>1
  <2>3. sum[i+1] = sum[i] + Cost[plan[i+1]] /\ Cost[plan[i+1]] \in Nat
    BY <1>3, <1>6, <2>2
  <2>4. /\ w[i+1] \in States /\ w[(i+1)+1] \in States
        /\ real_g[w[(i+1)+1]] >= real_g[w[i+1]] + Cost[plan[i+1]]
    <3>1. i + 1 \in 1..N+1 /\ (i + 1) + 1 \in 1..N+1
      BY <1>1, <2>2
    <3>2. w[i+1] \in States /\ w[(i+1)+1] \in States
      BY <3>1
    <3>3. /\ creating_operator[w[(i+1)+1]] = plan[i+1] /\ parent_state_id[w[(i+1)+1]] = w[i+1]
          /\ w[(i+1)+1] # InitialState /\ Reached(w[(i+1)+1])
      BY <1>2, <2>2, Zenon
    <3> QED
      BY <3>2, <3>3
  <2>5. real_g[w[i+1]] \in Int /\ real_g[w[(i+1)+1]] \in Int
    BY <1>0, <2>4 DEF SSTypeOK
  <2> QED
    BY <2>2, <2>3, <2>4, <2>5
<1> HIDE DEF S
<1>9. N \in S
  BY <1>1, <1>7, <1>8, Induction
<1>10. sum[N] \in Nat /\ sum[N] <= real_g[n]
  BY <1>1, <1>2, <1>9 DEF S
<1>11. n = InitialState => N = 0
  <2>1. N # 0 => N \in 1..N
    BY <1>1
  <2> QED
    BY <1>2, <2>1
<1>12. PlanCost(plan) = sum[N]
  BY DEF PlanCost, sum, N
<1> QED
  BY <1>6, <1>10, <1>11, <1>12 DEF plan

\* The plan that trace_path extracts for an opened node executes and leads to
\* that node, for every task and every client of the contract.
THEOREM TracedPlansTheorem == SSSpec => []TracedPlansExecute
<1>1. SSInv => TracedPlansExecute
  BY TracedPlanExecutes
<1> QED
  BY <1>1, SSInvariant, PTL

(***************************************************************************)
(* The reference definition of the goal distance.                          *)
(***************************************************************************)

\* paths relates the states of T to the costs of their paths through T to a goal
\* state of at most k operators, and GoalDistance picks the least.
CostPaths(c, T, paths) ==
  /\ paths \in [0..Cardinality(T) -> SUBSET (T \X Nat)]
  /\ paths[0] = (GoalStates \intersect T) \X {0}
  /\ \A k \in 1..Cardinality(T) : \A y :
       y \in paths[k] <=>
         \/ y \in paths[k-1]
         \/ \E t \in Transitions : \E z \in paths[k-1] :
              t[1] \in T /\ t[3] = z[1] /\ y = <<t[1], c[t[2]] + z[2]>>

LEMMA CostPathsExist ==
  ASSUME IsFiniteSet(States), NEW c \in [Operators -> Nat], NEW T \in SUBSET States
  PROVE  \E paths :
           /\ CostPaths(c, T, paths)
           /\ GoalDistance(c, T) \in [States -> Nat]
           /\ \A s \in States :
                /\ GoalDistance(c, T)[s] \in Nat /\ GoalDistance(c, T)[s] <= Infinity
                /\ GoalDistance(c, T)[s] # Infinity =>
                     <<s, GoalDistance(c, T)[s]>> \in paths[Cardinality(T)]
           /\ \A y \in paths[Cardinality(T)] : GoalDistance(c, T)[y[1]] <= y[2]
<1> DEFINE K == Cardinality(T)
           X == SUBSET (T \X Nat)
           Longer(R) == R \union
             {<<z[1][1], c[z[1][2]] + z[2][2]>> :
                z \in {y \in Transitions \X R : y[1][3] = y[2][1] /\ y[1][1] \in T}}
           IsPaths(f) == f = [k \in 0..K |-> IF k = 0 THEN (GoalStates \intersect T) \X {0}
                                             ELSE Longer(f[k-1])]
           paths == CHOOSE f : IsPaths(f)
           Costs(s) == {x[2] : x \in {y \in paths[K] : y[1] = s}} \union {Infinity}
<1>1. K \in Nat
  BY FS_Subset, FS_CardinalityType
<1>2. GoalDistance(c, T) = [s \in States |-> CHOOSE m \in Costs(s) : \A l \in Costs(s) : m <= l]
  BY DEF GoalDistance
<1>3. ASSUME NEW R \in X PROVE Longer(R) \in X
  <2>1. ASSUME NEW y \in Transitions \X R, y[1][1] \in T
        PROVE  <<y[1][1], c[y[1][2]] + y[2][2]>> \in T \X Nat
    <3>1. y[1] \in States \X Operators \X States /\ y[2] \in T \X Nat
      BY TaskAssumption
    <3>2. c[y[1][2]] \in Nat
      BY <3>1
    <3> QED
      BY <2>1, <3>1, <3>2
  <2> QED
    BY <2>1
<1>4. \E f : IsPaths(f)
  <2> DEFINE step == [k \in 1..K |-> [R \in X |-> Longer(R)]]
             goals == (GoalStates \intersect T) \X {0}
  <2>1. step \in [1..K -> [X -> X]]
    BY <1>3
  <2>2. goals \in X
    OBVIOUS
  <2> HIDE DEF Longer
  <2>3. \A k \in 1..K : \A R \in X : step[k][R] = Longer(R)
    OBVIOUS
  <2> HIDE DEF X, step, K, goals
  <2>4. Solutions(X, goals, K, step) # {}
    BY <1>1, <2>1, <2>2, Recursion
  <2>5. PICK f \in [0..K -> X] : f[0] = goals /\ \A k \in 1..K : f[k] = step[k][f[k-1]]
    BY <2>4 DEF Solutions
  <2>6. \A k \in 0..K : k # 0 => k \in 1..K /\ k - 1 \in 0..K
    BY <1>1
  <2>7. \A k \in 0..K : f[k] = IF k = 0 THEN goals ELSE Longer(f[k-1])
    BY <2>3, <2>5, <2>6
  <2>8. IsPaths(f)
    BY <2>5, <2>7 DEF goals
  <2> QED
    BY <2>8
<1> HIDE DEF Longer, X, K
<1>5. IsPaths(paths)
  BY <1>4
<1> HIDE DEF paths
<1>6. /\ paths[0] = (GoalStates \intersect T) \X {0}
      /\ \A k \in 1..K : paths[k] = Longer(paths[k-1])
  <2>1. 0 \in 0..K /\ \A k \in 1..K : k \in 0..K /\ k # 0
    BY <1>1
  <2>2. \A k \in 0..K : paths[k] = IF k = 0 THEN (GoalStates \intersect T) \X {0} ELSE Longer(paths[k-1])
    BY <1>5
  <2> QED
    BY <2>1, <2>2
<1>7. paths \in [0..K -> X]
  <2> DEFINE S == {k \in Nat : k <= K => paths[k] \in X}
  <2>1. 0 \in S
    BY <1>6 DEF X
  <2>2. ASSUME NEW k \in Nat, k \in S PROVE k + 1 \in S
    <3> SUFFICES ASSUME k + 1 <= K PROVE paths[k+1] \in X
      OBVIOUS
    <3>1. paths[k] \in X
      BY <1>1, <2>2
    <3>2. k + 1 \in 1..K /\ (k + 1) - 1 = k
      BY <1>1
    <3>3. paths[k+1] = Longer(paths[k])
      BY <1>6, <3>2
    <3> QED
      BY <1>3, <3>1, <3>3
  <2> HIDE DEF S
  <2>3. Nat \subseteq S
    BY <2>1, <2>2, Induction
  <2>4. \A k \in 0..K : paths[k] \in X
    BY <1>1, <2>3 DEF S
  <2>5. paths = [k \in 0..K |-> paths[k]]
    BY <1>5
  <2> QED
    BY <2>4, <2>5
<1>8. ASSUME NEW k \in 1..K, NEW y
      PROVE  y \in paths[k] <=>
                \/ y \in paths[k-1]
                \/ \E t \in Transitions : \E z \in paths[k-1] :
                     t[1] \in T /\ t[3] = z[1] /\ y = <<t[1], c[t[2]] + z[2]>>
  <2>2. y \in Longer(paths[k-1]) <=>
          \/ y \in paths[k-1]
          \/ \E z \in Transitions \X paths[k-1] :
               z[1][1] \in T /\ z[1][3] = z[2][1] /\ y = <<z[1][1], c[z[1][2]] + z[2][2]>>
    BY DEF Longer
  <2>3. (\E z \in Transitions \X paths[k-1] :
            z[1][1] \in T /\ z[1][3] = z[2][1] /\ y = <<z[1][1], c[z[1][2]] + z[2][2]>>)
        <=> \E t \in Transitions : \E z \in paths[k-1] :
              t[1] \in T /\ t[3] = z[1] /\ y = <<t[1], c[t[2]] + z[2]>>
    <3>1. ASSUME NEW z \in Transitions \X paths[k-1]
          PROVE  z[1] \in Transitions /\ z[2] \in paths[k-1]
      OBVIOUS
    <3>2. ASSUME NEW t \in Transitions, NEW z \in paths[k-1]
          PROVE  /\ <<t, z>> \in Transitions \X paths[k-1]
                 /\ <<t, z>>[1] = t /\ <<t, z>>[2] = z
      OBVIOUS
    <3>3. ASSUME NEW z \in Transitions \X paths[k-1],
                 z[1][1] \in T, z[1][3] = z[2][1], y = <<z[1][1], c[z[1][2]] + z[2][2]>>
          PROVE  \E t \in Transitions : \E u \in paths[k-1] :
                   t[1] \in T /\ t[3] = u[1] /\ y = <<t[1], c[t[2]] + u[2]>>
      BY <3>1, <3>3
    <3>4. ASSUME NEW t \in Transitions, NEW z \in paths[k-1],
                 t[1] \in T, t[3] = z[1], y = <<t[1], c[t[2]] + z[2]>>
          PROVE  \E u \in Transitions \X paths[k-1] :
                   u[1][1] \in T /\ u[1][3] = u[2][1] /\ y = <<u[1][1], c[u[1][2]] + u[2][2]>>
      <4> DEFINE u == <<t, z>>
      <4>1. u \in Transitions \X paths[k-1] /\ u[1] = t /\ u[2] = z
        OBVIOUS
      <4> HIDE DEF u
      <4> QED
        BY <3>4, <4>1
    <3> QED
      BY <3>3, <3>4
  <2> QED
    BY <1>6, <2>2, <2>3
<1>9. CostPaths(c, T, paths)
  BY <1>6, <1>7, <1>8 DEF CostPaths, K, X
<1>10. ASSUME NEW s \in States
       PROVE  /\ Costs(s) \subseteq Nat /\ Costs(s) # {}
              /\ GoalDistance(c, T)[s] \in Costs(s)
              /\ \A l \in Costs(s) : GoalDistance(c, T)[s] <= l
  <2>1. K \in 0..K
    BY <1>1
  <2>2. paths[K] \subseteq T \X Nat
    BY <1>7, <2>1 DEF X
  <2>3. Costs(s) \subseteq Nat /\ Costs(s) # {}
    BY <2>2, InfinityAssumption
  <2> HIDE DEF Costs
  <2>4. \E m \in Costs(s) : \A l \in Costs(s) : m <= l
    BY <2>3, LeastElement
  <2> QED
    BY <1>2, <2>3, <2>4
<1>11. ASSUME NEW s \in States
       PROVE  /\ GoalDistance(c, T)[s] \in Nat /\ GoalDistance(c, T)[s] <= Infinity
              /\ GoalDistance(c, T)[s] # Infinity => <<s, GoalDistance(c, T)[s]>> \in paths[K]
  <2>1. paths[K] \subseteq T \X Nat
    BY <1>1, <1>7 DEF X
  <2>2. \A y \in paths[K] : y = <<y[1], y[2]>>
    BY <2>1
  <2>3. Infinity \in Costs(s)
    OBVIOUS
  <2> QED
    BY <1>10, <2>2, <2>3
<1>13. GoalDistance(c, T) \in [States -> Nat]
  <2> HIDE DEF Costs
  <2>1. PICK f : f = [s \in States |-> CHOOSE m \in Costs(s) : \A l \in Costs(s) : m <= l]
    OBVIOUS
  <2>2. GoalDistance(c, T) = f
    BY <1>2, <2>1
  <2>3. \A s \in States : f[s] \in Nat
    BY <1>11, <2>2
  <2> QED
    BY <2>1, <2>2, <2>3
<1>12. ASSUME NEW y \in paths[K] PROVE GoalDistance(c, T)[y[1]] <= y[2]
  <2>1. y[1] \in States
    BY <1>1, <1>7 DEF X
  <2>2. y[2] \in Costs(y[1])
    OBVIOUS
  <2> HIDE DEF Costs
  <2> QED
    BY <1>10, <2>1, <2>2
<1> QED
  BY <1>9, <1>11, <1>12, <1>13 DEF K

\* The same for the adjusted costs and all states.
GoalPaths(paths) ==
  /\ paths \in [0..Cardinality(States) -> SUBSET (States \X Nat)]
  /\ paths[0] = GoalStates \X {0}
  /\ \A k \in 1..Cardinality(States) : \A y :
       y \in paths[k] <=>
         \/ y \in paths[k-1]
         \/ \E t \in Transitions : \E z \in paths[k-1] :
              t[3] = z[1] /\ y = <<t[1], AdjustedCost(t[2]) + z[2]>>

LEMMA GoalPathsExist ==
  ASSUME IsFiniteSet(States)
  PROVE  \E paths :
           /\ GoalPaths(paths)
           /\ \A s \in States :
                /\ AdjustedGoalDistance[s] \in Nat /\ AdjustedGoalDistance[s] <= Infinity
                /\ AdjustedGoalDistance[s] # Infinity =>
                     <<s, AdjustedGoalDistance[s]>> \in paths[Cardinality(States)]
           /\ \A y \in paths[Cardinality(States)] : AdjustedGoalDistance[y[1]] <= y[2]
<1> DEFINE c == [o \in Operators |-> AdjustedCost(o)]
<1>1. c \in [Operators -> Nat]
  BY AdjustedCostNat
<1>2. \A t \in Transitions : t[1] \in States /\ c[t[2]] = AdjustedCost(t[2])
  BY TaskAssumption
<1>3. AdjustedGoalDistance = GoalDistance(c, States)
  BY DEF AdjustedGoalDistance
<1>4. GoalStates \intersect States = GoalStates
  BY TaskAssumption
<1> HIDE DEF c
<1>5. \A paths : CostPaths(c, States, paths) => GoalPaths(paths)
  BY <1>2, <1>4 DEF CostPaths, GoalPaths
<1>6. \E paths :
        /\ CostPaths(c, States, paths)
        /\ \A s \in States :
             /\ GoalDistance(c, States)[s] \in Nat /\ GoalDistance(c, States)[s] <= Infinity
             /\ GoalDistance(c, States)[s] # Infinity =>
                  <<s, GoalDistance(c, States)[s]>> \in paths[Cardinality(States)]
        /\ \A y \in paths[Cardinality(States)] : GoalDistance(c, States)[y[1]] <= y[2]
  <2>1. States \in SUBSET States
    OBVIOUS
  <2> QED
    BY <1>1, <2>1, CostPathsExist
<1> QED
  BY <1>3, <1>5, <1>6

LEMMA PathsMonotone ==
  ASSUME NEW paths, GoalPaths(paths), Cardinality(States) \in Nat,
         NEW k \in 0..Cardinality(States)
  PROVE  paths[k] \subseteq paths[Cardinality(States)]
<1> DEFINE K == Cardinality(States)
           S == {j \in Nat : j <= K => paths[K-j] \subseteq paths[K]}
<1> HIDE DEF K
<1>0. K \in Nat /\ k \in 0..K
  BY DEF K
<1>1. 0 \in S
  BY <1>0
<1>2. ASSUME NEW j \in Nat, j \in S PROVE j + 1 \in S
  <2> SUFFICES ASSUME j + 1 <= K PROVE paths[K-(j+1)] \subseteq paths[K]
    OBVIOUS
  <2>1. paths[K-j] \subseteq paths[K] /\ K-j \in 1..K /\ (K-j)-1 = K-(j+1)
    BY <1>0, <1>2
  <2>2. \A y : y \in paths[(K-j)-1] => y \in paths[K-j]
    BY <2>1 DEF GoalPaths, K
  <2> QED
    BY <2>1, <2>2
<1> HIDE DEF S
<1>3. K - k \in S
  BY <1>0, <1>1, <1>2, Induction
<1>4. K - (K - k) = k /\ K - k \in Nat /\ K - k <= K
  BY <1>0
<1> QED
  BY <1>3, <1>4 DEF S, K

\* The nodes along the parent pointers of a node are pairwise distinct, so
\* that they are no more than there are states.
LEMMA TraceIsShort ==
  ASSUME SSInv, IsFiniteSet(States), NEW N \in Nat, NEW w \in [1..N+1 -> States],
         \A i \in 1..N : parent_state_id[w[i+1]] = w[i]
  PROVE  N < Cardinality(States)
<1> SUFFICES ASSUME Cardinality(States) <= N PROVE FALSE
  BY FS_CardinalityType
<1>1. IsFiniteSet(1..N+1) /\ Cardinality(1..N+1) = N + 1
  BY FS_Interval
<1>2. Cardinality(States) < Cardinality(1..N+1) /\ Cardinality(States) \in Nat
  BY <1>1, FS_CardinalityType
<1>3. PICK a, b \in 1..N+1 : a # b /\ w[a] = w[b]
  BY <1>1, <1>2, FS_PigeonHole
<1>4. ASSUME NEW i \in 1..N+1, NEW j \in 1..N+1, i < j, w[i] = w[j] PROVE FALSE
  <2> DEFINE S == {w[m] : m \in i+1..j}
  <2>1. ASSUME NEW m \in i+1..j
        PROVE  /\ w[m] \in States /\ parent_state_id[w[m]] # NoState
               /\ parent_state_id[w[m]] \in S
    <3>1. m - 1 \in 1..N /\ (m - 1) + 1 = m /\ m - 1 \in 1..N+1 /\ m \in 1..N+1
      BY <1>4, <2>1
    <3>2. parent_state_id[w[m]] = w[m-1]
      BY <3>1
    <3>3. w[m] \in States /\ w[m-1] \in States
      BY <3>1
    <3>4. w[m-1] \in S
      <4>1. CASE m - 1 \in i+1..j
        BY <4>1
      <4>2. CASE m - 1 = i
        BY <1>4, <4>2
      <4> QED
        BY <3>1, <4>1, <4>2, <2>1, <1>4
    <3> QED
      BY <3>2, <3>3, <3>4, TaskAssumption
  <2>2. w[j] \in S
    BY <1>4
  <2>3. S \in SUBSET {n \in States : parent_state_id[n] # NoState}
    BY <2>1
  <2>4. \A n \in S : parent_state_id[n] \in S
    BY <2>1
  <2> HIDE DEF S
  <2> QED
    BY <2>2, <2>3, <2>4 DEF SSInv, ParentsAcyclic
<1> QED
  BY <1>3, <1>4

\* An opened goal state is never cheaper than the goal distance of the
\* initial state.
LEMMA NoCheaperThanDistance ==
  ASSUME SSInv, IsFiniteSet(States), NEW n \in GoalStates, Reached(n)
  PROVE  AdjustedGoalDistance[InitialState] <= g[n]
<1> DEFINE s == TracePath(n)
           N == Len(s)
           K == Cardinality(States)
<1>1. n \in States /\ K \in Nat /\ SSTypeOK
  BY TaskAssumption, FS_CardinalityType DEF SSInv
<1>2. s \in Seq(Operators) /\ Trace(n, s) /\ N \in Nat
  BY <1>1, TracePathIsTrace
<1>3. PICK w \in [1..N+1 -> States] :
        /\ w[1] = InitialState /\ w[N+1] = n
        /\ \A i \in 1..N :
             /\ s[i] \in Operators
             /\ <<w[i], s[i], w[i+1]>> \in Transitions
             /\ creating_operator[w[i+1]] = s[i] /\ parent_state_id[w[i+1]] = w[i]
             /\ w[i+1] # InitialState /\ Reached(w[i+1])
             /\ g[w[i+1]] >= g[w[i]] + AdjustedCost(s[i])
  BY <1>1, <1>2, TraceOfReached
<1> HIDE DEF s, N, K
<1>4. PICK paths :
        /\ GoalPaths(paths)
        /\ \A y \in paths[K] : AdjustedGoalDistance[y[1]] <= y[2]
        /\ AdjustedGoalDistance[InitialState] \in Nat
  BY GoalPathsExist, TaskAssumption DEF K
<1>5. N < K
  BY <1>2, <1>3, TraceIsShort DEF K
<1>6. g[InitialState] = 0
  BY <1>1, InitialReached DEF SSInv, NodeConsistent
<1> DEFINE S == {i \in Nat : i <= N =>
                   \E y \in paths[i] : y \in States \X Nat /\ y[1] = w[(N+1)-i]
                                       /\ g[y[1]] + y[2] <= g[n]}
<1>7. 0 \in S
  <2>1. <<n, 0>> \in paths[0]
    BY <1>4 DEF GoalPaths
  <2>2. g[n] \in Int /\ (N+1)-0 = N+1
    BY <1>1, <1>2 DEF SSTypeOK
  <2> DEFINE y == <<n, 0>>
  <2>3. y \in paths[0] /\ y \in States \X Nat /\ y[1] = n /\ y[2] = 0
    BY <1>1, <2>1
  <2> HIDE DEF y
  <2>4. g[y[1]] + y[2] <= g[n] /\ y[1] = w[(N+1)-0]
    BY <1>3, <2>2, <2>3
  <2> QED
    BY <2>3, <2>4
<1>8. ASSUME NEW i \in Nat, i \in S PROVE i + 1 \in S
  <2> SUFFICES ASSUME i + 1 <= N
      PROVE  \E y \in paths[i+1] : y \in States \X Nat /\ y[1] = w[(N+1)-(i+1)]
                                   /\ g[y[1]] + y[2] <= g[n]
    OBVIOUS
  <2>1. PICK z \in paths[i] : z \in States \X Nat /\ z[1] = w[(N+1)-i] /\ g[z[1]] + z[2] <= g[n]
    BY <1>2, <1>8
  <2> DEFINE j == N - i
             t == <<w[j], s[j], w[j+1]>>
             y == <<t[1], AdjustedCost(t[2]) + z[2]>>
  <2>2. j \in 1..N /\ (N+1)-(i+1) = j /\ (N+1)-i = j + 1 /\ j \in 1..N+1 /\ j+1 \in 1..N+1
    BY <1>2
  <2> HIDE DEF j
  <2>3. w[j] \in States /\ w[j+1] \in States
    BY <2>2
  <2>4. s[j] \in Operators /\ t \in Transitions /\ g[w[j+1]] >= g[w[j]] + AdjustedCost(s[j])
    BY <1>3, <2>2
  <2>5. AdjustedCost(s[j]) \in Nat /\ g[w[j]] \in Int /\ g[w[j+1]] \in Int /\ g[n] \in Int
    BY <1>1, <2>3, <2>4, AdjustedCostNat DEF SSTypeOK
  <2>6. /\ y \in States \X Nat /\ y[1] = w[j] /\ y[2] = AdjustedCost(s[j]) + z[2]
        /\ t[3] = z[1] /\ y = <<t[1], AdjustedCost(t[2]) + z[2]>>
    BY <2>1, <2>2, <2>3, <2>5
  <2> HIDE DEF y, t
  <2>7. y \in paths[i+1]
    <3>1. i + 1 \in 1..K /\ (i + 1) - 1 = i
      BY <1>1, <1>5, <1>2
    <3>2. \E u \in Transitions : \E v \in paths[(i+1)-1] :
            u[3] = v[1] /\ y = <<u[1], AdjustedCost(u[2]) + v[2]>>
      BY <2>1, <2>4, <2>6, <3>1
    <3> QED
      BY <1>4, <3>1, <3>2 DEF GoalPaths, K
  <2>8. g[y[1]] + y[2] <= g[n]
    <3>1. z[1] = w[j+1] /\ z[2] \in Nat
      BY <2>1, <2>2
    <3>2. g[w[j+1]] + z[2] <= g[n]
      BY <2>1, <3>1
    <3>3. g[y[1]] = g[w[j]] /\ y[2] = AdjustedCost(s[j]) + z[2]
      BY <2>6
    <3> QED
      BY <2>4, <2>5, <3>1, <3>2, <3>3
  <2> QED
    BY <2>2, <2>6, <2>7, <2>8
<1> HIDE DEF S
<1>9. N \in S
  BY <1>2, <1>7, <1>8, Induction
<1>10. PICK y \in paths[N] : y \in States \X Nat /\ y[1] = InitialState /\ g[y[1]] + y[2] <= g[n]
  <2>1. (N+1)-N = 1
    BY <1>2
  <2> QED
    BY <1>2, <1>3, <1>9, <2>1 DEF S
<1>11. y \in paths[K]
  <2>1. N \in 0..K
    BY <1>1, <1>2, <1>5
  <2> QED
    BY <1>1, <1>4, <2>1, PathsMonotone DEF K
<1>12. AdjustedGoalDistance[InitialState] <= y[2]
  BY <1>4, <1>10, <1>11
<1>13. g[n] \in Int
  BY <1>1 DEF SSTypeOK
<1> QED
  BY <1>4, <1>6, <1>10, <1>12, <1>13

LEMMA InfinityNat == Infinity \in Nat /\ Infinity > 0
BY InfinityAssumption

\* z is a path from the same state as y that costs no more.
Dominates(z, y) == z[1] = y[1] /\ z[2] <= y[2]

\* A path that no shorter one dominates visits pairwise distinct states.
LEMMA UndominatedPaths ==
  ASSUME IsFiniteSet(States), NEW c \in [Operators -> Nat], NEW T \in SUBSET States,
         NEW paths, CostPaths(c, T, paths), NEW n \in 0..Cardinality(T), NEW x \in paths[n]
  PROVE  \/ n > 0 /\ \E z \in paths[n-1] : Dominates(z, x)
         \/ \E W \in SUBSET T : /\ IsFiniteSet(W) /\ Cardinality(W) = n + 1
                                /\ \A w \in W : \E z \in paths[n] : z[1] = w /\ z[2] <= x[2]
<1> DEFINE K == Cardinality(T)
           Distinct(k, y) ==
             \E W \in SUBSET T : /\ IsFiniteSet(W) /\ Cardinality(W) = k + 1
                                 /\ \A w \in W : \E z \in paths[k] : z[1] = w /\ z[2] <= y[2]
           Shorter(k, y) == k > 0 /\ \E z \in paths[k-1] : Dominates(z, y)
           S == {k \in Nat : k <= K => \A y \in paths[k] : Shorter(k, y) \/ Distinct(k, y)}
<1>1. IsFiniteSet(T) /\ K \in Nat
  BY FS_Subset, FS_CardinalityType
<1>2. /\ paths \in [0..K -> SUBSET (T \X Nat)]
      /\ paths[0] = (GoalStates \intersect T) \X {0}
      /\ \A k \in 1..K : \A y :
           y \in paths[k] <=>
             \/ y \in paths[k-1]
             \/ \E t \in Transitions : \E z \in paths[k-1] :
                  t[1] \in T /\ t[3] = z[1] /\ y = <<t[1], c[t[2]] + z[2]>>
  BY DEF CostPaths
<1> HIDE DEF K
<1>3. \A k \in 0..K : \A y \in paths[k] : y[1] \in T /\ y[2] \in Nat /\ y = <<y[1], y[2]>>
  BY <1>2
<1>4. 0 \in S
  <2> SUFFICES ASSUME NEW y \in paths[0] PROVE Distinct(0, y)
    OBVIOUS
  <2>1. y[1] \in T /\ y[2] \in Nat
    BY <1>1, <1>3
  <2>2. IsFiniteSet({y[1]}) /\ Cardinality({y[1]}) = 0 + 1
    <3>1. PICK w : w = y[1]
      OBVIOUS
    <3>2. IsFiniteSet({w}) /\ Cardinality({w}) = 1
      BY FS_Singleton
    <3> QED
      BY <3>1, <3>2
  <2>3. \A w \in {y[1]} : \E z \in paths[0] : z[1] = w /\ z[2] <= y[2]
    BY <2>1
  <2> QED
    BY <2>1, <2>2, <2>3
<1>5. ASSUME NEW k \in Nat, k \in S PROVE k + 1 \in S
  <2> SUFFICES ASSUME k + 1 <= K, NEW y \in paths[k+1]
               PROVE  Shorter(k + 1, y) \/ Distinct(k + 1, y)
    OBVIOUS
  <2>1. k \in 0..K /\ k + 1 \in 1..K /\ (k + 1) - 1 = k /\ k + 1 \in 0..K /\ k + 1 > 0
    BY <1>1
  <2>2. y[1] \in T /\ y[2] \in Nat
    BY <1>3, <2>1
  <2>5. ASSUME NEW z \in paths[k], Dominates(z, y) PROVE Shorter(k + 1, y)
    BY <2>1, <2>5
  <2> HIDE DEF Shorter, Distinct
  <2>3. CASE y \in paths[k]
    <3>1. Dominates(y, y)
      BY <2>2 DEF Dominates
    <3> QED
      BY <2>3, <2>5, <3>1
  <2>4. CASE y \notin paths[k]
    <3>0. \/ y \in paths[(k+1)-1]
          \/ \E t \in Transitions : \E z \in paths[(k+1)-1] :
               t[1] \in T /\ t[3] = z[1] /\ y = <<t[1], c[t[2]] + z[2]>>
      <4>1. PICK j : j = k + 1
        OBVIOUS
      <4>2. j \in 1..K /\ y \in paths[j]
        BY <2>1, <4>1
      <4>3. \/ y \in paths[j-1]
            \/ \E t \in Transitions : \E z \in paths[j-1] :
                 t[1] \in T /\ t[3] = z[1] /\ y = <<t[1], c[t[2]] + z[2]>>
        BY <1>2, <4>2
      <4> QED
        BY <4>1, <4>3, Zenon
    <3>1. PICK t \in Transitions, z \in paths[k] :
            t[1] \in T /\ t[3] = z[1] /\ y = <<t[1], c[t[2]] + z[2]>>
      BY <2>1, <2>4, <3>0, Zenon
    <3>2. c[t[2]] \in Nat /\ z[1] \in T /\ z[2] \in Nat
      BY <1>3, <2>1, TaskAssumption
    <3>3. y[1] = t[1] /\ y[2] = c[t[2]] + z[2]
      BY <3>1
    <3>4. Shorter(k, z) \/ Distinct(k, z)
      BY <1>5, <2>1
    <3>5. CASE Shorter(k, z)
      <4>1. PICK u \in paths[k-1] : k > 0 /\ Dominates(u, z)
        BY <3>5 DEF Shorter
      <4> DEFINE v == <<t[1], c[t[2]] + u[2]>>
      <4>2. k \in 1..K /\ k - 1 \in 0..K
        BY <1>1, <2>1, <4>1
      <4>3. u[2] \in Nat /\ u[2] <= z[2] /\ t[3] = u[1]
        BY <1>3, <3>1, <4>1, <4>2 DEF Dominates
      <4>4. v \in paths[k]
        <5>1. \E d \in Transitions : \E b \in paths[k-1] :
                d[1] \in T /\ d[3] = b[1] /\ v = <<d[1], c[d[2]] + b[2]>>
          BY <3>1, <4>3
        <5> QED
          BY <1>2, <4>2, <5>1
      <4>5. Dominates(v, y)
        BY <3>2, <3>3, <4>3 DEF Dominates
      <4> QED
        BY <2>5, <4>4, <4>5
    <3>6. CASE Distinct(k, z)
      <4>1. PICK W \in SUBSET T : /\ IsFiniteSet(W) /\ Cardinality(W) = k + 1
                                  /\ \A w \in W : \E u \in paths[k] : u[1] = w /\ u[2] <= z[2]
        BY <3>6 DEF Distinct
      <4>2. CASE t[1] \in W
        <5>1. PICK u \in paths[k] : u[1] = t[1] /\ u[2] <= z[2]
          BY <4>1, <4>2
        <5>2. u[2] \in Nat
          BY <1>3, <2>1
        <5>3. Dominates(u, y)
          BY <3>2, <3>3, <5>1, <5>2 DEF Dominates
        <5> QED
          BY <2>5, <5>3
      <4>3. CASE t[1] \notin W
        <5> DEFINE V == W \union {t[1]}
        <5>1. V \in SUBSET T /\ IsFiniteSet(V) /\ Cardinality(V) = (k + 1) + 1
          BY <3>1, <4>1, <4>3, FS_AddElement
        <5>2. ASSUME NEW w \in V PROVE \E u \in paths[k+1] : u[1] = w /\ u[2] <= y[2]
          <6>1. CASE w = t[1]
            BY <2>2, <3>3, <6>1
          <6>2. CASE w \in W
            <7>1. PICK u \in paths[k] : u[1] = w /\ u[2] <= z[2]
              BY <4>1, <6>2
            <7>2. u[2] \in Nat /\ u \in paths[k+1]
              BY <1>2, <1>3, <2>1
            <7>3. u[2] <= y[2]
              BY <3>2, <3>3, <7>1, <7>2
            <7> QED
              BY <7>1, <7>2, <7>3
          <6> QED
            BY <6>1, <6>2
        <5> QED
          BY <5>1, <5>2 DEF Distinct
      <4> QED
        BY <4>2, <4>3
    <3> QED
      BY <3>4, <3>5, <3>6
  <2> QED
    BY <2>3, <2>4
<1> HIDE DEF S
<1>6. n \in S /\ n <= K
  BY <1>1, <1>4, <1>5, Induction DEF K
<1> QED
  BY <1>6 DEF S

\* A path with one operator more is no cheaper than all of CostPaths.
LEMMA LongerIsDominated ==
  ASSUME IsFiniteSet(States), NEW c \in [Operators -> Nat], NEW T \in SUBSET States,
         NEW paths, CostPaths(c, T, paths),
         NEW t \in Transitions, NEW z \in paths[Cardinality(T)], t[1] \in T, t[3] = z[1]
  PROVE  \E y \in paths[Cardinality(T)] : y[1] = t[1] /\ y[2] <= c[t[2]] + z[2]
<1> DEFINE K == Cardinality(T)
<1>1. IsFiniteSet(T) /\ K \in Nat /\ K \in 0..Cardinality(T)
  BY FS_Subset, FS_CardinalityType
<1>2. /\ paths \in [0..K -> SUBSET (T \X Nat)]
      /\ \A k \in 1..K : \A y :
           y \in paths[k] <=>
             \/ y \in paths[k-1]
             \/ \E d \in Transitions : \E u \in paths[k-1] :
                  d[1] \in T /\ d[3] = u[1] /\ y = <<d[1], c[d[2]] + u[2]>>
  BY DEF CostPaths
<1>3. \/ K > 0 /\ \E u \in paths[K-1] : Dominates(u, z)
      \/ \E W \in SUBSET T : IsFiniteSet(W) /\ Cardinality(W) = K + 1
  <2>1. z \in paths[K]
    OBVIOUS
  <2> QED
    BY <1>1, <2>1, UndominatedPaths
<1>4. c[t[2]] \in Nat /\ z[2] \in Nat
  BY <1>1, <1>2, TaskAssumption
<1>5. ASSUME NEW W \in SUBSET T, IsFiniteSet(W), Cardinality(W) = K + 1 PROVE FALSE
  <2>1. Cardinality(W) <= K
    BY <1>1, FS_Subset
  <2> QED
    BY <1>1, <1>5, <2>1
<1>6. PICK u \in paths[K-1] : K > 0 /\ Dominates(u, z)
  BY <1>3, <1>5
<1>7. K \in 1..K /\ K - 1 \in 0..K
  BY <1>1, <1>6
<1>8. u[2] \in Nat /\ u[2] <= z[2] /\ t[3] = u[1]
  BY <1>2, <1>6, <1>7 DEF Dominates
<1> DEFINE y == <<t[1], c[t[2]] + u[2]>>
<1>9. y \in paths[K]
  BY <1>2, <1>7, <1>8
<1>10. y[1] = t[1] /\ y[2] <= c[t[2]] + z[2]
  BY <1>4, <1>8
<1> QED
  BY <1>9, <1>10

\* The distances of a task of finitely many states, as a function of the costs and
\* of the set of states that may be visited: they obey Bellman's equations, and
\* rank counts the operators of a cheapest path.
GoalRank(c, T, rank) ==
  /\ rank \in [States -> Nat]
  /\ \A s \in States \ GoalStates : GoalDistance(c, T)[s] # Infinity =>
       \E t \in Transitions :
         /\ t[1] = s /\ t[3] \in T /\ GoalDistance(c, T)[t[3]] # Infinity
         /\ GoalDistance(c, T)[s] = c[t[2]] + GoalDistance(c, T)[t[3]]
         /\ rank[t[3]] < rank[s]

\* No path that visits no state twice costs as much as Infinity: M is an upper
\* bound for the costs of the operators.
PathsFit(c, T, M) ==
  /\ M \in Nat /\ \A o \in Operators : c[o] <= M
  /\ M * Cardinality(T) < Infinity

LEMMA GoalDistanceFacts ==
  ASSUME IsFiniteSet(States), NEW c \in [Operators -> Nat], NEW T \in SUBSET States
  PROVE  /\ GoalDistance(c, T) \in [States -> Nat]
         /\ \A s \in States : /\ GoalDistance(c, T)[s] <= Infinity
                              /\ GoalDistance(c, T)[s] # Infinity => s \in T
         /\ \A s \in GoalStates \intersect T : GoalDistance(c, T)[s] = 0
         /\ \A t \in Transitions : t[1] \in T =>
              GoalDistance(c, T)[t[1]] <= c[t[2]] + GoalDistance(c, T)[t[3]]
         /\ \E rank : GoalRank(c, T, rank)
<1> DEFINE K == Cardinality(T)
           D == GoalDistance(c, T)
<1>1. IsFiniteSet(T) /\ K \in Nat /\ K \in 0..K
  BY FS_Subset, FS_CardinalityType
<1>2. PICK paths :
        /\ CostPaths(c, T, paths)
        /\ D \in [States -> Nat]
        /\ \A s \in States : /\ D[s] \in Nat /\ D[s] <= Infinity
                             /\ D[s] # Infinity => <<s, D[s]>> \in paths[K]
        /\ \A y \in paths[K] : D[y[1]] <= y[2]
  BY CostPathsExist
<1> HIDE DEF D, K
<1>4. /\ paths \in [0..K -> SUBSET (T \X Nat)]
      /\ paths[0] = (GoalStates \intersect T) \X {0}
      /\ \A k \in 1..K : \A y :
           y \in paths[k] <=>
             \/ y \in paths[k-1]
             \/ \E t \in Transitions : \E z \in paths[k-1] :
                  t[1] \in T /\ t[3] = z[1] /\ y = <<t[1], c[t[2]] + z[2]>>
  BY <1>2 DEF CostPaths, K
<1>5. D \in [States -> Nat]
  BY <1>2
<1>6. \A k \in 0..K : paths[k] \subseteq paths[K]
  <2> DEFINE S == {j \in Nat : j <= K => paths[K-j] \subseteq paths[K]}
  <2>1. 0 \in S
    BY <1>1
  <2>2. ASSUME NEW j \in Nat, j \in S PROVE j + 1 \in S
    <3> SUFFICES ASSUME j + 1 <= K PROVE paths[K-(j+1)] \subseteq paths[K]
      OBVIOUS
    <3>1. paths[K-j] \subseteq paths[K] /\ K-j \in 1..K /\ (K-j)-1 = K-(j+1)
      BY <1>1, <2>2
    <3>2. \A y : y \in paths[(K-j)-1] => y \in paths[K-j]
      BY <1>4, <3>1
    <3> QED
      BY <3>1, <3>2
  <2> HIDE DEF S
  <2>3. ASSUME NEW k \in 0..K PROVE paths[k] \subseteq paths[K]
    <3>1. K - k \in S
      BY <1>1, <2>1, <2>2, Induction
    <3>2. K - (K - k) = k /\ K - k \in Nat /\ K - k <= K
      BY <1>1
    <3> QED
      BY <3>1, <3>2 DEF S
  <2> QED
    BY <2>3
<1>7. ASSUME NEW k \in 0..K, NEW y \in paths[k]
      PROVE  y[1] \in T /\ y[1] \in States /\ y[2] \in Nat /\ y = <<y[1], y[2]>> /\ D[y[1]] <= y[2]
  <2>1. y \in T \X Nat
    BY <1>4
  <2>2. D[y[1]] <= y[2]
    BY <1>2, <1>6
  <2> QED
    BY <2>1, <2>2
<1>8. ASSUME NEW s \in States, D[s] # Infinity PROVE s \in T
  <2> DEFINE y == <<s, D[s]>>
  <2>1. y \in paths[K] /\ y[1] = s
    BY <1>2, <1>8
  <2> HIDE DEF y
  <2> QED
    BY <1>1, <1>7, <2>1
<1>9. ASSUME NEW s \in GoalStates \intersect T PROVE D[s] = 0
  <2> DEFINE y == <<s, 0>>
  <2>1. y \in paths[0] /\ y[1] = s /\ y[2] = 0
    BY <1>4
  <2> HIDE DEF y
  <2>2. 0 \in 0..K
    BY <1>1
  <2>3. D[s] <= 0 /\ s \in States
    BY <1>7, <2>1, <2>2
  <2> QED
    BY <1>5, <2>3
<1>10. ASSUME NEW t \in Transitions, t[1] \in T PROVE D[t[1]] <= c[t[2]] + D[t[3]]
  <2>0. t[1] \in States /\ t[3] \in States /\ c[t[2]] \in Nat
    BY TaskAssumption
  <2>1. CASE D[t[3]] = Infinity
    <3>1. D[t[1]] \in Nat /\ D[t[1]] <= Infinity /\ Infinity \in Nat
      BY <1>2, <2>0, InfinityNat
    <3> QED
      BY <2>0, <2>1, <3>1
  <2>2. CASE D[t[3]] # Infinity
    <3> DEFINE z == <<t[3], D[t[3]]>>
    <3>1. z \in paths[K] /\ t[3] = z[1] /\ z[2] = D[t[3]]
      BY <1>2, <2>0, <2>2
    <3> HIDE DEF z
    <3>2. PICK y \in paths[K] : y[1] = t[1] /\ y[2] <= c[t[2]] + z[2]
      BY <1>2, <1>10, <3>1, LongerIsDominated DEF K
    <3>3. D[t[1]] <= y[2] /\ y[2] \in Nat
      BY <1>1, <1>7, <3>2
    <3>4. D[t[1]] \in Nat /\ D[t[3]] \in Nat
      BY <1>5, <2>0
    <3> QED
      BY <2>0, <3>1, <3>2, <3>3, <3>4
  <2> QED
    BY <2>1, <2>2
<1>11. \E rank : GoalRank(c, T, rank)
  <2> DEFINE Ks(s) == {k \in 0..K : <<s, D[s]>> \in paths[k]}
             Least(s) == CHOOSE k \in Ks(s) : \A j \in Ks(s) : k <= j
             rank == [s \in States |-> IF D[s] = Infinity THEN 0 ELSE Least(s)]
  <2>1. ASSUME NEW s \in States, D[s] # Infinity
        PROVE  Least(s) \in Ks(s) /\ \A j \in Ks(s) : Least(s) <= j
    <3>1. Ks(s) \subseteq Nat /\ K \in Ks(s)
      BY <1>1, <1>2, <2>1
    <3> HIDE DEF Ks
    <3>2. \E k \in Ks(s) : \A j \in Ks(s) : k <= j
      BY <3>1, LeastElement
    <3> QED
      BY <3>2
  <2>2. rank \in [States -> Nat]
    <3>1. ASSUME NEW s \in States, D[s] # Infinity PROVE Least(s) \in Nat
      <4>1. Ks(s) \subseteq Nat
        BY <1>1
      <4> HIDE DEF Ks, Least
      <4> QED
        BY <2>1, <3>1, <4>1
    <3> HIDE DEF Least
    <3> QED
      BY <3>1
  <2>3. \A s \in States : D[s] # Infinity => rank[s] = Least(s)
    OBVIOUS
  <2> HIDE DEF rank, Least
  <2>4. ASSUME NEW s \in States \ GoalStates, D[s] # Infinity
        PROVE  \E t \in Transitions : /\ t[1] = s /\ t[3] \in T /\ D[t[3]] # Infinity
                                      /\ D[s] = c[t[2]] + D[t[3]] /\ rank[t[3]] < rank[s]
    <3> DEFINE y == <<s, D[s]>>
    <3>1. PICK k \in 0..K : k = rank[s] /\ y \in paths[k] /\ \A j \in 0..K : y \in paths[j] => k <= j
      BY <2>1, <2>3, <2>4
    <3>2. y[1] = s /\ y[2] = D[s] /\ s \in T
      BY <1>8, <2>4
    <3> HIDE DEF y
    <3>3. k # 0
      BY <1>4, <2>4, <3>1, <3>2
    <3>4. k \in 1..K /\ k - 1 \in 0..K /\ k - 1 < k
      BY <1>1, <3>3
    <3>5. y \notin paths[k-1]
      BY <1>1, <3>1, <3>4
    <3>13. \/ y \in paths[k-1]
           \/ \E t \in Transitions : \E z \in paths[k-1] :
                t[1] \in T /\ t[3] = z[1] /\ y = <<t[1], c[t[2]] + z[2]>>
      BY <1>4, <3>1, <3>4
    <3>6. PICK t \in Transitions, z \in paths[k-1] :
            t[1] \in T /\ t[3] = z[1] /\ y = <<t[1], c[t[2]] + z[2]>>
      BY <3>5, <3>13, Zenon
    <3>7. t[1] = s /\ D[s] = c[t[2]] + z[2]
      BY <3>2, <3>6
    <3>8. z[1] \in T /\ z[1] \in States /\ z[2] \in Nat /\ z = <<z[1], z[2]>> /\ D[z[1]] <= z[2]
      BY <1>7, <3>4
    <3>9. D[s] <= c[t[2]] + D[t[3]] /\ c[t[2]] \in Nat
      BY <1>10, <3>6, <3>7, TaskAssumption
    <3>10. D[t[3]] = z[2]
      BY <1>5, <3>6, <3>7, <3>8, <3>9
    <3>11. D[t[3]] # Infinity
      <4>1. D[s] <= Infinity /\ D[s] \in Nat /\ Infinity \in Nat
        BY <1>2, InfinityNat
      <4>2. PICK d \in Nat : d = D[t[3]]
        BY <3>8, <3>10
      <4>3. ASSUME D[t[3]] = Infinity PROVE FALSE
        BY <2>4, <3>7, <3>9, <3>10, <4>1, <4>2, <4>3
      <4> QED
        BY <4>3
    <3>12. rank[t[3]] <= k - 1 /\ rank[t[3]] \in Nat
      <4>1. t[3] \in States /\ <<t[3], D[t[3]]>> \in paths[k-1]
        BY <3>6, <3>8, <3>10
      <4>2. k - 1 \in Ks(t[3])
        BY <3>4, <4>1
      <4> HIDE DEF Ks
      <4> QED
        BY <2>1, <2>2, <2>3, <3>11, <4>1, <4>2
    <3> QED
      BY <3>1, <3>4, <3>6, <3>7, <3>8, <3>10, <3>11, <3>12
  <2> QED
    BY <2>2, <2>4 DEF GoalRank, D
<1> QED
  BY <1>2, <1>5, <1>8, <1>9, <1>10, <1>11 DEF D

LEMMA DistancesFit ==
  ASSUME IsFiniteSet(States), NEW c \in [Operators -> Nat], NEW T \in SUBSET States,
         NEW M, PathsFit(c, T, M)
  PROVE  /\ \A s \in States : GoalDistance(c, T)[s] # Infinity =>
              GoalDistance(c, T)[s] <= M * Cardinality(T)
         /\ \A t \in Transitions : t[1] \in T /\ GoalDistance(c, T)[t[3]] # Infinity =>
              GoalDistance(c, T)[t[1]] # Infinity
<1> DEFINE K == Cardinality(T)
           D == GoalDistance(c, T)
<1>1. IsFiniteSet(T) /\ K \in Nat /\ K \in 0..K
  BY FS_Subset, FS_CardinalityType
<1>2. PICK paths :
        /\ CostPaths(c, T, paths)
        /\ D \in [States -> Nat]
        /\ \A s \in States : /\ D[s] \in Nat /\ D[s] <= Infinity
                             /\ D[s] # Infinity => <<s, D[s]>> \in paths[K]
        /\ \A y \in paths[K] : D[y[1]] <= y[2]
  BY CostPathsExist
<1>3. M \in Nat /\ (\A o \in Operators : c[o] <= M) /\ M * K < Infinity
  BY DEF PathsFit
<1> HIDE DEF D, K
<1>4. /\ paths \in [0..K -> SUBSET (T \X Nat)]
      /\ paths[0] = (GoalStates \intersect T) \X {0}
      /\ \A k \in 1..K : \A y :
           y \in paths[k] <=>
             \/ y \in paths[k-1]
             \/ \E t \in Transitions : \E z \in paths[k-1] :
                  t[1] \in T /\ t[3] = z[1] /\ y = <<t[1], c[t[2]] + z[2]>>
  BY <1>2 DEF CostPaths, K
<1> DEFINE S == {k \in Nat : k <= K => \A y \in paths[k] : y[2] <= M * k}
<1>5. 0 \in S
  BY <1>3, <1>4
<1>6. ASSUME NEW k \in Nat, k \in S PROVE k + 1 \in S
  <2> SUFFICES ASSUME k + 1 <= K, NEW y \in paths[k+1] PROVE y[2] <= M * (k + 1)
    OBVIOUS
  <2>1. PICK j \in 1..K : j = k + 1
    BY <1>1
  <2>2. j - 1 = k /\ k \in 0..K
    BY <1>1, <2>1
  <2>3. PICK a \in Int, b \in Int : a = M * k /\ b = M * (k + 1)
    BY <1>3
  <2>4. b = a + M
    BY <1>3, <2>3
  <2>5. \/ y \in paths[j-1]
        \/ \E t \in Transitions : \E z \in paths[j-1] :
             t[1] \in T /\ t[3] = z[1] /\ y = <<t[1], c[t[2]] + z[2]>>
    BY <1>4, <2>1
  <2>6. \A z \in paths[k] : z[2] \in Nat /\ z[2] <= a
    BY <1>4, <1>6, <2>2, <2>3
  <2>7. CASE y \in paths[k]
    BY <1>3, <2>3, <2>4, <2>6, <2>7
  <2>8. ASSUME NEW t \in Transitions, NEW z \in paths[k], y = <<t[1], c[t[2]] + z[2]>>
        PROVE  y[2] <= b
    <3>1. c[t[2]] \in Nat /\ c[t[2]] <= M /\ y[2] = c[t[2]] + z[2]
      BY <1>3, <2>8, TaskAssumption
    <3> QED
      BY <1>3, <2>3, <2>4, <2>6, <3>1
  <2> QED
    BY <2>2, <2>3, <2>5, <2>7, <2>8
<1> HIDE DEF S
<1>7. K \in S
  BY <1>1, <1>5, <1>6, Induction
<1>8. PICK B \in Nat : B = M * K
  BY <1>1, <1>3
<1>9. \A y \in paths[K] : y[1] \in States /\ y[2] \in Nat /\ y[2] <= B
  BY <1>1, <1>4, <1>7, <1>8 DEF S
<1>10. ASSUME NEW s \in States, D[s] # Infinity PROVE D[s] <= B
  <2> DEFINE y == <<s, D[s]>>
  <2>1. y \in paths[K] /\ y[2] = D[s]
    BY <1>2, <1>10
  <2> HIDE DEF y
  <2> QED
    BY <1>9, <2>1
<1>11. ASSUME NEW t \in Transitions, t[1] \in T, D[t[3]] # Infinity PROVE D[t[1]] # Infinity
  <2> DEFINE z == <<t[3], D[t[3]]>>
  <2>1. z \in paths[K] /\ t[3] = z[1] /\ t[1] \in States
    BY <1>2, <1>11, TaskAssumption
  <2> HIDE DEF z
  <2>2. PICK y \in paths[K] : y[1] = t[1] /\ y[2] <= c[t[2]] + z[2]
    BY <1>2, <1>11, <2>1, LongerIsDominated DEF K
  <2>3. D[t[1]] <= y[2] /\ y[2] <= B /\ y[2] \in Nat /\ D[t[1]] \in Nat
    BY <1>2, <1>9, <2>1, <2>2
  <2> QED
    BY <1>3, <1>8, <2>3, InfinityNat
<1> QED
  BY <1>8, <1>10, <1>11 DEF D, K

==============================================================================
