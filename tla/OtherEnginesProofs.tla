------------------------- MODULE OtherEnginesProofs -------------------------
(***************************************************************************)
(* The graph searches that are there besides eager search.  For every      *)
(* task: breadth-first search finds shortest paths and reports the state   *)
(* space explored only when it is; enforced hill climbing keeps its phases *)
(* apart and fails only after the last one has tried everything; iterated  *)
(* width search never opens a state twice unless operators have            *)
(* conditional effects (with them it does: see the run WidthConditional);  *)
(* lazy search loses no edge.                                              *)
(***************************************************************************)
EXTENDS LazySearch, BreadthFirstSearch, EnforcedHillClimbing, IterativeWidthSearch,
        SearchSpaceProofs

-----------------------------------------------------------------------------
(***************************************************************************)
(* Iterated width search.                                                  *)
(***************************************************************************)

\* What is inductive: the table holds all conjunctions of every opened state,
\* and only opened states wait in the queue or are expanded.
IWTypes ==
  /\ status \in [States -> NodeStatus]
  /\ g \in [States -> Int]
  /\ iw_open \in Seq(States)
  /\ node \in States \union {NoState}
  /\ pending \in SUBSET (Operators \X States)

QueueReached ==
  /\ \A i \in 1..Len(iw_open) : Reached(iw_open[i]) /\ status[iw_open[i]] # "NEW"
  /\ node # NoState => Reached(node) /\ status[node] # "NEW"
  /\ pending \subseteq (IF node = NoState THEN {} ELSE Successors(node))

Untouched ==
  search_status = "INITIALIZE" =>
    node = NoState /\ iw_open = <<>> /\ \A s \in States : status[s] = "NEW"

IWInv == IWTypes /\ QueueReached /\ Untouched /\ OpenedFactsSeen

\* If all conjunctions of a state are in the table, then all those of its
\* successor are, once the conjunctions with an effect have been added.
LEMMA EffectsSuffice ==
  ASSUME NoAxioms,
         NEW s \in States, NEW x \in Successors(s), Conjunctions(s) \subseteq seen
  PROVE  Conjunctions(x[2]) \subseteq seen \union EffectConjunctions(x[1], x[2])
<1> DEFINE o == x[1]
           t == x[2]
<1>1. <<s, o, t>> \in Transitions /\ t \in States
  BY DEF Successors
<1>2. FactsOf[t] \subseteq FactsOf[s] \union EffectFacts[o]
  <2>1. FactsOf[<<s, o, t>>[3]] \subseteq FactsOf[<<s, o, t>>[1]] \union EffectFacts[<<s, o, t>>[2]]
    BY <1>1 DEF NoAxioms
  <2> QED BY <2>1
<1>3. ASSUME NEW f \in FactsOf[t]
      PROVE  {f} \in seen \union EffectConjunctions(o, t)
  BY <1>2, <1>3 DEF Conjunctions, EffectConjunctions
<1>4. ASSUME NEW f1 \in FactsOf[t], NEW f2 \in FactsOf[t], Width = 2, f1 \in EffectFacts[o]
      PROVE  {f1, f2} \in seen \union EffectConjunctions(o, t)
  <2>1. CASE f1[1] = f2[1]
    <3>1. f1 = f2
      BY <1>1, <1>4, <2>1, WidthAssumption
    <3>2. {f1, f2} = {f1}
      BY <3>1
    <3> QED BY <3>2, <1>3
  <2>2. CASE f1[1] # f2[1]
    <3>1. <<f1, f2>> \in {q \in EffectFacts[o] \X FactsOf[t] : q[1][1] # q[2][1]}
      BY <1>4, <2>2
    <3>2. {<<f1, f2>>[1], <<f1, f2>>[2]} \in EffectConjunctions(o, t)
      BY <3>1, <1>4 DEF EffectConjunctions
    <3> QED BY <3>2
  <2> QED BY <2>1, <2>2
<1>5. ASSUME NEW f1 \in FactsOf[t], NEW f2 \in FactsOf[t], Width = 2
      PROVE  {f1, f2} \in seen \union EffectConjunctions(o, t)
  <2>1. CASE f1 \in EffectFacts[o]
    BY <1>4, <1>5, <2>1
  <2>2. CASE f2 \in EffectFacts[o]
    <3>1. {f2, f1} \in seen \union EffectConjunctions(o, t)
      BY <1>4, <1>5, <2>2
    <3> QED BY <3>1
  <2>3. CASE f1 \in FactsOf[s] /\ f2 \in FactsOf[s]
    <3>1. <<f1, f2>> \in FactsOf[s] \X FactsOf[s]
      BY <2>3
    <3>2. {<<f1, f2>>[1], <<f1, f2>>[2]} \in Conjunctions(s)
      BY <3>1, <1>5 DEF Conjunctions
    <3> QED BY <3>2
  <2> QED BY <1>2, <1>5, <2>1, <2>2, <2>3
<1>6. ASSUME NEW c \in Conjunctions(t)
      PROVE  c \in seen \union EffectConjunctions(o, t)
  <2>1. CASE \E f \in FactsOf[t] : c = {f}
    BY <2>1, <1>3
  <2>2. CASE Width = 2 /\ \E p \in FactsOf[t] \X FactsOf[t] : c = {p[1], p[2]}
    BY <2>2, <1>5
  <2> QED BY <1>6, <2>1, <2>2 DEF Conjunctions
<1> QED BY <1>6

\* A successor all of whose conjunctions are in the table is not novel, if the
\* effects of the operator hold in it.
LEMMA SeenIsNotNovel ==
  ASSUME NoConditionalEffects,
         NEW s \in States, NEW x \in Successors(s), Conjunctions(x[2]) \subseteq seen
  PROVE  ~Novel(x[1], x[2])
<1>1. <<s, x[1], x[2]>> \in Transitions
  BY DEF Successors
<1>2. EffectFacts[x[1]] \subseteq FactsOf[x[2]]
  <2>1. EffectFacts[<<s, x[1], x[2]>>[2]] \subseteq FactsOf[<<s, x[1], x[2]>>[3]]
    BY <1>1 DEF NoConditionalEffects
  <2> QED BY <2>1
<1>3. EffectConjunctions(x[1], x[2]) \subseteq Conjunctions(x[2])
  BY <1>2 DEF EffectConjunctions, Conjunctions
<1> QED BY <1>3 DEF Novel

\* The invariant implies the assertion of the code.
LEMMA InvNovel ==
  ASSUME NoConditionalEffects, IWInv
  PROVE  NovelStatesAreNew
<1> SUFFICES ASSUME NEW x \in pending, Novel(x[1], x[2]), status[x[2]] # "NEW"
             PROVE  FALSE
  BY DEF NovelStatesAreNew
<1>1. node \in States /\ x \in Successors(node)
  BY DEF IWInv, IWTypes, QueueReached
<1>2. x[2] \in States
  BY <1>1 DEF Successors
<1>3. Conjunctions(x[2]) \subseteq seen
  BY <1>2 DEF IWInv, OpenedFactsSeen
<1> QED BY <1>1, <1>3, SeenIsNotNovel

Init0 == SSInit /\ EngineInit /\ EvaluationInit /\ ExpansionInit /\ IWInit

LEMMA IWInitInv == Init0 => IWInv
<1> SUFFICES ASSUME Init0 PROVE IWInv
  OBVIOUS
<1>1. IWTypes
  BY DEF Init0, SSInit, ExpansionInit, IWInit, IWTypes, NodeStatus
<1>2. QueueReached /\ Untouched /\ OpenedFactsSeen
  BY DEF Init0, SSInit, ExpansionInit, IWInit, QueueReached, Untouched, OpenedFactsSeen
<1> QED BY <1>1, <1>2 DEF IWInv

\* Opening a novel successor keeps the invariant and is a step of the contract.
LEMMA GenerateInv ==
  ASSUME NoAxioms, NoConditionalEffects, IWInv, NEW x \in pending, IWGenerate(x)
  PROVE  IWInv' /\ [SSNext]_ssvars
<1>1. /\ node \in States /\ x \in Successors(node) /\ Reached(node)
      /\ x[1] \in Operators /\ x[2] \in States
      /\ search_status # "INITIALIZE" /\ node' = node /\ search_status' = search_status
      /\ pending' = pending \ {x}
  BY TaskAssumption
  DEF IWInv, IWTypes, QueueReached, Untouched, IWGenerate, NextOperator, Successors, enginevars
<1>2. IWTypes /\ QueueReached /\ OpenedFactsSeen
  BY DEF IWInv
<1>3. Untouched'
  BY <1>1 DEF Untouched
<1>4. CASE UNCHANGED <<ssvars, iwvars>>
  <2>1. IWTypes' /\ QueueReached' /\ OpenedFactsSeen'
    BY <1>1, <1>2, <1>4
    DEF IWTypes, QueueReached, OpenedFactsSeen, Reached, ssvars, iwvars, Successors, Conjunctions
  <2> QED BY <2>1, <1>3, <1>4 DEF IWInv, ssvars
<1>5. CASE /\ ~IWCutsOff(x[1])
           /\ seen' = seen \union EffectConjunctions(x[1], x[2])
           /\ ~Novel(x[1], x[2])
           /\ UNCHANGED <<ssvars, iw_open>>
  <2>1. IWTypes' /\ QueueReached' /\ OpenedFactsSeen'
    BY <1>1, <1>2, <1>5
    DEF IWTypes, QueueReached, OpenedFactsSeen, Reached, ssvars, Successors, Conjunctions
  <2> QED BY <2>1, <1>3, <1>5 DEF IWInv
<1>6. CASE /\ ~IWCutsOff(x[1])
           /\ seen' = seen \union EffectConjunctions(x[1], x[2])
           /\ Novel(x[1], x[2])
           /\ IWOpen(x)
  <2>1. status[x[2]] = "NEW"
    BY <1>6, InvNovel DEF NovelStatesAreNew
  <2>2. Open(x[2], node, x[1])
    BY <1>6, <2>1 DEF IWOpen, Open
  <2>3. SSNext
    BY <1>1, <2>2 DEF SSNext, OpenSome
  <2>4. AdjustedCost(x[1]) \in Nat
    BY <1>1, AdjustedCostNat
  <2>5. /\ status' = [status EXCEPT ![x[2]] = "OPEN"]
        /\ g' = [g EXCEPT ![x[2]] = g[node] + AdjustedCost(x[1])]
        /\ iw_open' = Append(iw_open, x[2])
    BY <1>6 DEF IWOpen, SetParent
  <2>6. IWTypes'
    BY <1>1, <1>2, <2>4, <2>5 DEF IWTypes, NodeStatus
  <2>7. \A s \in States : Reached(s) => g'[s] >= 0
    BY <1>1, <1>2, <2>4, <2>5 DEF IWTypes, Reached
  <2>8. \A s \in States : status[s] # "NEW" => status'[s] # "NEW"
    BY <1>1, <1>2, <2>5 DEF IWTypes
  <2>9. g'[x[2]] >= 0 /\ status'[x[2]] # "NEW"
    BY <1>1, <1>2, <2>4, <2>5 DEF IWTypes, Reached
  <2>10. \A i \in 1..Len(iw_open') : g'[iw_open'[i]] >= 0 /\ status'[iw_open'[i]] # "NEW"
    <3> SUFFICES ASSUME NEW i \in 1..Len(iw_open')
                 PROVE  g'[iw_open'[i]] >= 0 /\ status'[iw_open'[i]] # "NEW"
      OBVIOUS
    <3>1. CASE i = Len(iw_open) + 1
      <4>1. iw_open'[i] = x[2]
        BY <1>2, <2>5, <3>1 DEF IWTypes
      <4> QED BY <4>1, <2>9
    <3>2. CASE i \in 1..Len(iw_open)
      <4>1. iw_open'[i] = iw_open[i] /\ iw_open[i] \in States
        BY <1>2, <2>5, <3>2 DEF IWTypes
      <4>2. Reached(iw_open[i]) /\ status[iw_open[i]] # "NEW"
        BY <1>2, <3>2 DEF QueueReached
      <4> QED BY <4>1, <4>2, <2>7, <2>8
    <3>3. i = Len(iw_open) + 1 \/ i \in 1..Len(iw_open)
      BY <1>2, <2>5 DEF IWTypes
    <3> QED BY <3>1, <3>2, <3>3
  <2>11. QueueReached'
    <3>1. node' # NoState => g'[node'] >= 0 /\ status'[node'] # "NEW"
      BY <1>1, <1>2, <2>7, <2>8 DEF QueueReached
    <3>2. pending' \subseteq (IF node' = NoState THEN {} ELSE Successors(node'))
      BY <1>1, <1>2 DEF QueueReached
    <3> QED BY <2>10, <3>1, <3>2 DEF QueueReached, Reached, Successors
  <2>12. OpenedFactsSeen'
    <3> SUFFICES ASSUME NEW s \in States, status'[s] # "NEW"
                 PROVE  Conjunctions(s) \subseteq seen'
      BY DEF OpenedFactsSeen, Conjunctions
    <3>1. CASE s = x[2]
      <4>1. Conjunctions(node) \subseteq seen
        BY <1>1, <1>2, TaskAssumption DEF OpenedFactsSeen, QueueReached
      <4> QED BY <1>1, <1>6, <3>1, <4>1, EffectsSuffice
    <3>2. CASE s # x[2]
      <4>1. status[s] # "NEW"
        BY <1>1, <1>2, <2>5, <3>2 DEF IWTypes
      <4> QED BY <1>2, <1>6, <4>1 DEF OpenedFactsSeen
    <3> QED BY <3>1, <3>2
  <2> QED BY <1>3, <2>3, <2>6, <2>11, <2>12 DEF IWInv
<1> QED BY <1>4, <1>5, <1>6 DEF IWGenerate

\* The invariant is kept by every step, and every step is a step of the contract.
LEMMA IWNextInv ==
  ASSUME NoAxioms, NoConditionalEffects, IWInv, [IWNext]_allvars
  PROVE  IWInv' /\ [SSNext]_ssvars
<1>1. CASE UNCHANGED allvars
  BY <1>1
  DEF IWInv, IWTypes, QueueReached, Untouched, OpenedFactsSeen, Reached, Successors, Conjunctions,
      allvars, ssvars, enginevars, expansionvars, iwvars
<1>2. CASE IWInitialize
  <2>1. /\ status' = [status EXCEPT ![InitialState] = "OPEN"]
        /\ g' = [g EXCEPT ![InitialState] = 0]
        /\ iw_open' = <<InitialState>> /\ seen' = Conjunctions(InitialState)
        /\ node = NoState /\ node' = NoState /\ pending' = pending
        /\ search_status' = "IN_PROGRESS"
        /\ \A s \in States : status[s] = "NEW"
    BY <1>2 DEF IWInitialize, OpenInitial, IWInv, Untouched, expansionvars
  <2>2. IWTypes'
    BY <2>1, TaskAssumption DEF IWInv, IWTypes, NodeStatus
  <2>3. QueueReached'
    BY <2>1, TaskAssumption DEF IWInv, IWTypes, QueueReached, Reached
  <2>4. OpenedFactsSeen'
    BY <2>1, TaskAssumption DEF IWInv, IWTypes, OpenedFactsSeen, Conjunctions
  <2>5. Untouched'
    BY <2>1 DEF Untouched
  <2> QED BY <1>2, <2>2, <2>3, <2>4, <2>5 DEF IWInv, IWInitialize, SSNext
<1>3. CASE IWOpenListEmpty
  BY <1>3
  DEF IWInv, IWTypes, QueueReached, Untouched, OpenedFactsSeen, Reached, Successors, Conjunctions,
      ssvars, expansionvars, iwvars, IWOpenListEmpty, IWFetching, StepReturns
<1>4. CASE IWExpand
  <2> DEFINE n == Head(iw_open)
  <2>1. /\ status' = [status EXCEPT ![n] = "CLOSED"] /\ g' = g
        /\ iw_open' = Tail(iw_open) /\ iw_open # <<>> /\ seen' = seen
        /\ node = NoState /\ Close(n)
        /\ search_status = "IN_PROGRESS" /\ search_status' # "INITIALIZE"
        /\ \/ UNCHANGED expansionvars
           \/ StartExpansion(n)
    BY <1>4 DEF IWExpand, IWFetching, Close, enginevars, StepReturns
  <2>2. /\ n \in States /\ Reached(n) /\ status[n] # "NEW" /\ n # NoState
        /\ Len(iw_open') = Len(iw_open) - 1 /\ iw_open' \in Seq(States)
        /\ \A i \in 1..Len(iw_open') : iw_open'[i] = iw_open[i+1] /\ i+1 \in 1..Len(iw_open)
    <3>1. iw_open \in Seq(States) /\ Len(iw_open) > 0 /\ n = iw_open[1]
      BY <2>1 DEF IWInv, IWTypes
    <3> QED BY <2>1, <3>1, TaskAssumption DEF IWInv, QueueReached
  <2>3. /\ node' \in {n, NoState}
        /\ pending' \in SUBSET (Operators \X States)
        /\ pending' \subseteq (IF node' = NoState THEN {} ELSE Successors(node'))
    BY <2>1, <2>2 DEF IWInv, IWTypes, QueueReached, StartExpansion, expansionvars, Successors
  <2>4. IWTypes'
    BY <2>1, <2>2, <2>3 DEF IWInv, IWTypes, NodeStatus
  <2>5. \A s \in States : (status'[s] # "NEW" <=> status[s] # "NEW") /\ (g'[s] >= 0 <=> Reached(s))
    BY <2>1, <2>2 DEF IWInv, IWTypes, Reached
  <2>6. \A i \in 1..Len(iw_open') : g'[iw_open'[i]] >= 0 /\ status'[iw_open'[i]] # "NEW"
    <3> SUFFICES ASSUME NEW i \in 1..Len(iw_open')
                 PROVE  g'[iw_open'[i]] >= 0 /\ status'[iw_open'[i]] # "NEW"
      OBVIOUS
    <3>0. i+1 \in 1..Len(iw_open) /\ iw_open'[i] = iw_open[i+1]
      BY <2>2, Zenon
    <3>1. iw_open[i+1] \in States
      BY <3>0 DEF IWInv, IWTypes
    <3>2. Reached(iw_open[i+1]) /\ status[iw_open[i+1]] # "NEW"
      BY <3>0 DEF IWInv, QueueReached
    <3> QED BY <3>0, <3>1, <3>2, <2>5
  <2>7. QueueReached'
    <3>1. node' # NoState => g'[node'] >= 0 /\ status'[node'] # "NEW"
      BY <2>2, <2>3, <2>5
    <3> QED BY <2>3, <2>6, <3>1 DEF QueueReached, Reached, Successors
  <2>8. OpenedFactsSeen'
    BY <2>1, <2>5 DEF IWInv, OpenedFactsSeen, Conjunctions
  <2>9. Untouched' /\ SSNext
    BY <2>1, <2>2 DEF Untouched, SSNext, CloseSome
  <2> QED BY <2>4, <2>7, <2>8, <2>9 DEF IWInv
<1>5. ASSUME NEW x \in pending, IWGenerate(x)
      PROVE  IWInv' /\ [SSNext]_ssvars
  BY <1>5, GenerateInv
<1>6. CASE EndExpansion /\ StepReturns("IN_PROGRESS") /\ UNCHANGED <<ssvars, solution, iwvars>>
  BY <1>6
  DEF IWInv, IWTypes, QueueReached, Untouched, OpenedFactsSeen, Reached, Successors, Conjunctions,
      ssvars, iwvars, EndExpansion, StepReturns
<1> QED BY <1>1, <1>2, <1>3, <1>4, <1>5, <1>6 DEF IWNext, IWStep

LEMMA IWInvariant ==
  ASSUME NoAxioms, NoConditionalEffects
  PROVE  IWSpec => []IWInv
<1>1. IWInv /\ [IWNext]_allvars => IWInv'
  BY IWNextInv
<1> QED BY <1>1, IWInitInv, PTL DEF IWSpec, Init0

\* A successor that passes the novelty test has never been opened, for every
\* task without axioms and conditional effects: the assertion of the code holds.
THEOREM NovelTheorem ==
  ASSUME NoAxioms, NoConditionalEffects
  PROVE  IWSpec => []NovelStatesAreNew
<1>1. IWInv => NovelStatesAreNew
  BY InvNovel
<1> QED BY <1>1, IWInvariant, PTL

\* On the same tasks iterated width search respects the search space contract,
\* so that its parent pointers are acyclic and its plans can be traced.
THEOREM IWImplementsContract ==
  ASSUME NoAxioms, NoConditionalEffects
  PROVE  IWSpec => SSSpec
<1>1. IWInv /\ [IWNext]_allvars => [SSNext]_ssvars
  BY IWNextInv
<1>2. Init0 => SSInit
  BY DEF Init0
<1> QED BY <1>1, <1>2, IWInvariant, PTL DEF IWSpec, Init0, SSSpec

-----------------------------------------------------------------------------
(***************************************************************************)
(* Breadth-first search.                                                   *)
(***************************************************************************)

\* Breadth-first search on its own.
brfsallvars == <<enginevars, expansionvars, brfsvars, ssvars, evalvars>>
BrFSSpec == EngineInit /\ ExpansionInit /\ BrFSInit /\ [][BrFSStep]_brfsallvars

\* d gives the registered states their distances from the initial state: the
\* parent of a state was registered before it and is one operator nearer, the
\* distances grow along the registry and exceed that of the state expanded last
\* by at most one, and the successors of the states that were expanded are
\* registered at a distance that is at most one greater.
DistancesAre(d) ==
  /\ d \in [1..Len(registered) -> Nat]
  /\ \A i \in 1..Len(registered) :
       \/ i = 1 /\ d[i] = 0 /\ parents[registered[i]] = <<NoState, NoOperator>>
       \/ \E j \in 1..i-1 : \E o \in Operators :
            /\ parents[registered[i]] = <<registered[j], o>>
            /\ <<registered[j], o, registered[i]>> \in Transitions
            /\ d[i] = d[j] + 1
  /\ \A i \in 1..Len(registered) : \A j \in 1..i : d[j] <= d[i]
  /\ \A i \in 1..Len(registered) : current_state_id > 0 => d[i] <= d[current_state_id] + 1
  /\ \A i \in 1..current_state_id : \A x \in Successors(registered[i]) :
       \/ i = current_state_id /\ (x \in pending \/ (SinglePlan /\ search_status = "SOLVED"))
       \/ \E j \in 1..Len(registered) : registered[j] = x[2] /\ d[j] <= d[i] + 1

BrFSTypes ==
  /\ search_status \in {"INITIALIZE", "IN_PROGRESS", "SOLVED", "UNSOLVABLE"}
  /\ registered \in Seq(States)
  /\ current_state_id \in 0..Len(registered)
  /\ parents \in [States -> (States \union {NoState}) \X (Operators \union {NoOperator})]
  /\ node \in States \union {NoState}
  /\ pending \subseteq Operators \X States
  /\ brfs_plans \in Seq(Seq(Operators))

\* Every state is registered once, the initial state first.
RegisteredOnce ==
  /\ \A i, j \in 1..Len(registered) : registered[i] = registered[j] => i = j
  /\ registered # <<>> => registered[1] = InitialState
  /\ registered = <<>> <=> search_status = "INITIALIZE"
  /\ \A s \in States : ~Registered(s) => parents[s] = <<NoState, NoOperator>>

BrFSControl ==
  /\ node # NoState => /\ current_state_id > 0 /\ node = registered[current_state_id]
                       /\ pending \subseteq Successors(node)
                       /\ search_status = "IN_PROGRESS"
  /\ node = NoState => pending = {}
  /\ current_state_id = 0 => Len(registered) <= 1

BrFSInv ==
  /\ BrFSTypes /\ RegisteredOnce /\ BrFSControl
  /\ \E d : DistancesAre(d)

\* The parents that are kept lead back to the initial state by as many operators
\* as the distance says.
LEMMA TraceLengths ==
  ASSUME BrFSTypes, RegisteredOnce, NEW d, DistancesAre(d)
  PROVE  \A i \in 1..Len(registered) :
           TraceParents(registered[i]) \in Seq(Operators) /\ Len(TraceParents(registered[i])) = d[i]
<1> DEFINE N == Len(registered)
           X == [States -> Seq(Operators)]
           Extend(F) == [s \in States |-> IF parents[s][2] = NoOperator THEN <<>>
                                          ELSE Append(F[parents[s][1]], parents[s][2])]
           none == [s \in States |-> <<>>]
           IsPath(f) == f = Extend(f)
           path == CHOOSE f : IsPath(f)
<1>1. N \in Nat /\ \A i \in 1..N : registered[i] \in States
  BY DEF BrFSTypes
<1>2. ASSUME NEW s \in States
      PROVE  \/ parents[s][2] = NoOperator
             \/ \E i \in 1..N : \E j \in 1..i-1 : \E o \in Operators :
                  s = registered[i] /\ parents[s] = <<registered[j], o>> /\ d[i] = d[j] + 1
  <2>1. CASE Registered(s)
    <3>1. PICK i \in DOMAIN registered : s = registered[i]
      BY <2>1 DEF Registered
    <3>2. i \in 1..N
      BY <3>1 DEF BrFSTypes
    <3>3. \/ parents[registered[i]] = <<NoState, NoOperator>>
          \/ \E j \in 1..i-1 : \E o \in Operators :
               parents[registered[i]] = <<registered[j], o>> /\ d[i] = d[j] + 1
      BY <3>2 DEF DistancesAre
    <3>4. CASE parents[registered[i]] = <<NoState, NoOperator>>
      BY <3>1, <3>4
    <3>5. CASE \E j \in 1..i-1 : \E o \in Operators :
                 parents[registered[i]] = <<registered[j], o>> /\ d[i] = d[j] + 1
      BY <3>1, <3>2, <3>5, Zenon
    <3> QED
      BY <3>3, <3>4, <3>5
  <2>2. CASE ~Registered(s)
    BY <2>2 DEF RegisteredOnce
  <2> QED
    BY <2>1, <2>2
<1>3. ASSUME NEW s \in States, parents[s][2] # NoOperator
      PROVE  parents[s][1] \in States /\ parents[s][2] \in Operators
  <2>1. PICK i \in 1..N : \E j \in 1..i-1 : \E o \in Operators : parents[s] = <<registered[j], o>>
    BY <1>2, <1>3
  <2>2. PICK j \in 1..i-1, o \in Operators : parents[s] = <<registered[j], o>>
    BY <2>1
  <2>3. j \in 1..N
    BY <1>1, <2>1, <2>2
  <2> QED
    BY <1>1, <2>2, <2>3
<1>4. ASSUME NEW F \in X PROVE Extend(F) \in X
  <2>1. ASSUME NEW s \in States
        PROVE  (IF parents[s][2] = NoOperator THEN <<>>
                ELSE Append(F[parents[s][1]], parents[s][2])) \in Seq(Operators)
    <3>1. CASE parents[s][2] = NoOperator
      BY <3>1
    <3>2. CASE parents[s][2] # NoOperator
      <4>1. F[parents[s][1]] \in Seq(Operators) /\ parents[s][2] \in Operators
        BY <1>3, <3>2
      <4> QED
        BY <3>2, <4>1, AppendProperties
    <3> QED
      BY <3>1, <3>2
  <2> QED
    BY <2>1
<1>5. none \in X
  OBVIOUS
<1>6. \E F \in [0..N+1 -> X] : \A k \in 1..N+1 : F[k] = Extend(F[k-1])
  <2> DEFINE step == [k \in 1..N+1 |-> [G \in X |-> Extend(G)]]
  <2>1. step \in [1..N+1 -> [X -> X]]
    BY <1>4
  <2>2. N + 1 \in Nat
    BY <1>1
  <2> HIDE DEF Extend
  <2>3. \A k \in 1..N+1 : \A G \in X : step[k][G] = Extend(G)
    OBVIOUS
  <2> HIDE DEF X, step, none, N
  <2>4. Solutions(X, none, N+1, step) # {}
    BY <1>5, <2>1, <2>2, Recursion
  <2>5. PICK F \in [0..N+1 -> X] : \A k \in 1..N+1 : F[k] = step[k][F[k-1]]
    BY <2>4 DEF Solutions
  <2>6. \A k \in 1..N+1 : k - 1 \in 0..N+1
    BY <1>1
  <2> QED
    BY <2>3, <2>5, <2>6
<1> HIDE DEF Extend
<1>7. PICK F \in [0..N+1 -> X] : \A k \in 1..N+1 : F[k] = Extend(F[k-1])
  BY <1>6
<1>8. ASSUME NEW s \in States, NEW G \in X
      PROVE  /\ parents[s][2] = NoOperator => Extend(G)[s] = <<>>
             /\ parents[s][2] # NoOperator => Extend(G)[s] = Append(G[parents[s][1]], parents[s][2])
  BY DEF Extend
\* The values for the first k states are final after k steps.
<1>9. \A k \in 0..N : \A i \in 1..N : i <= k => F[k][registered[i]] = F[k+1][registered[i]]
  <2> DEFINE S == {k \in Nat : k <= N =>
                     \A i \in 1..N : i <= k => F[k][registered[i]] = F[k+1][registered[i]]}
  <2>1. 0 \in S
    OBVIOUS
  <2>2. ASSUME NEW k \in Nat, k \in S PROVE k + 1 \in S
    <3> SUFFICES ASSUME k + 1 <= N, NEW i \in 1..N, i <= k + 1
        PROVE  F[k+1][registered[i]] = F[(k+1)+1][registered[i]]
      OBVIOUS
    <3>1. /\ F[k+1] = Extend(F[k]) /\ F[(k+1)+1] = Extend(F[k+1])
          /\ F[k] \in X /\ F[k+1] \in X /\ registered[i] \in States
      <4>1. /\ k + 1 \in 1..N+1 /\ (k+1)+1 \in 1..N+1 /\ (k + 1) - 1 = k /\ ((k+1)+1)-1 = k+1
            /\ k \in 0..N+1 /\ k + 1 \in 0..N+1
        BY <1>1
      <4> QED
        BY <1>1, <1>7, <4>1
    <3>2. CASE parents[registered[i]][2] = NoOperator
      BY <1>8, <3>1, <3>2
    <3>3. CASE parents[registered[i]][2] # NoOperator
      <4>1. parents[registered[i]] # <<NoState, NoOperator>>
        BY <3>3
      <4>2. PICK j \in 1..i-1, o \in Operators : parents[registered[i]] = <<registered[j], o>>
        BY <4>1, Zenon DEF DistancesAre
      <4>3. j \in 1..N /\ j <= k
        BY <1>1, <4>2
      <4>4. F[k][registered[j]] = F[k+1][registered[j]]
        BY <2>2, <4>3
      <4>5. PICK s \in States : s = registered[i]
        BY <3>1
      <4>6. /\ Extend(F[k])[s] = Append(F[k][parents[s][1]], parents[s][2])
            /\ Extend(F[k+1])[s] = Append(F[k+1][parents[s][1]], parents[s][2])
        BY <1>8, <3>1, <3>3, <4>5
      <4>7. parents[s][1] = registered[j]
        BY <4>2, <4>5
      <4> QED
        BY <3>1, <4>4, <4>5, <4>6, <4>7
    <3> QED
      BY <3>2, <3>3
  <2> HIDE DEF S
  <2>3. Nat \subseteq S
    BY <2>1, <2>2, Induction
  <2> QED
    BY <1>1, <2>3 DEF S
<1>10. CASE N = 0
  BY <1>10
<1>11. CASE N # 0
  <2>1. /\ F[N] \in X /\ F[N+1] \in X /\ F[N-1] \in X
        /\ F[N] = Extend(F[N-1]) /\ F[N+1] = Extend(F[N])
    <3>1. /\ N \in 1..N+1 /\ N + 1 \in 1..N+1 /\ (N + 1) - 1 = N
          /\ N \in 0..N+1 /\ N + 1 \in 0..N+1 /\ N - 1 \in 0..N+1
      BY <1>1, <1>11
    <3> QED
      BY <1>7, <3>1
  <2>2. ASSUME NEW s \in States PROVE F[N][s] = F[N+1][s]
    <3>1. CASE parents[s][2] = NoOperator
      BY <1>8, <2>1, <3>1
    <3>2. CASE parents[s][2] # NoOperator
      <4>1. PICK i \in 1..N : s = registered[i]
        BY <1>2, <3>2
      <4>2. N \in 0..N /\ i <= N
        BY <1>1, <4>1
      <4> QED
        BY <1>9, <4>1, <4>2
    <3> QED
      BY <3>1, <3>2
  <2>3. IsPath(F[N])
    BY <2>1, <2>2
  <2>4. path = Extend(path)
    <3>1. \E f : IsPath(f)
      BY <2>3
    <3> QED
      BY <3>1
  <2> HIDE DEF path
  <2>5. ASSUME NEW s \in States
        PROVE  /\ parents[s][2] = NoOperator => path[s] = <<>>
               /\ parents[s][2] # NoOperator => path[s] = Append(path[parents[s][1]], parents[s][2])
    BY <2>4 DEF Extend
  <2> DEFINE S == {k \in Nat : \A i \in 1..N : i <= k =>
                     path[registered[i]] \in Seq(Operators) /\ Len(path[registered[i]]) = d[i]}
  <2>6. 0 \in S
    OBVIOUS
  <2>7. ASSUME NEW k \in Nat, k \in S PROVE k + 1 \in S
    <3> SUFFICES ASSUME NEW i \in 1..N, i <= k + 1
        PROVE  path[registered[i]] \in Seq(Operators) /\ Len(path[registered[i]]) = d[i]
      OBVIOUS
    <3>0. registered[i] \in States
      BY <1>1
    <3>1. CASE i = 1 /\ d[i] = 0 /\ parents[registered[i]] = <<NoState, NoOperator>>
      <4>1. PICK s \in States : s = registered[i]
        BY <3>0
      <4>2. parents[s][2] = NoOperator
        BY <3>1, <4>1
      <4>3. path[s] = <<>> /\ <<>> \in Seq(Operators) /\ Len(<<>>) = 0
        BY <2>5, <4>2
      <4> QED
        BY <3>1, <4>1, <4>3
    <3>2. ASSUME NEW j \in 1..i-1, NEW o \in Operators,
                 parents[registered[i]] = <<registered[j], o>>, d[i] = d[j] + 1
          PROVE  path[registered[i]] \in Seq(Operators) /\ Len(path[registered[i]]) = d[i]
      <4>1. j \in 1..N /\ j <= k
        BY <1>1
      <4>2. path[registered[j]] \in Seq(Operators) /\ Len(path[registered[j]]) = d[j]
        BY <2>7, <4>1
      <4>3. path[registered[i]] = Append(path[registered[j]], o)
        <5>1. o # NoOperator
          BY TaskAssumption
        <5>2. PICK s \in States : s = registered[i]
          BY <3>0
        <5>3. parents[s][1] = registered[j] /\ parents[s][2] = o
          BY <3>2, <5>2
        <5>4. path[s] = Append(path[parents[s][1]], parents[s][2])
          BY <2>5, <5>1, <5>3
        <5> QED
          BY <5>2, <5>3, <5>4
      <4> QED
        BY <3>2, <4>2, <4>3, AppendProperties
    <3> QED
      BY <3>1, <3>2 DEF DistancesAre
  <2> HIDE DEF S
  <2>8. Nat \subseteq S
    BY <2>6, <2>7, Induction
  <2>9. \A i \in 1..N : path[registered[i]] \in Seq(Operators) /\ Len(path[registered[i]]) = d[i]
    <3>1. N \in S
      BY <1>1, <2>8
    <3> QED
      BY <3>1 DEF S
  <2>10. \A i \in 1..N : TraceParents(registered[i]) = path[registered[i]]
    BY DEF TraceParents, path, Extend
  <2> QED
    BY <2>9, <2>10
<1> QED
  BY <1>10, <1>11

OneStep(P) == {t[3] : t \in {u \in Transitions : u[1] \in P}}

\* layer[k] holds the states that at most k operators lead to.
Layers(layer) ==
  layer = [k \in 0..Cardinality(States) |->
             IF k = 0 THEN {InitialState} ELSE layer[k-1] \union OneStep(layer[k-1])]

LEMMA LayersExist ==
  ASSUME IsFiniteSet(States)
  PROVE  \E layer : Layers(layer)
<1> DEFINE K == Cardinality(States)
           X == SUBSET States
           step == [k \in 1..K |-> [P \in X |-> P \union OneStep(P)]]
           first == {InitialState}
<1>1. K \in Nat
  BY FS_CardinalityType
<1>2. first \in X /\ \A P \in X : OneStep(P) \subseteq States
  BY TaskAssumption DEF OneStep
<1>3. step \in [1..K -> [X -> X]]
  BY <1>2
<1>4. \A k \in 1..K : \A P \in X : step[k][P] = P \union OneStep(P)
  OBVIOUS
<1> HIDE DEF X, step, first, K
<1>5. Solutions(X, first, K, step) # {}
  BY <1>1, <1>2, <1>3, Recursion
<1>6. PICK f \in [0..K -> X] : f[0] = first /\ \A k \in 1..K : f[k] = step[k][f[k-1]]
  BY <1>5 DEF Solutions
<1>7. \A k \in 0..K : k # 0 => k \in 1..K /\ k - 1 \in 0..K
  BY <1>1
<1>8. \A k \in 0..K : f[k] = IF k = 0 THEN first ELSE f[k-1] \union OneStep(f[k-1])
  BY <1>4, <1>6, <1>7
<1>9. Layers(f)
  BY <1>6, <1>8 DEF Layers, first, K
<1> QED
  BY <1>9

\* Every registered state is in the layer of its distance, and the layers below
\* hold no state that is not registered with a distance that small.
LEMMA LayersAreDistances ==
  ASSUME BrFSTypes, RegisteredOnce, BrFSControl, NEW d, DistancesAre(d), IsFiniteSet(States),
         NEW layer, Layers(layer), registered # <<>>
  PROVE  /\ \A i \in 1..Len(registered) : d[i] \in 0..Cardinality(States) /\ registered[i] \in layer[d[i]]
         /\ \A i \in 1..Len(registered) : \A k \in Nat : k < d[i] => registered[i] \notin layer[k]
<1> DEFINE N == Len(registered)
           K == Cardinality(States)
           c == current_state_id
<1>1. /\ N \in Nat /\ N > 0 /\ K \in Nat /\ c \in 0..N
      /\ \A i \in 1..N : registered[i] \in States /\ d[i] \in Nat
      /\ registered[1] = InitialState /\ InitialState \in States
  <2>1. registered \in Seq(States) /\ registered # <<>>
    BY DEF BrFSTypes
  <2>2. N \in Nat /\ N > 0
    BY <2>1, EmptySeq
  <2> QED
    BY <2>1, <2>2, FS_CardinalityType, TaskAssumption DEF BrFSTypes, RegisteredOnce, DistancesAre
<1>2. N <= K
  <2> SUFFICES ASSUME K < N PROVE FALSE
    BY <1>1
  <2> DEFINE f == [i \in 1..N |-> registered[i]]
  <2>1. f \in [1..N -> States]
    BY <1>1
  <2>2. IsFiniteSet(1..N) /\ Cardinality(1..N) = N
    <3>1. 1 \in Int /\ N \in Int /\ ~(1 > N) /\ N-1+1 = N
      BY <1>1
    <3> HIDE DEF N
    <3>2. IsFiniteSet(1..N) /\ Cardinality(1..N) = IF 1 > N THEN 0 ELSE N-1+1
      BY <3>1, FS_Interval
    <3> QED
      BY <3>1, <3>2
  <2> HIDE DEF f, N, K
  <2>3. \E x, y \in 1..N : x # y /\ f[x] = f[y]
    BY <2>1, <2>2, FS_PigeonHole DEF K
  <2> QED
    BY <2>3 DEF f, N, RegisteredOnce
<1>3. /\ layer[0] = {InitialState}
      /\ \A k \in 1..K : layer[k] = layer[k-1] \union OneStep(layer[k-1])
  <2>1. \A k \in 0..K : layer[k] = IF k = 0 THEN {InitialState} ELSE layer[k-1] \union OneStep(layer[k-1])
    BY DEF Layers
  <2>2. 0 \in 0..K /\ \A k \in 1..K : k \in 0..K /\ k # 0
    BY <1>1
  <2> QED
    BY <2>1, <2>2
<1> HIDE DEF N, K
\* The first state has distance 0, and every other one is a successor.
<1>4. ASSUME NEW i \in 1..N
      PROVE  \/ i = 1 /\ d[i] = 0
             \/ \E j \in 1..i-1 : \E o \in Operators :
                  <<registered[j], o, registered[i]>> \in Transitions /\ d[i] = d[j] + 1
  BY DEF DistancesAre, N
<1>5. \A i \in 1..N : d[i] <= i - 1 /\ registered[i] \in layer[d[i]]
  <2> DEFINE S == {k \in Nat : \A i \in 1..N : i <= k => d[i] <= i - 1 /\ registered[i] \in layer[d[i]]}
  <2>1. 0 \in S
    OBVIOUS
  <2>2. ASSUME NEW k \in Nat, k \in S PROVE k + 1 \in S
    <3> SUFFICES ASSUME NEW i \in 1..N, i <= k + 1 PROVE d[i] <= i - 1 /\ registered[i] \in layer[d[i]]
      OBVIOUS
    <3>1. CASE i = 1 /\ d[i] = 0
      BY <1>1, <1>3, <3>1
    <3>2. ASSUME NEW j \in 1..i-1, NEW o \in Operators,
                 <<registered[j], o, registered[i]>> \in Transitions, d[i] = d[j] + 1
          PROVE  d[i] <= i - 1 /\ registered[i] \in layer[d[i]]
      <4>1. j \in 1..N /\ j <= k /\ d[j] \in Nat
        BY <1>1
      <4>2. d[j] <= j - 1 /\ registered[j] \in layer[d[j]]
        BY <2>2, <4>1
      <4>3. d[i] <= i - 1
        BY <1>1, <3>2, <4>1, <4>2
      <4>4. d[i] \in 1..K /\ d[i] - 1 = d[j]
        BY <1>1, <1>2, <3>2, <4>1, <4>3
      <4>5. layer[d[i]] = layer[d[j]] \union OneStep(layer[d[j]])
        BY <1>3, <4>4
      <4>6. registered[i] \in OneStep(layer[d[j]])
        <5> DEFINE t == <<registered[j], o, registered[i]>>
        <5>1. t \in Transitions /\ t[1] \in layer[d[j]] /\ t[3] = registered[i]
          BY <3>2, <4>2
        <5> HIDE DEF t
        <5> QED
          BY <5>1 DEF OneStep
      <4> QED
        BY <4>3, <4>5, <4>6
    <3> QED
      BY <1>4, <3>1, <3>2
  <2> HIDE DEF S
  <2>3. Nat \subseteq S
    BY <2>1, <2>2, Induction
  <2>4. N \in S /\ \A i \in 1..N : i <= N
    BY <1>1, <2>3
  <2> QED
    BY <2>4 DEF S
<1>6. \A i \in 1..N : d[i] \in 0..K
  <2> SUFFICES ASSUME NEW i \in 1..N PROVE d[i] \in 0..K
    OBVIOUS
  <2> QED
    BY <1>1, <1>2, <1>5
\* A state in the layer k is registered with a distance of at most k, as long
\* as all states of the layers before it were expanded.
<1>7. \A k \in Nat : k <= (IF c = 0 THEN 0 ELSE d[c]) =>
        \A s \in layer[k] : \E m \in 1..N : registered[m] = s /\ d[m] <= k
  <2> DEFINE bound == IF c = 0 THEN 0 ELSE d[c]
             Known(k, s) == \E m \in 1..N : registered[m] = s /\ d[m] <= k
             S == {k \in Nat : k <= bound => \A s \in layer[k] : Known(k, s)}
  <2>0. bound \in 0..K
    <3>1. c # 0 => c \in 1..N
      BY <1>1
    <3> QED
      BY <1>1, <1>6, <3>1
  <2>1. 0 \in S
    <3>1. 1 \in 1..N /\ d[1] = 0
      BY <1>1, <1>4
    <3> QED
      BY <1>1, <1>3, <3>1
  <2>2. ASSUME NEW k \in Nat, k \in S PROVE k + 1 \in S
    <3> SUFFICES ASSUME k + 1 <= bound, NEW s \in layer[k+1] PROVE Known(k + 1, s)
      OBVIOUS
    <3>1. c # 0 /\ c \in 1..N /\ k + 1 <= d[c] /\ k + 1 \in 1..K /\ (k + 1) - 1 = k /\ k <= bound
      BY <1>1, <2>0
    <3>2. s \in layer[k] \union OneStep(layer[k])
      BY <1>3, <3>1
    <3>3. \A z \in layer[k] : Known(k, z)
      BY <2>2, <3>1
    <3>4. CASE s \in layer[k]
      <4>1. PICK m \in 1..N : registered[m] = s /\ d[m] <= k
        BY <3>3, <3>4
      <4>2. d[m] <= k + 1
        BY <1>1, <4>1
      <4> QED
        BY <4>1, <4>2
    <3>5. CASE s \in OneStep(layer[k])
      <4>1. PICK t \in Transitions : t[1] \in layer[k] /\ t[3] = s
        BY <3>5 DEF OneStep
      <4>2. PICK i \in 1..N : registered[i] = t[1] /\ d[i] <= k
        BY <3>3, <4>1
      <4>3. i < c
        <5> SUFFICES ASSUME c <= i PROVE FALSE
          BY <1>1, <3>1
        <5>1. d[c] <= d[i]
          <6>1. c \in 1..i
            BY <1>1, <3>1
          <6> QED
            BY <6>1 DEF DistancesAre, N
        <5>2. d[c] \in Nat /\ d[i] \in Nat
          BY <1>1, <3>1
        <5> QED
          BY <3>1, <4>2, <5>1, <5>2
      <4>4. /\ t[2] \in Operators /\ t[3] \in States /\ t = <<t[1], t[2], t[3]>>
        BY TaskAssumption
      <4>5. <<t[2], t[3]>> \in Successors(registered[i])
        BY <4>2, <4>4 DEF Successors
      <4>6. \E m \in 1..N : registered[m] = <<t[2], t[3]>>[2] /\ d[m] <= d[i] + 1
        <5>1. i \in 1..current_state_id /\ i # current_state_id
          BY <1>1, <4>3
        <5> QED
          BY <4>5, <5>1 DEF DistancesAre, N
      <4>7. PICK m \in 1..N : registered[m] = s /\ d[m] <= d[i] + 1
        BY <4>1, <4>6
      <4>8. d[m] <= k + 1
        BY <1>1, <4>2, <4>7
      <4> QED
        BY <4>7, <4>8
    <3> QED
      BY <3>2, <3>4, <3>5
  <2> HIDE DEF S
  <2>3. Nat \subseteq S
    BY <2>1, <2>2, Induction
  <2> QED
    BY <2>3 DEF S
<1>8. ASSUME NEW i \in 1..N, NEW k \in Nat, k < d[i], registered[i] \in layer[k]
      PROVE  FALSE
  <2>1. k <= IF c = 0 THEN 0 ELSE d[c]
    <3>1. CASE c = 0
      <4>1. i = 1
        BY <1>1, <3>1 DEF BrFSControl, N
      <4> QED
        BY <1>1, <1>4, <1>8, <4>1
    <3>2. CASE c # 0
      <4>1. d[i] <= d[c] + 1 /\ d[c] \in Nat /\ d[i] \in Nat
        BY <1>1, <3>2 DEF DistancesAre, N
      <4> QED
        BY <1>8, <3>2, <4>1
    <3> QED
      BY <3>1, <3>2
  <2>2. PICK m \in 1..N : registered[m] = registered[i] /\ d[m] <= k
    BY <1>7, <1>8, <2>1
  <2>3. m = i
    BY <2>2 DEF RegisteredOnce, N
  <2> QED
    BY <1>1, <1>8, <2>2, <2>3
<1> QED
  BY <1>5, <1>6, <1>8 DEF N, K

LEMMA BrFSShortest ==
  ASSUME BrFSInv, IsFiniteSet(States)
  PROVE  ShortestPaths
<1>1. PICK d : DistancesAre(d)
  BY DEF BrFSInv
<1> DEFINE layer == CHOOSE f : Layers(f)
<1>2. Layers(layer)
  BY LayersExist
<1>3. BrFSTypes /\ RegisteredOnce /\ BrFSControl
  BY DEF BrFSInv
<1>4. \A i \in 1..Len(registered) : Len(TraceParents(registered[i])) = d[i]
  BY <1>1, <1>3, TraceLengths
<1> HIDE DEF layer
<1>5. ASSUME NEW i \in DOMAIN registered
      PROVE  /\ registered[i] \in layer[Len(TraceParents(registered[i]))]
             /\ Len(TraceParents(registered[i])) > 0 =>
                  registered[i] \notin layer[Len(TraceParents(registered[i])) - 1]
             /\ \A j \in 1..i : Len(TraceParents(registered[j])) <= Len(TraceParents(registered[i]))
  <2>1. i \in 1..Len(registered) /\ registered # <<>> /\ Len(registered) \in Nat /\ d[i] \in Nat
    BY <1>1, <1>3 DEF BrFSTypes, DistancesAre
  <2>2. Len(TraceParents(registered[i])) = d[i]
    BY <1>4, <2>1
  <2>3. registered[i] \in layer[d[i]]
    BY <1>1, <1>2, <1>3, <2>1, LayersAreDistances
  <2>4. d[i] > 0 => registered[i] \notin layer[d[i] - 1]
    <3> SUFFICES ASSUME d[i] > 0 PROVE registered[i] \notin layer[d[i] - 1]
      OBVIOUS
    <3>1. PICK k \in Nat : k = d[i] - 1
      BY <2>1
    <3>2. k < d[i]
      BY <2>1, <3>1
    <3> QED
      BY <1>1, <1>2, <1>3, <2>1, <3>1, <3>2, LayersAreDistances
  <2>5. ASSUME NEW j \in 1..i PROVE Len(TraceParents(registered[j])) <= d[i]
    <3>1. j \in 1..Len(registered) /\ d[j] <= d[i]
      BY <1>1, <2>1 DEF DistancesAre
    <3> QED
      BY <1>4, <3>1
  <2> QED
    BY <2>2, <2>3, <2>4, <2>5
<1> QED
  BY <1>5 DEF ShortestPaths, layer, Layers, OneStep

LEMMA BrFSInitInv == EngineInit /\ ExpansionInit /\ BrFSInit => BrFSInv
<1> SUFFICES ASSUME EngineInit, ExpansionInit, BrFSInit PROVE BrFSInv
  OBVIOUS
<1>1. BrFSTypes
  BY EmptySeq DEF EngineInit, ExpansionInit, BrFSInit, BrFSTypes
<1>2. RegisteredOnce /\ BrFSControl
  BY DEF EngineInit, ExpansionInit, BrFSInit, RegisteredOnce, BrFSControl
<1>3. DistancesAre([i \in 1..0 |-> 0])
  BY DEF BrFSInit, DistancesAre
<1> QED
  BY <1>1, <1>2, <1>3 DEF BrFSInv

LEMMA BrFSInitializeInv ==
  ASSUME BrFSInv, BrFSInitialize
  PROVE  BrFSInv'
<1>1. /\ registered = <<>> /\ current_state_id = 0 /\ node = NoState /\ pending = {}
      /\ registered' = <<InitialState>> /\ search_status' = "IN_PROGRESS"
      /\ UNCHANGED <<solution, expansionvars, current_state_id, parents, brfs_plans>>
      /\ InitialState \in States
      /\ \A s \in States : parents[s] = <<NoState, NoOperator>>
  <2>1. registered = <<>> /\ search_status = "INITIALIZE"
    BY DEF BrFSInitialize, BrFSInv, RegisteredOnce
  <2>2. \A s \in States : ~Registered(s)
    BY <2>1 DEF Registered
  <2>3. current_state_id = 0
    BY <2>1 DEF BrFSInv, BrFSTypes
  <2> QED
    BY <2>1, <2>2, <2>3, TaskAssumption DEF BrFSInitialize, BrFSInv, RegisteredOnce, BrFSControl
<1>2. /\ Len(registered') = 1 /\ registered'[1] = InitialState /\ registered' \in Seq(States)
      /\ registered' # <<>>
  BY <1>1
<1>3. BrFSTypes'
  BY <1>1, <1>2 DEF BrFSInv, BrFSTypes, expansionvars
<1>4. RegisteredOnce'
  BY <1>1, <1>2 DEF RegisteredOnce
<1>5. BrFSControl'
  BY <1>1, <1>2 DEF BrFSControl, expansionvars
<1>6. DistancesAre([i \in 1..1 |-> 0])'
  BY <1>1, <1>2 DEF DistancesAre
<1> QED
  BY <1>3, <1>4, <1>5, <1>6 DEF BrFSInv

LEMMA BrFSExpandInv ==
  ASSUME BrFSInv, BrFSExpand
  PROVE  BrFSInv'
<1> DEFINE N == Len(registered)
           c == current_state_id
<1>1. BrFSTypes /\ RegisteredOnce /\ BrFSControl
  BY DEF BrFSInv
<1>2. PICK d : DistancesAre(d)
  BY DEF BrFSInv
<1>3. /\ search_status = "IN_PROGRESS" /\ node = NoState /\ pending = {}
      /\ c' = c + 1 /\ c \in Nat /\ c + 1 \in 1..N /\ N \in Nat
      /\ UNCHANGED <<solution, registered, parents>>
      /\ NextState \in States /\ NextState = registered[c+1]
      /\ \A i \in 1..N : d[i] \in Nat
  BY <1>1, <1>2 DEF BrFSExpand, Exploring, AllExplored, BrFSTypes, BrFSControl, NextState, DistancesAre
<1>4. \/ /\ IsGoal(NextState) /\ SinglePlan /\ search_status' = "SOLVED" /\ node' = NoState
         /\ pending' = {}
      \/ /\ search_status' = "IN_PROGRESS" /\ node' = NextState /\ pending' = Successors(NextState)
  BY <1>3 DEF BrFSExpand, StartExpansion, expansionvars
<1>5. brfs_plans' \in Seq(Seq(Operators))
  <2>1. TraceParents(NextState) \in Seq(Operators)
    BY <1>1, <1>2, <1>3, TraceLengths
  <2> QED
    BY <1>1, <2>1, AppendProperties DEF BrFSExpand, SavedPlans, BrFSTypes
<1>6. BrFSTypes'
  <2>1. Successors(NextState) \subseteq Operators \X States
    BY DEF Successors
  <2> QED
    BY <1>1, <1>3, <1>4, <1>5, <2>1 DEF BrFSTypes
<1>7. RegisteredOnce'
  BY <1>1, <1>3, <1>4 DEF RegisteredOnce, Registered
<1>8. BrFSControl'
  <2>1. NextState # NoState
    BY <1>3, TaskAssumption
  <2> QED
    BY <1>3, <1>4, <2>1 DEF BrFSControl
<1>9. DistancesAre(d)'
  <2>1. \A i \in 1..N : d[i] <= d[c+1] + 1
    <3> SUFFICES ASSUME NEW i \in 1..N PROVE d[i] <= d[c+1] + 1
      OBVIOUS
    <3>1. CASE c = 0
      <4>1. i = c + 1
        BY <1>1, <1>3, <3>1 DEF BrFSControl
      <4> QED
        BY <1>3, <4>1
    <3>2. CASE c > 0
      <4>1. d[i] <= d[c] + 1 /\ d[c] <= d[c+1]
        <5>1. c \in 1..c+1
          BY <1>3, <3>2
        <5> QED
          BY <1>2, <1>3, <3>2, <5>1 DEF DistancesAre
      <4>2. c \in 1..N
        BY <1>3, <3>2
      <4> QED
        BY <1>3, <4>1, <4>2
    <3> QED
      BY <1>3, <3>1, <3>2
  <2>2. ASSUME NEW i \in 1..c+1, NEW x \in Successors(registered[i])
        PROVE  \/ i = c + 1 /\ (x \in pending' \/ (SinglePlan /\ search_status' = "SOLVED"))
               \/ \E j \in 1..N : registered[j] = x[2] /\ d[j] <= d[i] + 1
    <3>1. CASE i = c + 1
      BY <1>3, <1>4, <3>1
    <3>2. CASE i # c + 1
      <4>1. i \in 1..c
        BY <1>3, <3>2
      <4> QED
        BY <1>2, <1>3, <4>1 DEF DistancesAre
    <3> QED
      BY <3>1, <3>2
  <2> QED
    BY <1>2, <1>3, <2>1, <2>2 DEF DistancesAre
<1> QED
  BY <1>6, <1>7, <1>8, <1>9 DEF BrFSInv

LEMMA BrFSGenerateInv ==
  ASSUME BrFSInv, NEW x \in pending, Generate(x)
  PROVE  BrFSInv'
<1> DEFINE N == Len(registered)
           c == current_state_id
<1>1. BrFSTypes /\ RegisteredOnce /\ BrFSControl
  BY DEF BrFSInv
<1>2. PICK d : DistancesAre(d)
  BY DEF BrFSInv
<1>3. /\ node # NoState /\ node' = node /\ pending' = pending \ {x} /\ node = registered[c]
      /\ c' = c /\ c \in 1..N /\ N \in Nat /\ search_status' = search_status
      /\ search_status = "IN_PROGRESS" /\ brfs_plans' = brfs_plans
      /\ x \in Successors(node) /\ pending \subseteq Successors(node)
      /\ x[1] \in Operators /\ x[2] \in States /\ <<node, x[1], x[2]>> \in Transitions
      /\ \A i \in 1..N : d[i] \in Nat /\ registered[i] \in States
  <2>1. /\ node # NoState /\ node' = node /\ pending' = pending \ {x} /\ c' = c
        /\ search_status' = search_status /\ brfs_plans' = brfs_plans
    BY <1>1 DEF Generate, NextOperator, BrFSControl, enginevars
  <2>2. /\ node = registered[c] /\ c \in 1..N /\ N \in Nat /\ search_status = "IN_PROGRESS"
        /\ x \in Successors(node) /\ pending \subseteq Successors(node)
    BY <1>1, <2>1 DEF BrFSTypes, BrFSControl
  <2>3. x[1] \in Operators /\ x[2] \in States /\ <<node, x[1], x[2]>> \in Transitions
    BY <2>2 DEF Successors
  <2>4. \A i \in 1..N : d[i] \in Nat
    BY <1>2 DEF DistancesAre
  <2>5. \A i \in 1..N : registered[i] \in States
    BY <1>1 DEF BrFSTypes
  <2>6. \A i \in 1..N : d[i] \in Nat /\ registered[i] \in States
    BY <2>4, <2>5
  <2> HIDE DEF N, c
  <2> QED
    BY <2>1, <2>2, <2>3, <2>6, Zenon
<1>4. Registered(x[2]) <=> \E j \in 1..N : registered[j] = x[2]
  <2>1. DOMAIN registered = 1..N
    BY <1>1 DEF BrFSTypes
  <2> QED
    BY <2>1 DEF Registered
<1>5. CASE Registered(x[2])
  <2>1. UNCHANGED <<registered, parents>>
    BY <1>5 DEF Generate
  <2>2. PICK j \in 1..N : registered[j] = x[2]
    BY <1>4, <1>5
  <2>3. d[j] <= d[c] + 1
    BY <1>2, <1>3 DEF DistancesAre
  <2>4. DistancesAre(d)'
    <3>1. ASSUME NEW i \in 1..c, NEW y \in Successors(registered[i])
          PROVE  \/ i = c /\ (y \in pending' \/ (SinglePlan /\ search_status' = "SOLVED"))
                 \/ \E m \in 1..N : registered[m] = y[2] /\ d[m] <= d[i] + 1
      <4>1. CASE i = c /\ y = x
        BY <2>2, <2>3, <4>1
      <4>2. CASE ~(i = c /\ y = x)
        <5>1. \/ i = c /\ (y \in pending \/ (SinglePlan /\ search_status = "SOLVED"))
              \/ \E m \in 1..N : registered[m] = y[2] /\ d[m] <= d[i] + 1
          BY <1>2 DEF DistancesAre
        <5>2. pending' = pending \ {x} /\ search_status' = search_status
          BY <1>3
        <5> QED
          BY <4>2, <5>1, <5>2, Zenon
      <4> QED
        BY <4>1, <4>2
    <3>2. registered' = registered /\ parents' = parents /\ current_state_id' = c
      BY <1>3, <2>1
    <3>3. \A i \in 1..current_state_id : \A y \in Successors(registered[i]) :
            \/ i = current_state_id /\ (y \in pending' \/ (SinglePlan /\ search_status' = "SOLVED"))
            \/ \E m \in 1..Len(registered) : registered[m] = y[2] /\ d[m] <= d[i] + 1
      BY <3>1
    <3>4. /\ d \in [1..Len(registered) -> Nat]
          /\ \A i \in 1..Len(registered) :
               \/ i = 1 /\ d[i] = 0 /\ parents[registered[i]] = <<NoState, NoOperator>>
               \/ \E k \in 1..i-1 : \E o \in Operators :
                    /\ parents[registered[i]] = <<registered[k], o>>
                    /\ <<registered[k], o, registered[i]>> \in Transitions
                    /\ d[i] = d[k] + 1
          /\ \A i \in 1..Len(registered) : \A k \in 1..i : d[k] <= d[i]
          /\ \A i \in 1..Len(registered) :
               current_state_id > 0 => d[i] <= d[current_state_id] + 1
      BY <1>2, Zenon DEF DistancesAre
    <3> HIDE DEF N, c
    <3> QED
      BY <3>2, <3>3, <3>4, Zenon DEF DistancesAre, c
  <2>5. BrFSTypes' /\ RegisteredOnce' /\ BrFSControl'
    BY <1>1, <1>3, <2>1 DEF BrFSTypes, RegisteredOnce, BrFSControl, Registered
  <2> QED
    BY <2>4, <2>5 DEF BrFSInv
<1>6. CASE ~Registered(x[2])
  <2>1. /\ registered' = Append(registered, x[2])
        /\ parents' = [parents EXCEPT ![x[2]] = <<node, x[1]>>]
    BY <1>6 DEF Generate
  <2>2. /\ registered' \in Seq(States) /\ Len(registered') = N + 1 /\ registered'[N+1] = x[2]
        /\ \A i \in 1..N : registered'[i] = registered[i]
        /\ registered' # <<>>
    BY <1>1, <1>3, <2>1, AppendProperties DEF BrFSTypes
  <2>3. /\ parents'[x[2]] = <<node, x[1]>>
        /\ \A s \in States \ {x[2]} : parents'[s] = parents[s]
        /\ parents' \in [States -> (States \union {NoState}) \X (Operators \union {NoOperator})]
    BY <1>1, <1>3, <2>1 DEF BrFSTypes
  <2>4. \A i \in 1..N : registered[i] # x[2] /\ parents'[registered[i]] = parents[registered[i]]
    BY <1>3, <1>4, <1>6, <2>3
  <2> HIDE DEF N, c
  <2>5. BrFSTypes'
    BY <1>1, <1>3, <2>2, <2>3 DEF BrFSTypes, N, c
  <2>6. RegisteredOnce'
    <3>1. \A i, j \in 1..N+1 : registered'[i] = registered'[j] => i = j
      <4> SUFFICES ASSUME NEW i \in 1..N+1, NEW j \in 1..N+1, registered'[i] = registered'[j]
          PROVE  i = j
        OBVIOUS
      <4>1. i # N + 1 => i \in 1..N
        BY <1>3
      <4>2. j # N + 1 => j \in 1..N
        BY <1>3
      <4>3. CASE i = N + 1 \/ j = N + 1
        BY <2>2, <2>4, <4>1, <4>2, <4>3
      <4>4. CASE i # N + 1 /\ j # N + 1
        <5>1. registered[i] = registered[j]
          BY <2>2, <4>1, <4>2, <4>4
        <5> QED
          BY <1>1, <4>1, <4>2, <4>4, <5>1 DEF RegisteredOnce, N
      <4> QED
        BY <4>3, <4>4
    <3>2. registered'[1] = InitialState
      <4>1. 1 \in 1..N /\ registered # <<>>
        BY <1>3 DEF N
      <4> QED
        BY <1>1, <2>2, <4>1 DEF RegisteredOnce
    <3>3. \A s \in States : Registered(s) \/ s = x[2] => Registered(s)'
      <4>1. DOMAIN registered = 1..N /\ DOMAIN registered' = 1..N+1
        BY <1>1, <2>2 DEF BrFSTypes, N
      <4>2. N + 1 \in 1..N+1 /\ \A i \in 1..N : i \in 1..N+1
        BY <1>3
      <4> QED
        BY <2>2, <4>1, <4>2 DEF Registered
    <3>4. \A s \in States : ~Registered(s)' => parents'[s] = <<NoState, NoOperator>>
      BY <1>1, <2>3, <3>3 DEF RegisteredOnce
    <3> QED
      BY <1>3, <2>2, <3>1, <3>2, <3>4 DEF RegisteredOnce
  <2>7. BrFSControl'
    BY <1>1, <1>3, <2>2 DEF BrFSControl, c, N
  <2> DEFINE e == [i \in 1..N+1 |-> IF i = N + 1 THEN d[c] + 1 ELSE d[i]]
  <2>8. /\ e \in [1..N+1 -> Nat] /\ e[N+1] = d[c] + 1 /\ \A i \in 1..N : e[i] = d[i]
        /\ e[c] = d[c] /\ c # N + 1 /\ d[c] \in Nat
    <3>1. \A i \in 1..N : i # N + 1 /\ i \in 1..N+1
      BY <1>3
    <3>2. \A i \in 1..N+1 : i # N + 1 => i \in 1..N
      BY <1>3
    <3>3. N + 1 \in 1..N+1
      BY <1>3
    <3> QED
      BY <1>3, <3>1, <3>2, <3>3
  <2> HIDE DEF e
  <2>9. ASSUME NEW i \in 1..N+1
        PROVE  \/ i = 1 /\ e[i] = 0 /\ parents'[registered'[i]] = <<NoState, NoOperator>>
               \/ \E j \in 1..i-1 : \E o \in Operators :
                    /\ parents'[registered'[i]] = <<registered'[j], o>>
                    /\ <<registered'[j], o, registered'[i]>> \in Transitions
                    /\ e[i] = e[j] + 1
    <3>1. CASE i = N + 1
      <4>1. c \in 1..i-1
        BY <1>3, <3>1
      <4>2. registered'[i] = x[2] /\ registered'[c] = node
        <5>1. registered'[c] = registered[c]
          BY <1>3, <2>2
        <5> QED
          BY <1>3, <2>2, <3>1, <5>1
      <4>3. /\ parents'[registered'[i]] = <<registered'[c], x[1]>>
            /\ <<registered'[c], x[1], registered'[i]>> \in Transitions
        BY <1>3, <2>3, <4>2
      <4>4. e[i] = e[c] + 1
        BY <2>8, <3>1
      <4> QED
        BY <1>3, <4>1, <4>3, <4>4
    <3>2. CASE i # N + 1
      <4>1. i \in 1..N
        BY <1>3, <3>2
      <4>2. CASE i = 1 /\ d[i] = 0 /\ parents[registered[i]] = <<NoState, NoOperator>>
        BY <2>2, <2>4, <2>8, <4>1, <4>2
      <4>3. ASSUME NEW j \in 1..i-1, NEW o \in Operators,
                   parents[registered[i]] = <<registered[j], o>>,
                   <<registered[j], o, registered[i]>> \in Transitions, d[i] = d[j] + 1
            PROVE  /\ parents'[registered'[i]] = <<registered'[j], o>>
                   /\ <<registered'[j], o, registered'[i]>> \in Transitions
                   /\ e[i] = e[j] + 1
        <5>1. j \in 1..N
          BY <1>3, <4>1
        <5> QED
          BY <2>2, <2>4, <2>8, <4>1, <4>3, <5>1
      <4> QED
        BY <1>2, <4>1, <4>2, <4>3 DEF DistancesAre, N
    <3> QED
      BY <3>1, <3>2
  <2>10. ASSUME NEW i \in 1..N+1
         PROVE  e[i] \in Nat /\ e[i] <= e[c] + 1
    <3>1. CASE i = N + 1
      BY <2>8, <3>1
    <3>2. CASE i # N + 1
      <4>1. i \in 1..N
        BY <1>3, <3>2
      <4>2. d[i] <= d[c] + 1 /\ d[i] \in Nat
        BY <1>2, <1>3, <4>1 DEF DistancesAre, c, N
      <4> QED
        BY <2>8, <4>1, <4>2
    <3> QED
      BY <3>1, <3>2
  <2>11. ASSUME NEW i \in 1..N+1, NEW j \in 1..i
         PROVE  e[j] <= e[i]
    <3>1. CASE i = N + 1
      <4>1. j \in 1..N+1
        BY <1>3, <3>1
      <4> QED
        BY <2>8, <2>10, <3>1, <4>1
    <3>2. CASE i # N + 1
      <4>1. i \in 1..N /\ j \in 1..N
        BY <1>3, <3>2
      <4>2. d[j] <= d[i]
        BY <1>2, <4>1 DEF DistancesAre, N
      <4> QED
        BY <2>8, <4>1, <4>2
    <3> QED
      BY <3>1, <3>2
  <2>12. ASSUME NEW i \in 1..c, NEW y \in Successors(registered'[i])
         PROVE  \/ i = c /\ (y \in pending' \/ (SinglePlan /\ search_status' = "SOLVED"))
                \/ \E m \in 1..N+1 : registered'[m] = y[2] /\ e[m] <= e[i] + 1
    <3>1. i \in 1..N /\ registered'[i] = registered[i] /\ e[i] = d[i] /\ N + 1 \in 1..N+1
      <4>1. i \in 1..N /\ N + 1 \in 1..N+1
        BY <1>3
      <4> QED
        BY <2>2, <2>8, <4>1
    <3>2. CASE i = c /\ y = x
      <4>1. registered'[N+1] = y[2] /\ e[N+1] <= e[i] + 1
        BY <2>2, <2>8, <3>2
      <4> QED
        BY <3>1, <4>1
    <3>3. CASE ~(i = c /\ y = x)
      <4>1. \/ i = c /\ (y \in pending \/ (SinglePlan /\ search_status = "SOLVED"))
            \/ \E m \in 1..N : registered[m] = y[2] /\ d[m] <= d[i] + 1
        BY <1>2, <3>1 DEF DistancesAre, c, N
      <4>2. ASSUME NEW m \in 1..N, registered[m] = y[2], d[m] <= d[i] + 1
            PROVE  m \in 1..N+1 /\ registered'[m] = y[2] /\ e[m] <= e[i] + 1
        <5>1. m \in 1..N+1
          BY <1>3
        <5>2. registered'[m] = registered[m] /\ e[m] = d[m]
          BY <2>2, <2>8
        <5> QED
          BY <3>1, <4>2, <5>1, <5>2
      <4> QED
        BY <1>3, <3>3, <4>1, <4>2
    <3> QED
      BY <3>2, <3>3
  <2>13. PICK f : f = e
    OBVIOUS
  <2>14. DistancesAre(f)'
    <3>1. Len(registered') = N + 1 /\ current_state_id' = c /\ current_state_id = c
      BY <1>3, <2>2 DEF c
    <3>2. f \in [1..Len(registered') -> Nat]
      BY <2>8, <2>13, <3>1
    <3>3. \A i \in 1..Len(registered') :
            \/ i = 1 /\ f[i] = 0 /\ parents'[registered'[i]] = <<NoState, NoOperator>>
            \/ \E j \in 1..i-1 : \E o \in Operators :
                 /\ parents'[registered'[i]] = <<registered'[j], o>>
                 /\ <<registered'[j], o, registered'[i]>> \in Transitions
                 /\ f[i] = f[j] + 1
      BY <2>9, <2>13, <3>1
    <3>4. /\ \A i \in 1..Len(registered') : \A j \in 1..i : f[j] <= f[i]
          /\ \A i \in 1..Len(registered') :
               current_state_id' > 0 => f[i] <= f[current_state_id'] + 1
      BY <2>10, <2>11, <2>13, <3>1
    <3>5. \A i \in 1..current_state_id' : \A y \in Successors(registered'[i]) :
            \/ /\ i = current_state_id'
               /\ y \in pending' \/ (SinglePlan /\ search_status' = "SOLVED")
            \/ \E m \in 1..Len(registered') : registered'[m] = y[2] /\ f[m] <= f[i] + 1
      BY <2>12, <2>13, <3>1
    <3> QED
      BY <3>2, <3>3, <3>4, <3>5 DEF DistancesAre
  <2> QED
    BY <2>5, <2>6, <2>7, <2>14 DEF BrFSInv
<1> QED
  BY <1>5, <1>6

\* What remains of a step: the end of an expansion, the end of the exploration,
\* and stuttering.
LEMMA BrFSQuietInv ==
  ASSUME BrFSInv,
         UNCHANGED <<registered, current_state_id, parents, brfs_plans, pending>>,
         \/ UNCHANGED <<search_status, node>>
         \/ node' = NoState /\ pending = {} /\ search_status # "INITIALIZE"
            /\ search_status' \in {search_status, "UNSOLVABLE", "SOLVED"}
            /\ ~(SinglePlan /\ search_status = "SOLVED" /\ search_status' # "SOLVED")
  PROVE  BrFSInv'
<1>1. BrFSTypes /\ RegisteredOnce /\ BrFSControl
  BY DEF BrFSInv
<1>2. PICK d : DistancesAre(d)
  BY DEF BrFSInv
<1>3. BrFSTypes'
  BY <1>1 DEF BrFSTypes
<1>4. RegisteredOnce'
  BY <1>1 DEF RegisteredOnce, Registered, BrFSTypes
<1>5. BrFSControl'
  BY <1>1 DEF BrFSControl
<1>6. DistancesAre(d)'
  <2>1. /\ SinglePlan /\ search_status = "SOLVED" => search_status' = "SOLVED"
        /\ pending' = pending
    OBVIOUS
  <2>2. \A i \in 1..current_state_id : \A x \in Successors(registered[i]) :
          \/ i = current_state_id /\ (x \in pending' \/ (SinglePlan /\ search_status' = "SOLVED"))
          \/ \E j \in 1..Len(registered) : registered[j] = x[2] /\ d[j] <= d[i] + 1
    BY <1>2, <2>1 DEF DistancesAre
  <2> QED
    BY <1>2, <2>2 DEF DistancesAre
<1> QED
  BY <1>3, <1>4, <1>5, <1>6 DEF BrFSInv

\* The plans are those of the states expanded so far, and the search only ends
\* without a plan asked for once it has expanded every registered state.
BrFSPlans ==
  /\ brfs_plans # <<>> <=> \E i \in 1..current_state_id : registered[i] \in GoalStates
  /\ ~SinglePlan /\ search_status \in {"SOLVED", "UNSOLVABLE"} =>
       /\ current_state_id = Len(registered) /\ node = NoState
       /\ search_status = "UNSOLVABLE" <=> brfs_plans = <<>>

LEMMA BrFSStepInv ==
  ASSUME BrFSInv, BrFSPlans, [BrFSStep]_brfsallvars
  PROVE  BrFSInv' /\ BrFSPlans'
<1> DEFINE N == Len(registered)
           c == current_state_id
<1>1. BrFSTypes /\ RegisteredOnce /\ BrFSControl
  BY DEF BrFSInv
<1>2. c \in 0..N /\ N \in Nat /\ registered \in Seq(States) /\ brfs_plans \in Seq(Seq(Operators))
  BY <1>1 DEF BrFSTypes
<1>3. CASE BrFSInitialize
  <2>1. registered = <<>> /\ c = 0 /\ brfs_plans' = brfs_plans /\ c' = c /\ search_status' = "IN_PROGRESS"
    <3>1. search_status = "INITIALIZE" /\ brfs_plans' = brfs_plans /\ c' = c /\ search_status' = "IN_PROGRESS"
      BY <1>3 DEF BrFSInitialize
    <3> QED
      BY <1>1, <1>2, <3>1 DEF RegisteredOnce
  <2>2. BrFSPlans'
    BY <2>1 DEF BrFSPlans
  <2> QED
    BY <1>3, <2>2, BrFSInitializeInv
<1>4. CASE BrFSExplored
  <2>1. /\ search_status = "IN_PROGRESS" /\ node = NoState /\ c = N /\ node' = node /\ pending = {}
        /\ UNCHANGED <<registered, current_state_id, parents, brfs_plans, pending>>
        /\ search_status' = IF brfs_plans # <<>> THEN "SOLVED" ELSE "UNSOLVABLE"
    BY <1>1, <1>4 DEF BrFSExplored, Exploring, AllExplored, expansionvars, brfsvars, BrFSControl
  <2>2. BrFSInv'
    BY <2>1, BrFSQuietInv
  <2>3. brfs_plans' # <<>> <=> \E i \in 1..current_state_id' : registered'[i] \in GoalStates
    BY <2>1 DEF BrFSPlans
  <2>4. /\ current_state_id' = Len(registered') /\ node' = NoState
        /\ search_status' = "UNSOLVABLE" <=> brfs_plans' = <<>>
    BY <2>1
  <2> QED
    BY <2>2, <2>3, <2>4 DEF BrFSPlans
<1>5. CASE BrFSExpand
  <2>1. BrFSInv'
    BY <1>5, BrFSExpandInv
  <2>2. /\ c' = c + 1 /\ c + 1 \in 1..N /\ registered' = registered
        /\ NextState = registered[c+1] /\ search_status = "IN_PROGRESS"
        /\ brfs_plans' = IF NextState \in GoalStates THEN SavedPlans(TraceParents(NextState)) ELSE brfs_plans
    BY <1>2, <1>5 DEF BrFSExpand, Exploring, AllExplored, NextState, IsGoal
  <2>3. NextState \in GoalStates => brfs_plans' # <<>>
    <3>1. TraceParents(NextState) \in Seq(Operators)
      <4>1. PICK d : DistancesAre(d)
        BY DEF BrFSInv
      <4> QED
        BY <1>1, <2>2, <4>1, TraceLengths
    <3>2. PICK t \in Seq(Operators) : t = TraceParents(NextState)
      BY <3>1
    <3>3. Append(brfs_plans, t) # <<>>
      <4> DEFINE Plans == Seq(Operators)
      <4>1. brfs_plans \in Seq(Plans) /\ t \in Plans
        BY <1>2, <3>2
      <4> HIDE DEF Plans
      <4> QED
        BY <4>1, AppendProperties
    <3>4. SavedPlans(TraceParents(NextState)) # <<>>
      BY <3>2, <3>3 DEF SavedPlans
    <3> QED
      BY <2>2, <3>4
  <2>4. brfs_plans' # <<>> <=> \E i \in 1..c+1 : registered[i] \in GoalStates
    <3>1. CASE NextState \in GoalStates
      BY <2>2, <2>3, <3>1
    <3>2. CASE NextState \notin GoalStates
      <4>1. \A i \in 1..c+1 : registered[i] \in GoalStates => i \in 1..c
        BY <1>2, <2>2, <3>2
      <4>2. \A i \in 1..c : i \in 1..c+1
        BY <1>2
      <4> QED
        BY <2>2, <3>2, <4>1, <4>2 DEF BrFSPlans
    <3> QED
      BY <3>1, <3>2
  <2>5. ~SinglePlan => search_status' = "IN_PROGRESS"
    BY <1>5, <2>2 DEF BrFSExpand
  <2> QED
    BY <2>1, <2>2, <2>4, <2>5 DEF BrFSPlans
<1>6. ASSUME NEW x \in pending, Generate(x)
      PROVE  BrFSInv' /\ BrFSPlans'
  <2>1. BrFSInv'
    BY <1>6, BrFSGenerateInv
  <2>2. /\ c' = c /\ brfs_plans' = brfs_plans /\ search_status' = search_status
        /\ search_status = "IN_PROGRESS"
    BY <1>1, <1>6 DEF Generate, NextOperator, enginevars, BrFSControl
  <2>3. \A i \in 1..c : registered'[i] = registered[i]
    <3>1. CASE Registered(x[2])
      BY <1>6, <3>1 DEF Generate
    <3>2. CASE ~Registered(x[2])
      <4>1. registered' = Append(registered, x[2])
        BY <1>6, <3>2 DEF Generate
      <4> QED
        BY <1>2, <4>1
    <3> QED
      BY <3>1, <3>2
  <2> QED
    BY <2>1, <2>2, <2>3 DEF BrFSPlans
<1>7. CASE EndExpansion /\ UNCHANGED <<enginevars, brfsvars>>
  <2>1. /\ node # NoState /\ node' = NoState /\ pending = {}
        /\ UNCHANGED <<registered, current_state_id, parents, brfs_plans, pending>>
        /\ search_status' = search_status
    BY <1>7 DEF EndExpansion, enginevars, brfsvars
  <2>2. search_status = "IN_PROGRESS"
    BY <1>1, <2>1 DEF BrFSControl
  <2>3. BrFSInv'
    BY <2>1, <2>2, BrFSQuietInv
  <2>4. BrFSPlans'
    BY <2>1, <2>2 DEF BrFSPlans
  <2> QED
    BY <2>3, <2>4
<1>8. CASE UNCHANGED brfsallvars
  <2>1. UNCHANGED <<registered, current_state_id, parents, brfs_plans, pending, search_status, node>>
    BY <1>8 DEF brfsallvars, enginevars, expansionvars, brfsvars
  <2>2. BrFSInv'
    BY <2>1, BrFSQuietInv
  <2>3. BrFSPlans'
    BY <2>1 DEF BrFSPlans
  <2> QED
    BY <2>2, <2>3
<1> QED
  BY <1>3, <1>4, <1>5, <1>6, <1>7, <1>8 DEF BrFSStep

LEMMA BrFSInvHolds == BrFSSpec => [](BrFSInv /\ BrFSPlans)
<1>1. EngineInit /\ ExpansionInit /\ BrFSInit => BrFSInv /\ BrFSPlans
  <2>1. EngineInit /\ ExpansionInit /\ BrFSInit => BrFSPlans
    BY DEF EngineInit, ExpansionInit, BrFSInit, BrFSPlans
  <2> QED
    BY <2>1, BrFSInitInv
<1>2. BrFSInv /\ BrFSPlans /\ [BrFSStep]_brfsallvars => (BrFSInv /\ BrFSPlans)'
  BY BrFSStepInv
<1> QED
  BY <1>1, <1>2, PTL DEF BrFSSpec

\* Breadth-first search finds shortest paths: the parents that are kept for a
\* registered state lead back to the initial state by as few operators as any
\* path of the task, and the states are registered in the order of these lengths.
THEOREM ShortestPathsTheorem ==
  ASSUME IsFiniteSet(States)
  PROVE  BrFSSpec => []ShortestPaths
<1>1. BrFSInv /\ BrFSPlans => ShortestPaths
  BY BrFSShortest
<1> QED
  BY <1>1, BrFSInvHolds, PTL

\* A search that reports the state space explored has registered every state that
\* can be reached, and it declares the task unsolvable if and only if none of
\* them is a goal state.
THEOREM ExploredCompletelyTheorem == BrFSSpec => []ExploredCompletely
<1>1. ASSUME BrFSInv, BrFSPlans PROVE ExploredCompletely
  <2> DEFINE N == Len(registered)
             c == current_state_id
  <2> SUFFICES ASSUME ~SinglePlan, search_status \in {"SOLVED", "UNSOLVABLE"}
      PROVE  /\ \A t \in Transitions : Registered(t[1]) => Registered(t[3])
             /\ search_status = "UNSOLVABLE" <=> \A s \in GoalStates : ~Registered(s)
    BY DEF ExploredCompletely
  <2>1. BrFSTypes /\ RegisteredOnce /\ BrFSControl
    BY <1>1 DEF BrFSInv
  <2>2. PICK d : DistancesAre(d)
    BY <1>1 DEF BrFSInv
  <2>3. /\ c = N /\ node = NoState /\ pending = {}
        /\ search_status = "UNSOLVABLE" <=> brfs_plans = <<>>
    BY <1>1, <2>1 DEF BrFSPlans, BrFSControl
  <2>4. \A s : Registered(s) <=> \E i \in 1..N : s = registered[i]
    BY <2>1 DEF Registered, BrFSTypes
  <2>5. ASSUME NEW t \in Transitions, Registered(t[1]) PROVE Registered(t[3])
    <3>1. PICK i \in 1..N : t[1] = registered[i]
      BY <2>4, <2>5
    <3>2. <<t[2], t[3]>> \in Successors(registered[i])
      BY <3>1, TaskAssumption DEF Successors
    <3>3. PICK x \in Successors(registered[i]) : x = <<t[2], t[3]>>
      BY <3>2
    <3>4. \E j \in 1..N : registered[j] = x[2]
      BY <2>2, <2>3 DEF DistancesAre
    <3> QED
      BY <2>4, <3>3, <3>4
  <2>6. search_status = "UNSOLVABLE" <=> \A s \in GoalStates : ~Registered(s)
    <3>1. brfs_plans # <<>> <=> \E i \in 1..N : registered[i] \in GoalStates
      BY <1>1, <2>3 DEF BrFSPlans
    <3> QED
      BY <2>3, <2>4, <3>1
  <2> QED
    BY <2>5, <2>6
<1> QED
  BY <1>1, BrFSInvHolds, PTL

-----------------------------------------------------------------------------
(***************************************************************************)
(* Enforced hill climbing.                                                 *)
(***************************************************************************)

\* Enforced hill climbing on its own.
ehcallvars == <<ssvars, enginevars, evalvars, ehcvars>>
EHCSpec == SSInit /\ EngineInit /\ EvaluationInit /\ EHCInit /\ [][EHCStep]_ehcallvars

\* What is reached through the current state is what all the sets have in common
\* that contain it and, with a state, the states whose parent it is.
ClosedBelow(B) ==
  /\ B \subseteq States
  /\ current \in B
  /\ \A s \in States : parent_state_id[s] \in B => s \in B

InBelow(n) == \A B : ClosedBelow(B) => n \in B

EHCTypes ==
  /\ heuristic_cache \in [States -> Int]
  /\ current \in States
  /\ current_h \in Int
  /\ current_phase_start_g \in Int
  /\ expanding \in States \union {NoState}
  /\ climbing \in BOOLEAN

\* The open list holds edges of states reached in this phase.
EdgesOfPhase ==
  \A e \in edges :
    /\ e.parent \in States /\ e.op \in Operators /\ e.state \in States
    /\ <<e.op, e.state>> \in Successors(e.parent)
    /\ Reached(e.parent) /\ InBelow(e.parent)
    /\ e.key = g[e.parent] + AdjustedCost(e.op)
    /\ e.key >= current_phase_start_g

EHCControl ==
  /\ search_status = "INITIALIZE" => current = InitialState /\ current_h = NO_VALUE
  /\ current_h < 0 => ~climbing /\ search_status # "IN_PROGRESS" /\ \A s \in States : ~Reached(s)
  /\ current_h >= 0 =>
       /\ Reached(current) /\ current_phase_start_g = g[current]
       /\ \A s \in States : Reached(s) => heuristic_cache[s] >= current_h
  /\ ~climbing => expanding = NoState /\ edges = {}
  /\ climbing => search_status = "IN_PROGRESS"
  /\ expanding # NoState =>
       Reached(expanding) /\ InBelow(expanding) /\ g[expanding] >= current_phase_start_g

\* Nothing is left to do for s but the edges in the open list.
Tried(s) ==
  \A x \in Successors(s) :
    \/ status[x[2]] # "NEW"
    \/ real_g[s] + Cost[x[1]] >= Bound
    \/ \E e \in edges : e.parent = s /\ e.op = x[1] /\ e.state = x[2]

\* Of the states reached in this phase, only the one to be expanded now is not
\* yet tried.
PhaseTried ==
  current_h >= 0 /\ ~PruneByPreferred =>
    \A s \in States : InBelow(s) =>
      s = expanding \/ Tried(s) \/ (s = current /\ ~climbing /\ search_status # "FAILED")

EHCInv == SSInv /\ EHCTypes /\ EdgesOfPhase /\ EHCControl /\ PhaseTried

\* below[k] holds the states at most k parents above which the current one is.
Belows(below) ==
  below = [k \in 0..Cardinality(States) |->
             IF k = 0 THEN {current}
             ELSE below[k-1] \union {s \in States : parent_state_id[s] \in below[k-1]}]

LEMMA BelowsExist ==
  ASSUME IsFiniteSet(States)
  PROVE  \E below : Belows(below)
<1> DEFINE K == Cardinality(States)
           X == SUBSET (States \union {current})
           Next1(P) == P \union {s \in States : parent_state_id[s] \in P}
           step == [k \in 1..K |-> [P \in X |-> Next1(P)]]
           first == {current}
<1>1. K \in Nat
  BY FS_CardinalityType
<1>2. first \in X /\ \A P \in X : Next1(P) \in X
  OBVIOUS
<1> HIDE DEF Next1, X
<1>3. step \in [1..K -> [X -> X]]
  BY <1>2
<1>4. \A k \in 1..K : \A P \in X : step[k][P] = Next1(P)
  OBVIOUS
<1> HIDE DEF step, first, K
<1>5. Solutions(X, first, K, step) # {}
  BY <1>1, <1>2, <1>3, Recursion
<1>6. PICK f \in [0..K -> X] : f[0] = first /\ \A k \in 1..K : f[k] = step[k][f[k-1]]
  BY <1>5 DEF Solutions
<1>7. \A k \in 0..K : k # 0 => k \in 1..K /\ k - 1 \in 0..K
  BY <1>1
<1>8. \A k \in 0..K : f[k] = IF k = 0 THEN first ELSE Next1(f[k-1])
  BY <1>4, <1>6, <1>7
<1>9. Belows(f)
  BY <1>6, <1>8 DEF Belows, first, K, Next1
<1> QED
  BY <1>9

\* Below is what it should be: there are not more levels than states.
LEMMA BelowIsInBelow ==
  ASSUME IsFiniteSet(States), current \in States
  PROVE  \A n \in States : n \in Below <=> InBelow(n)
<1> DEFINE K == Cardinality(States)
           b == CHOOSE f : Belows(f)
<1>1. Belows(b)
  BY BelowsExist
<1>2. Below = b[K]
  BY DEF Below, Belows
<1> HIDE DEF b
<1>3. K \in Nat
  BY FS_CardinalityType
<1>4. b[0] = {current}
  BY <1>1, <1>3 DEF Belows
<1>5. \A k \in 1..K : b[k] = b[k-1] \union {s \in States : parent_state_id[s] \in b[k-1]}
  <2>1. \A k \in 1..K : k \in 0..K /\ k # 0
    BY <1>3
  <2> QED
    BY <1>1, <2>1 DEF Belows
<1> HIDE DEF K
<1> DEFINE Stable(P) == \A s \in States : parent_state_id[s] \in P => s \in P
           S == {k \in Nat : k <= K =>
                   /\ b[k] \subseteq States /\ current \in b[k]
                   /\ Stable(b[k]) \/ Cardinality(b[k]) >= k + 1
                   /\ \A B : ClosedBelow(B) => b[k] \subseteq B}
<1>6. 0 \in S
  <2>1. Cardinality({current}) = 1
    BY FS_Singleton
  <2> QED
    BY <1>4, <2>1 DEF ClosedBelow
<1>7. ASSUME NEW k \in Nat, k \in S PROVE k + 1 \in S
  <2> SUFFICES ASSUME k + 1 <= K
      PROVE  /\ b[k+1] \subseteq States /\ current \in b[k+1]
             /\ Stable(b[k+1]) \/ Cardinality(b[k+1]) >= (k + 1) + 1
             /\ \A B : ClosedBelow(B) => b[k+1] \subseteq B
    OBVIOUS
  <2>1. b[k+1] = b[k] \union {s \in States : parent_state_id[s] \in b[k]}
    <3>1. k + 1 \in 1..K /\ (k + 1) - 1 = k
      BY <1>3
    <3> QED
      BY <1>5, <3>1
  <2>2. k <= K
    BY <1>3
  <2>3. /\ b[k] \subseteq States /\ current \in b[k]
        /\ Stable(b[k]) \/ Cardinality(b[k]) >= k + 1
        /\ \A B : ClosedBelow(B) => b[k] \subseteq B
    BY <1>7, <2>2
  <2>4. b[k] \subseteq b[k+1] /\ b[k+1] \subseteq States
    BY <2>1, <2>3
  <2>5. \A B : ClosedBelow(B) => b[k+1] \subseteq B
    BY <2>1, <2>3 DEF ClosedBelow
  <2>6. CASE Stable(b[k])
    <3>1. b[k+1] = b[k]
      BY <2>1, <2>6
    <3> QED
      BY <2>3, <2>6, <3>1
  <2>7. CASE ~Stable(b[k])
    <3>1. b[k+1] # b[k]
      BY <2>1, <2>7
    <3>2. IsFiniteSet(b[k+1]) /\ IsFiniteSet(b[k])
      BY <2>4, FS_Subset
    <3>3. /\ Cardinality(b[k]) <= Cardinality(b[k+1])
          /\ Cardinality(b[k+1]) = Cardinality(b[k]) => b[k+1] = b[k]
      BY <2>4, <3>2, FS_Subset
    <3>4. Cardinality(b[k]) \in Nat /\ Cardinality(b[k+1]) \in Nat
      BY <3>2, FS_CardinalityType
    <3>5. Cardinality(b[k+1]) >= (k + 1) + 1
      BY <2>3, <2>7, <3>1, <3>3, <3>4
    <3> QED
      BY <2>3, <2>4, <2>5, <3>5
  <2> QED
    BY <2>6, <2>7
<1> HIDE DEF S
<1>8. Nat \subseteq S
  BY <1>6, <1>7, Induction
<1>9. /\ b[K] \subseteq States /\ current \in b[K]
      /\ Stable(b[K]) \/ Cardinality(b[K]) >= K + 1
      /\ \A B : ClosedBelow(B) => b[K] \subseteq B
  BY <1>3, <1>8 DEF S
<1>10. Stable(b[K])
  <2>1. Cardinality(b[K]) <= K /\ Cardinality(b[K]) \in Nat
    <3>1. IsFiniteSet(b[K]) /\ Cardinality(b[K]) <= Cardinality(States)
      BY <1>9, FS_Subset
    <3> QED
      BY <3>1, FS_CardinalityType DEF K
  <2> QED
    BY <1>3, <1>9, <2>1
<1>11. ClosedBelow(b[K])
  BY <1>9, <1>10 DEF ClosedBelow
<1> QED
  BY <1>2, <1>9, <1>11 DEF InBelow, K

\* The states that were reached are closed under looking for children.
LEMMA InBelowReached ==
  ASSUME SSInv, Reached(current), current \in States, NEW n \in States, InBelow(n)
  PROVE  Reached(n)
<1> DEFINE R == {s \in States : Reached(s)}
<1>1. ASSUME NEW s \in States, parent_state_id[s] \in R PROVE s \in R
  BY <1>1, TaskAssumption DEF SSInv, NodeConsistent
<1>2. ClosedBelow(R)
  BY <1>1 DEF ClosedBelow
<1> QED
  BY <1>2 DEF InBelow

LEMMA CurrentInBelow == InBelow(current)
BY DEF InBelow, ClosedBelow

LEMMA EHCInitInv == SSInit /\ EngineInit /\ EvaluationInit /\ EHCInit => EHCInv
<1> SUFFICES ASSUME SSInit, EngineInit, EvaluationInit, EHCInit PROVE EHCInv
  OBVIOUS
<1>1. SSInv
  BY SSInitInv
<1>2. EHCTypes
  <2>1. heuristic_cache \in [States -> Int]
    <3>1. NO_VALUE \in Int
      BY DEF NO_VALUE
    <3> QED
      BY <3>1 DEF EvaluationInit
  <2>2. current \in States /\ current_h \in Int /\ current_phase_start_g \in Int
    <3>1. current \in States
      BY TaskAssumption DEF EHCInit
    <3> QED
      BY <3>1 DEF EHCInit, NO_VALUE
  <2>3. climbing \in BOOLEAN /\ expanding \in States \union {NoState}
    BY DEF EHCInit
  <2> QED
    BY <2>1, <2>2, <2>3 DEF EHCTypes
<1>3. EdgesOfPhase /\ PhaseTried
  BY DEF EHCInit, EdgesOfPhase, PhaseTried, NO_VALUE
<1>4. EHCControl
  BY DEF EHCInit, EHCControl, EngineInit, SSInit, Reached, NO_VALUE
<1> QED
  BY <1>1, <1>2, <1>3, <1>4 DEF EHCInv

LEMMA EstimatesAre ==
  ASSUME NEW s \in States, NEW h \in Estimates[s]
  PROVE  h \in Int /\ (h # DEAD_END => h \in Nat)
BY EvaluationAssumption DEF DEAD_END

LEMMA SameBelow ==
  ASSUME UNCHANGED <<parent_state_id, current>>
  PROVE  \A n : InBelow(n)' <=> InBelow(n)
BY DEF InBelow, ClosedBelow

LEMMA EHCInitializeInv ==
  ASSUME EHCInv, EHCInitialize
  PROVE  EHCInv' /\ [SSNext]_ssvars
<1>1. /\ search_status = "INITIALIZE" /\ current = InitialState /\ current_h < 0 /\ ~climbing
      /\ expanding = NoState /\ edges = {} /\ \A s \in States : ~Reached(s)
      /\ UNCHANGED <<solution, current, climbing, expanding, edges>>
      /\ InitialState \in States /\ current_h \in Int
  BY TaskAssumption DEF EHCInv, EHCControl, EHCInitialize, EHCTypes, NO_VALUE
<1>2. PICK h \in Estimates[InitialState] :
        /\ Evaluate(InitialState, dirty, h)
        /\ current_h' = h
        /\ IF h = DEAD_END
             THEN /\ search_status' \in {"UNSOLVABLE", "FAILED"}
                  /\ UNCHANGED <<ssvars, current_phase_start_g>>
             ELSE /\ search_status' = "IN_PROGRESS"
                  /\ OpenInitial
                  /\ current_phase_start_g' = 0
  BY DEF EHCInitialize
<1>3. h \in Int /\ (h # DEAD_END => h \in Nat)
  BY <1>1, EstimatesAre
<1>4. /\ heuristic_cache' = [heuristic_cache EXCEPT ![InitialState] = h]
      /\ heuristic_cache' \in [States -> Int] /\ heuristic_cache'[InitialState] = h
  BY <1>1, <1>2, <1>3 DEF Evaluate, EHCInv, EHCTypes
<1>5. CASE h = DEAD_END
  <2>1. UNCHANGED ssvars /\ search_status' \in {"UNSOLVABLE", "FAILED"} /\ current_h' = -1
        /\ UNCHANGED current_phase_start_g
    BY <1>2, <1>5 DEF DEAD_END
  <2>2. SSInv'
    BY <2>1, SSNextInv DEF EHCInv
  <2>3. EHCTypes'
    BY <1>1, <1>4, <2>1 DEF EHCInv, EHCTypes
  <2>4. \A s \in States : ~Reached(s)'
    BY <1>1, <2>1 DEF Reached, ssvars
  <2>5. EdgesOfPhase' /\ EHCControl' /\ PhaseTried'
    BY <1>1, <2>1, <2>4 DEF EdgesOfPhase, EHCControl, PhaseTried
  <2> QED
    BY <2>1, <2>2, <2>3, <2>5 DEF EHCInv
<1>6. CASE h # DEAD_END
  <2>1. /\ search_status' = "IN_PROGRESS" /\ OpenInitial /\ current_phase_start_g' = 0
        /\ current_h' \in Nat /\ current_h' = h
    BY <1>2, <1>3, <1>6
  <2>2. SSNext
    BY <2>1 DEF SSNext
  <2>3. SSInv'
    BY <2>2, SSNextInv DEF EHCInv
  <2>4. EHCTypes'
    BY <1>1, <1>4, <2>1 DEF EHCInv, EHCTypes
  <2>5. \A s \in States : parent_state_id[s] = NoState
    BY <1>1 DEF EHCInv, SSInv, NodeConsistent
  <2>6. /\ \A s \in States : parent_state_id'[s] = NoState
        /\ g'[InitialState] = 0 /\ \A s \in States \ {InitialState} : g'[s] = g[s]
    BY <1>1, <2>1, <2>5 DEF OpenInitial, EHCInv, SSInv, SSTypeOK
  <2>7. Reached(InitialState)' /\ \A s \in States : Reached(s)' => s = InitialState
    BY <1>1, <2>6 DEF Reached
  <2>8. ASSUME NEW n, InBelow(n)' PROVE n = InitialState
    <3>1. ClosedBelow({InitialState})'
      BY <1>1, <2>6, TaskAssumption DEF ClosedBelow
    <3> QED
      BY <2>8, <3>1 DEF InBelow
  <2>9. EdgesOfPhase'
    BY <1>1 DEF EdgesOfPhase
  <2>10. EHCControl'
    BY <1>1, <1>4, <2>1, <2>6, <2>7 DEF EHCControl
  <2>11. PhaseTried'
    BY <1>1, <2>1, <2>8 DEF PhaseTried
  <2> QED
    BY <2>2, <2>3, <2>4, <2>9, <2>10, <2>11 DEF EHCInv
<1> QED
  BY <1>5, <1>6

LEMMA BeginPhaseInv ==
  ASSUME EHCInv, BeginPhase
  PROVE  EHCInv' /\ [SSNext]_ssvars
<1>1. /\ search_status = "IN_PROGRESS" /\ ~climbing /\ expanding = NoState /\ edges = {}
      /\ current_h >= 0 /\ Reached(current) /\ current_phase_start_g = g[current]
      /\ current_h \in Int /\ current \in States
      /\ UNCHANGED <<ssvars, evalvars, current, current_h, current_phase_start_g, edges>>
  BY DEF BeginPhase, EHCInv, EHCControl, EHCTypes
<1>2. SSInv'
  BY <1>1, SSNextInv DEF EHCInv
<1>3. \A n : InBelow(n)' <=> InBelow(n)
  BY <1>1, SameBelow DEF ssvars
<1>4. \/ /\ search_status' \in {"SOLVED", "TIMEOUT"} /\ UNCHANGED <<climbing, expanding>>
      \/ climbing' = TRUE /\ expanding' = current /\ search_status' = search_status
  BY DEF BeginPhase, StepReturns, enginevars
<1>5. EHCTypes'
  BY <1>1, <1>4 DEF EHCInv, EHCTypes, evalvars
<1>6. EdgesOfPhase'
  BY <1>1 DEF EdgesOfPhase
<1>7. \A s : Reached(s)' <=> Reached(s)
  BY <1>1 DEF ssvars, Reached
<1>8. g[current] >= current_phase_start_g /\ g' = g /\ heuristic_cache' = heuristic_cache
  BY <1>1 DEF ssvars, evalvars, Reached, EHCInv, SSInv, SSTypeOK
<1>9. EHCControl'
  BY <1>1, <1>3, <1>4, <1>7, <1>8, TaskAssumption, CurrentInBelow DEF EHCInv, EHCControl
<1>10. PhaseTried'
  <2>1. \A s \in States : Tried(s)' <=> Tried(s)
    BY <1>1 DEF Tried, ssvars
  <2> QED
    BY <1>1, <1>3, <1>4, <2>1, TaskAssumption DEF EHCInv, PhaseTried
<1> QED
  BY <1>1, <1>2, <1>5, <1>6, <1>9, <1>10 DEF EHCInv

LEMMA EHCFailsInv ==
  ASSUME EHCInv, EHCFails
  PROVE  EHCInv' /\ [SSNext]_ssvars
<1>1. /\ climbing /\ expanding = NoState /\ edges = {} /\ current_h >= 0 /\ current_h \in Int
      /\ search_status' \in {"FAILED", "TIMEOUT"} /\ climbing' = FALSE
      /\ UNCHANGED <<ssvars, evalvars, current, current_h, current_phase_start_g, expanding, edges>>
  BY DEF EHCFails, EHCInv, EHCControl, EHCTypes, StepReturns
<1>2. SSInv'
  BY <1>1, SSNextInv DEF EHCInv
<1>3. \A n : InBelow(n)' <=> InBelow(n)
  BY <1>1, SameBelow DEF ssvars
<1>4. EHCTypes'
  BY <1>1 DEF EHCInv, EHCTypes, evalvars
<1>5. EdgesOfPhase'
  BY <1>1 DEF EdgesOfPhase
<1>6. \A s : Reached(s)' <=> Reached(s)
  BY <1>1 DEF ssvars, Reached
<1>7. EHCControl'
  BY <1>1, <1>6 DEF EHCInv, EHCControl, evalvars, ssvars
<1>8. PhaseTried'
  <2>1. \A s \in States : Tried(s)' <=> Tried(s)
    BY <1>1 DEF Tried, ssvars
  <2> QED
    BY <1>1, <1>3, <2>1, TaskAssumption DEF EHCInv, PhaseTried
<1> QED
  BY <1>1, <1>2, <1>4, <1>5, <1>7, <1>8 DEF EHCInv

\* Expanding a node adds its edges, all of them unless operators are pruned.
LEMMA ExpandNodeInv ==
  ASSUME EHCInv, ExpandNode
  PROVE  EHCInv' /\ [SSNext]_ssvars
<1>1. /\ expanding # NoState /\ expanding \in States /\ climbing /\ Close(expanding)
      /\ Reached(expanding) /\ InBelow(expanding) /\ g[expanding] >= current_phase_start_g
      /\ expanding' = NoState /\ current_h \in Int /\ current_h >= 0
      /\ UNCHANGED <<evalvars, enginevars, current, current_h, current_phase_start_g, climbing>>
  BY DEF ExpandNode, EHCInv, EHCControl, EHCTypes
<1>2. SSNext
  BY <1>1 DEF SSNext, CloseSome
<1>3. SSInv'
  BY <1>2, SSNextInv DEF EHCInv
<1>4. PICK inserted \in Inserted(expanding) : edges' = edges \union inserted
  BY DEF ExpandNode
<1>5. /\ inserted \subseteq Edges(expanding)
      /\ ~PruneByPreferred => inserted = Edges(expanding)
  BY <1>4 DEF Inserted
<1>6. UNCHANGED <<g, real_g, parent_state_id, creating_operator, search_status, heuristic_cache>>
      /\ \A s \in States : status'[s] = "NEW" => status[s] = "NEW"
  BY <1>1 DEF Close, enginevars, evalvars, EHCInv, SSInv, SSTypeOK
<1>7. \A n : InBelow(n)' <=> InBelow(n)
  BY <1>1, <1>6, SameBelow
<1>8. EHCTypes'
  BY <1>1, <1>6 DEF EHCInv, EHCTypes
<1>9. \A s : Reached(s)' <=> Reached(s)
  BY <1>6 DEF Reached
<1>10. EdgesOfPhase'
  <2>1. ASSUME NEW e \in Edges(expanding)
        PROVE  /\ e.parent = expanding /\ e.op \in Operators /\ e.state \in States
               /\ <<e.op, e.state>> \in Successors(expanding)
               /\ e.key = g[expanding] + AdjustedCost(e.op)
               /\ e.key >= current_phase_start_g
    <3>1. PICK x \in Successors(expanding) :
            e = [key |-> g[expanding] + AdjustedCost(x[1]), parent |-> expanding,
                 op |-> x[1], state |-> x[2]]
      BY DEF Edges
    <3>2. x[1] \in Operators /\ x[2] \in States /\ x = <<x[1], x[2]>> /\ AdjustedCost(x[1]) \in Nat
      <4>1. x \in Operators \X States
        BY DEF Successors
      <4> QED
        BY <4>1, AdjustedCostNat
    <3>3. /\ e.parent = expanding /\ e.op = x[1] /\ e.state = x[2]
          /\ e.key = g[expanding] + AdjustedCost(x[1])
      BY <3>1
    <3>4. e.key >= current_phase_start_g
      <4>1. g[expanding] \in Int /\ current_phase_start_g \in Int
        BY <1>1 DEF EHCInv, SSInv, SSTypeOK, EHCTypes
      <4> QED
        BY <1>1, <3>2, <3>3, <4>1
    <3> QED
      BY <3>2, <3>3, <3>4
  <2> SUFFICES ASSUME NEW e \in edges'
      PROVE  /\ e.parent \in States /\ e.op \in Operators /\ e.state \in States
             /\ <<e.op, e.state>> \in Successors(e.parent)
             /\ Reached(e.parent) /\ InBelow(e.parent)
             /\ e.key = g[e.parent] + AdjustedCost(e.op)
             /\ e.key >= current_phase_start_g
    BY <1>1, <1>6, <1>7, <1>9 DEF EdgesOfPhase
  <2>2. CASE e \in edges
    BY <2>2 DEF EHCInv, EdgesOfPhase
  <2>3. CASE e \in Edges(expanding)
    BY <1>1, <2>1, <2>3
  <2> QED
    BY <1>4, <1>5, <2>2, <2>3
<1>11. EHCControl'
  BY <1>1, <1>6, <1>9 DEF EHCInv, EHCControl
<1>12. PhaseTried'
  <2>1. ASSUME NEW s \in States, Tried(s) PROVE Tried(s)'
    <3> SUFFICES ASSUME NEW x \in Successors(s)
        PROVE  \/ status'[x[2]] # "NEW"
               \/ real_g[s] + Cost[x[1]] >= Bound
               \/ \E e \in edges' : e.parent = s /\ e.op = x[1] /\ e.state = x[2]
      BY <1>6 DEF Tried
    <3>1. \/ status[x[2]] # "NEW"
          \/ real_g[s] + Cost[x[1]] >= Bound
          \/ \E e \in edges : e.parent = s /\ e.op = x[1] /\ e.state = x[2]
      BY <2>1 DEF Tried
    <3>2. status[x[2]] # "NEW" => status'[x[2]] # "NEW"
      BY <1>6, SuccessorTransition
    <3> QED
      BY <1>4, <3>1, <3>2
  <2>2. PICK n : n = expanding
    OBVIOUS
  <2>3. ~PruneByPreferred => Tried(n)'
    <3> SUFFICES ASSUME ~PruneByPreferred, NEW x \in Successors(n)
        PROVE  \E e \in edges' : e.parent = n /\ e.op = x[1] /\ e.state = x[2]
      BY DEF Tried
    <3> DEFINE e == [key |-> g[expanding] + AdjustedCost(x[1]), parent |-> expanding,
                     op |-> x[1], state |-> x[2]]
    <3>1. e \in Edges(expanding)
      BY <2>2 DEF Edges
    <3>2. e \in edges'
      BY <1>4, <1>5, <3>1
    <3>3. e.parent = n /\ e.op = x[1] /\ e.state = x[2]
      BY <2>2
    <3> QED
      BY <3>2, <3>3
  <2>4. ASSUME ~PruneByPreferred, NEW s \in States, InBelow(s) PROVE Tried(s)'
    <3>1. s = n \/ Tried(s)
      BY <1>1, <2>2, <2>4 DEF EHCInv, PhaseTried
    <3> QED
      BY <2>1, <2>3, <2>4, <3>1
  <2> QED
    BY <1>1, <1>7, <2>4 DEF PhaseTried
<1> QED
  BY <1>2, <1>3, <1>8, <1>10, <1>11, <1>12 DEF EHCInv

\* Taking an edge from the open list whose successor is not new, whose plan is
\* too dear, or whose successor is found to be a dead end.
LEMMA DropEdgeInv ==
  ASSUME EHCInv, NEW e \in edges, climbing, expanding = NoState,
         edges' = edges \ {e},
         UNCHANGED <<g, real_g, parent_state_id, creating_operator, enginevars, current, current_h,
                     current_phase_start_g, climbing, expanding>>,
         SSInv', heuristic_cache' \in [States -> Int],
         \A s \in States : status'[s] = "NEW" => status[s] = "NEW",
         \A s \in States : Reached(s) => heuristic_cache'[s] = heuristic_cache[s],
         status'[e.state] # "NEW" \/ real_g[e.parent] + Cost[e.op] >= Bound
  PROVE  EHCInv'
<1>1. \A n : InBelow(n)' <=> InBelow(n)
  BY SameBelow
<1>2. \A s : Reached(s)' <=> Reached(s)
  BY DEF Reached
<1>3. EHCTypes'
  BY DEF EHCInv, EHCTypes
<1>4. EdgesOfPhase'
  BY <1>1, <1>2 DEF EHCInv, EdgesOfPhase
<1>5. EHCControl'
  <2>1. current_h >= 0 => \A s \in States : Reached(s) => heuristic_cache'[s] >= current_h
    BY DEF EHCInv, EHCControl
  <2> QED
    BY <1>1, <1>2, <2>1 DEF EHCInv, EHCControl, enginevars
<1>6. PhaseTried'
  <2>1. ASSUME NEW s \in States, Tried(s) PROVE Tried(s)'
    <3> SUFFICES ASSUME NEW x \in Successors(s)
        PROVE  \/ status'[x[2]] # "NEW"
               \/ real_g[s] + Cost[x[1]] >= Bound
               \/ \E f \in edges' : f.parent = s /\ f.op = x[1] /\ f.state = x[2]
      BY DEF Tried
    <3>1. \/ status[x[2]] # "NEW"
          \/ real_g[s] + Cost[x[1]] >= Bound
          \/ \E f \in edges : f.parent = s /\ f.op = x[1] /\ f.state = x[2]
      BY <2>1 DEF Tried
    <3>2. status[x[2]] # "NEW" => status'[x[2]] # "NEW"
      BY SuccessorTransition
    <3>3. ASSUME NEW f \in edges, f.parent = s, f.op = x[1], f.state = x[2]
          PROVE  f \in edges' \/ status'[x[2]] # "NEW" \/ real_g[s] + Cost[x[1]] >= Bound
      BY <3>3
    <3> QED
      BY <3>1, <3>2, <3>3
  <2> SUFFICES ASSUME current_h >= 0, ~PruneByPreferred, NEW s \in States, InBelow(s)
      PROVE  Tried(s)'
    BY <1>1 DEF PhaseTried
  <2>2. s # NoState
    BY TaskAssumption
  <2>3. Tried(s)
    BY <2>2 DEF EHCInv, PhaseTried
  <2> QED
    BY <2>1, <2>3
<1> QED
  BY <1>3, <1>4, <1>5, <1>6 DEF EHCInv

LEMMA PoppedEdge ==
  ASSUME EHCInv, NEW e \in edges, PopEdge(e)
  PROVE  /\ climbing /\ expanding = NoState
         /\ e.parent \in States /\ e.op \in Operators /\ e.state \in States
         /\ <<e.op, e.state>> \in Successors(e.parent)
         /\ Reached(e.parent) /\ InBelow(e.parent)
         /\ e.key = g[e.parent] + AdjustedCost(e.op)
         /\ e.key >= current_phase_start_g
         /\ current_h \in Int /\ current_h >= 0
BY DEF PopEdge, EHCInv, EdgesOfPhase, EHCControl, EHCTypes

LEMMA IgnoreEdgeInv ==
  ASSUME EHCInv, NEW e \in edges, IgnoreEdge(e)
  PROVE  EHCInv' /\ [SSNext]_ssvars
<1>1. climbing /\ expanding = NoState /\ e.state \in States
  BY PoppedEdge DEF IgnoreEdge
<1>2. /\ UNCHANGED <<ssvars, evalvars, enginevars, current, current_h, current_phase_start_g,
                     climbing, expanding>>
      /\ edges' = edges \ {e}
      /\ real_g[e.parent] + Cost[e.op] >= Bound \/ status[e.state] # "NEW"
  BY DEF IgnoreEdge, EdgeIgnored
<1>3. UNCHANGED <<status, g, real_g, parent_state_id, creating_operator, heuristic_cache>>
  BY <1>2 DEF ssvars, evalvars
<1>4. SSInv'
  BY <1>2, SSNextInv DEF EHCInv
<1>5. heuristic_cache' \in [States -> Int]
  BY <1>3 DEF EHCInv, EHCTypes
<1> QED
  BY <1>1, <1>2, <1>3, <1>4, <1>5, DropEdgeInv

LEMMA EdgeToDeadEndInv ==
  ASSUME EHCInv, NEW e \in edges, EdgeToDeadEnd(e)
  PROVE  EHCInv' /\ [SSNext]_ssvars
<1>1. climbing /\ expanding = NoState /\ e.state \in States
  BY PoppedEdge DEF EdgeToDeadEnd
<1>2. /\ UNCHANGED <<enginevars, current, current_h, current_phase_start_g, climbing, expanding>>
      /\ edges' = edges \ {e}
      /\ status[e.state] = "NEW" /\ MarkAsDeadEnd(e.state)
      /\ heuristic_cache' = [heuristic_cache EXCEPT ![e.state] = DEAD_END]
  BY DEF EdgeToDeadEnd, EdgeIgnored, Evaluate
<1>3. /\ UNCHANGED <<g, real_g, parent_state_id, creating_operator>>
      /\ status' = [status EXCEPT ![e.state] = "DEAD_END"]
  BY <1>2 DEF MarkAsDeadEnd
<1>4. SSNext
  BY <1>1, <1>2 DEF SSNext, MarkSomeAsDeadEnd
<1>5. SSInv'
  BY <1>4, SSNextInv DEF EHCInv
<1>6. heuristic_cache' \in [States -> Int]
  <2>1. DEAD_END \in Int
    BY DEF DEAD_END
  <2> QED
    BY <1>2, <2>1 DEF EHCInv, EHCTypes
<1>7. status \in [States -> NodeStatus] /\ heuristic_cache \in [States -> Int]
  BY DEF EHCInv, SSInv, SSTypeOK, EHCTypes
<1>8. status'[e.state] # "NEW" /\ \A s \in States : status'[s] = "NEW" => status[s] = "NEW"
  BY <1>1, <1>3, <1>7
<1>9. \A s \in States : Reached(s) => heuristic_cache'[s] = heuristic_cache[s]
  <2>1. ~Reached(e.state)
    BY <1>1, <1>2 DEF EHCInv, SSInv, NodeConsistent, Reached
  <2> QED
    BY <1>2, <1>7, <2>1
<1> QED
  BY <1>1, <1>2, <1>3, <1>4, <1>5, <1>6, <1>8, <1>9, DropEdgeInv

LEMMA FollowEdgeInv ==
  ASSUME EHCInv, NEW e \in edges, FollowEdge(e)
  PROVE  EHCInv' /\ [SSNext]_ssvars
<1> DEFINE s == e.state
           p == e.parent
<1>1. /\ climbing /\ expanding = NoState
      /\ p \in States /\ e.op \in Operators /\ s \in States
      /\ <<e.op, s>> \in Successors(p)
      /\ Reached(p) /\ InBelow(p)
      /\ e.key = g[p] + AdjustedCost(e.op)
      /\ e.key >= current_phase_start_g
      /\ current_h \in Int /\ current_h >= 0
  BY PoppedEdge DEF FollowEdge
<1>2. PICK h \in Estimates[s] \ {DEAD_END} :
        /\ Evaluate(s, NotifyTransition(s), h)
        /\ IF h < current_h
             THEN /\ current' = s
                  /\ current_h' = h
                  /\ current_phase_start_g' = g'[s]
                  /\ edges' = EdgesAfterClimb(e)
                  /\ climbing' = FALSE
                  /\ StepReturns("IN_PROGRESS")
                  /\ UNCHANGED <<solution, expanding>>
             ELSE /\ expanding' = s
                  /\ edges' = edges \ {e}
                  /\ UNCHANGED <<enginevars, current, current_h, current_phase_start_g, climbing>>
  BY DEF FollowEdge
<1>3. h \in Nat
  BY <1>1, <1>2, EstimatesAre
<1>4. Open(s, p, e.op)
  BY DEF FollowEdge
<1>5. SSNext
  <2>1. PICK x \in Successors(p) : x = <<e.op, s>>
    BY <1>1
  <2>2. Open(x[2], p, x[1])
    BY <1>4, <2>1
  <2> QED
    BY <1>1, <2>2 DEF SSNext, OpenSome
<1>6. SSInv'
  BY <1>5, SSNextInv DEF EHCInv
<1>7. /\ status[s] = "NEW" /\ status' = [status EXCEPT ![s] = "OPEN"]
      /\ g' = [g EXCEPT ![s] = g[p] + AdjustedCost(e.op)]
      /\ real_g' = [real_g EXCEPT ![s] = real_g[p] + Cost[e.op]]
      /\ parent_state_id' = [parent_state_id EXCEPT ![s] = p]
      /\ heuristic_cache' = [heuristic_cache EXCEPT ![s] = h]
  BY <1>2, <1>4 DEF Open, SetParent, Evaluate
<1>8. /\ ~Reached(s) /\ parent_state_id[s] = NoState /\ p # s /\ s # NoState /\ NoState \notin States
      /\ \A m \in States : parent_state_id[m] # s
  <2>1. ~Reached(s)
    BY <1>1, <1>7 DEF EHCInv, SSInv, NodeConsistent, Reached
  <2>2. parent_state_id[s] = NoState
    BY <1>1, <2>1 DEF EHCInv, SSInv, NodeConsistent
  <2>3. ASSUME NEW m \in States PROVE parent_state_id[m] # s
    BY <1>1, <2>1, TaskAssumption DEF EHCInv, SSInv, ParentTransition
  <2> QED
    BY <1>1, <2>1, <2>2, <2>3, TaskAssumption
<1> HIDE DEF s, p
<1>9. /\ status \in [States -> NodeStatus] /\ heuristic_cache \in [States -> Int]
      /\ g \in [States -> Int] /\ real_g \in [States -> Int]
      /\ parent_state_id \in [States -> States \union {NoState}]
      /\ AdjustedCost(e.op) \in Nat /\ g[p] \in Int /\ g[p] >= 0
      /\ current_phase_start_g \in Int /\ current \in States
  BY <1>1, AdjustedCostNat DEF EHCInv, SSInv, SSTypeOK, EHCTypes, Reached
<1>10. /\ status'[s] = "OPEN" /\ g'[s] = e.key /\ parent_state_id'[s] = p /\ heuristic_cache'[s] = h
       /\ \A m \in States \ {s} :
            /\ status'[m] = status[m] /\ g'[m] = g[m] /\ real_g'[m] = real_g[m]
            /\ parent_state_id'[m] = parent_state_id[m] /\ heuristic_cache'[m] = heuristic_cache[m]
  BY <1>1, <1>7, <1>9
<1>11. /\ heuristic_cache' \in [States -> Int]
       /\ g'[s] \in Int /\ g'[s] >= 0 /\ g'[s] >= current_phase_start_g
  BY <1>1, <1>3, <1>7, <1>9, <1>10
<1>12. \A m \in States \ {s} : (g'[m] >= 0) <=> Reached(m)
  BY <1>10 DEF Reached
<1>13. CASE h < current_h
  <2>1. /\ current' = s /\ current_h' = h /\ current_phase_start_g' = g'[s] /\ edges' = {}
        /\ climbing' = FALSE /\ search_status' \in {"IN_PROGRESS", "TIMEOUT"} /\ expanding' = NoState
    BY <1>1, <1>2, <1>13 DEF EdgesAfterClimb, StepReturns, s
  <2>2. EHCTypes'
    <3>1. current' \in States /\ current_h' \in Int /\ current_phase_start_g' \in Int
      BY <1>1, <1>3, <1>11, <2>1
    <3>2. climbing' \in BOOLEAN /\ expanding' \in States \union {NoState}
      BY <2>1
    <3> QED
      BY <1>11, <3>1, <3>2 DEF EHCTypes
  <2>3. EdgesOfPhase'
    BY <2>1 DEF EdgesOfPhase
  <2>4. EHCControl'
    <3>1. \A m \in States : g'[m] >= 0 => heuristic_cache'[m] >= h
      <4> SUFFICES ASSUME NEW m \in States, m # s, g'[m] >= 0
          PROVE  heuristic_cache[m] >= h
        BY <1>3, <1>10
      <4>1. heuristic_cache[m] >= current_h
        BY <1>1, <1>12 DEF EHCInv, EHCControl
      <4> QED
        BY <1>1, <1>3, <1>9, <1>13, <4>1
    <3>2. current_h' >= 0 =>
            /\ Reached(current)' /\ current_phase_start_g' = g'[current']
            /\ \A m \in States : Reached(m)' => heuristic_cache'[m] >= current_h'
      BY <1>11, <2>1, <3>1 DEF Reached
    <3>3. /\ ~(current_h' < 0) /\ expanding' = NoState /\ edges' = {} /\ climbing' = FALSE
          /\ search_status' # "INITIALIZE"
      BY <1>3, <2>1
    <3> QED
      BY <3>2, <3>3 DEF EHCControl
  <2>5. ASSUME NEW n, InBelow(n)' PROVE n = s
    <3>1. PICK B : B = {s}
      OBVIOUS
    <3>2. ClosedBelow(B)'
      BY <1>1, <1>8, <1>10, <2>1, <3>1 DEF ClosedBelow
    <3> QED
      BY <2>5, <3>1, <3>2 DEF InBelow
  <2>6. PhaseTried'
    BY <2>1, <2>5 DEF PhaseTried
  <2> QED
    BY <1>5, <1>6, <2>2, <2>3, <2>4, <2>6 DEF EHCInv
<1>14. CASE ~(h < current_h)
  <2>1. /\ expanding' = s /\ edges' = edges \ {e} /\ search_status' = search_status
        /\ UNCHANGED <<current, current_h, current_phase_start_g, climbing>>
    BY <1>2, <1>14 DEF s, enginevars
  <2>2. EHCTypes'
    BY <1>1, <1>11, <2>1 DEF EHCInv, EHCTypes
  \* A set closed under the new parents is closed under the old ones.
  <2>3. ASSUME NEW B, ClosedBelow(B)' PROVE ClosedBelow(B) /\ (p \in B => s \in B)
    <3>1. \A m \in States : parent_state_id[m] \in B => m \in B
      BY <1>8, <1>10, <2>3 DEF ClosedBelow
    <3>2. parent_state_id'[s] = p /\ s \in States
      BY <1>1, <1>10
    <3> QED
      BY <2>1, <2>3, <3>1, <3>2 DEF ClosedBelow
  <2>4. /\ \A n : InBelow(n) => InBelow(n)'
        /\ \A n : n = s => InBelow(n)'
    BY <1>1, <2>3 DEF InBelow
  <2>5. ASSUME NEW n \in States, InBelow(n)', n # s PROVE InBelow(n)
    <3> SUFFICES ASSUME NEW B, ClosedBelow(B) PROVE n \in B
      BY DEF InBelow
    <3>1. PICK C : C = B \union {s}
      OBVIOUS
    <3>2. ClosedBelow(C)'
      <4>1. C \subseteq States /\ current \in C
        BY <1>1, <3>1 DEF ClosedBelow
      <4>2. ASSUME NEW m \in States, parent_state_id'[m] \in C PROVE m \in C
        <5>1. CASE m = s
          BY <3>1, <5>1
        <5>2. CASE m # s
          <6>1. parent_state_id[m] \in B
            BY <1>8, <1>10, <3>1, <4>2, <5>2
          <6> QED
            BY <3>1, <6>1 DEF ClosedBelow
        <5> QED
          BY <5>1, <5>2
      <4> QED
        BY <2>1, <4>1, <4>2 DEF ClosedBelow
    <3> QED
      BY <2>5, <3>1, <3>2 DEF InBelow
  <2>6. EdgesOfPhase'
    <3> SUFFICES ASSUME NEW f \in edges
        PROVE  /\ f.parent \in States /\ f.op \in Operators /\ f.state \in States
               /\ <<f.op, f.state>> \in Successors(f.parent)
               /\ g'[f.parent] >= 0 /\ InBelow(f.parent)'
               /\ f.key = g'[f.parent] + AdjustedCost(f.op)
               /\ f.key >= current_phase_start_g
      BY <2>1 DEF EdgesOfPhase, Reached
    <3>1. /\ f.parent \in States /\ f.op \in Operators /\ f.state \in States
          /\ <<f.op, f.state>> \in Successors(f.parent)
          /\ Reached(f.parent) /\ InBelow(f.parent)
          /\ f.key = g[f.parent] + AdjustedCost(f.op)
          /\ f.key >= current_phase_start_g
      BY DEF EHCInv, EdgesOfPhase
    <3>2. f.parent # s
      BY <1>8, <3>1
    <3>3. g'[f.parent] = g[f.parent]
      BY <1>10, <3>1, <3>2
    <3>4. PICK n : n = f.parent
      OBVIOUS
    <3>5. InBelow(n)'
      BY <2>4, <3>1, <3>4
    <3> QED
      BY <3>1, <3>3, <3>4, <3>5 DEF Reached
  <2>7. EHCControl'
    <3>1. \A m \in States : g'[m] >= 0 => heuristic_cache'[m] >= current_h
      <4> SUFFICES ASSUME NEW m \in States, m # s, g'[m] >= 0
          PROVE  heuristic_cache[m] >= current_h
        BY <1>1, <1>3, <1>10, <1>14
      <4> QED
        BY <1>1, <1>12 DEF EHCInv, EHCControl
    <3>2. g'[current] = g[current] /\ g[current] >= 0 /\ current_phase_start_g = g[current]
      <4>1. Reached(current) /\ current_phase_start_g = g[current]
        BY <1>1 DEF EHCInv, EHCControl
      <4> QED
        BY <1>8, <1>9, <1>10, <4>1 DEF Reached
    <3>3. \A n : n = s => InBelow(n)'
      BY <2>4
    <3>4. InBelow(expanding)'
      BY <2>1, <3>3 DEF InBelow, ClosedBelow
    <3>5. search_status = "IN_PROGRESS"
      BY <1>1 DEF EHCInv, EHCControl
    <3>6. current_h' >= 0 =>
            /\ Reached(current)' /\ current_phase_start_g' = g'[current']
            /\ \A m \in States : Reached(m)' => heuristic_cache'[m] >= current_h'
      BY <2>1, <3>1, <3>2 DEF Reached
    <3>7. Reached(expanding)' /\ g'[expanding'] >= current_phase_start_g'
      BY <1>11, <2>1 DEF Reached
    <3> QED
      BY <1>1, <2>1, <3>4, <3>5, <3>6, <3>7 DEF EHCControl
  <2>8. PhaseTried'
    <3>1. ASSUME NEW n \in States, n # s, Tried(n) PROVE Tried(n)'
      <4> SUFFICES ASSUME NEW x \in Successors(n)
          PROVE  \/ status'[x[2]] # "NEW"
                 \/ real_g'[n] + Cost[x[1]] >= Bound
                 \/ \E f \in edges' : f.parent = n /\ f.op = x[1] /\ f.state = x[2]
        BY DEF Tried
      <4>1. x[2] \in States
        BY SuccessorTransition
      <4>2. CASE x[2] = s
        BY <1>10, <4>2
      <4>3. CASE x[2] # s
        <5>1. \/ status[x[2]] # "NEW"
              \/ real_g[n] + Cost[x[1]] >= Bound
              \/ \E f \in edges : f.parent = n /\ f.op = x[1] /\ f.state = x[2]
          BY <3>1 DEF Tried
        <5>2. \A f \in edges : f.state = x[2] => f \in edges'
          BY <2>1, <4>3 DEF s
        <5> QED
          BY <1>10, <3>1, <4>1, <4>3, <5>1, <5>2
      <4> QED
        BY <4>2, <4>3
    <3> SUFFICES ASSUME ~PruneByPreferred, NEW n \in States, InBelow(n)', n # s
        PROVE  Tried(n)'
      BY <2>1 DEF PhaseTried
    <3>2. InBelow(n) /\ n # NoState
      BY <1>8, <2>5
    <3>3. Tried(n)
      BY <1>1, <3>2 DEF EHCInv, PhaseTried
    <3> QED
      BY <3>1, <3>3
  <2> QED
    BY <1>5, <1>6, <2>2, <2>6, <2>7, <2>8 DEF EHCInv
<1> QED
  BY <1>13, <1>14

LEMMA EHCStepInv ==
  ASSUME EHCInv, [EHCStep]_ehcallvars
  PROVE  EHCInv' /\ [SSNext]_ssvars
<1>1. CASE EHCInitialize
  BY <1>1, EHCInitializeInv
<1>2. CASE BeginPhase
  BY <1>2, BeginPhaseInv
<1>3. CASE ExpandNode
  BY <1>3, ExpandNodeInv
<1>4. CASE EHCFails
  BY <1>4, EHCFailsInv
<1>5. CASE \E e \in edges : IgnoreEdge(e) \/ EdgeToDeadEnd(e) \/ FollowEdge(e)
  BY <1>5, IgnoreEdgeInv, EdgeToDeadEndInv, FollowEdgeInv
<1>6. CASE UNCHANGED ehcallvars
  <2>1. UNCHANGED <<ssvars, enginevars, evalvars, ehcvars>>
    BY <1>6 DEF ehcallvars
  <2>2. SSInv'
    BY <2>1, SSNextInv DEF EHCInv
  <2>3. \A n : InBelow(n)' <=> InBelow(n)
    BY <2>1, SameBelow DEF ssvars, ehcvars
  <2>4. \A n : Reached(n)' <=> Reached(n)
    BY <2>1 DEF Reached, ssvars
  <2>5. \A n \in States : Tried(n)' <=> Tried(n)
    BY <2>1 DEF Tried, ssvars, ehcvars
  <2>6. EHCTypes'
    BY <2>1 DEF EHCInv, EHCTypes, evalvars, ehcvars
  <2>7. EdgesOfPhase'
    BY <2>1, <2>3, <2>4 DEF EHCInv, EdgesOfPhase, ssvars, ehcvars
  <2>8. EHCControl'
    BY <2>1, <2>3, <2>4 DEF EHCInv, EHCControl, ssvars, ehcvars, evalvars, enginevars
  <2>9. PhaseTried'
    BY <2>1, <2>3, <2>5 DEF EHCInv, PhaseTried, ehcvars, enginevars
  <2> QED
    BY <2>1, <2>2, <2>6, <2>7, <2>8, <2>9 DEF EHCInv
<1> QED
  BY <1>1, <1>2, <1>3, <1>4, <1>5, <1>6 DEF EHCStep

LEMMA EHCInvHolds == EHCSpec => []EHCInv
<1>1. EHCInv /\ [EHCStep]_ehcallvars => EHCInv'
  BY EHCStepInv
<1> QED
  BY <1>1, EHCInitInv, PTL DEF EHCSpec

\* Every phase of enforced hill climbing is a search of its own below the current
\* state, which has the smallest estimate of all the states reached so far.
THEOREM PhasesTheorem ==
  ASSUME IsFiniteSet(States)
  PROVE  EHCSpec => []PhasesAreSeparate
<1>1. ASSUME EHCInv PROVE PhasesAreSeparate
  <2> SUFFICES ASSUME current_h >= 0
      PROVE  /\ current_phase_start_g = g[current]
             /\ \A s \in States : Reached(s) => heuristic_cache[s] >= current_h
             /\ \A e \in edges : e.parent \in Below /\ e.key >= current_phase_start_g
    BY DEF PhasesAreSeparate
  <2>1. \A n \in States : n \in Below <=> InBelow(n)
    BY <1>1, BelowIsInBelow DEF EHCInv, EHCTypes
  <2> QED
    BY <1>1, <2>1 DEF EHCInv, EHCControl, EdgesOfPhase
<1> QED
  BY <1>1, EHCInvHolds, PTL

\* Enforced hill climbing fails only after its last phase has tried everything
\* that the bound lets it try.
THEOREM FailedPhaseTheorem ==
  ASSUME IsFiniteSet(States)
  PROVE  EHCSpec => []FailedPhaseIsExhausted
<1>1. ASSUME EHCInv PROVE FailedPhaseIsExhausted
  <2> SUFFICES ASSUME search_status = "FAILED", current_h >= 0, ~PruneByPreferred,
                      NEW t \in Transitions, t[1] \in Below
      PROVE  status[t[3]] # "NEW" \/ real_g[t[1]] + Cost[t[2]] >= Bound
    BY DEF FailedPhaseIsExhausted
  <2>1. t[1] \in States /\ t[2] \in Operators /\ t[3] \in States /\ t = <<t[1], t[2], t[3]>>
    BY TaskAssumption
  <2>2. InBelow(t[1])
    BY <1>1, <2>1, BelowIsInBelow DEF EHCInv, EHCTypes
  <2>3. expanding = NoState /\ edges = {}
    BY <1>1 DEF EHCInv, EHCControl
  <2>4. Tried(t[1])
    BY <1>1, <2>1, <2>2, <2>3, TaskAssumption DEF EHCInv, PhaseTried
  <2>5. PICK x \in Successors(t[1]) : x = <<t[2], t[3]>>
    BY <2>1 DEF Successors
  <2> QED
    BY <2>3, <2>4, <2>5 DEF Tried
<1> QED
  BY <1>1, EHCInvHolds, PTL

\* Enforced hill climbing respects the contract of the search space.
THEOREM EHCRefinesTheorem == EHCSpec => SSSpec
<1>1. EHCInv /\ [EHCStep]_ehcallvars => [SSNext]_ssvars
  BY EHCStepInv
<1> QED
  BY <1>1, EHCInvHolds, PTL DEF EHCSpec, SSSpec

-----------------------------------------------------------------------------
(***************************************************************************)
(* Lazy search.  It implements the search space contract too, although it  *)
(* works with copies of g that it made when it fetched an edge: the copies *)
(* are still the g of the predecessor when they are used.  It loses no     *)
(* edge, and its failures and its plans are right.                         *)
(***************************************************************************)

USE DEF evalvars, EvaluationTypeOK, EngineTypeOK, SearchStatus

\* The edges in the open list start at opened states.
EdgesFromReached ==
  \A e \in open_list :
    Reached(e.state) /\ <<e.state, e.op, e.successor>> \in Transitions

\* Without a predecessor the current state is the initial one.  Between
\* open() and close() the current state has a finite estimate.
LazyControl ==
  /\ search_status = "INITIALIZE" => phase = "evaluate"
  /\ current_predecessor_id = NoState <=> current_operator_id = NoOperator
  /\ current_predecessor_id = NoState => current_g = 0 /\ current_state = InitialState
  /\ phase = "close" /\ search_status = "IN_PROGRESS" =>
       /\ status[current_state] = "OPEN"
       /\ heuristic_cache[current_state] \in Nat
       /\ Reached(current_state)

LazyInv == LazyTypeOK /\ SSInv /\ EdgesFromReached /\ LazyControl /\ CurrentIsFresh

\* Under SSInv an opened node has natural g and real_g, and real_g is never
\* negative along a new edge.
RealGNat == \A n \in States : Reached(n) => real_g[n] \in Nat

LEMMA LazyInitInv == Init => LazyInv /\ RealGNat
<1> SUFFICES ASSUME Init PROVE LazyInv /\ RealGNat
  OBVIOUS
<1>1. SSInv
  BY SSInitInv DEF Init
<1>2. LazyTypeOK
  BY <1>1, TaskAssumption DEF Init, LazyTypeOK, EngineInit, EvaluationInit, SSInv
<1>3. EdgesFromReached /\ LazyControl /\ CurrentIsFresh /\ RealGNat
  BY TaskAssumption DEF Init, EdgesFromReached, LazyControl, CurrentIsFresh, RealGNat,
     SSInit, Reached
<1> QED
  BY <1>1, <1>2, <1>3 DEF LazyInv

\* Every step of lazy search is a step of the contract, or leaves the search
\* space alone.
LEMMA LazyRefines ==
  ASSUME LazyInv, [Next]_vars
  PROVE  [SSNext]_ssvars
<1>1. CASE EvaluateCurrent
  <2>1. CASE MarkAsDeadEnd(current_state)
    BY <2>1 DEF LazyInv, LazyTypeOK, SSNext, MarkSomeAsDeadEnd
  <2>2. CASE OpenInitial
    BY <2>2 DEF SSNext
  <2>3. CASE OpenCurrent /\ current_predecessor_id # NoState
    <3> DEFINE p == current_predecessor_id
               x == <<current_operator_id, current_state>>
    <3>1. /\ p \in States /\ x \in Successors(p) /\ Reached(p)
          /\ current_g = g[p] + AdjustedCost(x[1])
      BY <2>3, TaskAssumption DEF LazyInv, LazyTypeOK, CurrentIsFresh, Successors
    <3>2. CASE ReopensCurrent /\ Reopen(x[2], p, x[1])
      BY <3>1, <3>2 DEF SSNext, ReopenSome, ReopensCurrent, Improves
    <3>3. CASE Open(x[2], p, x[1])
      BY <3>1, <3>3 DEF SSNext, OpenSome
    <3> QED
      BY <2>3, <3>2, <3>3 DEF OpenCurrent
  <2> QED
    BY <1>1, <2>1, <2>2, <2>3 DEF EvaluateCurrent, OpenCurrent
<1>2. CASE CloseCurrent
  BY <1>2 DEF CloseCurrent, LazyInv, LazyTypeOK, SSNext, CloseSome
<1>3. CASE Initialize \/ IgnoreCurrent \/ OpenListEmpty \/ Terminated \/ UNCHANGED vars
  BY <1>3 DEF Initialize, IgnoreCurrent, OpenListEmpty, Terminated, vars, ssvars
<1>4. ASSUME NEW e \in open_list, FetchNextState(e) PROVE [SSNext]_ssvars
  BY <1>4 DEF FetchNextState
<1> QED
  BY <1>1, <1>2, <1>3, <1>4 DEF Next, LazyStep

\* An edge generated by the current state is well-formed.
LEMMA NewEdgeType ==
  ASSUME LazyInv, InPhase("close"), NEW x \in Successors(current_state)
  PROVE  /\ NewEdge(x) \in Edge
         /\ NewEdge(x).state = current_state
         /\ <<current_state, NewEdge(x).op, NewEdge(x).successor>> \in Transitions
<1>1. /\ x[1] \in Operators /\ x[2] \in States /\ AdjustedCost(x[1]) \in Nat
      /\ <<current_state, x[1], x[2]>> \in Transitions
      /\ current_state \in States
  BY SuccessorTransition, AdjustedCostNat DEF LazyInv, LazyTypeOK
<1>2. heuristic_cache[current_state] \in Nat /\ current_g \in Nat
  BY DEF LazyInv, LazyTypeOK, LazyControl, InPhase
<1>3. /\ GWeight * (current_g + AdjustedCost(x[1])) \in Nat
      /\ HWeight * heuristic_cache[current_state] \in Nat
  BY <1>1, <1>2, EvaluationAssumption
<1> QED
  BY <1>1, <1>3 DEF NewEdge, Key, Edge

LEMMA LazyStepInv == LazyInv /\ RealGNat /\ [Next]_vars => (LazyInv /\ RealGNat)'
<1> SUFFICES ASSUME LazyInv, RealGNat, [Next]_vars PROVE (LazyInv /\ RealGNat)'
  OBVIOUS
<1>1. SSInv'
  BY LazyRefines, SSNextInv DEF LazyInv
<1>2. /\ LazyTypeOK /\ SSInv /\ EdgesFromReached /\ LazyControl /\ CurrentIsFresh
      /\ SSTypeOK' /\ NodeConsistent /\ NodeConsistent'
      /\ status \in [States -> NodeStatus] /\ g \in [States -> Int] /\ real_g \in [States -> Int]
      /\ current_state \in States /\ InitialState \in States /\ NoState \notin States
      /\ NoOperator \notin Operators
  BY <1>1, TaskAssumption DEF LazyInv, SSInv, LazyTypeOK, SSTypeOK
\* Reached nodes stay reached: g shrinks, but not below 0.
<1>3. \A n \in States : Reached(n) => Reached(n)'
  <2>1. CASE SSNext
    BY <2>1, <1>2, GStep, SSNextInv DEF Reached, SSInv, SSTypeOK
  <2>2. CASE UNCHANGED ssvars
    BY <2>2 DEF ssvars, Reached
  <2> QED
    BY <2>1, <2>2, LazyRefines
<1>4. CASE EvaluateCurrent
  <2>1. PICK h \in Estimates[current_state] :
          /\ Evaluate(current_state, Notified, h)
          /\ IF h = DEAD_END THEN MarkAsDeadEnd(current_state) ELSE OpenCurrent
          /\ phase' = IF h = DEAD_END THEN "fetch" ELSE "close"
    BY <1>4 DEF EvaluateCurrent
  <2>2. /\ UNCHANGED <<enginevars, open_list, currentvars>>
        /\ phase' \in {"fetch", "close"}
        /\ search_status' # "INITIALIZE"
    BY <2>1, <1>4 DEF EvaluateCurrent, InPhase, enginevars
  <2>3. /\ heuristic_cache' \in [States -> Nat \union {DEAD_END, NO_VALUE}]
        /\ dirty' \subseteq States
        /\ heuristic_cache'[current_state] = h
        /\ h \in Nat \union {DEAD_END}
    BY <2>1, <1>2, EvaluationAssumption
    DEF LazyTypeOK, Evaluate, Notified, NotifyTransition
  <2>4. LazyTypeOK'
    BY <2>2, <2>3, <1>2 DEF LazyTypeOK, enginevars, currentvars
  <2>5. EdgesFromReached'
    BY <2>2, <1>2, <1>3 DEF EdgesFromReached, LazyTypeOK, Edge
  <2>6. \/ UNCHANGED <<g, real_g>>
        \/ /\ current_predecessor_id = NoState
           /\ g'[InitialState] = 0 /\ real_g' = [real_g EXCEPT ![InitialState] = 0]
        \/ /\ current_predecessor_id \in States
           /\ g' = [g EXCEPT ![current_state] =
                      g[current_predecessor_id] + AdjustedCost(current_operator_id)]
           /\ real_g' = [real_g EXCEPT ![current_state] =
                           real_g[current_predecessor_id] + Cost[current_operator_id]]
           /\ IsNew \/ ReopensCurrent
    BY <2>1, <1>2
    DEF MarkAsDeadEnd, OpenCurrent, OpenInitial, Open, Reopen, SetParent, LazyTypeOK
  <2>7. ASSUME current_predecessor_id # NoState
        PROVE  /\ g'[current_predecessor_id] = g[current_predecessor_id]
               /\ real_g'[current_predecessor_id] = real_g[current_predecessor_id]
               /\ current_operator_id \in Operators
               /\ real_g[current_predecessor_id] \in Nat
               /\ current_predecessor_id \in States
    <3>1. /\ current_predecessor_id \in States /\ Reached(current_predecessor_id)
          /\ current_operator_id \in Operators
          /\ current_g = g[current_predecessor_id] + AdjustedCost(current_operator_id)
      BY <2>7, <1>2 DEF CurrentIsFresh, LazyTypeOK, LazyControl
    <3>2. AdjustedCost(current_operator_id) \in Nat
      BY <3>1, AdjustedCostNat
    <3>3. IsNew \/ ReopensCurrent => current_predecessor_id # current_state
      BY <3>1, <3>2, <1>2 DEF IsNew, ReopensCurrent, NodeConsistent, Reached
    <3> QED
      BY <2>6, <2>7, <3>1, <3>3, <1>2 DEF RealGNat
  <2>8. CurrentIsFresh'
    BY <2>2, <2>7, <1>2, <1>3 DEF CurrentIsFresh, LazyTypeOK, currentvars
  <2>9. LazyControl'
    <3>1. phase' = "close" => /\ h \in Nat /\ status'[current_state] = "OPEN"
      BY <2>1, <2>3, <1>2
      DEF OpenCurrent, OpenInitial, Open, Reopen, LazyControl
    <3>2. phase' = "close" => Reached(current_state)'
      BY <2>2, <3>1, <1>2 DEF NodeConsistent, Reached, currentvars
    <3> QED
      BY <2>2, <2>3, <3>1, <3>2, <1>2 DEF LazyControl, currentvars
  <2>10. RealGNat'
    <3> SUFFICES ASSUME NEW n \in States, Reached(n)' PROVE real_g'[n] \in Nat
      BY DEF RealGNat
    <3>1. CASE UNCHANGED <<g, real_g>>
      BY <3>1 DEF RealGNat, Reached
    <3>2. CASE current_predecessor_id = NoState /\ ~UNCHANGED <<g, real_g>>
      <4>1. OpenInitial
        BY <2>1, <3>2 DEF MarkAsDeadEnd, OpenCurrent
      <4> QED
        BY <4>1, <1>2 DEF OpenInitial, RealGNat, Reached
    <3>3. CASE current_predecessor_id # NoState
      <4>1. real_g[current_predecessor_id] + Cost[current_operator_id] \in Nat
        BY <2>7, <3>3, CostAssumption
      <4> QED
        BY <2>6, <3>3, <4>1, <1>2 DEF RealGNat, Reached
    <3> QED
      BY <2>6, <3>1, <3>2, <3>3
  <2> QED
    BY <1>1, <2>4, <2>5, <2>8, <2>9, <2>10 DEF LazyInv
<1>5. CASE CloseCurrent
  <2>1. UNCHANGED <<g, real_g, parent_state_id, currentvars, evalvars>> /\ InPhase("close")
    BY <1>5 DEF CloseCurrent, Close
  <2>2. \A e \in open_list' :
          e \in open_list \/ \E x \in Successors(current_state) : e = NewEdge(x)
    BY <1>5 DEF CloseCurrent, GenerateSuccessors
  <2>3. \A e \in open_list' : e \in Edge /\ Reached(e.state)
                              /\ <<e.state, e.op, e.successor>> \in Transitions
    <3>1. ASSUME NEW x \in Successors(current_state)
          PROVE  /\ NewEdge(x) \in Edge /\ Reached(NewEdge(x).state)
                 /\ <<NewEdge(x).state, NewEdge(x).op, NewEdge(x).successor>> \in Transitions
      BY <2>1, <1>2, NewEdgeType DEF LazyControl, InPhase
    <3> QED
      BY <2>2, <3>1, <1>2 DEF LazyTypeOK, EdgesFromReached
  <2>4. LazyTypeOK'
    BY <2>1, <2>3, <1>2, <1>5
    DEF LazyTypeOK, CloseCurrent, SetPlan, StepReturns, enginevars, currentvars
  <2>5. EdgesFromReached'
    BY <2>1, <2>3 DEF EdgesFromReached, Reached
  <2>6. /\ CurrentIsFresh' /\ RealGNat'
    BY <2>1, <1>2 DEF CurrentIsFresh, currentvars, RealGNat, Reached
  <2>7. /\ ~(phase' = "close" /\ search_status' = "IN_PROGRESS")
        /\ search_status' # "INITIALIZE"
    BY <1>5 DEF CloseCurrent, StepReturns, InPhase, enginevars
  <2>8. LazyControl'
    BY <2>1, <2>7, <1>2 DEF LazyControl, currentvars
  <2> QED
    BY <1>1, <2>4, <2>5, <2>6, <2>8 DEF LazyInv
<1>6. CASE Initialize \/ IgnoreCurrent \/ OpenListEmpty \/ Terminated \/ UNCHANGED vars
  <2>1. /\ UNCHANGED <<ssvars, evalvars, open_list, currentvars, solution>>
        /\ search_status' \in SearchStatus
        /\ phase' \in {phase, "fetch"}
        /\ search_status' = "INITIALIZE" => search_status = "INITIALIZE" /\ phase' = phase
        /\ phase' = "close" /\ search_status' = "IN_PROGRESS" =>
             search_status \in {"IN_PROGRESS", "INITIALIZE"}
    BY <1>2, <1>6 DEF Initialize, IgnoreCurrent, OpenListEmpty, Terminated, vars, enginevars,
       StepReturns, LazyTypeOK, InPhase
  <2>2. LazyTypeOK' /\ EdgesFromReached' /\ CurrentIsFresh' /\ RealGNat'
    BY <2>1, <1>2 DEF LazyTypeOK, EdgesFromReached, CurrentIsFresh, RealGNat, Reached,
       ssvars, currentvars
  <2>3. LazyControl'
    BY <2>1, <1>2, <1>6 DEF LazyControl, Reached, ssvars, currentvars, Initialize
  <2> QED
    BY <1>1, <2>2, <2>3 DEF LazyInv
<1>7. ASSUME NEW e \in open_list, FetchNextState(e) PROVE (LazyInv /\ RealGNat)'
  <2>1. /\ e.state \in States /\ e.op \in Operators /\ e.successor \in States
        /\ Reached(e.state) /\ <<e.state, e.op, e.successor>> \in Transitions
    BY <1>2 DEF LazyTypeOK, Edge, EdgesFromReached
  <2>2. /\ AdjustedCost(e.op) \in Nat /\ Cost[e.op] \in Nat
        /\ g[e.state] \in Nat /\ real_g[e.state] \in Nat
    BY <2>1, <1>2, AdjustedCostNat, CostAssumption DEF Reached, RealGNat
  <2>3. UNCHANGED <<ssvars, solution, evalvars>> /\ open_list' \subseteq open_list
        /\ phase' = "evaluate" /\ search_status' \in SearchStatus
    BY <1>7 DEF FetchNextState, StepReturns
  <2>4. LazyTypeOK'
    BY <2>1, <2>2, <2>3, <1>2, <1>7 DEF LazyTypeOK, FetchNextState
  <2>5. EdgesFromReached' /\ RealGNat'
    BY <2>3, <1>2 DEF EdgesFromReached, RealGNat, Reached, ssvars
  <2>6. CurrentIsFresh' /\ LazyControl'
    BY <2>1, <2>3, <1>2, <1>7, TaskAssumption
    DEF CurrentIsFresh, LazyControl, FetchNextState, Reached, ssvars
  <2> QED
    BY <1>1, <2>4, <2>5, <2>6 DEF LazyInv
<1> QED
  BY <1>4, <1>5, <1>6, <1>7 DEF Next, LazyStep

\* The types, the search space invariants and the freshness of the current
\* values hold together in every behaviour.
THEOREM LazyInvariant == Spec => [](LazyInv /\ RealGNat)
<1> QED
  BY LazyInitInv, LazyStepInv, PTL DEF Spec

\* Type correctness of lazy search.
THEOREM LazyTypes == Spec => []LazyTypeOK
<1>1. LazyInv /\ RealGNat => LazyTypeOK
  BY DEF LazyInv
<1> QED
  BY <1>1, LazyInvariant, PTL

\* The g values that fetch_next_state copied are those of the predecessor for
\* as long as they are used, although reopening may change any g.
THEOREM FreshTheorem == Spec => []CurrentIsFresh
<1>1. LazyInv /\ RealGNat => CurrentIsFresh
  BY DEF LazyInv
<1> QED
  BY <1>1, LazyInvariant, PTL

\* Lazy search implements the contract of the search space.
THEOREM LazyImplementsContract == Spec => SSSpec
<1>1. Init => SSInit
  BY DEF Init
<1>2. LazyInv /\ RealGNat /\ [Next]_vars => [SSNext]_ssvars
  BY LazyRefines
<1> QED
  BY <1>1, <1>2, LazyInvariant, PTL DEF Spec, SSSpec

\* What NoEdgeLost rests on besides LazyInv: the bound is tested with the real
\* cost of the node itself, and there is no solution before the search ends.
EdgesInv ==
  /\ search_status \in {"INITIALIZE", "IN_PROGRESS"} => solution = NoState
  /\ current_predecessor_id = NoState => current_real_g = 0
  /\ phase = "close" /\ search_status = "IN_PROGRESS" =>
       current_real_g = real_g[current_state]
  /\ NoEdgeLost

\* The fate of the edge by x from n.
EdgeHandled(n, x) ==
  \/ real_g[n] + Cost[x[1]] >= Bound
  \/ EdgeWaits(n, x)
  \/ status[x[2]] = "DEAD_END"
  \/ status[x[2]] # "NEW" /\ (ReopenClosed => ~Improves(x[2], n, x[1]))

LEMMA EdgesInit == Init => EdgesInv
BY DEF Init, EdgesInv, NoEdgeLost, SSInit, EngineInit

\* The current state is where the current operator leads to.
LEMMA CurrentEdge ==
  ASSUME LazyInv, NEW n \in States, NEW x \in Successors(n),
         current_predecessor_id = n, current_operator_id = x[1]
  PROVE  /\ current_state = x[2] /\ current_g = g[n] + AdjustedCost(x[1])
         /\ current_predecessor_id # NoState
<1>1. <<n, x[1], x[2]>> \in Transitions /\ n # NoState
  BY SuccessorTransition, TaskAssumption
<1>2. /\ <<n, x[1], current_state>> \in Transitions
      /\ current_g = g[n] + AdjustedCost(x[1])
  BY <1>1 DEF LazyInv, CurrentIsFresh
<1>3. \A y, z \in Transitions : y[1] = z[1] /\ y[2] = z[2] => y[3] = z[3]
  BY DeterminismAssumption
<1>4. current_state = x[2]
  BY <1>1, <1>2, <1>3
<1> QED
  BY <1>1, <1>2, <1>4

\* An evaluation gives the edge that it handles its fate, and leaves that of
\* the others alone, although it may lower the g of the current state.
LEMMA EvaluateHandles ==
  ASSUME LazyInv, EvaluateCurrent,
         NEW n \in States, status'[n] = "CLOSED", NEW x \in Successors(n), EdgeHandled(n, x)
  PROVE  EdgeHandled(n, x)'
<1>1. /\ SSTypeOK /\ current_state \in States /\ x[1] \in Operators /\ x[2] \in States
      /\ NoState \notin States /\ AdjustedCost(x[1]) \in Nat /\ phase = "evaluate"
  BY SuccessorTransition, AdjustedCostNat, TaskAssumption
  DEF LazyInv, LazyTypeOK, EvaluateCurrent, InPhase
<1>2. PICK h \in Estimates[current_state] :
        IF h = DEAD_END THEN MarkAsDeadEnd(current_state) ELSE OpenCurrent
  BY DEF EvaluateCurrent
<1>3. UNCHANGED <<open_list, currentvars>> /\ (IsNew \/ ReopensCurrent)
  BY DEF EvaluateCurrent
\* What happens to the current state.
<1>4. /\ status'[current_state] \in {"OPEN", "DEAD_END"}
      /\ \A m \in States \ {current_state} :
           status'[m] = status[m] /\ g'[m] = g[m] /\ real_g'[m] = real_g[m]
      /\ \/ status'[current_state] = "DEAD_END"
         \/ current_predecessor_id = NoState /\ IsNew
         \/ /\ g'[current_state] =
                 g[current_predecessor_id] + AdjustedCost(current_operator_id)
            /\ IsNew \/ g'[current_state] < g[current_state]
  <2>1. CASE MarkAsDeadEnd(current_state)
    BY <1>1, <2>1 DEF MarkAsDeadEnd, SSTypeOK
  <2>2. CASE current_predecessor_id = NoState /\ OpenInitial
    <3>1. current_state = InitialState
      BY <2>2 DEF LazyInv, LazyControl
    <3> QED
      BY <1>1, <2>2, <3>1 DEF OpenInitial, SSTypeOK, IsNew
  <2>3. CASE current_predecessor_id # NoState /\ OpenCurrent
    <3>1. /\ current_predecessor_id \in States
          /\ current_g = g[current_predecessor_id] + AdjustedCost(current_operator_id)
      BY <2>3 DEF LazyInv, LazyTypeOK, CurrentIsFresh
    <3>2. /\ SetParent(current_state, current_predecessor_id, current_operator_id)
          /\ status' = [status EXCEPT ![current_state] = "OPEN"]
          /\ IsNew \/ current_g < g[current_state]
      BY <2>3 DEF OpenCurrent, Open, Reopen, ReopensCurrent
    <3> QED
      BY <1>1, <3>1, <3>2 DEF SetParent, SSTypeOK
  <2> QED
    BY <1>2, <2>1, <2>2, <2>3 DEF OpenCurrent
<1>5. n # current_state /\ g'[n] = g[n] /\ real_g'[n] = real_g[n] /\ status[n] = "CLOSED"
  BY <1>4
<1>6. CASE real_g[n] + Cost[x[1]] >= Bound
  BY <1>5, <1>6 DEF EdgeHandled
<1>7. CASE \E e \in open_list : e.state = n /\ e.op = x[1]
  BY <1>3, <1>7 DEF EdgeHandled, EdgeWaits
<1>8. CASE current_predecessor_id = n /\ current_operator_id = x[1]
  <2>1. current_state = x[2] /\ current_predecessor_id # NoState
    BY <1>8, CurrentEdge
  <2>2. \/ status'[x[2]] = "DEAD_END"
        \/ status'[x[2]] # "NEW" /\ g'[x[2]] = g'[n] + AdjustedCost(x[1])
    BY <1>4, <1>5, <1>8, <2>1
  <2>3. g'[n] + AdjustedCost(x[1]) \in Int
    BY <1>1, <1>5 DEF SSTypeOK
  <2> QED
    BY <2>2, <2>3 DEF EdgeHandled, Improves
<1>9. CASE status[x[2]] = "DEAD_END"
  <2>1. x[2] # current_state
    BY <1>3, <1>9 DEF IsNew, ReopensCurrent
  <2> QED
    BY <1>1, <1>4, <1>9, <2>1 DEF EdgeHandled
<1>10. CASE status[x[2]] # "NEW" /\ (ReopenClosed => ~Improves(x[2], n, x[1]))
  <2>1. CASE x[2] = current_state
    <3>1. status'[x[2]] = "DEAD_END" \/ (status'[x[2]] # "NEW" /\ g'[x[2]] < g[x[2]])
      BY <1>4, <1>10, <2>1 DEF IsNew
    <3>2. ReopenClosed /\ g'[x[2]] < g[x[2]] => ~(g'[n] + AdjustedCost(x[1]) < g'[x[2]])
      <4>1. g'[x[2]] \in Int
        BY <1>1, SSNextInv, LazyRefines DEF Next, LazyStep, LazyInv, SSInv, SSTypeOK, ssvars
      <4>2. g[x[2]] \in Int /\ g[n] \in Int
        BY <1>1 DEF SSTypeOK
      <4> SUFFICES ASSUME ReopenClosed, g'[x[2]] < g[x[2]]
          PROVE  ~(g'[n] + AdjustedCost(x[1]) < g'[x[2]])
        OBVIOUS
      <4>3. ~(g[n] + AdjustedCost(x[1]) < g[x[2]])
        BY <1>10 DEF Improves
      <4> QED
        BY <1>1, <1>5, <4>1, <4>2, <4>3
    <3> QED
      BY <3>1, <3>2 DEF EdgeHandled, Improves
  <2>2. CASE x[2] # current_state
    BY <1>1, <1>4, <1>5, <1>10, <2>2 DEF EdgeHandled, Improves
  <2> QED
    BY <2>1, <2>2
<1> QED
  BY <1>6, <1>7, <1>8, <1>9, <1>10 DEF EdgeHandled, EdgeWaits

LEMMA EdgesStep ==
  ASSUME LazyInv, RealGNat, EdgesInv, [Next]_vars
  PROVE  EdgesInv'
<1>1. /\ SSTypeOK /\ current_state \in States /\ LazyTypeOK /\ LazyControl
      /\ NoState \notin States /\ CurrentIsFresh /\ InitialState \in States
  BY TaskAssumption DEF LazyInv, LazyTypeOK
<1>2. CASE EvaluateCurrent
  <2>1. UNCHANGED <<enginevars, currentvars>> /\ search_status = "IN_PROGRESS"
    BY <1>2 DEF EvaluateCurrent, InPhase
  <2>2. phase' = "close" => real_g'[current_state] = current_real_g
    <3> SUFFICES ASSUME phase' = "close" PROVE real_g'[current_state] = current_real_g
      OBVIOUS
    <3>1. OpenCurrent
      BY <1>2 DEF EvaluateCurrent
    <3>2. CASE current_predecessor_id = NoState
      BY <1>1, <3>1, <3>2 DEF OpenCurrent, OpenInitial, LazyControl, EdgesInv, SSTypeOK
    <3>3. CASE current_predecessor_id # NoState
      BY <1>1, <3>1, <3>3
      DEF OpenCurrent, Open, Reopen, SetParent, CurrentIsFresh, SSTypeOK
    <3> QED
      BY <3>2, <3>3
  <2>3. NoEdgeLost'
    <3> SUFFICES ASSUME NEW n \in States, status'[n] = "CLOSED", n # solution',
                        NEW x \in Successors(n)
                 PROVE  EdgeHandled(n, x)'
      BY DEF NoEdgeLost, EdgeHandled
    <3>1. status[n] = "CLOSED" /\ n # solution
      <4>1. n # current_state
        BY <1>1, <1>2 DEF EvaluateCurrent, OpenCurrent, MarkAsDeadEnd, OpenInitial, Open, Reopen,
           LazyControl, SSTypeOK
      <4>2. status'[n] = status[n]
        BY <1>1, <1>2, <4>1 DEF EvaluateCurrent, OpenCurrent, MarkAsDeadEnd, OpenInitial, Open,
           Reopen, LazyControl, SSTypeOK
      <4> QED
        BY <2>1, <4>2 DEF enginevars
    <3>2. EdgeHandled(n, x)
      BY <3>1 DEF EdgesInv, NoEdgeLost, EdgeHandled
    <3> QED
      BY <1>2, <3>2, EvaluateHandles
  <2> QED
    BY <2>1, <2>2, <2>3 DEF EdgesInv, enginevars, currentvars
<1>3. CASE IgnoreCurrent
  <2>1. /\ UNCHANGED <<ssvars, enginevars, open_list, currentvars>> /\ phase' = "fetch"
        /\ ~IsNew /\ ~ReopensCurrent
    BY <1>3 DEF IgnoreCurrent
  <2>2. NoEdgeLost'
    <3> SUFFICES ASSUME NEW n \in States, status[n] = "CLOSED", n # solution,
                        NEW x \in Successors(n)
                 PROVE  EdgeHandled(n, x)'
      BY <2>1 DEF NoEdgeLost, EdgeHandled, ssvars, enginevars
    <3>1. EdgeHandled(n, x)
      BY DEF EdgesInv, NoEdgeLost, EdgeHandled
    <3>2. CASE current_predecessor_id = n /\ current_operator_id = x[1]
      <4>1. current_state = x[2] /\ current_g = g[n] + AdjustedCost(x[1])
        BY <3>2, CurrentEdge DEF LazyInv
      <4>2. \/ status[x[2]] = "DEAD_END"
            \/ status[x[2]] # "NEW" /\ (ReopenClosed => ~Improves(x[2], n, x[1]))
        BY <1>1, <2>1, <4>1 DEF IsNew, ReopensCurrent, Improves, SSTypeOK, NodeStatus
      <4> QED
        BY <2>1, <4>2 DEF EdgeHandled, Improves, ssvars
    <3>3. CASE ~(current_predecessor_id = n /\ current_operator_id = x[1])
      BY <2>1, <3>1, <3>3 DEF EdgeHandled, EdgeWaits, Improves, ssvars
    <3> QED
      BY <3>2, <3>3
  <2> QED
    BY <2>1, <2>2 DEF EdgesInv, enginevars, currentvars
<1>4. CASE CloseCurrent
  <2>1. /\ UNCHANGED <<g, real_g, currentvars>> /\ InPhase("close") /\ solution = NoState
        /\ status' = [status EXCEPT ![current_state] = "CLOSED"]
        /\ current_real_g = real_g[current_state]
        /\ open_list \subseteq open_list'
    BY <1>4 DEF CloseCurrent, Close, EdgesInv, InPhase, GenerateSuccessors
  <2>2. /\ ~(phase' = "close" /\ search_status' = "IN_PROGRESS")
        /\ search_status' \in {"INITIALIZE", "IN_PROGRESS"} => solution' = NoState
    BY <1>4, <2>1 DEF CloseCurrent, StepReturns, InPhase, enginevars
  <2>3. NoEdgeLost'
    <3> SUFFICES ASSUME NEW n \in States, status'[n] = "CLOSED", n # solution',
                        NEW x \in Successors(n)
                 PROVE  EdgeHandled(n, x)'
      BY DEF NoEdgeLost, EdgeHandled
    <3>0. x[1] \in Operators /\ x[2] \in States
      BY SuccessorTransition
    <3>1. CASE n = current_state
      <4>1. GenerateSuccessors
        BY <1>4, <3>1 DEF CloseCurrent, SetPlan
      <4>2. CASE BelowBound(x[1])
        <5>1. NewEdge(x) \in open_list'
          BY <3>1, <4>1, <4>2 DEF GenerateSuccessors
        <5>2. NewEdge(x).state = n /\ NewEdge(x).op = x[1]
          BY <3>1 DEF NewEdge
        <5> QED
          BY <5>1, <5>2 DEF EdgeHandled, EdgeWaits
      <4>3. CASE ~BelowBound(x[1])
        <5>1. real_g[n] \in Int /\ Cost[x[1]] \in Int /\ Bound \in Int
          BY <1>1, <3>0, CostAssumption, BoundAssumption DEF SSTypeOK
        <5> QED
          BY <2>1, <3>1, <4>3, <5>1 DEF BelowBound, EdgeHandled
      <4> QED
        BY <4>2, <4>3
    <3>2. CASE n # current_state
      <4>1. status[n] = "CLOSED" /\ n # solution
        BY <1>1, <2>1, <3>2 DEF SSTypeOK
      <4>2. EdgeHandled(n, x)
        BY <4>1 DEF EdgesInv, NoEdgeLost, EdgeHandled
      <4>3. /\ status[x[2]] = "DEAD_END" => status'[x[2]] = "DEAD_END"
            /\ status[x[2]] # "NEW" => status'[x[2]] # "NEW"
        <5>1. status[current_state] = "OPEN"
          BY <1>1, <2>1 DEF LazyControl, InPhase
        <5> QED
          BY <1>1, <2>1, <3>0, <5>1 DEF SSTypeOK
      <4>4. EdgeWaits(n, x) => EdgeWaits(n, x)'
        BY <2>1 DEF EdgeWaits, InPhase
      <4> QED
        BY <2>1, <4>2, <4>3, <4>4 DEF EdgeHandled, Improves
    <3> QED
      BY <3>1, <3>2
  <2> QED
    BY <2>1, <2>2, <2>3 DEF EdgesInv, currentvars
<1>5. CASE Initialize \/ OpenListEmpty \/ Terminated \/ UNCHANGED vars
  <2>1. /\ UNCHANGED <<ssvars, open_list, currentvars, solution, phase>>
        /\ search_status' \in {"INITIALIZE", "IN_PROGRESS"} =>
             search_status \in {"INITIALIZE", "IN_PROGRESS"}
    BY <1>5 DEF Initialize, OpenListEmpty, Terminated, Finished, vars, enginevars, InPhase
  <2>2. phase = "close" /\ search_status' = "IN_PROGRESS" => search_status = "IN_PROGRESS"
    BY <1>1, <1>5 DEF Initialize, OpenListEmpty, Terminated, Finished, vars, enginevars, InPhase,
       StepReturns, LazyControl
  <2>3. NoEdgeLost'
    BY <2>1 DEF EdgesInv, NoEdgeLost, EdgeWaits, Improves, ssvars, currentvars
  <2> QED
    BY <2>1, <2>2, <2>3 DEF EdgesInv, ssvars, currentvars
<1>6. ASSUME NEW e \in open_list, FetchNextState(e) PROVE EdgesInv'
  <2>1. /\ UNCHANGED <<ssvars, solution>> /\ open_list' = open_list \ {e}
        /\ current_predecessor_id' = e.state /\ current_operator_id' = e.op
        /\ phase = "fetch" /\ phase' = "evaluate" /\ search_status = "IN_PROGRESS"
        /\ e.state # NoState
    BY <1>1, <1>6 DEF FetchNextState, InPhase, LazyTypeOK, Edge
  <2>2. NoEdgeLost'
    <3> SUFFICES ASSUME NEW n \in States, status[n] = "CLOSED", n # solution,
                        NEW x \in Successors(n)
                 PROVE  EdgeHandled(n, x)'
      BY <2>1 DEF NoEdgeLost, EdgeHandled, ssvars
    <3>1. EdgeHandled(n, x)
      BY DEF EdgesInv, NoEdgeLost, EdgeHandled
    <3>2. EdgeWaits(n, x) => EdgeWaits(n, x)'
      BY <2>1 DEF EdgeWaits
    <3> QED
      BY <2>1, <3>1, <3>2 DEF EdgeHandled, Improves, ssvars
  <2> QED
    BY <2>1, <2>2 DEF EdgesInv
<1> QED
  BY <1>2, <1>3, <1>4, <1>5, <1>6 DEF Next, LazyStep

\* Lazy search forgets no edge of a closed node, whatever the task, the
\* estimates and the order of the open list, with and without reopening.
THEOREM NoEdgeLostTheorem == Spec => []NoEdgeLost
<1>1. EdgesInv => NoEdgeLost
  BY DEF EdgesInv
<1> QED
  BY <1>1, EdgesInit, EdgesStep, LazyInvariant, PTL DEF Spec

\* Where the search stands: only the current state is ever open, the initial
\* state was the first to be evaluated, and the search fails when there is no
\* edge left.
StandInv ==
  /\ \A n \in States : status[n] = "OPEN" =>
       n = current_state /\ phase = "close" /\ search_status = "IN_PROGRESS"
  /\ phase # "evaluate" \/ current_predecessor_id # NoState => status[InitialState] # "NEW"
  /\ search_status = "FAILED" => open_list = {} /\ phase = "fetch" /\ solution = NoState
  /\ \A n \in States : status[n] = "CLOSED" /\ n \in GoalStates => n = solution

LEMMA StandInit == Init => StandInv
BY DEF Init, StandInv, SSInit, EngineInit

LEMMA StandStep ==
  ASSUME LazyInv, EdgesInv, StandInv, [Next]_vars
  PROVE  StandInv'
<1>1. /\ SSTypeOK /\ current_state \in States /\ LazyControl /\ NoState \notin States
      /\ InitialState \in States
      /\ search_status \in {"INITIALIZE", "IN_PROGRESS"} => solution = NoState
  BY TaskAssumption DEF LazyInv, LazyTypeOK, EdgesInv
<1>2. CASE EvaluateCurrent
  <2>1. /\ UNCHANGED <<enginevars, open_list, currentvars>> /\ search_status = "IN_PROGRESS"
        /\ phase = "evaluate"
    BY <1>2 DEF EvaluateCurrent, InPhase
  <2>2. /\ \A n \in States \ {current_state} : status'[n] = status[n]
        /\ status'[current_state] = "DEAD_END" \/ (status'[current_state] = "OPEN" /\ phase' = "close")
    BY <1>1, <1>2 DEF EvaluateCurrent, OpenCurrent, MarkAsDeadEnd, OpenInitial, Open, Reopen,
       LazyControl, SSTypeOK
  <2>3. status'[InitialState] # "NEW"
    <3>1. CASE current_state = InitialState
      BY <2>2, <3>1
    <3>2. CASE current_state # InitialState
      BY <1>1, <2>2, <3>2 DEF LazyControl, StandInv
    <3> QED
      BY <3>1, <3>2
  <2> QED
    BY <1>1, <2>1, <2>2, <2>3 DEF StandInv, enginevars, currentvars
<1>3. CASE IgnoreCurrent
  BY <1>1, <1>3 DEF IgnoreCurrent, InPhase, IsNew, StandInv, LazyControl, ssvars, enginevars, currentvars
<1>4. CASE CloseCurrent
  <2>1. /\ UNCHANGED currentvars /\ InPhase("close") /\ solution = NoState
        /\ status' = [status EXCEPT ![current_state] = "CLOSED"]
        /\ search_status' # "FAILED"
        /\ current_state \in GoalStates => solution' = current_state
        /\ solution' # solution => solution' = current_state
    BY <1>1, <1>4 DEF CloseCurrent, Close, InPhase, IsGoal, SetPlan, StepReturns, enginevars
  <2>2. \A n \in States : status[n] \notin {"OPEN", "CLOSED"} \/ n = current_state
                            \/ (status[n] = "CLOSED" /\ n \notin GoalStates)
    BY <1>1, <2>1 DEF StandInv
  <2> QED
    BY <1>1, <2>1, <2>2 DEF StandInv, SSTypeOK, InPhase
<1>5. CASE Initialize \/ OpenListEmpty \/ Terminated \/ UNCHANGED vars
  BY <1>1, <1>5 DEF Initialize, OpenListEmpty, Terminated, vars, ssvars, enginevars, currentvars,
     InPhase, StepReturns, StandInv
<1>6. ASSUME NEW e \in open_list, FetchNextState(e) PROVE StandInv'
  BY <1>1, <1>6 DEF FetchNextState, InPhase, StepReturns, StandInv, ssvars
<1> QED
  BY <1>2, <1>3, <1>4, <1>5, <1>6 DEF Next, LazyStep

\* A failed lazy search is a proof that there is no plan below the bound that
\* avoids the dead ends, with and without reopening.
THEOREM LazyFailureTheorem == Spec => []FailureProvesUnsolvable
<1>1. Spec => [](EdgesInv /\ StandInv)
  BY EdgesInit, EdgesStep, StandInit, StandStep, LazyInvariant, PTL DEF Spec
<1>2. ASSUME LazyInv, EdgesInv, StandInv, search_status = "FAILED"
      PROVE  /\ status[InitialState] \in {"CLOSED", "DEAD_END"}
             /\ \A t \in Transitions : status[t[1]] = "CLOSED" =>
                  \/ status[t[3]] \in {"CLOSED", "DEAD_END"}
                  \/ real_g[t[1]] + Cost[t[2]] >= Bound
             /\ \A n \in States : status[n] = "CLOSED" => n \notin GoalStates
  <2>1. /\ open_list = {} /\ phase = "fetch" /\ solution = NoState
        /\ \A n \in States : status[n] \in {"NEW", "CLOSED", "DEAD_END"}
        /\ InitialState \in States /\ NoState \notin States
    BY <1>2, TaskAssumption DEF StandInv, LazyInv, SSInv, SSTypeOK, NodeStatus
  <2>2. status[InitialState] \in {"CLOSED", "DEAD_END"}
    BY <1>2, <2>1 DEF StandInv
  <2>3. ASSUME NEW t \in Transitions, status[t[1]] = "CLOSED"
        PROVE  \/ status[t[3]] \in {"CLOSED", "DEAD_END"}
               \/ real_g[t[1]] + Cost[t[2]] >= Bound
    <3>1. t[1] \in States /\ t[2] \in Operators /\ t[3] \in States /\ t = <<t[1], t[2], t[3]>>
      BY TaskAssumption
    <3>2. <<t[2], t[3]>> \in Successors(t[1])
      BY <3>1 DEF Successors
    <3>3. EdgeHandled(t[1], <<t[2], t[3]>>)
      BY <1>2, <2>1, <2>3, <3>1, <3>2 DEF EdgesInv, NoEdgeLost, EdgeHandled
    <3> QED
      BY <2>1, <3>1, <3>3 DEF EdgeHandled, EdgeWaits
  <2>4. \A n \in States : status[n] = "CLOSED" => n \notin GoalStates
    BY <1>2, <2>1 DEF StandInv
  <2> QED
    BY <2>2, <2>3, <2>4
<1>3. LazyInv /\ EdgesInv /\ StandInv => FailureProvesUnsolvable
  <2> SUFFICES ASSUME LazyInv, EdgesInv, StandInv, search_status = "FAILED"
      PROVE  /\ InitialState \in States /\ status[InitialState] \in {"CLOSED", "DEAD_END"}
             /\ \A t \in Transitions : t[3] \in States /\ (status[t[1]] = "CLOSED" =>
                  \/ status[t[3]] \in {"CLOSED", "DEAD_END"}
                  \/ real_g[t[1]] + Cost[t[2]] >= Bound)
             /\ \A n \in States : status[n] = "CLOSED" => n \notin GoalStates
    BY DEF FailureProvesUnsolvable
  <2>1. InitialState \in States /\ \A t \in Transitions : t[3] \in States
    BY TaskAssumption
  <2> QED
    BY <1>2, <2>1
<1> QED
  BY <1>1, <1>3, LazyInvariant, PTL

\* The plan of every node that lazy search has reached is a path of the task.
THEOREM LazyPlansTheorem == Spec => []TracedPlansExecute
<1>1. LazyInv => TracedPlansExecute
  BY TracedPlanExecutes DEF LazyInv
<1> QED
  BY <1>1, LazyInvariant, PTL

\* With real costs g and real_g agree, and neither an opened node nor a waiting
\* edge is at or above the bound; the solution is an opened goal state.
RealInv ==
  /\ real_g = g
  /\ \A n \in States : Reached(n) /\ n # InitialState => real_g[n] < Bound
  /\ \A e \in open_list : real_g[e.state] + Cost[e.op] < Bound
  /\ phase = "evaluate" /\ current_predecessor_id # NoState => current_real_g < Bound
  /\ solution # NoState => solution \in GoalStates \intersect States /\ Reached(solution)

LEMMA RealStep ==
  ASSUME LazyInv, RealGNat, EdgesInv, CostType = "NORMAL", RealInv, [Next]_vars
  PROVE  RealInv'
<1>1. /\ SSTypeOK /\ current_state \in States /\ LazyControl /\ NoState \notin States
      /\ InitialState \in States /\ CurrentIsFresh /\ LazyTypeOK /\ EdgesFromReached
      /\ \A o \in Operators : AdjustedCost(o) = Cost[o] /\ Cost[o] \in Nat
      /\ Bound \in Nat
      /\ \A n \in States : Reached(n) => Reached(n)' /\ g'[n] <= g[n]
  <2>1. \A n \in States : Reached(n) => Reached(n)' /\ g'[n] <= g[n]
    <3>1. SSInv /\ SSInv'
      BY LazyRefines, SSNextInv DEF LazyInv
    <3>2. CASE SSNext
      <4>1. \A n \in States : Reached(n) => 0 <= g'[n] /\ g'[n] <= g[n]
        BY <3>1, <3>2, GStep
      <4>2. \A n \in States : g'[n] \in Int
        BY <3>1 DEF SSInv, SSTypeOK
      <4> QED
        BY <4>1, <4>2 DEF Reached
    <3>3. CASE UNCHANGED ssvars
      BY <3>1, <3>3 DEF ssvars, Reached, SSInv, SSTypeOK
    <3> QED
      BY <3>2, <3>3, LazyRefines
  <2> QED
    BY <2>1, TaskAssumption, CostAssumption, BoundAssumption
    DEF LazyInv, LazyTypeOK, AdjustedCost
<1>2. CASE EvaluateCurrent
  <2>1. /\ UNCHANGED <<enginevars, open_list, currentvars>>
        /\ phase = "evaluate" /\ phase' # "evaluate"
    BY <1>2 DEF EvaluateCurrent, InPhase
  <2>2. \/ UNCHANGED <<g, real_g>>
        \/ /\ current_predecessor_id = NoState /\ OpenInitial
        \/ /\ current_predecessor_id # NoState
           /\ SetParent(current_state, current_predecessor_id, current_operator_id)
    BY <1>2 DEF EvaluateCurrent, OpenCurrent, MarkAsDeadEnd, Open, Reopen
  <2>3. /\ real_g' = g'
        /\ \A n \in States : Reached(n)' /\ n # InitialState => real_g'[n] < Bound
    <3>1. CASE UNCHANGED <<g, real_g>>
      BY <3>1 DEF RealInv, Reached
    <3>2. CASE OpenInitial
      BY <1>1, <3>2 DEF OpenInitial, RealInv, Reached, SSTypeOK
    <3>3. CASE /\ current_predecessor_id # NoState
               /\ SetParent(current_state, current_predecessor_id, current_operator_id)
      <4>1. /\ current_operator_id \in Operators /\ current_predecessor_id \in States
            /\ current_real_g = real_g[current_predecessor_id] + Cost[current_operator_id]
            /\ current_real_g < Bound
        BY <1>1, <2>1, <3>3 DEF CurrentIsFresh, LazyTypeOK, LazyControl, RealInv
      <4> QED
        BY <1>1, <3>3, <4>1 DEF SetParent, RealInv, Reached, SSTypeOK
    <3> QED
      BY <2>2, <3>1, <3>2, <3>3
  <2>4. \A e \in open_list : real_g'[e.state] + Cost[e.op] < Bound
    <3> SUFFICES ASSUME NEW e \in open_list PROVE real_g'[e.state] + Cost[e.op] < Bound
      OBVIOUS
    <3>1. /\ e.state \in States /\ e.op \in Operators /\ Reached(e.state)
          /\ real_g[e.state] + Cost[e.op] < Bound
      BY <1>1 DEF LazyTypeOK, Edge, EdgesFromReached, RealInv
    <3>2. real_g'[e.state] \in Int /\ real_g[e.state] \in Int /\ real_g'[e.state] <= real_g[e.state]
      <4>1. SSTypeOK'
        BY LazyRefines, SSNextInv DEF LazyInv, SSInv
      <4> QED
        BY <1>1, <2>3, <3>1, <4>1 DEF SSTypeOK, RealInv
    <3> QED
      BY <1>1, <3>1, <3>2
  <2> QED
    BY <1>1, <2>1, <2>3, <2>4 DEF RealInv, enginevars
<1>3. CASE CloseCurrent
  <2>1. /\ UNCHANGED <<g, real_g, currentvars>> /\ InPhase("close")
        /\ current_real_g = real_g[current_state] /\ phase' # "evaluate"
        /\ Reached(current_state)
    BY <1>1, <1>3 DEF CloseCurrent, Close, EdgesInv, InPhase, LazyControl
  <2>2. \A e \in open_list' : real_g[e.state] + Cost[e.op] < Bound
    <3> SUFFICES ASSUME NEW e \in open_list' PROVE real_g[e.state] + Cost[e.op] < Bound
      OBVIOUS
    <3>1. CASE e \in open_list
      BY <3>1 DEF RealInv
    <3>2. CASE e \notin open_list
      <4>1. PICK x \in Successors(current_state) : BelowBound(x[1]) /\ e = NewEdge(x)
        BY <1>3, <3>2 DEF CloseCurrent, GenerateSuccessors
      <4> QED
        BY <2>1, <4>1 DEF NewEdge, BelowBound
    <3> QED
      BY <3>1, <3>2
  <2>3. solution' # NoState => solution' \in GoalStates \intersect States /\ Reached(solution')
    <3>1. solution' = solution \/ (solution' = current_state /\ current_state \in GoalStates)
      BY <1>3 DEF CloseCurrent, IsGoal, SetPlan, enginevars
    <3> QED
      BY <1>1, <2>1, <3>1 DEF RealInv
  <2> QED
    BY <2>1, <2>2, <2>3 DEF RealInv, Reached
<1>4. CASE Initialize \/ IgnoreCurrent \/ OpenListEmpty \/ Terminated \/ UNCHANGED vars
  <2>1. /\ UNCHANGED <<ssvars, open_list, currentvars, solution>>
        /\ phase' = "evaluate" => phase = "evaluate"
    BY <1>4 DEF Initialize, IgnoreCurrent, OpenListEmpty, Terminated, vars, enginevars
  <2> QED
    BY <2>1 DEF RealInv, Reached, ssvars, currentvars
<1>5. ASSUME NEW e \in open_list, FetchNextState(e) PROVE RealInv'
  BY <1>5 DEF FetchNextState, RealInv, Reached, ssvars
<1> QED
  BY <1>2, <1>3, <1>4, <1>5 DEF Next, LazyStep

LEMMA RealHolds ==
  ASSUME CostType = "NORMAL"
  PROVE  Spec => []RealInv
<1>1. Init => RealInv
  BY DEF Init, SSInit, EngineInit, RealInv, Reached
<1>2. LazyInv /\ RealGNat /\ EdgesInv /\ RealInv /\ [Next]_vars => RealInv'
  BY RealStep
<1> QED
  BY <1>1, <1>2, EdgesInit, EdgesStep, LazyInvariant, PTL DEF Spec

\* A plan that lazy search reports under real costs is cheaper than the bound,
\* although the bound is tested before the edge enters the open list.
THEOREM LazyPlanBoundTheorem ==
  ASSUME CostType = "NORMAL", Bound > 0 \/ InitialState \notin GoalStates
  PROVE  Spec => []PlanWithinBound
<1>1. ASSUME LazyInv, RealInv PROVE PlanWithinBound
  <2> SUFFICES ASSUME solution # NoState
      PROVE  PlanCost(TracePath(solution)) < Bound
    BY DEF PlanWithinBound, FoundPlan
  <2>1. solution \in GoalStates /\ solution \in States /\ Reached(solution)
    BY <1>1 DEF RealInv
  <2>2. real_g[InitialState] >= 0
    <3>1. Reached(InitialState)
      BY <1>1, <2>1, InitialReached DEF LazyInv
    <3> QED
      BY <1>1, <3>1 DEF RealInv, Reached
  <2>3. ASSUME NEW m \in States, Reached(m), m # InitialState
        PROVE  real_g[m] >= real_g[parent_state_id[m]] + Cost[creating_operator[m]]
    <3>1. parent_state_id[m] # NoState /\ creating_operator[m] \in Operators
      BY <1>1, <2>3 DEF LazyInv, SSInv, SSTypeOK, NodeConsistent
    <3>2. g[m] >= g[parent_state_id[m]] + Cost[creating_operator[m]]
      BY <1>1, <3>1 DEF LazyInv, SSInv, ParentTransition, AdjustedCost
    <3> QED
      BY <1>1, <3>2 DEF RealInv
  <2>4. /\ PlanCost(TracePath(solution)) \in Nat
        /\ PlanCost(TracePath(solution)) <= real_g[solution]
        /\ solution = InitialState => PlanCost(TracePath(solution)) = 0
    BY <1>1, <2>1, <2>2, <2>3, PlanCostBelow DEF LazyInv
  <2>5. CASE solution = InitialState
    BY <2>1, <2>4, <2>5, BoundAssumption
  <2>6. CASE solution # InitialState
    <3>1. real_g[solution] < Bound /\ real_g[solution] \in Int /\ Bound \in Int
      BY <1>1, <2>1, <2>6, BoundAssumption DEF RealInv, LazyInv, SSInv, SSTypeOK
    <3> QED
      BY <2>4, <3>1
  <2> QED
    BY <2>5, <2>6
<1> QED
  BY <1>1, RealHolds, LazyInvariant, PTL

=============================================================================
