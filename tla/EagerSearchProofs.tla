------------------------- MODULE EagerSearchProofs -------------------------
(***************************************************************************)
(* EagerSearch implements the search space contract, whatever the task,    *)
(* the evaluator, the open list order and the pruning method; with         *)
(* reopening, no node is lost and a failed search proves that there is no  *)
(* plan.                                                                   *)
(***************************************************************************)
EXTENDS EagerSearch, SearchSpaceProofs

USE DEF evalvars, EvaluationTypeOK

\* Where the control of the search is, and what it knows there.
Control ==
  /\ node # NoState => /\ status[node] = "CLOSED"
                       /\ search_status = "IN_PROGRESS"
                       /\ node \notin GoalStates
                       /\ pending \subseteq Successors(node)
  /\ node = NoState => pending = {}
  /\ \A e \in open_list : status[e.state] # "NEW"
  /\ search_status = "INITIALIZE" =>
       /\ node = NoState /\ open_list = {}
       /\ status[InitialState] = "NEW"
  /\ search_status = "FAILED" => open_list = {} /\ node = NoState
  /\ solution # NoState => search_status \in {"SOLVED", "TIMEOUT"}
  /\ \A n \in States : status[n] = "CLOSED" /\ n \in GoalStates => n = solution
  /\ search_status # "INITIALIZE" =>
       status[InitialState] # "NEW" \/ heuristic_cache[InitialState] = DEAD_END

EagerInv == EagerTypeOK /\ SSInv /\ Control /\ OpenNodesQueued

\* An evaluation returns an estimate of the evaluator or the cached one.
LEMMA EvaluateType ==
  ASSUME EagerTypeOK, NEW s \in States, NEW d \in SUBSET States,
         NEW v \in Estimates[s], Evaluate(s, d, v)
  PROVE  /\ v \in Nat \union {DEAD_END}
         /\ heuristic_cache' \in [States -> Nat \union {DEAD_END, NO_VALUE}]
         /\ dirty' \subseteq States
         /\ heuristic_cache'[s] = v
         /\ \A t \in States \ {s} : heuristic_cache'[t] = heuristic_cache[t]
BY EvaluationAssumption DEF EagerTypeOK, EvaluationTypeOK, Evaluate

\* The entry that insert adds is a well-formed entry for the node.
LEMMA InsertedType ==
  ASSUME NEW n \in States, NEW c \in Nat, NEW v \in Nat \union {DEAD_END}
  PROVE  /\ Inserted(n, c, v) \subseteq [key : Nat, state : States]
         /\ \A e \in Inserted(n, c, v) : e.state = n
         /\ v # DEAD_END => Entry(n, c, v) \in Inserted(n, c, v)
<1>1. CASE v = DEAD_END
  BY <1>1 DEF Inserted
<1>2. CASE v # DEAD_END
  <2>1. v \in Nat
    BY <1>2
  <2>2. GWeight * c \in Nat /\ HWeight * v \in Nat
    BY <2>1, EvaluationAssumption
  <2>3. Key(c, v) \in Nat
    BY <2>2 DEF Key
  <2> QED
    BY <1>2, <2>3 DEF Inserted, Entry
<1> QED
  BY <1>1, <1>2

\* Every step of eager search is a step of the contract, or leaves the search
\* space alone.
LEMMA EagerRefines ==
  ASSUME EagerTypeOK, SSInv, Control, [Next]_vars
  PROVE  [SSNext]_ssvars
<1>1. ASSUME NEW e \in open_list PROVE e.state \in States
  BY <1>1 DEF EagerTypeOK
<1>2. ASSUME NEW x \in pending, node # NoState
      PROVE  node \in States /\ x \in Successors(node) /\ Reached(node)
  BY <1>2 DEF Control, EagerTypeOK, SSInv, NodeConsistent
<1>3. CASE Initialize
  BY <1>3 DEF Initialize, SSNext
<1>4. CASE OpenListEmpty \/ Expanded \/ Terminated \/ UNCHANGED vars
  BY <1>4 DEF OpenListEmpty, Expanded, Terminated, vars, ssvars
<1>5. ASSUME NEW e \in open_list, Skip(e) \/ FoundDead(e) \/ Reinsert(e) \/ Expand(e)
      PROVE  [SSNext]_ssvars
  BY <1>1, <1>5 DEF Skip, FoundDead, Reinsert, Expand, SSNext, CloseSome, MarkSomeAsDeadEnd
<1>6. ASSUME NEW x \in pending, CutOff(x) \/ NothingNew(x)
      PROVE  [SSNext]_ssvars
  BY <1>6 DEF CutOff, NothingNew
<1>7. ASSUME NEW x \in pending, NewSuccessor(x)
      PROVE  [SSNext]_ssvars
  BY <1>2, <1>7, SuccessorTransition
  DEF NewSuccessor, NextSuccessor, SSNext, OpenSome, MarkSomeAsDeadEnd
<1>8. ASSUME NEW x \in pending, ReopenSuccessor(x) \/ UpdateSuccessor(x)
      PROVE  [SSNext]_ssvars
  BY <1>2, <1>8 DEF ReopenSuccessor, UpdateSuccessor, NextSuccessor,
     SSNext, ReopenSome, UpdateParentSome
<1> QED
  BY <1>3, <1>4, <1>5, <1>6, <1>7, <1>8 DEF Next, EagerStep


LEMMA EagerInitInv == Init => EagerInv
<1> SUFFICES ASSUME Init PROVE EagerInv
  OBVIOUS
<1>1. SSInv
  BY SSInitInv DEF Init
<1>2. EagerTypeOK
  BY <1>1 DEF Init, EagerTypeOK, EngineInit, EngineTypeOK, EvaluationInit,
     EvaluationTypeOK, SearchStatus, SSInv
<1>3. Control
  BY TaskAssumption DEF Init, SSInit, EngineInit, Control
<1>4. OpenNodesQueued
  BY DEF Init, SSInit, OpenNodesQueued
<1> QED
  BY <1>1, <1>2, <1>3, <1>4 DEF EagerInv

\* Every step keeps the types.
LEMMA TypeStep ==
  ASSUME EagerInv, [Next]_vars
  PROVE  EagerTypeOK'
<1> USE DEF EngineTypeOK, SearchStatus, StepReturns
<1>1. SSInv'
  BY EagerRefines, SSNextInv DEF EagerInv
<1>2. SSTypeOK' /\ EagerTypeOK /\ Control
  BY <1>1 DEF SSInv, EagerInv
<1>3. CASE Initialize
  <2>1. PICK h \in Estimates[InitialState] :
          Evaluate(InitialState, dirty, h) /\ open_list' = Inserted(InitialState, 0, h)
    BY <1>3 DEF Initialize
  <2>2. /\ heuristic_cache' \in [States -> Nat \union {DEAD_END, NO_VALUE}]
        /\ dirty' \subseteq States /\ h \in Nat \union {DEAD_END}
    BY <2>1, <1>2, TaskAssumption, EvaluateType DEF EagerTypeOK
  <2>3. open_list' \in SUBSET [key : Nat, state : States]
    BY <2>1, <2>2, TaskAssumption, InsertedType
  <2> QED
    BY <1>2, <1>3, <2>2, <2>3 DEF Initialize, EagerTypeOK
<1>4. CASE OpenListEmpty \/ Expanded \/ Terminated \/ UNCHANGED vars
  BY <1>2, <1>4 DEF OpenListEmpty, Expanded, Terminated, vars, enginevars, ssvars, EagerTypeOK
<1>5. ASSUME NEW e \in open_list, Skip(e)
      PROVE  EagerTypeOK'
  BY <1>2, <1>5 DEF Skip, EagerTypeOK, enginevars
<1>6. ASSUME NEW e \in open_list, FoundDead(e)
      PROVE  EagerTypeOK'
  BY <1>2, <1>6 DEF FoundDead, Evaluate, EagerTypeOK, enginevars
<1>7. ASSUME NEW e \in open_list, Reinsert(e)
      PROVE  EagerTypeOK'
  <2>1. PICK h \in Estimates[e.state] \ {DEAD_END} :
          /\ Evaluate(e.state, dirty, h)
          /\ open_list' = (open_list \ {e}) \union Inserted(e.state, g[e.state], h)
    BY <1>7 DEF Reinsert
  <2>2. e.state \in States /\ status[e.state] \in {"OPEN"}
    BY <1>2, <1>7 DEF EagerTypeOK, Reinsert, Control, SSTypeOK, NodeStatus
  <2>3. g[e.state] \in Nat
    BY <2>2, <1>2 DEF EagerInv, SSInv, NodeConsistent, SSTypeOK, EagerTypeOK, Reached
  <2>4. /\ heuristic_cache' \in [States -> Nat \union {DEAD_END, NO_VALUE}]
        /\ dirty' \subseteq States /\ h \in Nat \union {DEAD_END}
    BY <2>1, <2>2, <1>2, EvaluateType DEF EagerTypeOK
  <2>5. open_list' \in SUBSET [key : Nat, state : States]
    BY <2>1, <2>2, <2>3, <2>4, <1>2, InsertedType DEF EagerTypeOK
  <2> QED
    BY <1>2, <1>7, <2>4, <2>5 DEF Reinsert, EagerTypeOK, enginevars
<1>8. ASSUME NEW e \in open_list, Expand(e)
      PROVE  EagerTypeOK'
  <2>1. e.state \in States
    BY <1>8, <1>2 DEF EagerTypeOK
  <2>2. /\ heuristic_cache' \in [States -> Nat \union {DEAD_END, NO_VALUE}]
        /\ dirty' \subseteq States
    BY <1>2, <1>8, <2>1, EvaluationAssumption DEF Expand, Evaluate, EagerTypeOK, UpdateFValueStatistics
  <2>3. Successors(e.state) \subseteq Operators \X States
    BY DEF Successors
  <2>4. pending' \subseteq Operators \X States /\ node' \in States \union {NoState}
    BY <1>2, <1>8, <2>1, <2>3 DEF Expand, EagerTypeOK
  <2>5. search_status' \in SearchStatus /\ solution' \in States \union {NoState}
    BY <1>2, <1>8, <2>1 DEF Expand, EagerTypeOK, SetPlan, enginevars
  <2>6. open_list' \in SUBSET [key : Nat, state : States]
    BY <1>2, <1>8 DEF Expand, EagerTypeOK
  <2> QED
    BY <1>2, <2>2, <2>4, <2>5, <2>6 DEF EagerTypeOK
<1>9. ASSUME NEW x \in pending, NextSuccessor(x)
      PROVE  /\ pending' \subseteq Operators \X States
             /\ enginevars' = enginevars /\ node' = node
             /\ x[1] \in Operators /\ x[2] \in States /\ node \in States
             /\ g[node] + AdjustedCost(x[1]) \in Nat
             /\ NotifyTransition(x[2]) \subseteq States
  <2>1. x \in Successors(node) /\ node \in States /\ Reached(node)
    BY <1>2, <1>9 DEF Control, NextSuccessor, EagerTypeOK, EagerInv, SSInv, NodeConsistent
  <2>2. x[1] \in Operators /\ x[2] \in States /\ AdjustedCost(x[1]) \in Nat
    BY <2>1, SuccessorTransition, AdjustedCostNat
  <2>3. g[node] \in Nat
    BY <2>1, <1>2 DEF Reached, EagerTypeOK, SSTypeOK
  <2> QED
    BY <1>2, <1>9, <2>1, <2>2, <2>3 DEF NextSuccessor, EagerTypeOK, NotifyTransition
<1>10. ASSUME NEW x \in pending, CutOff(x) \/ NothingNew(x) \/ UpdateSuccessor(x)
       PROVE  EagerTypeOK'
  BY <1>2, <1>9, <1>10 DEF CutOff, NothingNew, UpdateSuccessor, EagerTypeOK, enginevars
<1>11. ASSUME NEW x \in pending, NextSuccessor(x),
              NEW h \in Estimates[x[2]], NEW c \in Nat,
              Evaluate(x[2], NotifyTransition(x[2]), h),
              open_list' = open_list \union Inserted(x[2], c, h)
       PROVE  EagerTypeOK'
  <2>1. /\ heuristic_cache' \in [States -> Nat \union {DEAD_END, NO_VALUE}]
        /\ dirty' \subseteq States /\ h \in Nat \union {DEAD_END}
    BY <1>2, <1>9, <1>11, EvaluateType
  <2>2. Inserted(x[2], c, h) \subseteq [key : Nat, state : States]
    BY <2>1, <1>9, <1>11, InsertedType
  <2>3. open_list' \in SUBSET [key : Nat, state : States]
    BY <2>2, <1>2, <1>11 DEF EagerTypeOK
  <2> QED
    BY <2>1, <2>3, <1>2, <1>9, <1>11 DEF EagerTypeOK, enginevars
<1>12. ASSUME NEW x \in pending, NewSuccessor(x)
       PROVE  EagerTypeOK'
  BY <1>9, <1>11, <1>12 DEF NewSuccessor
<1>13. ASSUME NEW x \in pending, ReopenSuccessor(x)
       PROVE  EagerTypeOK'
  <2>1. NextSuccessor(x) /\ g'[x[2]] = g[node] + AdjustedCost(x[1])
    BY <1>2, <1>9, <1>13 DEF ReopenSuccessor, Reopen, SetParent, SSTypeOK, EagerTypeOK
  <2>2. g'[x[2]] \in Nat
    BY <2>1, <1>9
  <2> QED
    BY <2>1, <2>2, <1>11, <1>13 DEF ReopenSuccessor
<1> QED
  BY <1>3, <1>4, <1>5, <1>6, <1>7, <1>8, <1>10, <1>12, <1>13 DEF Next, EagerStep

\* Every step keeps the control facts.
LEMMA ControlStep ==
  ASSUME EagerInv, [Next]_vars
  PROVE  Control'
<1> USE DEF StepReturns
<1>1. EagerTypeOK /\ SSInv /\ Control /\ OpenNodesQueued
  BY DEF EagerInv
<1>2. /\ status \in [States -> NodeStatus] /\ InitialState \in States /\ NoState \notin States
      /\ heuristic_cache \in [States -> Nat \union {DEAD_END, NO_VALUE}]
      /\ \A e \in open_list : e.state \in States
  BY <1>1, TaskAssumption DEF EagerTypeOK, SSTypeOK
<1>3. CASE Initialize
  <2>1. PICK h \in Estimates[InitialState] :
          /\ Evaluate(InitialState, dirty, h)
          /\ IF h = DEAD_END THEN UNCHANGED ssvars ELSE OpenInitial
          /\ open_list' = Inserted(InitialState, 0, h)
    BY <1>3 DEF Initialize
  <2>2. heuristic_cache'[InitialState] = h
    BY <2>1, <1>1, <1>2, EvaluateType DEF EagerTypeOK
  <2>3. solution = NoState /\ solution' = NoState /\ node' = NoState /\ pending' = {}
    BY <1>1, <1>3 DEF Initialize, Control
  <2>4. CASE h = DEAD_END
    BY <2>1, <2>2, <2>3, <2>4, <1>1, <1>3 DEF Control, Initialize, Inserted, ssvars
  <2>5. CASE h # DEAD_END
    <3>1. status' = [status EXCEPT ![InitialState] = "OPEN"]
      BY <2>1, <2>5 DEF OpenInitial
    <3>2. \A e \in open_list' : e.state = InitialState
      BY <2>1 DEF Inserted, Entry
    <3> QED
      BY <3>1, <3>2, <2>3, <1>1, <1>2, <1>3 DEF Control, Initialize
  <2> QED
    BY <2>4, <2>5
<1>4. CASE OpenListEmpty \/ Expanded \/ Terminated \/ UNCHANGED vars
  BY <1>1, <1>4 DEF OpenListEmpty, Expanded, Terminated, vars, enginevars, ssvars,
     Control, Popping
<1>5. ASSUME NEW e \in open_list, Skip(e) \/ FoundDead(e)
      PROVE  Control'
  <2>1. /\ search_status' = "IN_PROGRESS" /\ search_status = "IN_PROGRESS"
        /\ node = NoState /\ node' = NoState
        /\ pending' = pending /\ solution' = solution /\ open_list' \subseteq open_list
    BY <1>5 DEF Skip, FoundDead, RemoveMin, Popping, enginevars
  <2>2. \A n \in States : status'[n] = status[n] \/ status'[n] = "DEAD_END"
    BY <1>2, <1>5 DEF Skip, FoundDead, MarkAsDeadEnd, ssvars
  <2>3. heuristic_cache'[InitialState] = heuristic_cache[InitialState]
        \/ heuristic_cache'[InitialState] = DEAD_END
    BY <1>2, <1>5 DEF Skip, FoundDead, Evaluate
  <2> QED
    BY <2>1, <2>2, <2>3, <1>1, <1>2 DEF Control
<1>6. ASSUME NEW e \in open_list, Reinsert(e)
      PROVE  Control'
  <2>1. PICK h \in Estimates[e.state] \ {DEAD_END} :
          /\ Evaluate(e.state, dirty, h)
          /\ open_list' = (open_list \ {e}) \union Inserted(e.state, g[e.state], h)
    BY <1>6 DEF Reinsert
  <2>2. \A f \in open_list' : f \in open_list \/ f.state = e.state
    BY <2>1 DEF Inserted, Entry
  <2>3. status[e.state] # "NEW"
    BY <1>1 DEF Control
  <2>4. heuristic_cache'[InitialState] = heuristic_cache[InitialState] \/ e.state = InitialState
    BY <2>1, <1>2 DEF Evaluate
  <2>5. /\ search_status' = "IN_PROGRESS" /\ search_status = "IN_PROGRESS"
        /\ node = NoState /\ node' = NoState /\ status' = status
        /\ pending' = pending /\ solution' = solution
    BY <1>6 DEF Reinsert, RemoveMin, Popping, enginevars, ssvars
  <2> QED
    BY <2>2, <2>3, <2>4, <2>5, <1>1, <1>2 DEF Control
<1>7. ASSUME NEW e \in open_list, Expand(e)
      PROVE  Control'
  <2>1. /\ status[e.state] = "OPEN" /\ status' = [status EXCEPT ![e.state] = "CLOSED"]
        /\ open_list' = open_list \ {e} /\ e.state \in States
        /\ search_status = "IN_PROGRESS" /\ node = NoState
        /\ pending = {} /\ solution = NoState
    BY <1>1, <1>2, <1>7 DEF Expand, Close, RemoveMin, Popping, Control
  <2>2. heuristic_cache'[InitialState] = heuristic_cache[InitialState] \/ e.state = InitialState
    BY <1>2, <1>7, <2>1 DEF Expand, Evaluate, UpdateFValueStatistics
  <2>3. CASE IsGoal(e.state)
    BY <2>1, <2>2, <2>3, <1>1, <1>2, <1>7 DEF Expand, SetPlan, IsGoal, Control
  <2>4. CASE ~IsGoal(e.state)
    <3>1. node' = e.state /\ pending' \subseteq Successors(e.state)
      BY <2>4, <1>7 DEF Expand
    <3> QED
      BY <3>1, <2>1, <2>2, <2>4, <1>1, <1>2, <1>7 DEF Expand, IsGoal, Control, enginevars
  <2> QED
    BY <2>3, <2>4
<1>8. ASSUME NEW x \in pending, NextSuccessor(x)
      PROVE  /\ node \in States /\ x[2] \in States /\ x[1] \in Operators
             /\ status[node] = "CLOSED" /\ g[node] \in Nat /\ AdjustedCost(x[1]) \in Nat
             /\ search_status = "IN_PROGRESS" /\ node \notin GoalStates
             /\ pending' \subseteq Successors(node) /\ solution = NoState
             /\ search_status' = search_status /\ node' = node /\ solution' = solution
             /\ Improves(x[2], node, x[1]) => x[2] # node
  <2>1. /\ node \in States /\ x \in Successors(node) /\ Reached(node)
        /\ status[node] = "CLOSED"
        /\ search_status = "IN_PROGRESS" /\ node \notin GoalStates
        /\ pending \subseteq Successors(node) /\ solution = NoState
    BY <1>1, <1>8 DEF Control, NextSuccessor, EagerTypeOK, SSInv, NodeConsistent
  <2>2. x[1] \in Operators /\ x[2] \in States /\ AdjustedCost(x[1]) \in Nat
    BY <2>1, SuccessorTransition, AdjustedCostNat
  <2>3. g[node] \in Nat
    BY <2>1, <1>1 DEF Reached, EagerTypeOK, SSTypeOK
  <2> QED
    BY <1>8, <2>1, <2>2, <2>3 DEF NextSuccessor, enginevars, Improves
<1>9. ASSUME NEW x \in pending, CutOff(x) \/ NothingNew(x) \/ UpdateSuccessor(x)
      PROVE  Control'
  <2>1. /\ NextSuccessor(x) /\ status' = status /\ open_list' = open_list
        /\ heuristic_cache' = heuristic_cache
    BY <1>9 DEF CutOff, NothingNew, UpdateSuccessor, UpdateParent, ssvars
  <2> QED
    BY <2>1, <1>1, <1>2, <1>8 DEF Control
<1>10. ASSUME NEW x \in pending, NewSuccessor(x) \/ ReopenSuccessor(x)
       PROVE  Control'
  <2>1. NextSuccessor(x)
    BY <1>10 DEF NewSuccessor, ReopenSuccessor
  <2>2. /\ status' \in {[status EXCEPT ![x[2]] = v] : v \in {"OPEN", "DEAD_END"}}
        /\ x[2] # node
    BY <2>1, <1>8, <1>10 DEF NewSuccessor, ReopenSuccessor, Open, Reopen, MarkAsDeadEnd
  <2>3. \A e \in open_list' : e \in open_list \/ (e.state = x[2] /\ status'[e.state] # "NEW")
    BY <2>1, <2>2, <1>2, <1>8, <1>10 DEF NewSuccessor, ReopenSuccessor, Inserted, Entry
  <2>4. heuristic_cache'[InitialState] = heuristic_cache[InitialState] \/ x[2] = InitialState
    BY <1>2, <1>10 DEF NewSuccessor, ReopenSuccessor, Evaluate
  <2>5. \A n \in States : /\ status'[n] = "CLOSED" => status[n] = "CLOSED"
                          /\ status'[n] = "NEW" => status[n] = "NEW" /\ n # x[2]
    BY <2>2, <1>2, <1>8, <2>1
  <2> QED
    BY <2>1, <2>2, <2>3, <2>4, <2>5, <1>1, <1>2, <1>8 DEF Control
<1> QED
  BY <1>3, <1>4, <1>5, <1>6, <1>7, <1>9, <1>10 DEF Next, EagerStep


\* No step loses an open node.
LEMMA QueuedStep ==
  ASSUME EagerInv, [Next]_vars
  PROVE  OpenNodesQueued'
<1>1. EagerTypeOK /\ SSInv /\ Control /\ OpenNodesQueued
  BY DEF EagerInv
<1>2. /\ status \in [States -> NodeStatus] /\ InitialState \in States
      /\ heuristic_cache \in [States -> Nat \union {DEAD_END, NO_VALUE}]
      /\ \A e \in open_list : e.state \in States
  BY <1>1, TaskAssumption DEF EagerTypeOK, SSTypeOK
<1>3. SUFFICES ASSUME NEW n \in States, status'[n] = "OPEN"
      PROVE  \/ heuristic_cache'[n] = DEAD_END
             \/ ~ReopenClosed /\ \E e \in open_list' : e.state = n
             \/ Entry(n, g'[n], heuristic_cache'[n]) \in open_list'
  BY DEF OpenNodesQueued, Queued, Entry, Key
\* A node whose evaluation is inserted is queued with its present key.
<1>4. ASSUME NEW m \in States, NEW h \in Estimates[m], NEW d, NEW c, NEW old,
             Evaluate(m, d, h), open_list' = old \union Inserted(m, c, h), g'[m] = c, n = m
      PROVE  heuristic_cache'[n] = DEAD_END \/ Entry(n, g'[n], heuristic_cache'[n]) \in open_list'
  BY <1>2, <1>4 DEF Evaluate, Inserted
\* A node that the step leaves alone stays queued if its entries stay.
<1>5. ASSUME status[n] = "OPEN", heuristic_cache'[n] = heuristic_cache[n], g'[n] = g[n],
             \A e \in open_list : e.state = n => e \in open_list'
      PROVE  \/ heuristic_cache'[n] = DEAD_END
             \/ ~ReopenClosed /\ \E e \in open_list' : e.state = n
             \/ Entry(n, g'[n], heuristic_cache'[n]) \in open_list'
  <2>1. Entry(n, g[n], heuristic_cache[n]).state = n
    BY DEF Entry
  <2> QED
    BY <2>1, <1>1, <1>5 DEF OpenNodesQueued, Queued
<1>6. CASE Initialize
  <2>1. PICK h \in Estimates[InitialState] :
          /\ Evaluate(InitialState, dirty, h)
          /\ IF h = DEAD_END THEN UNCHANGED ssvars ELSE OpenInitial
          /\ open_list' = {} \union Inserted(InitialState, 0, h)
    BY <1>6 DEF Initialize
  <2>2. CASE n = InitialState
    <3>1. CASE h = DEAD_END
      BY <2>1, <2>2, <3>1, <1>2 DEF Evaluate
    <3>2. CASE h # DEAD_END
      <4>1. g'[n] = 0
        BY <2>1, <2>2, <3>2, <1>1 DEF OpenInitial, EagerTypeOK, SSTypeOK
      <4> QED
        BY <4>1, <2>1, <2>2, <1>2, <1>4
    <3> QED
      BY <3>1, <3>2
  <2>3. CASE n # InitialState
    <3>1. status[n] = "OPEN" /\ heuristic_cache'[n] = heuristic_cache[n] /\ g'[n] = g[n]
      BY <2>1, <2>3, <1>1, <1>2, <1>3 DEF OpenInitial, ssvars, Evaluate, EagerTypeOK, SSTypeOK
    <3> QED
      BY <3>1, <1>1, <1>5, <1>6 DEF Initialize, Control
  <2> QED
    BY <2>2, <2>3
<1>7. CASE OpenListEmpty \/ Expanded \/ Terminated \/ UNCHANGED vars
  BY <1>3, <1>5, <1>7 DEF OpenListEmpty, Expanded, Terminated, vars, enginevars, ssvars
<1>8. ASSUME NEW e \in open_list, Skip(e) \/ FoundDead(e) \/ Expand(e)
      PROVE  \/ heuristic_cache'[n] = DEAD_END
             \/ ~ReopenClosed /\ \E f \in open_list' : f.state = n
             \/ Entry(n, g'[n], heuristic_cache'[n]) \in open_list'
  <2>1. /\ status[n] = "OPEN" /\ g'[n] = g[n] /\ n # e.state
        /\ open_list' = open_list \ {e}
    BY <1>2, <1>3, <1>8 DEF Skip, FoundDead, Expand, Close, MarkAsDeadEnd, ssvars
  <2>2. heuristic_cache'[n] = heuristic_cache[n]
    BY <2>1, <1>2, <1>8 DEF Skip, FoundDead, Expand, Evaluate, UpdateFValueStatistics
  <2> QED
    BY <2>1, <2>2, <1>5
<1>9. ASSUME NEW e \in open_list, Reinsert(e)
      PROVE  \/ heuristic_cache'[n] = DEAD_END
             \/ ~ReopenClosed /\ \E f \in open_list' : f.state = n
             \/ Entry(n, g'[n], heuristic_cache'[n]) \in open_list'
  <2>1. PICK h \in Estimates[e.state] \ {DEAD_END} :
          /\ Evaluate(e.state, dirty, h)
          /\ open_list' = (open_list \ {e}) \union Inserted(e.state, g[e.state], h)
    BY <1>9 DEF Reinsert
  <2>2. status' = status /\ g' = g
    BY <1>9 DEF Reinsert, ssvars
  <2>3. CASE n = e.state
    BY <2>1, <2>2, <2>3, <1>4
  <2>4. CASE n # e.state
    BY <2>1, <2>2, <2>4, <1>2, <1>3, <1>5 DEF Evaluate
  <2> QED
    BY <2>3, <2>4
<1>10. ASSUME NEW x \in pending, CutOff(x) \/ NothingNew(x)
       PROVE  \/ heuristic_cache'[n] = DEAD_END
              \/ ~ReopenClosed /\ \E f \in open_list' : f.state = n
              \/ Entry(n, g'[n], heuristic_cache'[n]) \in open_list'
  BY <1>3, <1>5, <1>10 DEF CutOff, NothingNew, ssvars
<1>11. ASSUME NEW x \in pending, UpdateSuccessor(x)
       PROVE  \/ heuristic_cache'[n] = DEAD_END
              \/ ~ReopenClosed /\ \E f \in open_list' : f.state = n
  <2>1. status' = status /\ open_list' = open_list /\ heuristic_cache' = heuristic_cache
    BY <1>11 DEF UpdateSuccessor, UpdateParent
  <2>3. ~ReopenClosed
    BY <1>11 DEF UpdateSuccessor
  <2>2. Entry(n, g[n], heuristic_cache[n]).state = n
    BY DEF Entry
  <2> QED
    BY <2>1, <2>2, <2>3, <1>1, <1>3 DEF OpenNodesQueued, Queued
<1>12. ASSUME NEW x \in pending, NewSuccessor(x) \/ ReopenSuccessor(x)
       PROVE  \/ heuristic_cache'[n] = DEAD_END
              \/ ~ReopenClosed /\ \E f \in open_list' : f.state = n
              \/ Entry(n, g'[n], heuristic_cache'[n]) \in open_list'
  <2>1. x[2] \in States /\ node \in States /\ g \in [States -> Int]
    BY <1>1, <1>12 DEF EagerTypeOK, SSTypeOK, NewSuccessor, ReopenSuccessor, NextSuccessor
  <2>2. CASE n = x[2]
    <3>1. CASE NewSuccessor(x)
      <4>1. PICK h \in Estimates[x[2]] :
              /\ Evaluate(x[2], NotifyTransition(x[2]), h)
              /\ IF h = DEAD_END THEN MarkAsDeadEnd(x[2]) ELSE Open(x[2], node, x[1])
              /\ open_list' = open_list \union Inserted(x[2], g[node] + AdjustedCost(x[1]), h)
        BY <3>1 DEF NewSuccessor
      <4>2. Open(x[2], node, x[1])
        BY <4>1, <2>1, <2>2, <1>2, <1>3 DEF MarkAsDeadEnd
      <4>3. g'[x[2]] = g[node] + AdjustedCost(x[1])
        BY <4>2, <2>1 DEF Open, SetParent
      <4> QED
        BY <4>1, <4>3, <2>1, <2>2, <1>4
    <3>2. CASE ReopenSuccessor(x)
      BY <3>2, <2>1, <2>2, <1>4 DEF ReopenSuccessor
    <3> QED
      BY <1>12, <3>1, <3>2
  <2>3. CASE n # x[2]
    <3>1. status[n] = "OPEN" /\ g'[n] = g[n] /\ heuristic_cache'[n] = heuristic_cache[n]
          /\ open_list \subseteq open_list'
      BY <2>1, <2>3, <1>2, <1>3, <1>12
      DEF NewSuccessor, ReopenSuccessor, Open, Reopen, SetParent, MarkAsDeadEnd, Evaluate
    <3> QED
      BY <3>1, <1>5
  <2> QED
    BY <2>2, <2>3
<1> QED
  BY <1>6, <1>7, <1>8, <1>9, <1>10, <1>11, <1>12 DEF Next, EagerStep

LEMMA EagerStepInv == EagerInv /\ [Next]_vars => EagerInv'
<1> SUFFICES ASSUME EagerInv, [Next]_vars PROVE EagerInv'
  OBVIOUS
<1>1. SSInv'
  BY EagerRefines, SSNextInv DEF EagerInv
<1> QED
  BY <1>1, TypeStep, ControlStep, QueuedStep DEF EagerInv

\* The types, the search space invariants, the control facts and the open
\* list invariant hold together in every behaviour.
THEOREM EagerInvariant == Spec => []EagerInv
<1> QED
  BY EagerInitInv, EagerStepInv, PTL DEF Spec

\* Type correctness of eager search.
THEOREM EagerTypes == Spec => []EagerTypeOK
<1>1. EagerInv => EagerTypeOK
  BY DEF EagerInv
<1> QED
  BY <1>1, EagerInvariant, PTL

\* Eager search respects the contract of the search space, so all that is
\* proved of SSSpec holds of it: it implements the abstract specification.
THEOREM EagerImplementsContract == Spec => SSSpec
<1>1. Init => SSInit
  BY DEF Init
<1>2. EagerInv /\ [Next]_vars => [SSNext]_ssvars
  BY EagerRefines DEF EagerInv
<1> QED
  BY <1>1, <1>2, EagerInvariant, PTL DEF Spec, SSSpec

\* No open node is lost, for every task, evaluator and open list order.
THEOREM OpenNodesTheorem == Spec => []OpenNodesQueued
<1>1. EagerInv => OpenNodesQueued
  BY DEF EagerInv
<1> QED
  BY <1>1, EagerInvariant, PTL


\* With reopening, a closed node has all its operators applied, except those
\* still pending.  Lowering the g of a node closes no gap: the node is open
\* again then, and its operators will be applied anew.
LEMMA ExpandedStep ==
  ASSUME EagerInv, ReopenClosed, ClosedNodesExpanded, [Next]_vars
  PROVE  ClosedNodesExpanded'
<1>1. EagerTypeOK /\ SSInv /\ Control
  BY DEF EagerInv
<1>2. /\ status \in [States -> NodeStatus] /\ g \in [States -> Int]
      /\ real_g \in [States -> Int]
      /\ \A e \in open_list : e.state \in States
  BY <1>1 DEF EagerTypeOK, SSTypeOK
<1>3. SUFFICES ASSUME ~Pruning,
                      NEW n \in States, status'[n] = "CLOSED", n # solution',
                      NEW y \in Successors(n)
      PROVE  Settled(n, y)' \/ (n = node' /\ y \in pending')
  BY DEF ClosedNodesExpanded
<1>4. y[1] \in Operators /\ y[2] \in States /\ AdjustedCost(y[1]) \in Nat
  BY SuccessorTransition, AdjustedCostNat
\* A node closed before keeps its g and real_g; what was settled stays so
\* when no g grows and no node becomes new.
<1>5. ASSUME status[n] = "CLOSED", n # solution, g'[n] = g[n], real_g'[n] = real_g[n],
             g'[y[2]] \in Int, g'[y[2]] <= g[y[2]] \/ status[y[2]] = "NEW",
             status[y[2]] # "NEW" => status'[y[2]] # "NEW",
             status[y[2]] = "DEAD_END" => status'[y[2]] = "DEAD_END",
             n = node /\ y \in pending => n = node' /\ y \in pending'
      PROVE  Settled(n, y)' \/ (n = node' /\ y \in pending')
  <2>1. Settled(n, y) \/ (n = node /\ y \in pending)
    BY <1>3, <1>5 DEF ClosedNodesExpanded
  <2>2. CASE n = node /\ y \in pending
    BY <1>5, <2>2
  <2>3. CASE Settled(n, y)
    BY <1>2, <1>4, <1>5, <2>3 DEF Settled, Improves
  <2> QED
    BY <2>1, <2>2, <2>3
<1>6. CASE Initialize
  <2>1. /\ UNCHANGED <<status, g, real_g>>
           \/ /\ status' = [status EXCEPT ![InitialState] = "OPEN"]
              /\ g' = [g EXCEPT ![InitialState] = 0]
              /\ real_g' = [real_g EXCEPT ![InitialState] = 0]
        /\ status[InitialState] = "NEW" /\ InitialState \in States
        /\ solution' = solution /\ pending' = pending /\ node' = node
    BY <1>1, <1>6, TaskAssumption DEF Initialize, Control, ssvars, OpenInitial
  <2>2. status[n] = "CLOSED" /\ g'[n] = g[n] /\ real_g'[n] = real_g[n]
    BY <2>1, <1>2, <1>3
  <2>3. /\ g'[y[2]] \in Int /\ (g'[y[2]] <= g[y[2]] \/ status[y[2]] = "NEW")
        /\ status[y[2]] # "NEW" => status'[y[2]] = status[y[2]]
    BY <2>1, <1>2, <1>4
  <2> QED
    BY <2>1, <2>2, <2>3, <1>3, <1>5
<1>7. CASE OpenListEmpty \/ Expanded \/ Terminated \/ UNCHANGED vars
  <2>1. /\ UNCHANGED <<status, g, real_g, pending, solution>>
        /\ node' = node \/ pending = {}
    BY <1>7 DEF OpenListEmpty, Expanded, Terminated, vars, enginevars, ssvars
  <2> QED
    BY <2>1, <1>2, <1>3, <1>4, <1>5
<1>8. ASSUME NEW e \in open_list, Skip(e) \/ FoundDead(e) \/ Reinsert(e)
      PROVE  Settled(n, y)' \/ (n = node' /\ y \in pending')
  <2>1. /\ UNCHANGED <<g, real_g, pending, node, solution>>
        /\ status' = status \/ status' = [status EXCEPT ![e.state] = "DEAD_END"]
        /\ status[e.state] # "NEW"
    BY <1>1, <1>8 DEF Skip, FoundDead, Reinsert, MarkAsDeadEnd, enginevars, ssvars, Control
  <2>2. status[n] = "CLOSED"
    BY <2>1, <1>2, <1>3
  <2>3. /\ status[y[2]] # "NEW" => status'[y[2]] # "NEW"
        /\ status[y[2]] = "DEAD_END" => status'[y[2]] = "DEAD_END"
    BY <2>1, <1>2, <1>4
  <2> QED
    BY <2>1, <2>2, <2>3, <1>2, <1>3, <1>4, <1>5
<1>9. ASSUME NEW e \in open_list, Expand(e)
      PROVE  Settled(n, y)' \/ (n = node' /\ y \in pending')
  <2>1. /\ UNCHANGED <<g, real_g>> /\ node = NoState /\ solution = NoState
        /\ status[e.state] = "OPEN" /\ status' = [status EXCEPT ![e.state] = "CLOSED"]
        /\ NoState \notin States
    BY <1>1, <1>9, TaskAssumption DEF Expand, Close, RemoveMin, Popping, Control
  <2>2. CASE n = e.state
    BY <2>1, <2>2, <1>3, <1>9 DEF Expand, SetPlan
  <2>3. CASE n # e.state
    <3>1. status[n] = "CLOSED" /\ n # solution
      BY <2>1, <2>3, <1>2, <1>3
    <3>2. /\ status[y[2]] # "NEW" => status'[y[2]] # "NEW"
          /\ status[y[2]] = "DEAD_END" => status'[y[2]] = "DEAD_END"
      BY <2>1, <1>2, <1>4
    <3> QED
      BY <2>1, <3>1, <3>2, <1>2, <1>4, <1>5
  <2> QED
    BY <2>2, <2>3
<1>10. ASSUME NEW x \in pending, NextSuccessor(x)
       PROVE  /\ node \in States /\ x \in Successors(node) /\ status[node] = "CLOSED"
              /\ x[1] \in Operators /\ x[2] \in States /\ AdjustedCost(x[1]) \in Nat
              /\ node' = node /\ solution' = solution /\ pending' = pending \ {x}
              /\ g[node] \in Nat
  <2>1. node \in States /\ x \in Successors(node) /\ status[node] = "CLOSED" /\ Reached(node)
    BY <1>1, <1>10 DEF Control, NextSuccessor, EagerTypeOK, SSInv, NodeConsistent
  <2>2. x[1] \in Operators /\ x[2] \in States /\ AdjustedCost(x[1]) \in Nat
    BY <2>1, SuccessorTransition, AdjustedCostNat
  <2>3. g[node] \in Nat
    BY <2>1, <1>2 DEF Reached
  <2> QED
    BY <2>1, <2>2, <2>3, <1>10 DEF NextSuccessor, enginevars
<1>11. ASSUME NEW x \in pending, CutOff(x) \/ NothingNew(x)
       PROVE  Settled(n, y)' \/ (n = node' /\ y \in pending')
  <2>1. NextSuccessor(x) /\ UNCHANGED <<status, g, real_g>>
    BY <1>11 DEF CutOff, NothingNew, ssvars
  <2>2. CASE n = node /\ y = x
    BY <2>1, <2>2, <1>11 DEF CutOff, NothingNew, OverBound, Settled, Improves
  <2>3. CASE ~(n = node /\ y = x)
    BY <2>1, <2>3, <1>2, <1>3, <1>4, <1>5, <1>10
  <2> QED
    BY <2>2, <2>3
<1>12. ASSUME NEW x \in pending, UpdateSuccessor(x)
       PROVE  FALSE
  BY <1>12 DEF UpdateSuccessor
<1>13. ASSUME NEW x \in pending, NewSuccessor(x) \/ ReopenSuccessor(x)
       PROVE  Settled(n, y)' \/ (n = node' /\ y \in pending')
  <2>1. NextSuccessor(x)
    BY <1>13 DEF NewSuccessor, ReopenSuccessor
  <2>2. \/ /\ status[x[2]] = "NEW"
           /\ status' = [status EXCEPT ![x[2]] = "DEAD_END"] /\ UNCHANGED <<g, real_g>>
        \/ /\ status' = [status EXCEPT ![x[2]] = "OPEN"]
           /\ SetParent(x[2], node, x[1])
           /\ status[x[2]] = "NEW" \/ (status[x[2]] # "DEAD_END" /\ Improves(x[2], node, x[1]))
    BY <1>13 DEF NewSuccessor, ReopenSuccessor, MarkAsDeadEnd, Open, Reopen
  <2>3. /\ n # x[2] /\ x[2] # node /\ status[n] = "CLOSED"
    BY <2>1, <2>2, <1>2, <1>3, <1>10 DEF Improves
  <2>4. g'[n] = g[n] /\ real_g'[n] = real_g[n]
    BY <2>1, <2>2, <2>3, <1>2, <1>10 DEF SetParent
  <2>5. CASE n = node /\ y = x
    BY <2>1, <2>2, <2>3, <2>4, <2>5, <1>2, <1>10 DEF SetParent, Settled, Improves
  <2>6. CASE ~(n = node /\ y = x)
    <3>1. /\ g'[y[2]] \in Int /\ (g'[y[2]] <= g[y[2]] \/ status[y[2]] = "NEW")
          /\ status[y[2]] # "NEW" => status'[y[2]] # "NEW"
          /\ status[y[2]] = "DEAD_END" => status'[y[2]] = "DEAD_END"
      BY <2>1, <2>2, <1>2, <1>4, <1>10 DEF SetParent, Improves
    <3> QED
      BY <2>1, <2>3, <2>4, <2>6, <3>1, <1>3, <1>5, <1>10
  <2> QED
    BY <2>5, <2>6
<1> QED
  BY <1>6, <1>7, <1>8, <1>9, <1>11, <1>12, <1>13 DEF Next, EagerStep

\* With reopening, every operator of a closed node has been applied, is
\* pending, or leads beyond the bound: nothing reachable is overlooked.
THEOREM ClosedNodesTheorem ==
  ASSUME ReopenClosed
  PROVE  Spec => []ClosedNodesExpanded
<1>1. Init => ClosedNodesExpanded
  BY DEF Init, SSInit, ClosedNodesExpanded
<1>2. EagerInv /\ ClosedNodesExpanded /\ [Next]_vars => ClosedNodesExpanded'
  BY ExpandedStep
<1> QED
  BY <1>1, <1>2, EagerInvariant, PTL DEF Spec

\* A failed search with reopening leaves a proof behind that the task has no
\* plan below the bound: a set of closed states without goals that is left
\* only to dead ends and beyond the bound.
THEOREM FailureTheorem ==
  ASSUME ReopenClosed
  PROVE  Spec => []FailureProvesUnsolvable
<1>1. EagerInv /\ ClosedNodesExpanded => FailureProvesUnsolvable
  <2> DEFINE Dead(n) == status[n] = "DEAD_END" \/ heuristic_cache[n] = DEAD_END
  <2> SUFFICES ASSUME EagerInv, ClosedNodesExpanded, search_status = "FAILED", ~Pruning
      PROVE  /\ status[InitialState] = "CLOSED" \/ Dead(InitialState)
             /\ \A t \in Transitions :
                  t[1] \in States /\ t[3] \in States /\ status[t[1]] = "CLOSED" =>
                    \/ status[t[3]] = "CLOSED" \/ Dead(t[3])
                    \/ real_g[t[1]] + Cost[t[2]] >= Bound
             /\ \A n \in States : status[n] = "CLOSED" => n \notin GoalStates
    <3> SUFFICES \A t \in Transitions : t[1] \in States /\ t[3] \in States
      BY TaskAssumption DEF FailureProvesUnsolvable
    <3> QED
      BY TaskAssumption
  <2>1. /\ EagerTypeOK /\ SSInv /\ Control /\ OpenNodesQueued
        /\ status \in [States -> NodeStatus] /\ g \in [States -> Int]
        /\ real_g \in [States -> Int]
    BY DEF EagerInv, EagerTypeOK, SSTypeOK
  <2>2. open_list = {} /\ solution = NoState /\ node = NoState
    BY <2>1 DEF Control
  <2>3. \A n \in States : status[n] \in {"NEW", "CLOSED"} \/ Dead(n)
    BY <2>1, <2>2 DEF OpenNodesQueued, Queued, NodeStatus
  <2>4. status[InitialState] = "CLOSED" \/ Dead(InitialState)
    BY <2>1, <2>3, TaskAssumption DEF Control
  <2>5. ASSUME NEW t \in Transitions, status[t[1]] = "CLOSED"
        PROVE  \/ status[t[3]] = "CLOSED" \/ Dead(t[3])
               \/ real_g[t[1]] + Cost[t[2]] >= Bound
    <3>1. /\ t[1] \in States /\ t[2] \in Operators /\ t[3] \in States
          /\ t = <<t[1], t[2], t[3]>>
      BY TaskAssumption
    <3>2. <<t[2], t[3]>> \in Successors(t[1])
      BY <3>1 DEF Successors
    <3>3. Settled(t[1], <<t[2], t[3]>>)
      BY <2>2, <2>5, <3>1, <3>2, TaskAssumption DEF ClosedNodesExpanded
    <3>4. real_g[t[1]] \in Int /\ Cost[t[2]] \in Nat /\ Bound \in Nat
      BY <2>1, <3>1, CostAssumption, BoundAssumption
    <3> QED
      BY <2>3, <3>1, <3>3, <3>4 DEF Settled
  <2>6. \A n \in States : status[n] = "CLOSED" => n \notin GoalStates
    BY <2>1, <2>2, TaskAssumption DEF Control
  <2> QED
    BY <2>4, <2>5, <2>6
<1> QED
  BY <1>1, EagerInvariant, ClosedNodesTheorem, PTL


\* With real costs g and real_g agree, and no step opens a node at or above
\* the bound.
RealInv ==
  /\ real_g = g
  /\ \A n \in States : Reached(n) /\ n # InitialState => real_g[n] < Bound

LEMMA RealStep ==
  ASSUME EagerInv, CostType = "NORMAL", RealInv, [Next]_vars
  PROVE  RealInv'
<1>1. /\ SSTypeOK /\ Control /\ InitialState \in States
      /\ \A o \in Operators : AdjustedCost(o) = Cost[o]
  BY TaskAssumption DEF EagerInv, SSInv, AdjustedCost
<1>2. CASE UNCHANGED <<g, real_g>>
  BY <1>2 DEF RealInv, Reached
<1>3. CASE OpenInitial
  BY <1>1, <1>3 DEF OpenInitial, RealInv, Reached, SSTypeOK
<1>4. ASSUME NEW x \in pending, node # NoState, SetParent(x[2], node, x[1]), ~OverBound(x[1])
      PROVE  RealInv'
  <2>1. x[1] \in Operators /\ x[2] \in States /\ node \in States
    BY <1>1, <1>4, SuccessorTransition DEF Control, EagerInv, EagerTypeOK
  <2>2. real_g[node] + Cost[x[1]] < Bound
    BY <1>1, <1>4, <2>1, CostAssumption, BoundAssumption DEF OverBound, SSTypeOK
  <2> QED
    BY <1>1, <1>4, <2>1, <2>2 DEF SetParent, RealInv, Reached, SSTypeOK
<1>5. CASE Initialize
  BY <1>2, <1>3, <1>5 DEF Initialize, ssvars
<1>6. ASSUME NEW x \in pending, NewSuccessor(x) \/ ReopenSuccessor(x) \/ UpdateSuccessor(x)
      PROVE  RealInv'
  BY <1>2, <1>4, <1>6 DEF NewSuccessor, ReopenSuccessor, UpdateSuccessor, NextSuccessor,
     MarkAsDeadEnd, Open, Reopen, UpdateParent
<1>7. ASSUME NEW x \in pending, CutOff(x) \/ NothingNew(x)
      PROVE  RealInv'
  BY <1>2, <1>7 DEF CutOff, NothingNew, ssvars
<1>8. ASSUME NEW e \in open_list, Skip(e) \/ FoundDead(e) \/ Reinsert(e) \/ Expand(e)
      PROVE  RealInv'
  BY <1>2, <1>8 DEF Skip, FoundDead, Reinsert, Expand, MarkAsDeadEnd, Close, ssvars
<1>9. CASE OpenListEmpty \/ Expanded \/ Terminated \/ UNCHANGED vars
  BY <1>2, <1>9 DEF OpenListEmpty, Expanded, Terminated, vars, ssvars
<1> QED
  BY <1>5, <1>6, <1>7, <1>8, <1>9 DEF Next, EagerStep

LEMMA RealHolds ==
  ASSUME CostType = "NORMAL"
  PROVE  Spec => []RealInv
<1>1. Init => RealInv
  BY DEF Init, SSInit, RealInv, Reached
<1>2. EagerInv /\ RealInv /\ [Next]_vars => RealInv'
  BY RealStep
<1> QED
  BY <1>1, <1>2, EagerInvariant, PTL DEF Spec

\* With cost type NORMAL every path that eager search remembers costs less
\* than the bound, with reopening and with mere parent updates alike.
THEOREM BoundTheorem == Spec => []RealCostsBelowBound
<1>1. CASE CostType = "NORMAL"
  <2>1. Spec => []RealInv
    BY <1>1, RealHolds
  <2>2. EagerInv /\ RealInv => RealCostsBelowBound
    <3> SUFFICES ASSUME EagerInv, RealInv, NEW n \in States, Reached(n), n # InitialState
        PROVE  /\ real_g[n] < Bound
               /\ real_g[n] >= real_g[parent_state_id[n]] + Cost[creating_operator[n]]
      BY DEF RealCostsBelowBound
    <3>1. parent_state_id[n] # NoState /\ creating_operator[n] \in Operators
      BY DEF EagerInv, SSInv, SSTypeOK, NodeConsistent
    <3>2. g[n] >= g[parent_state_id[n]] + Cost[creating_operator[n]]
      BY <1>1, <3>1 DEF EagerInv, SSInv, ParentTransition, AdjustedCost
    <3> QED
      BY <3>2 DEF RealInv
  <2> QED
    BY <2>1, <2>2, EagerInvariant, PTL
<1>2. CASE CostType # "NORMAL"
  <2>1. RealCostsBelowBound
    BY <1>2 DEF RealCostsBelowBound
  <2> QED
    BY <2>1, PTL
<1> QED
  BY <1>1, <1>2

\* The plan of every node, whatever reopening happened on the way, is a path
\* of the task; in particular the one of the goal node that ends the search.
THEOREM EagerPlansTheorem == Spec => []TracedPlansExecute
<1>1. EagerInv => TracedPlansExecute
  BY TracedPlanExecutes DEF EagerInv
<1> QED
  BY <1>1, EagerInvariant, PTL

\* The solution is an opened goal node.
SolutionInv ==
  solution # NoState => solution \in GoalStates \intersect States /\ Reached(solution)

LEMMA SolutionStep ==
  ASSUME EagerInv, SolutionInv, [Next]_vars
  PROVE  SolutionInv'
<1>1. /\ SSInv /\ Control /\ EagerTypeOK
      /\ \A n \in States : Reached(n) => Reached(n)'
  <2>1. [SSNext]_ssvars
    BY EagerRefines DEF EagerInv
  <2>2. CASE SSNext
    <3>1. SSInv' /\ SSInv
      BY <2>1, SSNextInv DEF EagerInv
    <3>2. \A n \in States : Reached(n) => 0 <= g'[n]
      BY <2>2, <3>1, GStep
    <3>3. \A n \in States : g'[n] \in Int
      BY <3>1 DEF SSInv, SSTypeOK
    <3> QED
      BY <3>2, <3>3 DEF Reached, EagerInv
  <2>3. CASE UNCHANGED ssvars
    BY <2>3 DEF ssvars, Reached, EagerInv
  <2> QED
    BY <2>1, <2>2, <2>3
<1>2. CASE solution' = solution
  BY <1>1, <1>2 DEF SolutionInv
<1>3. ASSUME NEW e \in open_list, Expand(e), solution' # solution
      PROVE  SolutionInv'
  <2>1. IsGoal(e.state) /\ solution' = e.state /\ status[e.state] = "OPEN" /\ e.state \in States
    BY <1>1, <1>3 DEF Expand, SetPlan, enginevars, Close, EagerTypeOK
  <2> QED
    BY <1>1, <2>1 DEF IsGoal, SolutionInv, SSInv, NodeConsistent
<1>4. solution' # solution => \E e \in open_list : Expand(e)
  BY DEF Next, EagerStep, Initialize, OpenListEmpty, Skip, FoundDead, Reinsert,
     CutOff, NothingNew, NewSuccessor, ReopenSuccessor, UpdateSuccessor, NextSuccessor,
     Expanded, Terminated, vars, enginevars
<1> QED
  BY <1>2, <1>3, <1>4

\* A plan that eager search reports under real costs is cheaper than the
\* bound.  The empty plan of an initial state that is a goal needs a bound
\* that is not 0; under the other cost types the statement is false.
THEOREM PlanBoundTheorem ==
  ASSUME CostType = "NORMAL", Bound > 0 \/ InitialState \notin GoalStates
  PROVE  Spec => []PlanWithinBound
<1>1. Init => SolutionInv
  BY DEF Init, EngineInit, SolutionInv
<1>2. EagerInv /\ SolutionInv /\ [Next]_vars => SolutionInv'
  BY SolutionStep
<1>3. ASSUME EagerInv, SolutionInv, RealInv, RealCostsBelowBound PROVE PlanWithinBound
  <2> SUFFICES ASSUME solution # NoState
      PROVE  PlanCost(TracePath(solution)) < Bound
    BY DEF PlanWithinBound, FoundPlan
  <2>1. solution \in GoalStates /\ solution \in States /\ Reached(solution)
    BY <1>3 DEF SolutionInv
  <2>2. real_g[InitialState] >= 0
    <3>1. Reached(InitialState)
      BY <1>3, <2>1, InitialReached DEF EagerInv
    <3> QED
      BY <1>3, <3>1 DEF RealInv, Reached
  <2>3. /\ PlanCost(TracePath(solution)) \in Nat
        /\ PlanCost(TracePath(solution)) <= real_g[solution]
        /\ solution = InitialState => PlanCost(TracePath(solution)) = 0
    BY <1>3, <2>1, <2>2, PlanCostBelow DEF EagerInv, RealCostsBelowBound
  <2>4. real_g[solution] \in Int
    BY <1>3, <2>1 DEF EagerInv, SSInv, SSTypeOK
  <2>5. solution # InitialState => real_g[solution] < Bound
    BY <1>3, <2>1 DEF RealCostsBelowBound
  <2> QED
    BY <2>1, <2>3, <2>4, <2>5, BoundAssumption
<1> QED
  BY <1>1, <1>2, <1>3, EagerInvariant, RealHolds, BoundTheorem, PTL DEF Spec

(***************************************************************************)
(* Optimality.                                                             *)
(***************************************************************************)

\* A node is a dead end only if the evaluator can say so, and no entry has a
\* key below the present g of its node (it may be above it: the entry can be
\* older than the cheapest path).
EntriesInv ==
  /\ \A n \in States :
       /\ heuristic_cache[n] \in Estimates[n] \union {NO_VALUE}
       /\ status[n] = "DEAD_END" => DEAD_END \in Estimates[n]
  /\ \A e \in open_list : Reached(e.state) /\ GWeight * g[e.state] <= e.key

LEMMA EntriesInit == Init => EntriesInv
BY EvaluationAssumption DEF Init, SSInit, EvaluationInit, EntriesInv, NO_VALUE

\* What an evaluation leaves in the cache is an estimate.
LEMMA EvaluateEntries ==
  ASSUME EagerTypeOK, EntriesInv, NEW s \in States, NEW d, NEW v, Evaluate(s, d, v)
  PROVE  /\ v \in Estimates[s]
         /\ \A n \in States : heuristic_cache'[n] \in Estimates[n] \union {NO_VALUE}
BY EvaluationAssumption DEF EagerTypeOK, Evaluate, EntriesInv

\* The entry inserted for a node has a key no less than the g it is given.
LEMMA InsertedKey ==
  ASSUME NEW n \in States, NEW c \in Nat, NEW v \in Nat \union {DEAD_END}
  PROVE  \A e \in Inserted(n, c, v) : e.state = n /\ GWeight * c <= e.key
<1>1. CASE v = DEAD_END
  BY <1>1 DEF Inserted
<1>2. CASE v # DEAD_END
  <2>1. v \in Nat /\ GWeight * c \in Nat /\ HWeight * v \in Nat
    BY <1>2, EvaluationAssumption
  <2>2. Key(c, v) >= GWeight * c
    BY <2>1 DEF Key
  <2> QED
    BY <1>2, <2>2 DEF Inserted, Entry
<1> QED
  BY <1>1, <1>2

\* The weighted cost is monotone.
LEMMA WeightMonotone ==
  ASSUME NEW W \in Nat, NEW a \in Int, NEW b \in Int, a <= b
  PROVE  W * a <= W * b
OBVIOUS

LEMMA EntriesStep ==
  ASSUME EagerInv, EntriesInv, [Next]_vars
  PROVE  EntriesInv'
<1> USE DEF Reached
<1>1. EagerTypeOK /\ SSInv /\ Control /\ GWeight \in Nat /\ SSTypeOK
  BY EvaluationAssumption DEF EagerInv, SSInv
<1>2. /\ \A n \in States : g[n] \in Int /\ g'[n] \in Int
      /\ \A n \in States : Reached(n) => 0 <= g'[n] /\ g'[n] <= g[n]
  <2>1. [SSNext]_ssvars
    BY EagerRefines DEF EagerInv
  <2>2. SSInv'
    BY <1>1, <2>1, SSNextInv
  <2>3. CASE SSNext
    BY <1>1, <2>2, <2>3, GStep DEF SSInv, SSTypeOK
  <2>4. CASE UNCHANGED ssvars
    BY <1>1, <2>4 DEF ssvars, SSTypeOK
  <2> QED
    BY <2>1, <2>3, <2>4
\* A key that covers the old g of a node covers the new one.
<1>3. ASSUME NEW e \in open_list PROVE Reached(e.state)' /\ GWeight * g'[e.state] <= e.key
  <2>1. /\ e.state \in States /\ e.key \in Nat
        /\ Reached(e.state) /\ GWeight * g[e.state] <= e.key
    BY <1>1 DEF EagerTypeOK, EntriesInv
  <2>2. GWeight * g'[e.state] <= GWeight * g[e.state]
    BY <1>1, <1>2, <2>1, WeightMonotone
  <2>3. GWeight * g'[e.state] \in Int /\ GWeight * g[e.state] \in Int
    BY <1>1, <1>2, <2>1
  <2>4. GWeight * g'[e.state] <= e.key
    BY <2>1, <2>2, <2>3
  <2> QED
    BY <1>2, <2>1, <2>4
<1>4. ASSUME NEW n \in States, NEW h \in Nat \union {DEAD_END}, h # DEAD_END => g'[n] >= 0,
             open_list' \subseteq open_list \union Inserted(n, g'[n], h)
      PROVE  \A e \in open_list' : Reached(e.state)' /\ GWeight * g'[e.state] <= e.key
  <2>1. CASE h = DEAD_END
    BY <1>3, <1>4, <2>1 DEF Inserted
  <2>2. CASE h # DEAD_END
    <3>1. g'[n] \in Nat
      BY <1>2, <1>4, <2>2
    <3>2. \A e \in Inserted(n, g'[n], h) : e.state = n /\ GWeight * g'[n] <= e.key
      BY <3>1, InsertedKey
    <3>3. \A e \in Inserted(n, g'[n], h) : Reached(e.state)' /\ GWeight * g'[e.state] <= e.key
      BY <1>4, <2>2, <3>2 DEF Reached
    <3> QED
      BY <1>3, <1>4, <3>3
  <2> QED
    BY <2>1, <2>2
<1> DEFINE EstimateInv ==
             \A n \in States :
               /\ heuristic_cache[n] \in Estimates[n] \union {NO_VALUE}
               /\ status[n] = "DEAD_END" => DEAD_END \in Estimates[n]
<1>5. EstimateInv
  BY DEF EntriesInv
<1>6. CASE Initialize
  <2>1. PICK h \in Estimates[InitialState] :
          /\ Evaluate(InitialState, dirty, h)
          /\ IF h = DEAD_END THEN UNCHANGED ssvars ELSE OpenInitial
          /\ open_list' = Inserted(InitialState, 0, h)
    BY <1>6 DEF Initialize
  <2>2. InitialState \in States /\ h \in Nat \union {DEAD_END} /\ dirty \subseteq States
    BY <1>1, TaskAssumption, EvaluationAssumption DEF EagerTypeOK
  <2>3. h # DEAD_END => g'[InitialState] = 0
    BY <1>1, <2>1, <2>2 DEF OpenInitial, SSTypeOK
  <2>4. open_list' \subseteq open_list \union Inserted(InitialState, g'[InitialState], h)
    BY <2>1, <2>3 DEF Inserted
  <2>5. \A n \in States : status'[n] = "DEAD_END" => status[n] = "DEAD_END"
    BY <1>1, <2>1 DEF OpenInitial, ssvars, SSTypeOK
  <2>6. EstimateInv'
    BY <1>1, <1>5, <2>1, <2>2, <2>5, EvaluateEntries
  <2>7. \A e \in open_list' : Reached(e.state)' /\ GWeight * g'[e.state] <= e.key
    <3>1. h # DEAD_END => g'[InitialState] >= 0
      BY <2>3
    <3> QED
      BY <1>4, <2>2, <2>4, <3>1
  <2> QED
    BY <2>6, <2>7 DEF EntriesInv
<1>7. ASSUME open_list' \subseteq open_list, status' = status, UNCHANGED evalvars
      PROVE  EntriesInv'
  <2>1. EstimateInv'
    BY <1>5, <1>7
  <2> QED
    BY <1>3, <1>7, <2>1 DEF EntriesInv
<1>8. CASE OpenListEmpty \/ Expanded \/ Terminated \/ UNCHANGED vars
  BY <1>7, <1>8 DEF OpenListEmpty, Expanded, Terminated, vars, ssvars
<1>9. ASSUME NEW e \in open_list, Skip(e)
      PROVE  EntriesInv'
  BY <1>7, <1>9 DEF Skip, ssvars
<1>10. ASSUME NEW e \in open_list, FoundDead(e)
       PROVE  EntriesInv'
  <2>1. /\ e.state \in States /\ Evaluate(e.state, dirty, DEAD_END) /\ dirty \subseteq States
        /\ status' = [status EXCEPT ![e.state] = "DEAD_END"] /\ open_list' \subseteq open_list
    BY <1>1, <1>10 DEF FoundDead, EagerTypeOK, MarkAsDeadEnd
  <2>2. EstimateInv'
    BY <1>1, <1>5, <2>1, EvaluateEntries DEF SSTypeOK
  <2> QED
    BY <1>3, <2>1, <2>2 DEF EntriesInv
<1>11. ASSUME NEW e \in open_list, Reinsert(e)
       PROVE  EntriesInv'
  <2>1. PICK h \in Estimates[e.state] \ {DEAD_END} :
          /\ Evaluate(e.state, dirty, h)
          /\ open_list' = (open_list \ {e}) \union Inserted(e.state, g[e.state], h)
    BY <1>11 DEF Reinsert
  <2>2. e.state \in States /\ h \in Nat \union {DEAD_END} /\ dirty \subseteq States
    BY <1>1, EvaluationAssumption DEF EagerTypeOK
  <2>3. status' = status /\ g'[e.state] = g[e.state]
    BY <1>11 DEF Reinsert, ssvars
  <2>4. EstimateInv'
    BY <1>1, <1>5, <2>1, <2>2, <2>3, EvaluateEntries
  <2>5. g'[e.state] >= 0
    BY <1>3 DEF Reached
  <2>6. open_list' \subseteq open_list \union Inserted(e.state, g'[e.state], h)
    BY <2>1, <2>3
  <2>7. \A f \in open_list' : Reached(f.state)' /\ GWeight * g'[f.state] <= f.key
    BY <1>4, <2>2, <2>5, <2>6
  <2> QED
    BY <2>4, <2>7 DEF EntriesInv
<1>12. ASSUME NEW e \in open_list, Expand(e)
       PROVE  EntriesInv'
  <2>1. /\ e.state \in States /\ dirty \subseteq States
        /\ status' = [status EXCEPT ![e.state] = "CLOSED"] /\ open_list' \subseteq open_list
    BY <1>1, <1>12 DEF Expand, EagerTypeOK, Close
  <2>2. (\E v : Evaluate(e.state, dirty, v)) \/ UNCHANGED evalvars
    BY <1>12 DEF Expand, UpdateFValueStatistics
  <2>3. EstimateInv'
    BY <1>1, <1>5, <2>1, <2>2, EvaluateEntries DEF SSTypeOK
  <2> QED
    BY <1>3, <2>1, <2>3 DEF EntriesInv
<1>13. ASSUME NEW x \in pending, NextSuccessor(x)
       PROVE  /\ x[1] \in Operators /\ x[2] \in States /\ node \in States
              /\ g[node] \in Nat /\ AdjustedCost(x[1]) \in Nat
              /\ NotifyTransition(x[2]) \subseteq States
  <2>1. node \in States /\ x \in Successors(node) /\ Reached(node)
    BY <1>1, <1>13 DEF Control, NextSuccessor, EagerTypeOK, SSInv, NodeConsistent
  <2> QED
    BY <1>1, <2>1, SuccessorTransition, AdjustedCostNat
    DEF SSTypeOK, EagerTypeOK, NotifyTransition, Reached
<1>14. ASSUME NEW x \in pending, CutOff(x) \/ NothingNew(x) \/ UpdateSuccessor(x)
       PROVE  EntriesInv'
  <2>1. status' = status /\ open_list' = open_list /\ heuristic_cache' = heuristic_cache
    BY <1>14 DEF CutOff, NothingNew, UpdateSuccessor, UpdateParent, ssvars
  <2>2. EstimateInv'
    BY <1>5, <2>1
  <2> QED
    BY <1>3, <2>1, <2>2 DEF EntriesInv
<1>15. ASSUME NEW x \in pending, NewSuccessor(x) \/ ReopenSuccessor(x)
       PROVE  EntriesInv'
  <2>0. NextSuccessor(x)
    BY <1>15 DEF NewSuccessor, ReopenSuccessor
  <2>1. PICK h \in Estimates[x[2]] :
          /\ Evaluate(x[2], NotifyTransition(x[2]), h)
          /\ open_list' = open_list \union Inserted(x[2], g'[x[2]], h)
          /\ h # DEAD_END => g'[x[2]] = g[node] + AdjustedCost(x[1])
          /\ status'[x[2]] = "DEAD_END" => h = DEAD_END
          /\ \A n \in States \ {x[2]} : status'[n] = status[n]
    <3>1. CASE NewSuccessor(x)
      <4>1. PICK h \in Estimates[x[2]] :
              /\ Evaluate(x[2], NotifyTransition(x[2]), h)
              /\ IF h = DEAD_END THEN MarkAsDeadEnd(x[2]) ELSE Open(x[2], node, x[1])
              /\ open_list' = open_list \union Inserted(x[2], g[node] + AdjustedCost(x[1]), h)
        BY <3>1 DEF NewSuccessor
      <4>2. h # DEAD_END => g'[x[2]] = g[node] + AdjustedCost(x[1])
        BY <1>1, <1>13, <2>0, <4>1 DEF Open, SetParent, SSTypeOK
      <4>3. open_list' = open_list \union Inserted(x[2], g'[x[2]], h)
        BY <4>1, <4>2 DEF Inserted
      <4>4. /\ status'[x[2]] = "DEAD_END" => h = DEAD_END
            /\ \A n \in States \ {x[2]} : status'[n] = status[n]
        BY <1>1, <1>13, <2>0, <4>1 DEF Open, MarkAsDeadEnd, SSTypeOK
      <4> QED
        BY <4>1, <4>2, <4>3, <4>4
    <3>2. CASE ReopenSuccessor(x)
      BY <1>1, <1>13, <2>0, <3>2 DEF ReopenSuccessor, Reopen, SetParent, SSTypeOK
    <3> QED
      BY <1>15, <3>1, <3>2
  <2>2. h \in Nat \union {DEAD_END} /\ x[2] \in States /\ NotifyTransition(x[2]) \subseteq States
    BY <1>13, <2>0, EvaluationAssumption
  <2>3. h # DEAD_END => g'[x[2]] >= 0
    BY <1>13, <2>0, <2>1
  <2>4. \A f \in open_list' : Reached(f.state)' /\ GWeight * g'[f.state] <= f.key
    BY <1>4, <2>1, <2>2, <2>3
  <2>5. EstimateInv'
    BY <1>1, <1>5, <2>1, <2>2, EvaluateEntries
  <2> QED
    BY <2>4, <2>5 DEF EntriesInv
<1> QED
  BY <1>6, <1>8, <1>9, <1>10, <1>11, <1>12, <1>14, <1>15 DEF Next, EagerStep

\* While A* is looking for a node to expand, the open list holds a node on a
\* cheapest path to a goal state, reached as cheaply as that path reaches it:
\* the classical argument for the admissibility of A*.
LEMMA OptimalPathIsOpen ==
  ASSUME EagerInv, EntriesInv, ClosedNodesExpanded, RealInv, IsFiniteSet(States),
         ReopenClosed, ~Pruning, Admissible, CostType = "NORMAL",
         AdjustedGoalDistance[InitialState] # Infinity,
         AdjustedGoalDistance[InitialState] < Bound,
         search_status = "IN_PROGRESS", node = NoState
  PROVE  \E m \in States :
           /\ status[m] = "OPEN" /\ AdjustedGoalDistance[m] # Infinity
           /\ g[m] + AdjustedGoalDistance[m] <= AdjustedGoalDistance[InitialState]
<1> DEFINE D == AdjustedGoalDistance[InitialState]
           K == Cardinality(States)
           OnPath(m) == /\ status[m] = "OPEN" /\ AdjustedGoalDistance[m] # Infinity
                        /\ g[m] + AdjustedGoalDistance[m] <= D
<1>1. /\ SSTypeOK /\ SSInv /\ NodeConsistent /\ Control /\ EagerTypeOK /\ OpenNodesQueued
      /\ InitialState \in States /\ K \in Nat /\ solution = NoState
  BY TaskAssumption, FS_CardinalityType DEF EagerInv, SSInv, Control
<1>2. PICK paths :
        /\ GoalPaths(paths)
        /\ \A s \in States :
             /\ AdjustedGoalDistance[s] \in Nat /\ AdjustedGoalDistance[s] <= Infinity
             /\ AdjustedGoalDistance[s] # Infinity => <<s, AdjustedGoalDistance[s]>> \in paths[K]
        /\ \A y \in paths[K] : AdjustedGoalDistance[y[1]] <= y[2]
  BY GoalPathsExist
<1> HIDE DEF K
<1>2a. D \in Nat
  BY <1>1, <1>2
<1>2b. \A n \in States : Reached(n) => g[n] \in Nat
  BY <1>1 DEF SSTypeOK, Reached
<1>3. \A k \in 0..K : paths[k] \subseteq States \X Nat /\ paths[k] \subseteq paths[K]
  BY <1>1, <1>2, PathsMonotone DEF GoalPaths, K
\* No node with a goal state in reach is a dead end.
<1>4. ASSUME NEW k \in 0..K, NEW y \in paths[k], y[2] <= D
      PROVE  /\ y[1] \in States /\ y[2] \in Nat
             /\ AdjustedGoalDistance[y[1]] \in Nat /\ AdjustedGoalDistance[y[1]] <= y[2]
             /\ AdjustedGoalDistance[y[1]] # Infinity
             /\ status[y[1]] # "DEAD_END" /\ heuristic_cache[y[1]] # DEAD_END
  <2>1. y[1] \in States /\ y[2] \in Nat /\ AdjustedGoalDistance[y[1]] <= y[2]
    BY <1>2, <1>3, <1>4
  <2>2. D \in Nat /\ D < Infinity
    <3>1. Infinity \in Nat
      BY InfinityAssumption
    <3>2. D \in Nat /\ D <= Infinity
      BY <1>1, <1>2
    <3> QED
      BY <3>1, <3>2
  <2>3. AdjustedGoalDistance[y[1]] # Infinity /\ AdjustedGoalDistance[y[1]] \in Nat
    <3>1. Infinity \in Nat
      BY InfinityAssumption
    <3>2. AdjustedGoalDistance[y[1]] \in Nat
      BY <1>2, <2>1
    <3>3. AdjustedGoalDistance[y[1]] < Infinity
      BY <1>4, <2>1, <2>2, <3>1, <3>2
    <3> QED
      BY <3>1, <3>2, <3>3
  <2>4. DEAD_END \notin Estimates[y[1]]
    BY <2>1, <2>3 DEF Admissible
  <2> QED
    BY <2>1, <2>3, <2>4 DEF EntriesInv, DEAD_END, NO_VALUE
\* A known node from which a path leads to a goal state is open, or its
\* successor on that path is known as well.
<1> DEFINE S == {k \in Nat : k <= K => \A y \in paths[k] :
                   status[y[1]] \in {"OPEN", "CLOSED"} /\ g[y[1]] + y[2] <= D
                     => \E m \in States : OnPath(m)}
<1>5. ASSUME NEW k \in 0..K, NEW y \in paths[k],
             status[y[1]] = "OPEN", g[y[1]] + y[2] <= D
      PROVE  \E m \in States : OnPath(m)
  <2>1. y[1] \in States /\ y[2] \in Nat
    BY <1>3
  <2>2. g[y[1]] \in Nat /\ D \in Nat
    <3>1. Reached(y[1])
      BY <1>1, <1>5, <2>1 DEF NodeConsistent
    <3> QED
      BY <1>2a, <1>2b, <2>1, <3>1
  <2>3. y[2] <= D
    BY <1>5, <2>1, <2>2
  <2>4. /\ AdjustedGoalDistance[y[1]] # Infinity /\ AdjustedGoalDistance[y[1]] \in Nat
        /\ AdjustedGoalDistance[y[1]] <= y[2]
    BY <1>4, <2>3
  <2>5. OnPath(y[1])
    BY <1>5, <2>1, <2>2, <2>4
  <2> QED
    BY <2>1, <2>5
<1>6. 0 \in S
  <2> SUFFICES ASSUME NEW y \in paths[0], status[y[1]] \in {"OPEN", "CLOSED"}, g[y[1]] + y[2] <= D
      PROVE  \E m \in States : OnPath(m)
    OBVIOUS
  <2>1. y[1] \in GoalStates /\ y[1] \in States
    BY <1>2, TaskAssumption DEF GoalPaths
  <2>2. status[y[1]] = "OPEN"
    BY <1>1, <2>1, TaskAssumption DEF Control
  <2>3. 0 \in 0..K
    BY <1>1
  <2> QED
    BY <1>5, <2>2, <2>3
<1>7. ASSUME NEW k \in Nat, k \in S PROVE k + 1 \in S
  <2> SUFFICES ASSUME k + 1 <= K, NEW y \in paths[k+1],
                      status[y[1]] \in {"OPEN", "CLOSED"}, g[y[1]] + y[2] <= D
      PROVE  \E m \in States : OnPath(m)
    OBVIOUS
  <2>0. k \in 0..K /\ k + 1 \in 1..K /\ k + 1 \in 0..K /\ (k + 1) - 1 = k
    BY <1>1
  <2>1. CASE status[y[1]] = "OPEN"
    BY <1>5, <2>0, <2>1
  <2>2. CASE status[y[1]] = "CLOSED" /\ y \in paths[k]
    <3>1. y \in paths[k] /\ status[y[1]] \in {"OPEN", "CLOSED"} /\ g[y[1]] + y[2] <= D
      BY <2>2
    <3> HIDE DEF OnPath
    <3> QED
      BY <1>1, <1>7, <2>0, <3>1
  <2>3. CASE status[y[1]] = "CLOSED" /\ y \notin paths[k]
    <3>1. PICK t \in Transitions, z \in paths[k] :
            t[3] = z[1] /\ y = <<t[1], AdjustedCost(t[2]) + z[2]>>
      <4>1. \E t \in Transitions : \E z \in paths[k] :
              t[3] = z[1] /\ y = <<t[1], AdjustedCost(t[2]) + z[2]>>
        BY <1>2, <2>0, <2>3 DEF GoalPaths, K
      <4> QED
        BY <4>1, Zenon
    <3>2. /\ t[1] \in States /\ t[2] \in Operators /\ t[3] \in States /\ t = <<t[1], t[2], t[3]>>
          /\ z \in States \X Nat
      BY <1>3, <2>0, TaskAssumption
    <3>3. /\ y[1] = t[1] /\ y[2] = AdjustedCost(t[2]) + z[2]
          /\ AdjustedCost(t[2]) = Cost[t[2]] /\ Cost[t[2]] \in Nat
      BY <3>1, <3>2, CostAssumption DEF AdjustedCost
    <3>4. g[t[1]] \in Nat /\ real_g[t[1]] = g[t[1]] /\ g[t[3]] \in Int /\ D \in Nat /\ z[2] \in Nat
      <4>1. Reached(t[1])
        BY <1>1, <2>3, <3>2, <3>3 DEF NodeConsistent
      <4>2. g[t[3]] \in Int /\ real_g[t[1]] = g[t[1]]
        BY <1>1, <3>2 DEF SSTypeOK, RealInv
      <4> QED
        BY <1>2a, <1>2b, <3>2, <4>1, <4>2
    <3>5. g[t[1]] + Cost[t[2]] + z[2] <= D
      BY <3>3, <3>4
    <3>6. <<t[2], t[3]>> \in Successors(t[1])
      BY <3>2 DEF Successors
    <3>7. Settled(t[1], <<t[2], t[3]>>)
      BY <1>1, <2>3, <3>2, <3>3, <3>6, TaskAssumption DEF ClosedNodesExpanded
    <3>8. real_g[t[1]] + Cost[t[2]] < Bound
      BY <3>3, <3>4, <3>5, BoundAssumption
    <3>9. z[2] <= D
      BY <3>3, <3>4, <3>5
    <3>10. status[t[3]] # "DEAD_END"
      BY <1>4, <2>0, <3>1, <3>9
    <3>11. status[t[3]] # "NEW" /\ ~(g[t[1]] + AdjustedCost(t[2]) < g[t[3]])
      BY <3>3, <3>4, <3>7, <3>8, <3>10, BoundAssumption DEF Settled, Improves
    <3>12. status[t[3]] \in {"OPEN", "CLOSED"}
      BY <1>1, <3>2, <3>10, <3>11 DEF SSTypeOK, NodeStatus
    <3>13. g[z[1]] + z[2] <= D
      BY <3>1, <3>3, <3>4, <3>5, <3>11
    <3>14. status[z[1]] \in {"OPEN", "CLOSED"}
      BY <3>1, <3>12
    <3> HIDE DEF OnPath
    <3> QED
      BY <1>1, <1>7, <2>0, <3>1, <3>13, <3>14
  <2> QED
    BY <2>1, <2>2, <2>3
<1> HIDE DEF S
<1>8. K \in S
  BY <1>1, <1>6, <1>7, Induction
<1>9. <<InitialState, D>> \in paths[K] /\ D \in Nat
  BY <1>1, <1>2
<1>10. status[InitialState] \in {"OPEN", "CLOSED"}
  <2>1. <<InitialState, D>>[2] <= D /\ <<InitialState, D>>[1] = InitialState /\ K \in 0..K
    BY <1>1, <1>9
  <2>2. status[InitialState] # "DEAD_END" /\ heuristic_cache[InitialState] # DEAD_END
    BY <1>4, <1>9, <2>1
  <2> QED
    BY <1>1, <2>2 DEF Control, SSTypeOK, NodeStatus
<1>11. g[InitialState] = 0
  BY <1>1, <1>10 DEF SSInv, NodeConsistent
<1> HIDE DEF OnPath
<1>12. \E m \in States : OnPath(m)
  <2> DEFINE y == <<InitialState, D>>
  <2>1. y \in paths[K] /\ y[1] = InitialState /\ y[2] = D
    BY <1>9
  <2> HIDE DEF y
  <2>2. status[y[1]] \in {"OPEN", "CLOSED"} /\ g[y[1]] + y[2] <= D
    BY <1>9, <1>10, <1>11, <2>1
  <2> QED
    BY <1>1, <1>8, <2>1, <2>2 DEF S
<1> QED
  BY <1>12 DEF OnPath

\* A goal node that A* removes from the open list is on a cheapest path.
LEMMA ExpandedGoalIsOptimal ==
  ASSUME EagerInv, EntriesInv, ClosedNodesExpanded, RealInv, IsFiniteSet(States),
         ReopenClosed, ~Pruning, Admissible, CostType = "NORMAL",
         GWeight > 0, GWeight = HWeight,
         AdjustedGoalDistance[InitialState] # Infinity,
         NEW e \in open_list, Expand(e), IsGoal(e.state)
  PROVE  g[e.state] = AdjustedGoalDistance[InitialState]
<1> DEFINE D == AdjustedGoalDistance[InitialState]
           n == e.state
<1>1. /\ SSTypeOK /\ SSInv /\ NodeConsistent /\ Control /\ EagerTypeOK /\ OpenNodesQueued
      /\ InitialState \in States /\ GWeight \in Nat /\ Bound \in Nat
  BY TaskAssumption, EvaluationAssumption, BoundAssumption DEF EagerInv, SSInv
<1>2. \A s \in States : AdjustedGoalDistance[s] \in Nat /\ AdjustedGoalDistance[s] <= Infinity
  BY GoalPathsExist
<1>3. /\ n \in GoalStates /\ n \in States /\ status[n] = "OPEN"
      /\ search_status = "IN_PROGRESS" /\ node = NoState
      /\ \A f \in open_list : e.key <= f.key
      /\ e.key \in Nat
  BY <1>1 DEF Expand, IsGoal, Close, RemoveMin, Popping, EagerTypeOK
<1>4. Reached(n) /\ g[n] \in Nat /\ D \in Nat
  BY <1>1, <1>2, <1>3 DEF NodeConsistent, SSTypeOK, Reached
<1>5. D <= g[n]
  BY <1>3, <1>4, NoCheaperThanDistance DEF EagerInv
<1>6. CASE n = InitialState
  <2>1. g[n] = 0
    BY <1>1, <1>4, <1>6 DEF NodeConsistent
  <2> QED
    BY <1>4, <1>5, <2>1
<1>7. CASE n # InitialState
  <2>1. D < Bound
    <3>1. g[n] < Bound
      BY <1>3, <1>4, <1>7 DEF RealInv
    <3> QED
      BY <1>1, <1>4, <1>5, <3>1
  <2>2. PICK m \in States :
          /\ status[m] = "OPEN" /\ AdjustedGoalDistance[m] # Infinity
          /\ g[m] + AdjustedGoalDistance[m] <= D
    BY <1>3, <2>1, OptimalPathIsOpen
  <2> DEFINE h == heuristic_cache[m]
  <2>3. /\ h # DEAD_END /\ h \in Int /\ h <= AdjustedGoalDistance[m]
        /\ AdjustedGoalDistance[m] \in Nat /\ g[m] \in Nat
    <3>1. AdjustedGoalDistance[m] \in Nat
      BY <1>2
    <3>2. Reached(m) /\ g[m] \in Nat
      BY <1>1, <2>2 DEF NodeConsistent, SSTypeOK, Reached
    <3>3. h \in Estimates[m] \union {NO_VALUE} /\ Estimates[m] \subseteq Nat \union {DEAD_END}
      BY EvaluationAssumption DEF EntriesInv
    <3>4. CASE h \in Estimates[m]
      <4>1. h # DEAD_END /\ h <= AdjustedGoalDistance[m]
        BY <2>2, <3>4 DEF Admissible
      <4> QED
        BY <3>1, <3>2, <3>3, <3>4, <4>1
    <3>5. CASE h = NO_VALUE
      <4> HIDE DEF h
      <4> QED
        BY <3>1, <3>2, <3>5 DEF NO_VALUE, DEAD_END
    <3> QED
      BY <3>3, <3>4, <3>5
  <2> HIDE DEF h
  <2>4. Entry(m, g[m], h) \in open_list
    BY <1>1, <2>2, <2>3 DEF OpenNodesQueued, h
  <2>5. e.key <= GWeight * g[m] + GWeight * h
    <3>1. Entry(m, g[m], h).key = GWeight * g[m] + GWeight * h
      BY DEF Entry, Key
    <3> QED
      BY <1>3, <2>4, <3>1
  <2>6. GWeight * g[m] + GWeight * h <= GWeight * D
    <3>1. g[m] + h <= D /\ g[m] + h \in Int
      BY <1>4, <2>2, <2>3
    <3>2. GWeight * (g[m] + h) <= GWeight * D
      BY <1>1, <1>4, <3>1, WeightMonotone
    <3>3. GWeight * (g[m] + h) = GWeight * g[m] + GWeight * h
      BY <1>1, <2>3
    <3> QED
      BY <3>2, <3>3
  <2>7. GWeight * g[n] <= e.key
    BY DEF EntriesInv
  <2>8. GWeight * g[n] <= GWeight * D
    <3>1. GWeight * g[n] \in Int /\ GWeight * D \in Int /\ GWeight * g[m] + GWeight * h \in Int
      BY <1>1, <1>4, <2>3
    <3> HIDE DEF n, D
    <3> QED
      BY <1>3, <2>5, <2>6, <2>7, <3>1
  <2>9. g[n] <= D
    <3>1. ASSUME D < g[n] PROVE FALSE
      <4>1. GWeight * (D + 1) <= GWeight * g[n]
        BY <1>1, <1>4, <3>1, WeightMonotone
      <4>2. GWeight * (D + 1) = GWeight * D + GWeight
        BY <1>1, <1>4
      <4>3. GWeight * g[n] \in Int /\ GWeight * D \in Int
        BY <1>1, <1>4
      <4> HIDE DEF n, D
      <4> QED
        BY <1>1, <2>8, <4>1, <4>2, <4>3
    <3> QED
      BY <1>4, <3>1
  <2> QED
    BY <1>4, <1>5, <2>9
<1> QED
  BY <1>6, <1>7

\* A* with reopening returns a cheapest plan of every solvable task with
\* finitely many states, for every admissible evaluator, however inconsistent
\* or path-dependent, and for every bound.
THEOREM OptimalTheorem ==
  ASSUME IsFiniteSet(States), CostType = "NORMAL",
         AdjustedGoalDistance[InitialState] # Infinity
  PROVE  Spec => []OptimalPlan
<1>1. CASE ~ReopenClosed
  <2>1. OptimalPlan
    BY <1>1 DEF OptimalPlan
  <2> QED
    BY <2>1, PTL
<1>2. CASE ReopenClosed
  <2>1. Init => EntriesInv /\ OptimalPlan
    BY EntriesInit DEF Init, EngineInit, OptimalPlan
  <2>2. EagerInv /\ EntriesInv /\ [Next]_vars => EntriesInv'
    BY EntriesStep
  <2>3. ASSUME EagerInv, EntriesInv, ClosedNodesExpanded, RealInv, OptimalPlan, [Next]_vars
        PROVE  OptimalPlan'
    <3>1. CASE solution # NoState
      <4>1. UNCHANGED vars
        BY <2>3, <3>1 DEF EagerInv, Control, Next, EagerStep, Initialize, OpenListEmpty, Skip,
           FoundDead, Reinsert, Expand, RemoveMin, Popping, CutOff, NothingNew, NewSuccessor,
           ReopenSuccessor, UpdateSuccessor, NextSuccessor, Expanded, Terminated
      <4> QED
        BY <2>3, <4>1 DEF OptimalPlan, vars, enginevars, ssvars
    <3>2. CASE solution = NoState /\ solution' # NoState
      <4> SUFFICES ASSUME ReopenClosed, ~Pruning, Admissible, GWeight > 0, GWeight = HWeight
          PROVE  g'[solution'] = AdjustedGoalDistance[InitialState]
        BY DEF OptimalPlan
      <4>1. PICK e \in open_list : Expand(e)
        BY <2>3, <3>2 DEF Next, EagerStep, Initialize, OpenListEmpty, Skip, FoundDead, Reinsert,
           CutOff, NothingNew, NewSuccessor, ReopenSuccessor, UpdateSuccessor, NextSuccessor,
           Expanded, Terminated, vars, enginevars
      <4>2. IsGoal(e.state) /\ solution' = e.state /\ g' = g
        BY <3>2, <4>1 DEF Expand, SetPlan, enginevars, Close
      <4> QED
        BY <2>3, <4>1, <4>2, ExpandedGoalIsOptimal
    <3>3. CASE solution' = NoState
      BY <3>3 DEF OptimalPlan
    <3> QED
      BY <3>1, <3>2, <3>3
  <2>4. Spec => []ClosedNodesExpanded /\ []RealInv
    BY <1>2, ClosedNodesTheorem, RealHolds
  <2> QED
    BY <2>1, <2>2, <2>3, <2>4, EagerInvariant, PTL DEF Spec
<1> QED
  BY <1>1, <1>2

(***************************************************************************)
(* Consistent estimates.                                                   *)
(***************************************************************************)

\* The f value of a node, weighted as the keys are.
F(n) == GWeight * (g[n] + heuristic_cache[n])

\* A fixed evaluator keeps its estimates, no entry has a key below the f value
\* of its node, and with consistent estimates the f values of the nodes that
\* were closed are covered by that of the node under expansion and by the keys
\* of all entries: A* expands by increasing f.
IncreasingF ==
  /\ dirty = {}
  /\ search_status = "INITIALIZE" => \A n \in States : status[n] = "NEW"
  /\ \A n \in States : status[n] \in {"OPEN", "CLOSED"} => heuristic_cache[n] \in Nat
  /\ \A e \in open_list : status[e.state] \in {"OPEN", "CLOSED"} /\ F(e.state) <= e.key
  /\ Consistent =>
       \A n \in States : status[n] = "CLOSED" =>
         /\ \A e \in open_list : F(n) <= e.key
         /\ node # NoState => F(n) <= F(node)

\* The evaluator and the weights of A*.
ConsistentAStar == ReopenClosed /\ ~PathDependent /\ GWeight > 0 /\ GWeight = HWeight

\* A known estimate is answered again.
LEMMA EstimateIsKept ==
  ASSUME EagerTypeOK, ConsistentAStar, dirty = {}, NEW s \in States, NEW v, NEW d,
         d = dirty \/ d = NotifyTransition(s), Evaluate(s, d, v)
  PROVE  /\ dirty' = {} /\ heuristic_cache'[s] = v /\ v \in Nat \union {DEAD_END}
         /\ heuristic_cache[s] # NO_VALUE => v = heuristic_cache[s]
         /\ \A n \in States \ {s} : heuristic_cache'[n] = heuristic_cache[n]
<1>1. d = {}
  BY DEF ConsistentAStar, NotifyTransition
<1>2. heuristic_cache[s] # NO_VALUE => v = heuristic_cache[s]
  BY <1>1 DEF Evaluate
<1>3. heuristic_cache[s] = NO_VALUE => v \in Nat \union {DEAD_END}
  BY EvaluationAssumption DEF Evaluate
<1> QED
  BY <1>1, <1>2, <1>3 DEF EagerTypeOK, Evaluate

LEMMA EstimatesAreKept ==
  ASSUME EagerInv, ConsistentAStar, dirty = {}, [Next]_vars
  PROVE  /\ dirty' = {}
         /\ \A n \in States : heuristic_cache[n] # NO_VALUE => heuristic_cache'[n] = heuristic_cache[n]
         /\ Consistent' => Consistent
<1>1. EagerTypeOK /\ Control /\ InitialState \in States /\ EagerTypeOK'
  BY TaskAssumption, TypeStep DEF EagerInv
<1>2. \/ UNCHANGED evalvars
      \/ dirty' = NotifyTransition(NoState) /\ UNCHANGED heuristic_cache
      \/ \E s \in States : \E d : \E v :
           (d = dirty \/ d = NotifyTransition(s)) /\ Evaluate(s, d, v)
  <2>1. CASE Initialize
    BY <1>1, <2>1 DEF Initialize
  <2>2. CASE OpenListEmpty \/ Expanded \/ Terminated \/ UNCHANGED vars
    BY <2>2 DEF OpenListEmpty, Expanded, Terminated, vars
  <2>3. ASSUME NEW e \in open_list, Skip(e) \/ FoundDead(e) \/ Reinsert(e) \/ Expand(e)
        PROVE  UNCHANGED evalvars \/ \E v : Evaluate(e.state, dirty, v)
    BY <2>3 DEF Skip, FoundDead, Reinsert, Expand, UpdateFValueStatistics
  <2>4. ASSUME NEW x \in pending, CutOff(x) \/ NothingNew(x) \/ UpdateSuccessor(x)
        PROVE  \/ UNCHANGED evalvars
               \/ dirty' = NotifyTransition(NoState) /\ UNCHANGED heuristic_cache
    BY <2>4 DEF CutOff, NothingNew, UpdateSuccessor, NotifyTransition, ConsistentAStar
  <2>5. ASSUME NEW x \in pending, NewSuccessor(x) \/ ReopenSuccessor(x)
        PROVE  \E v : Evaluate(x[2], NotifyTransition(x[2]), v)
    BY <2>5 DEF NewSuccessor, ReopenSuccessor
  <2>6. \A e \in open_list : e.state \in States
    BY <1>1 DEF EagerTypeOK
  <2>7. \A x \in pending : x[2] \in States
    BY <1>1 DEF EagerTypeOK
  <2> QED
    BY <2>1, <2>2, <2>3, <2>4, <2>5, <2>6, <2>7 DEF Next, EagerStep
<1>3. /\ dirty' = {}
      /\ \A n \in States : heuristic_cache[n] # NO_VALUE => heuristic_cache'[n] = heuristic_cache[n]
  <2>1. CASE UNCHANGED evalvars
    BY <2>1
  <2>2. CASE dirty' = NotifyTransition(NoState) /\ UNCHANGED heuristic_cache
    BY <2>2 DEF NotifyTransition, ConsistentAStar
  <2>3. ASSUME NEW s \in States, NEW d, NEW v,
               d = dirty \/ d = NotifyTransition(s), Evaluate(s, d, v)
        PROVE  /\ dirty' = {}
               /\ \A n \in States : heuristic_cache[n] # NO_VALUE => heuristic_cache'[n] = heuristic_cache[n]
    BY <1>1, <2>3, EstimateIsKept
  <2> QED
    BY <1>2, <2>1, <2>2, <2>3
<1>4. ASSUME Consistent', NEW t \in Transitions,
             heuristic_cache[t[1]] >= 0, heuristic_cache[t[3]] >= 0
      PROVE  heuristic_cache[t[1]] <= AdjustedCost(t[2]) + heuristic_cache[t[3]]
  <2>1. t[1] \in States /\ t[3] \in States
    BY TaskAssumption
  <2>2. /\ heuristic_cache'[t[1]] = heuristic_cache[t[1]]
        /\ heuristic_cache'[t[3]] = heuristic_cache[t[3]]
    BY <1>3, <1>4, <2>1 DEF NO_VALUE
  <2> QED
    BY <1>4, <2>2 DEF Consistent
<1> QED
  BY <1>3, <1>4 DEF Consistent

\* The entry for a node has its f value as key.
LEMMA KeyOfEntry ==
  ASSUME ConsistentAStar
  PROVE  \A n : \A c, h \in Nat : Entry(n, c, h).key = GWeight * (c + h)
<1>1. \A c, h \in Nat : GWeight * c + HWeight * h = GWeight * (c + h)
  BY EvaluationAssumption DEF ConsistentAStar
<1> QED
  BY <1>1 DEF Entry, Key

LEMMA KeyIsF ==
  ASSUME ConsistentAStar, NEW n \in States, NEW c \in Nat, NEW h \in Nat
  PROVE  /\ Entry(n, c, h).key = GWeight * (c + h) /\ Entry(n, c, h).state = n
         /\ Inserted(n, c, h) = {Entry(n, c, h)}
         /\ Inserted(n, c, DEAD_END) = {}
<1>1. GWeight * c + GWeight * h = GWeight * (c + h)
  BY EvaluationAssumption
<1>2. h # DEAD_END
  BY DEF DEAD_END
<1> QED
  BY <1>1, <1>2 DEF ConsistentAStar, Entry, Key, Inserted

\* With consistent estimates a successor has no smaller f value than the node
\* under expansion; a closed node is therefore not improved.
LEMMA SuccessorF ==
  ASSUME EagerInv, IncreasingF, ConsistentAStar, [Next]_vars, Consistent',
         NEW x \in pending, NextSuccessor(x),
         heuristic_cache'[x[2]] \in Nat
  PROVE  /\ F(node) <= GWeight * (g[node] + AdjustedCost(x[1]) + heuristic_cache'[x[2]])
         /\ F(node) \in Int
         /\ heuristic_cache[x[2]] \in Nat =>
              ~(status[x[2]] = "CLOSED" /\ Improves(x[2], node, x[1]))
<1>1. /\ EagerTypeOK /\ SSTypeOK /\ NodeConsistent /\ Control /\ GWeight \in Nat
  BY EvaluationAssumption DEF EagerInv, SSInv
<1>2. /\ node \in States /\ x \in Successors(node) /\ status[node] = "CLOSED"
      /\ Reached(node) /\ node # NoState
  BY <1>1, TaskAssumption DEF Control, NextSuccessor, EagerTypeOK, NodeConsistent
<1>3. /\ x[1] \in Operators /\ x[2] \in States /\ <<node, x[1], x[2]>> \in Transitions
      /\ AdjustedCost(x[1]) \in Nat /\ g[node] \in Nat
  BY <1>1, <1>2, SuccessorTransition, AdjustedCostNat DEF SSTypeOK, Reached
<1>4. /\ heuristic_cache[node] \in Nat /\ heuristic_cache'[node] = heuristic_cache[node]
      /\ heuristic_cache[x[2]] \in Nat => heuristic_cache'[x[2]] = heuristic_cache[x[2]]
      /\ Consistent
  BY <1>2, <1>3, EstimatesAreKept DEF IncreasingF, NO_VALUE
<1>5. heuristic_cache[node] <= AdjustedCost(x[1]) + heuristic_cache'[x[2]]
  <2> DEFINE t == <<node, x[1], x[2]>>
  <2>1. t \in Transitions /\ t[1] = node /\ t[2] = x[1] /\ t[3] = x[2]
    BY <1>3
  <2> HIDE DEF t
  <2>2. heuristic_cache'[t[1]] >= 0 /\ heuristic_cache'[t[3]] >= 0
    BY <1>4, <2>1
  <2>3. heuristic_cache'[t[1]] <= AdjustedCost(t[2]) + heuristic_cache'[t[3]]
    BY <2>1, <2>2 DEF Consistent
  <2> QED
    BY <1>4, <2>1, <2>3
<1> DEFINE a == g[node] + heuristic_cache[node]
           b == g[node] + AdjustedCost(x[1]) + heuristic_cache'[x[2]]
<1>6. a \in Int /\ b \in Int /\ a <= b
  BY <1>3, <1>4, <1>5
<1>7. GWeight * a <= GWeight * b /\ GWeight * a \in Int
  BY <1>1, <1>6, WeightMonotone
<1>8. ASSUME heuristic_cache[x[2]] \in Nat, status[x[2]] = "CLOSED", Improves(x[2], node, x[1])
      PROVE  FALSE
  <2> DEFINE c == g[x[2]] + heuristic_cache[x[2]]
  <2>1. g[x[2]] \in Int /\ heuristic_cache'[x[2]] = heuristic_cache[x[2]]
    BY <1>1, <1>3, <1>4, <1>8 DEF SSTypeOK
  <2>2. c \in Int /\ b + 1 <= c
    BY <1>3, <1>8, <2>1 DEF Improves
  <2>3. GWeight * c <= GWeight * a
    BY <1>2, <1>3, <1>4, <1>8 DEF IncreasingF, F
  <2> HIDE DEF a, b, c
  <2>4. GWeight * (b + 1) <= GWeight * c
    BY <1>1, <1>6, <2>2, WeightMonotone
  <2>5. GWeight * (b + 1) = GWeight * b + GWeight
    BY <1>1, <1>6
  <2>6. GWeight * b \in Int /\ GWeight * c \in Int /\ GWeight > 0
    BY <1>1, <1>6, <2>2 DEF ConsistentAStar
  <2> QED
    BY <1>1, <1>7, <2>3, <2>4, <2>5, <2>6
<1> QED
  BY <1>7, <1>8 DEF F

\* A step leaves the facts about the f values alone, if it changes no g and
\* lets no node be opened or closed.
LEMMA IncreasingStutter ==
  ASSUME EagerInv, IncreasingF, ConsistentAStar, [Next]_vars,
         UNCHANGED g, open_list' \subseteq open_list,
         node' = node \/ node' = NoState,
         search_status' = "INITIALIZE" => search_status = "INITIALIZE",
         \A n \in States : status'[n] = status[n] \/ (status[n] = "NEW" /\ status'[n] = "DEAD_END"
                                                      /\ search_status # "INITIALIZE")
  PROVE  IncreasingF'
<1>1. EagerTypeOK /\ Control /\ EagerTypeOK'
  BY TypeStep DEF EagerInv
<1>2. \A n \in States : status'[n] \in {"OPEN", "CLOSED"} =>
        /\ status[n] = status'[n] /\ heuristic_cache[n] \in Nat
        /\ heuristic_cache'[n] = heuristic_cache[n] /\ F(n)' = F(n)
  <2>1. ASSUME NEW n \in States, status'[n] \in {"OPEN", "CLOSED"}
        PROVE  status[n] = status'[n] /\ heuristic_cache[n] \in Nat
    BY <2>1 DEF IncreasingF
  <2>2. ASSUME NEW n \in States, heuristic_cache[n] \in Nat
        PROVE  heuristic_cache'[n] = heuristic_cache[n] /\ F(n)' = F(n)
    BY <2>2, EstimatesAreKept DEF IncreasingF, F, NO_VALUE
  <2> QED
    BY <2>1, <2>2
<1>3. dirty' = {} /\ (Consistent' => Consistent)
  BY EstimatesAreKept DEF IncreasingF
<1>4. ASSUME NEW e \in open_list'
      PROVE  status'[e.state] \in {"OPEN", "CLOSED"} /\ F(e.state)' <= e.key
  <2>1. e \in open_list /\ e.state \in States
    BY <1>1 DEF EagerTypeOK
  <2>2. status[e.state] \in {"OPEN", "CLOSED"} /\ F(e.state) <= e.key
    BY <2>1 DEF IncreasingF
  <2>3. status'[e.state] = status[e.state]
    BY <2>1, <2>2
  <2> QED
    BY <1>2, <2>1, <2>2, <2>3
<1>5. ASSUME Consistent', NEW n \in States, status'[n] = "CLOSED"
      PROVE  /\ \A e \in open_list' : F(n)' <= e.key
             /\ node' # NoState => F(n)' <= F(node)'
  <2>1. status[n] = "CLOSED" /\ F(n)' = F(n)
    BY <1>2, <1>5
  <2>2. node' # NoState => node \in States /\ status'[node] = "CLOSED" /\ node' = node
    BY <1>1 DEF Control, EagerTypeOK
  <2>3. node' # NoState => F(node)' = F(node)
    BY <1>2, <2>2
  <2> QED
    BY <1>3, <1>5, <2>1, <2>2, <2>3 DEF IncreasingF
<1>6. search_status' = "INITIALIZE" => \A n \in States : status'[n] = "NEW"
  BY DEF IncreasingF
<1>7. \A n \in States : status'[n] \in {"OPEN", "CLOSED"} => heuristic_cache'[n] \in Nat
  BY <1>2
<1> QED
  BY <1>3, <1>4, <1>5, <1>6, <1>7 DEF IncreasingF

LEMMA IncreasingExpand ==
  ASSUME EagerInv, IncreasingF, ConsistentAStar, [Next]_vars, NEW e \in open_list, Expand(e)
  PROVE  IncreasingF'
<1>1. /\ EagerTypeOK /\ SSTypeOK /\ NodeConsistent /\ Control /\ OpenNodesQueued
      /\ GWeight \in Nat /\ Control' /\ EagerTypeOK' /\ NoState \notin States
  BY EvaluationAssumption, ControlStep, TypeStep, TaskAssumption DEF EagerInv, SSInv
<1>2. /\ e.state \in States /\ e.key \in Nat /\ status[e.state] = "OPEN"
      /\ status' = [status EXCEPT ![e.state] = "CLOSED"] /\ UNCHANGED g
      /\ open_list' = open_list \ {e} /\ \A f \in open_list : e.key <= f.key
      /\ search_status = "IN_PROGRESS" /\ search_status' # "INITIALIZE"
      /\ node' \in {NoState, e.state}
  <2>1. search_status' # "INITIALIZE"
    BY DEF Expand, StepReturns, RemoveMin, Popping, enginevars
  <2>2. node' \in {NoState, e.state}
    BY DEF Expand, RemoveMin, Popping
  <2> QED
    BY <1>1, <2>1, <2>2 DEF Expand, Close, RemoveMin, Popping, EagerTypeOK
<1>3. dirty' = {} /\ (Consistent' => Consistent)
  BY EstimatesAreKept DEF IncreasingF
<1>4. \A n \in States : status[n] \in {"OPEN", "CLOSED"} =>
        /\ heuristic_cache[n] \in Nat /\ g[n] \in Nat
        /\ heuristic_cache'[n] = heuristic_cache[n] /\ F(n)' = F(n) /\ F(n) \in Int
  <2> SUFFICES ASSUME NEW n \in States, status[n] \in {"OPEN", "CLOSED"}
      PROVE  /\ heuristic_cache[n] \in Nat /\ g[n] \in Nat
             /\ heuristic_cache'[n] = heuristic_cache[n] /\ F(n)' = F(n) /\ F(n) \in Int
    OBVIOUS
  <2>1. heuristic_cache[n] \in Nat /\ g[n] \in Nat
    BY <1>1 DEF IncreasingF, NodeConsistent, SSTypeOK, Reached
  <2>2. heuristic_cache'[n] = heuristic_cache[n]
    BY <2>1, EstimatesAreKept DEF IncreasingF, NO_VALUE
  <2>3. F(n)' = F(n)
    BY <1>2, <2>2 DEF F
  <2>4. g[n] + heuristic_cache[n] \in Int
    BY <2>1
  <2>5. F(n) \in Int
    BY <1>1, <2>4 DEF F
  <2> QED
    BY <2>1, <2>2, <2>3, <2>5
<1>5. e.key = F(e.state)
  <2>1. Entry(e.state, g[e.state], heuristic_cache[e.state]) \in open_list
    BY <1>1, <1>2, <1>4 DEF OpenNodesQueued, DEAD_END, ConsistentAStar
  <2>2. Entry(e.state, g[e.state], heuristic_cache[e.state]).key = F(e.state)
    <3>1. e.state \in States /\ g[e.state] \in Nat /\ heuristic_cache[e.state] \in Nat
      <4>1. e.state \in States /\ status[e.state] \in {"OPEN", "CLOSED"}
        BY <1>2
      <4> QED
        BY <4>1, <1>4, Zenon
    <3>2. Entry(e.state, g[e.state], heuristic_cache[e.state]).key
            = GWeight * (g[e.state] + heuristic_cache[e.state])
      BY <3>1, KeyOfEntry
    <3> QED
      BY <3>2 DEF F
  <2>3. F(e.state) <= e.key /\ e.key <= F(e.state)
    BY <1>2, <2>1, <2>2 DEF IncreasingF
  <2> QED
    BY <1>2, <1>4, <2>3
<1>6. \A n \in States : status'[n] \in {"OPEN", "CLOSED"} => status[n] \in {"OPEN", "CLOSED"}
  BY <1>1, <1>2 DEF SSTypeOK
<1>7. ASSUME NEW f \in open_list'
      PROVE  status'[f.state] \in {"OPEN", "CLOSED"} /\ F(f.state)' <= f.key
  <2>1. f \in open_list /\ f.state \in States
    BY <1>1, <1>2 DEF EagerTypeOK
  <2>2. status[f.state] \in {"OPEN", "CLOSED"} /\ F(f.state) <= f.key
    BY <2>1 DEF IncreasingF
  <2>3. F(f.state)' = F(f.state)
    BY <1>4, <2>1, <2>2
  <2> QED
    BY <1>1, <1>2, <2>1, <2>2, <2>3 DEF SSTypeOK
<1>8. ASSUME Consistent', NEW n \in States, status'[n] = "CLOSED"
      PROVE  /\ \A f \in open_list' : F(n)' <= f.key
             /\ node' # NoState => F(n)' <= F(node)'
  <2>1. F(n)' = F(n) /\ F(e.state)' = F(e.state)
    BY <1>2, <1>4, <1>6, <1>8
  <2>2. F(n) <= e.key
    <3>1. CASE n = e.state
      BY <1>2, <1>5, <3>1
    <3>2. CASE n # e.state
      <4>1. status[n] = "CLOSED"
        BY <1>1, <1>2, <1>8, <3>2 DEF SSTypeOK
      <4> QED
        BY <1>3, <1>8, <4>1 DEF IncreasingF
    <3> QED
      BY <3>1, <3>2
  <2>3. node' # NoState => F(node)' = e.key
    <3>1. node' # NoState => node' = e.state
      BY <1>2
    <3>2. node' = e.state => F(node)' = F(e.state)
      BY <2>1 DEF F
    <3> QED
      BY <1>5, <3>1, <3>2
  <2>4. ASSUME NEW f \in open_list' PROVE F(n) <= f.key
    <3>1. f \in open_list /\ f.key \in Nat /\ e.key <= f.key
      BY <1>1, <1>2 DEF EagerTypeOK
    <3>2. F(n) \in Int
      BY <1>4, <1>6, <1>8
    <3> QED
      BY <1>2, <2>2, <3>1, <3>2
  <2> QED
    BY <2>1, <2>2, <2>3, <2>4
<1> QED
  BY <1>2, <1>3, <1>4, <1>6, <1>7, <1>8 DEF IncreasingF

\* A node that is opened or reopened: its entry has the f value of the node,
\* which is at least the one of the node under expansion.
LEMMA IncreasingSuccessor ==
  ASSUME EagerInv, IncreasingF, ConsistentAStar, [Next]_vars,
         NEW x \in pending, NextSuccessor(x), NEW h \in Nat,
         SetParent(x[2], node, x[1]), heuristic_cache'[x[2]] = h,
         open_list' = open_list \union Inserted(x[2], g'[x[2]], h),
         status' = [status EXCEPT ![x[2]] = "OPEN"],
         \/ status[x[2]] = "NEW"
         \/ status[x[2]] \in {"OPEN", "CLOSED"} /\ Improves(x[2], node, x[1])
  PROVE  IncreasingF'
<1> DEFINE n == x[2]
<1>1. /\ EagerTypeOK /\ SSTypeOK /\ NodeConsistent /\ Control
      /\ GWeight \in Nat /\ Control' /\ EagerTypeOK' /\ NoState \notin States
  BY EvaluationAssumption, ControlStep, TypeStep, TaskAssumption DEF EagerInv, SSInv
<1>2. /\ node \in States /\ x \in Successors(node) /\ status[node] = "CLOSED"
      /\ node # NoState /\ node' = node /\ search_status' = search_status
      /\ search_status = "IN_PROGRESS" /\ g[node] \in Nat
  BY <1>1, TaskAssumption
  DEF Control, NextSuccessor, EagerTypeOK, NodeConsistent, enginevars, SSTypeOK, Reached
<1>3. n \in States /\ AdjustedCost(x[1]) \in Nat
  BY <1>2, SuccessorTransition, AdjustedCostNat
<1>4. /\ g'[n] = g[node] + AdjustedCost(x[1]) /\ g'[n] \in Nat
      /\ \A m \in States \ {n} : g'[m] = g[m] /\ status'[m] = status[m]
      /\ status'[n] = "OPEN" /\ n # node
  <2>1. n # node
    BY <1>2, <1>3 DEF Improves
  <2> QED
    BY <1>1, <1>2, <1>3, <2>1 DEF SetParent, SSTypeOK
<1>5. dirty' = {} /\ (Consistent' => Consistent)
  BY EstimatesAreKept DEF IncreasingF
<1>6. \A m \in States : status[m] \in {"OPEN", "CLOSED"} =>
        heuristic_cache[m] \in Nat /\ heuristic_cache'[m] = heuristic_cache[m] /\ g[m] \in Nat
  <2> SUFFICES ASSUME NEW m \in States, status[m] \in {"OPEN", "CLOSED"}
      PROVE  heuristic_cache[m] \in Nat /\ heuristic_cache'[m] = heuristic_cache[m] /\ g[m] \in Nat
    OBVIOUS
  <2>1. heuristic_cache[m] \in Nat /\ g[m] \in Nat
    BY <1>1 DEF IncreasingF, NodeConsistent, SSTypeOK, Reached
  <2> QED
    BY <2>1, EstimatesAreKept DEF IncreasingF, NO_VALUE
<1>7. \A m \in States \ {n} : status[m] \in {"OPEN", "CLOSED"} => F(m)' = F(m) /\ F(m) \in Int
  <2> SUFFICES ASSUME NEW m \in States \ {n}, status[m] \in {"OPEN", "CLOSED"}
      PROVE  F(m)' = F(m) /\ F(m) \in Int
    OBVIOUS
  <2>1. g[m] + heuristic_cache[m] \in Int
    BY <1>6
  <2> QED
    BY <1>1, <1>4, <1>6, <2>1 DEF F
<1>8. /\ F(n)' = GWeight * (g'[n] + h) /\ F(n)' \in Int
      /\ \A e \in open_list' : e \in open_list \/ (e.state = n /\ e.key = F(n)')
  <2>1. F(n)' = GWeight * (g'[n] + h) /\ g'[n] + h \in Int
    BY <1>4 DEF F
  <2>2. /\ Entry(n, g'[n], h).key = GWeight * (g'[n] + h) /\ Entry(n, g'[n], h).state = n
        /\ Inserted(n, g'[n], h) = {Entry(n, g'[n], h)}
    <3>1. GWeight = HWeight /\ h # DEAD_END
      BY DEF ConsistentAStar, DEAD_END
    <3>2. Key(g'[n], h) = GWeight * (g'[n] + h)
      BY <1>1, <1>4, <3>1, EvaluationAssumption DEF Key
    <3> QED
      BY <3>1, <3>2 DEF Entry, Inserted
  <2>3. F(n)' \in Int
    BY <1>1, <2>1
  <2> QED
    BY <2>1, <2>2, <2>3
\* The f value of the node does not rise.
<1>9. status[n] \in {"OPEN", "CLOSED"} => F(n) \in Int /\ F(n)' <= F(n)
  <2> SUFFICES ASSUME status[n] \in {"OPEN", "CLOSED"} PROVE F(n) \in Int /\ F(n)' <= F(n)
    OBVIOUS
  <2>1. heuristic_cache[n] = h /\ g[n] \in Nat /\ g'[n] <= g[n]
    BY <1>2, <1>3, <1>4, <1>6 DEF Improves
  <2>2. g'[n] + h \in Int /\ g[n] + h \in Int /\ g'[n] + h <= g[n] + h
    BY <1>4, <2>1
  <2>3. GWeight * (g'[n] + h) <= GWeight * (g[n] + h) /\ GWeight * (g[n] + h) \in Int
    BY <1>1, <2>2, WeightMonotone
  <2>4. F(n) = GWeight * (g[n] + h)
    BY <2>1 DEF F
  <2> QED
    BY <1>8, <2>3, <2>4
<1>10. ASSUME NEW e \in open_list'
       PROVE  status'[e.state] \in {"OPEN", "CLOSED"} /\ F(e.state)' <= e.key
  <2>1. CASE e.state = n /\ e.key = F(n)'
    <3>1. F(e.state)' = F(n)'
      BY <2>1 DEF F
    <3> QED
      BY <1>4, <1>8, <2>1, <3>1
  <2>2. CASE e \in open_list
    <3>1. /\ e.state \in States /\ e.key \in Nat
          /\ status[e.state] \in {"OPEN", "CLOSED"} /\ F(e.state) <= e.key
      BY <1>1, <2>2 DEF EagerTypeOK, IncreasingF
    <3>2. CASE e.state # n
      BY <1>4, <1>7, <3>1, <3>2
    <3>3. CASE e.state = n
      <4>1. F(n) <= e.key /\ F(n) \in Int /\ F(n)' <= F(n)
        BY <1>9, <3>1, <3>3
      <4>2. F(n)' <= e.key
        BY <1>8, <3>1, <4>1
      <4>3. F(e.state)' = F(n)'
        BY <3>3 DEF F
      <4> QED
        BY <1>4, <3>3, <4>2, <4>3
    <3> QED
      BY <3>2, <3>3
  <2> QED
    BY <1>8, <2>1, <2>2
<1>11. ASSUME Consistent', NEW m \in States, status'[m] = "CLOSED"
       PROVE  /\ \A e \in open_list' : F(m)' <= e.key
              /\ node' # NoState => F(m)' <= F(node)'
  <2>1. m # n /\ status[m] = "CLOSED" /\ F(m)' = F(m) /\ F(m) \in Int
    BY <1>4, <1>7, <1>11
  <2>2. F(node)' = F(node) /\ F(node) \in Int
    <3>1. F(node)' = GWeight * (g'[node] + heuristic_cache'[node])
      BY <1>2 DEF F
    <3>2. g'[node] = g[node] /\ heuristic_cache'[node] = heuristic_cache[node]
      BY <1>2, <1>4, <1>6
    <3>3. F(node) \in Int
      BY <1>2, <1>4, <1>7
    <3> QED
      BY <3>1, <3>2, <3>3 DEF F
  <2>3. F(m) <= F(node) /\ \A e \in open_list : F(m) <= e.key
    BY <1>2, <1>5, <1>11, <2>1 DEF IncreasingF
  <2>4. F(node) <= F(n)'
    <3>1. F(node) <= GWeight * (g[node] + AdjustedCost(x[1]) + heuristic_cache'[n])
      BY <1>11, SuccessorF
    <3> QED
      BY <1>4, <1>8, <3>1
  <2>5. F(m) <= F(n)'
    BY <1>8, <2>1, <2>2, <2>3, <2>4
  <2>6. \A e \in open_list' : F(m) <= e.key
    BY <1>8, <2>3, <2>5
  <2> QED
    BY <2>1, <2>2, <2>3, <2>6
<1>12. \A m \in States : status'[m] \in {"OPEN", "CLOSED"} => heuristic_cache'[m] \in Nat
  BY <1>4, <1>6
<1>13. search_status' # "INITIALIZE"
  BY <1>2
<1> QED
  BY <1>5, <1>10, <1>11, <1>12, <1>13 DEF IncreasingF

LEMMA IncreasingStep ==
  ASSUME EagerInv, IncreasingF, ConsistentAStar, [Next]_vars
  PROVE  IncreasingF'
<1>1. /\ EagerTypeOK /\ SSTypeOK /\ NodeConsistent /\ Control /\ InitialState \in States
      /\ GWeight \in Nat
  BY TaskAssumption, EvaluationAssumption DEF EagerInv, SSInv
<1>2. CASE Initialize
  <2>1. PICK h \in Estimates[InitialState] :
          /\ Evaluate(InitialState, dirty, h)
          /\ IF h = DEAD_END THEN UNCHANGED ssvars ELSE OpenInitial
          /\ open_list' = Inserted(InitialState, 0, h)
    BY <1>2 DEF Initialize
  <2>2. /\ search_status' = "IN_PROGRESS" /\ \A n \in States : status[n] = "NEW"
    BY <1>2 DEF Initialize, IncreasingF
  <2>3. dirty' = {} /\ heuristic_cache'[InitialState] = h /\ h \in Nat \union {DEAD_END}
    BY <1>1, <2>1, EstimateIsKept DEF IncreasingF
  <2>4. CASE h = DEAD_END
    <3>1. open_list' = {} /\ \A n \in States : status'[n] = "NEW"
      BY <2>1, <2>2, <2>4 DEF Inserted, ssvars
    <3> QED
      BY <2>2, <2>3, <3>1 DEF IncreasingF
  <2>5. CASE h # DEAD_END
    <3>1. /\ status' = [status EXCEPT ![InitialState] = "OPEN"]
          /\ g' = [g EXCEPT ![InitialState] = 0] /\ h \in Nat
      BY <2>1, <2>3, <2>5 DEF OpenInitial
    <3>2. /\ \A n \in States : status'[n] \in {"OPEN", "CLOSED"} => n = InitialState
          /\ status'[InitialState] = "OPEN" /\ g'[InitialState] = 0
      BY <1>1, <2>2, <3>1 DEF SSTypeOK
    <3>3. /\ Entry(InitialState, 0, h).key = GWeight * (0 + h)
          /\ Entry(InitialState, 0, h).state = InitialState
          /\ open_list' = {Entry(InitialState, 0, h)}
      <4>1. \A m \in States, c \in Nat :
              /\ Entry(m, c, h).key = GWeight * (c + h) /\ Entry(m, c, h).state = m
              /\ Inserted(m, c, h) = {Entry(m, c, h)}
        BY <3>1, KeyIsF
      <4>2. 0 \in Nat
        OBVIOUS
      <4> QED
        BY <1>1, <2>1, <4>1, <4>2
    <3>4. F(InitialState)' = GWeight * (0 + h) /\ F(InitialState)' \in Int
      <4>1. F(InitialState)' = GWeight * (0 + h)
        BY <2>3, <3>2 DEF F
      <4>2. 0 + h \in Int
        BY <3>1
      <4> QED
        BY <1>1, <4>1, <4>2
    <3>5. ASSUME NEW e \in open_list'
          PROVE  status'[e.state] \in {"OPEN", "CLOSED"} /\ F(e.state)' <= e.key
      <4>1. e.state = InitialState /\ e.key = F(InitialState)'
        BY <3>3, <3>4
      <4>2. F(e.state)' = F(InitialState)'
        BY <4>1 DEF F
      <4> QED
        BY <3>2, <3>4, <4>1, <4>2
    <3>6. \A n \in States : status'[n] # "CLOSED"
      BY <3>2
    <3> QED
      BY <2>2, <2>3, <3>1, <3>2, <3>5, <3>6 DEF IncreasingF
  <2> QED
    BY <2>4, <2>5
<1>3. CASE OpenListEmpty \/ Expanded \/ Terminated \/ UNCHANGED vars
  BY <1>3, IncreasingStutter DEF OpenListEmpty, Expanded, Terminated, StepReturns, vars, ssvars,
     enginevars
<1>4. ASSUME NEW e \in open_list, Skip(e)
      PROVE  IncreasingF'
  BY <1>4, IncreasingStutter DEF Skip, ssvars, enginevars
\* The estimate of an entry's node is known and is not that of a dead end.
<1>5. ASSUME NEW e \in open_list, FoundDead(e) \/ Reinsert(e)
      PROVE  FALSE
  <2>1. /\ e.state \in States /\ status[e.state] \in {"OPEN", "CLOSED"}
        /\ heuristic_cache[e.state] \in Nat /\ heuristic_cache[e.state] # NO_VALUE
    BY <1>1 DEF EagerTypeOK, IncreasingF, NO_VALUE
  <2>2. ASSUME NEW v, Evaluate(e.state, dirty, v) PROVE v = heuristic_cache[e.state] /\ v # DEAD_END
    BY <2>1, <2>2 DEF Evaluate, IncreasingF, DEAD_END
  <2> QED
    BY <1>5, <2>2 DEF FoundDead, Reinsert
<1>6. ASSUME NEW e \in open_list, Expand(e)
      PROVE  IncreasingF'
  BY <1>6, IncreasingExpand
<1>7. ASSUME NEW x \in pending, CutOff(x) \/ NothingNew(x)
      PROVE  IncreasingF'
  BY <1>7, IncreasingStutter DEF CutOff, NothingNew, NextSuccessor, ssvars, enginevars
<1>8. ASSUME NEW x \in pending, UpdateSuccessor(x)
      PROVE  FALSE
  BY <1>8 DEF UpdateSuccessor, ConsistentAStar
<1>9. ASSUME NEW x \in pending, NextSuccessor(x)
      PROVE  /\ x[1] \in Operators /\ x[2] \in States /\ search_status = "IN_PROGRESS"
             /\ node \in States /\ g[node] \in Nat /\ AdjustedCost(x[1]) \in Nat
             /\ node' = node /\ search_status' = search_status
  <2>1. node \in States /\ x \in Successors(node) /\ Reached(node)
    BY <1>1, <1>9 DEF Control, NextSuccessor, EagerTypeOK, NodeConsistent
  <2>2. x[1] \in Operators /\ x[2] \in States
    BY <2>1, SuccessorTransition
  <2>3. g[node] \in Nat
    BY <1>1, <2>1 DEF SSTypeOK, Reached
  <2>4. search_status = "IN_PROGRESS" /\ node' = node /\ search_status' = search_status
    BY <1>1, <1>9 DEF NextSuccessor, enginevars, Control
  <2> QED
    BY <2>1, <2>2, <2>3, <2>4, AdjustedCostNat
<1>10. ASSUME NEW x \in pending, NewSuccessor(x)
       PROVE  IncreasingF'
  <2>0. NextSuccessor(x) /\ status[x[2]] = "NEW"
    BY <1>10 DEF NewSuccessor
  <2>1. PICK h \in Estimates[x[2]] :
          /\ Evaluate(x[2], NotifyTransition(x[2]), h)
          /\ IF h = DEAD_END THEN MarkAsDeadEnd(x[2]) ELSE Open(x[2], node, x[1])
          /\ open_list' = open_list \union Inserted(x[2], g[node] + AdjustedCost(x[1]), h)
    BY <1>10 DEF NewSuccessor
  <2>2. heuristic_cache'[x[2]] = h /\ h \in Nat \union {DEAD_END}
    BY <1>1, <1>9, <2>0, <2>1, EstimateIsKept DEF IncreasingF
  <2>3. CASE h = DEAD_END
    <3>1. open_list' = open_list /\ g' = g /\ status' = [status EXCEPT ![x[2]] = "DEAD_END"]
      BY <2>1, <2>3 DEF Inserted, MarkAsDeadEnd
    <3>2. \A n \in States : status'[n] = status[n] \/ (status[n] = "NEW" /\ status'[n] = "DEAD_END"
                                                       /\ search_status # "INITIALIZE")
      BY <1>1, <1>9, <2>0, <3>1 DEF SSTypeOK
    <3> QED
      BY <1>9, <2>0, <3>1, <3>2, IncreasingStutter
  <2>4. CASE h # DEAD_END
    <3>1. /\ h \in Nat /\ SetParent(x[2], node, x[1])
          /\ status' = [status EXCEPT ![x[2]] = "OPEN"]
      BY <2>1, <2>2, <2>4 DEF Open
    <3>2. g'[x[2]] = g[node] + AdjustedCost(x[1])
      BY <1>1, <1>9, <2>0, <3>1 DEF SetParent, SSTypeOK
    <3>3. open_list' = open_list \union Inserted(x[2], g'[x[2]], h)
      BY <2>1, <3>2
    <3> QED
      BY <2>0, <2>2, <3>1, <3>3, IncreasingSuccessor
  <2> QED
    BY <2>3, <2>4
<1>11. ASSUME NEW x \in pending, ReopenSuccessor(x)
       PROVE  IncreasingF'
  <2>1. PICK h \in Estimates[x[2]] :
          /\ Evaluate(x[2], NotifyTransition(x[2]), h)
          /\ open_list' = open_list \union Inserted(x[2], g'[x[2]], h)
    BY <1>11 DEF ReopenSuccessor
  <2>2. /\ NextSuccessor(x) /\ Improves(x[2], node, x[1]) /\ SetParent(x[2], node, x[1])
        /\ status[x[2]] \in {"OPEN", "CLOSED"} /\ status' = [status EXCEPT ![x[2]] = "OPEN"]
    BY <1>11 DEF ReopenSuccessor, Reopen
  <2>3. heuristic_cache'[x[2]] = h /\ h = heuristic_cache[x[2]] /\ h \in Nat
    <3>1. heuristic_cache[x[2]] \in Nat /\ heuristic_cache[x[2]] # NO_VALUE
      BY <1>9, <2>2 DEF IncreasingF, NO_VALUE
    <3> QED
      BY <1>1, <1>9, <2>1, <2>2, <3>1, EstimateIsKept DEF IncreasingF
  <2> QED
    BY <2>1, <2>2, <2>3, IncreasingSuccessor
<1> QED
  BY <1>2, <1>3, <1>4, <1>5, <1>6, <1>7, <1>8, <1>10, <1>11 DEF Next, EagerStep

\* A* with consistent estimates never reopens a closed node, for every task,
\* evaluator and bound, zero-cost operators and stale entries included.
THEOREM ConsistentTheoremEager == Spec => ConsistentClosesForGood
<1>1. CASE ~ConsistentAStar
  <2>1. [ReopenClosed /\ ~PathDependent /\ GWeight > 0 /\ GWeight = HWeight /\ Consistent' =>
           \A n \in States : status[n] = "CLOSED" => status'[n] = "CLOSED" /\ g'[n] = g[n]]_vars
    BY <1>1 DEF ConsistentAStar
  <2> QED
    BY <2>1, PTL DEF ConsistentClosesForGood
<1>2. CASE ConsistentAStar
  <2>1. Init => IncreasingF
    BY DEF Init, SSInit, EvaluationInit, IncreasingF
  <2>2. EagerInv /\ IncreasingF /\ [Next]_vars => IncreasingF'
    BY <1>2, IncreasingStep
  <2>3. EagerInv /\ IncreasingF /\ [Next]_vars =>
          [ReopenClosed /\ ~PathDependent /\ GWeight > 0 /\ GWeight = HWeight /\ Consistent' =>
             \A n \in States : status[n] = "CLOSED" => status'[n] = "CLOSED" /\ g'[n] = g[n]]_vars
    <3> SUFFICES ASSUME EagerInv, IncreasingF, Next, Consistent', NEW n \in States, status[n] = "CLOSED"
        PROVE  status'[n] = "CLOSED" /\ g'[n] = g[n]
      OBVIOUS
    <3>1. EagerTypeOK /\ SSTypeOK /\ Control /\ NodeConsistent /\ InitialState \in States
      BY TaskAssumption DEF EagerInv, SSInv
    <3>2. CASE Initialize
      BY <3>2 DEF Initialize, IncreasingF
    <3>3. CASE OpenListEmpty \/ Expanded \/ Terminated
      BY <3>3 DEF OpenListEmpty, Expanded, Terminated, vars, ssvars
    <3>4. ASSUME NEW e \in open_list, Skip(e) \/ FoundDead(e) \/ Reinsert(e) \/ Expand(e)
          PROVE  status'[n] = "CLOSED" /\ g'[n] = g[n]
      BY <3>1, <3>4 DEF Skip, FoundDead, Reinsert, Expand, MarkAsDeadEnd, Close, ssvars, SSTypeOK,
         EagerTypeOK
    <3>5. ASSUME NEW x \in pending, CutOff(x) \/ NothingNew(x)
          PROVE  status'[n] = "CLOSED" /\ g'[n] = g[n]
      BY <3>5 DEF CutOff, NothingNew, ssvars
    <3>6. ASSUME NEW x \in pending, NewSuccessor(x)
          PROVE  status'[n] = "CLOSED" /\ g'[n] = g[n]
      <4>1. status[x[2]] = "NEW" /\ x[2] # n /\ x[2] \in States
        BY <3>1, <3>6 DEF NewSuccessor, EagerTypeOK
      <4> QED
        BY <3>1, <3>6, <4>1 DEF NewSuccessor, MarkAsDeadEnd, Open, SetParent, SSTypeOK
    <3>7. ASSUME NEW x \in pending, ReopenSuccessor(x)
          PROVE  status'[n] = "CLOSED" /\ g'[n] = g[n]
      <4>1. /\ NextSuccessor(x) /\ Improves(x[2], node, x[1]) /\ x[2] \in States
            /\ status[x[2]] \in {"OPEN", "CLOSED"}
        BY <3>1, <3>7 DEF ReopenSuccessor, Reopen, EagerTypeOK
      <4>2. heuristic_cache[x[2]] \in Nat /\ heuristic_cache[x[2]] # NO_VALUE
        BY <4>1 DEF IncreasingF, NO_VALUE
      <4>3. heuristic_cache'[x[2]] \in Nat
        BY <1>2, <4>1, <4>2, EstimatesAreKept DEF IncreasingF
      <4>4. status[x[2]] # "CLOSED"
        BY <1>2, <4>1, <4>2, <4>3, SuccessorF
      <4> QED
        BY <3>1, <3>7, <4>1, <4>4 DEF ReopenSuccessor, Reopen, SetParent, SSTypeOK
    <3>8. ASSUME NEW x \in pending, UpdateSuccessor(x)
          PROVE  FALSE
      BY <1>2, <3>8 DEF UpdateSuccessor, ConsistentAStar
    <3> QED
      BY <3>2, <3>3, <3>4, <3>5, <3>6, <3>7, <3>8 DEF Next, EagerStep
  <2> QED
    BY <2>1, <2>2, <2>3, EagerInvariant, PTL DEF Spec, ConsistentClosesForGood
<1> QED
  BY <1>1, <1>2

==============================================================================
