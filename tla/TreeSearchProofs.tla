-------------------------- MODULE TreeSearchProofs --------------------------
(***************************************************************************)
(* The engines that search the tree of operator sequences.  For every      *)
(* finite task, every heuristic, every option and every size of the cache  *)
(* of IDA*: a search that ends with a plan has the plan that it promises   *)
(* (BestPlan), and one that fails has a reason to (FailureHasReason).      *)
(*                                                                         *)
(* Two things are assumed of the numbers: no bound exceeds Infinity, and   *)
(* no sum of costs and estimates reaches it, as none may that the code     *)
(* adds up in an int.                                                      *)
(***************************************************************************)
EXTENDS TreeSearch, SearchSpaceProofs


-----------------------------------------------------------------------------
(***************************************************************************)
(* The costs of operator sequences.                                        *)
(***************************************************************************)

\* PlanCost adds up the costs of the operators, one after the other.
LEMMA PlanCostSum ==
  ASSUME NEW plan \in Seq(Operators)
  PROVE  \E f \in [0..Len(plan) -> Nat] :
           /\ f[0] = 0 /\ \A i \in 1..Len(plan) : f[i] = f[i-1] + Cost[plan[i]]
           /\ PlanCost(plan) = f[Len(plan)]
<1> DEFINE IsSum(f) == f = [i \in 0..Len(plan) |-> IF i = 0 THEN 0 ELSE f[i-1] + Cost[plan[i]]]
           sum == CHOOSE f : IsSum(f)
<1>1. PICK N \in Nat : N = Len(plan)
  OBVIOUS
<1>2. \A i \in 1..N : Cost[plan[i]] \in Nat
  BY <1>1, CostAssumption
<1>3. \E f : IsSum(f)
  <2> DEFINE step == [i \in 1..N |-> [d \in Nat |-> d + Cost[plan[i]]]]
  <2>1. step \in [1..N -> [Nat -> Nat]]
    BY <1>2
  <2>2. \A i \in 1..N : \A d \in Nat : step[i][d] = d + Cost[plan[i]]
    OBVIOUS
  <2> HIDE DEF step
  <2>3. PICK f \in [0..N -> Nat] :
          f[0] = 0 /\ \A i \in 1..N : f[i] = step[i][f[i-1]]
    <3>1. 0 \in Nat
      OBVIOUS
    <3>2. Solutions(Nat, 0, N, step) # {}
      BY <1>1, <2>1, <3>1, Recursion
    <3> QED
      BY <3>2 DEF Solutions
  <2>4. \A i \in 0..N : i # 0 => i \in 1..N /\ i - 1 \in 0..N
    BY <1>1
  <2>5. \A i \in 0..N : f[i] = IF i = 0 THEN 0 ELSE f[i-1] + Cost[plan[i]]
    BY <2>2, <2>3, <2>4
  <2>6. IsSum(f)
    BY <1>1, <2>3, <2>5
  <2> QED
    BY <2>6
<1>4. IsSum(sum)
  BY <1>3
<1>5. PlanCost(plan) = sum[Len(plan)]
  BY DEF PlanCost
<1> HIDE DEF sum
<1>6. sum[0] = 0 /\ \A i \in 1..N : sum[i] = sum[i-1] + Cost[plan[i]]
  <2>1. \A i \in 1..N : i \in 0..N /\ i # 0
    BY <1>1
  <2> QED
    BY <1>1, <1>4, <2>1
<1> DEFINE S == {i \in Nat : i <= N => sum[i] \in Nat}
<1>7. 0 \in S
  BY <1>6
<1>8. ASSUME NEW i \in Nat, i \in S PROVE i + 1 \in S
  <2> SUFFICES ASSUME i + 1 <= N PROVE sum[i+1] \in Nat
    OBVIOUS
  <2>1. i + 1 \in 1..N /\ (i + 1) - 1 = i
    BY <1>1
  <2>2. sum[i+1] = sum[(i+1)-1] + Cost[plan[i+1]] /\ Cost[plan[i+1]] \in Nat
    BY <1>2, <1>6, <2>1
  <2>3. sum[i] \in Nat
    BY <1>1, <1>8
  <2> QED
    BY <2>1, <2>2, <2>3
<1> HIDE DEF S
<1>9. \A i \in 0..N : sum[i] \in Nat
  <2>1. Nat \subseteq S
    BY <1>7, <1>8, Induction
  <2> QED
    BY <1>1, <2>1 DEF S
<1>10. sum = [i \in 0..N |-> sum[i]]
  BY <1>1, <1>4
<1>11. sum \in [0..N -> Nat]
  BY <1>9, <1>10
<1> QED
  BY <1>1, <1>5, <1>6, <1>11

\* The cost of a plan is the sum of the costs of its operators.
LEMMA PlanCostFacts ==
  /\ PlanCost(<<>>) = 0
  /\ \A plan \in Seq(Operators) : PlanCost(plan) \in Nat
  /\ \A plan \in Seq(Operators) : \A o \in Operators :
       PlanCost(Append(plan, o)) = PlanCost(plan) + Cost[o]
<1>1. PlanCost(<<>>) = 0
  <2>1. PICK e \in Seq(Operators) : e = <<>> /\ Len(e) = 0
    <3>1. <<>> \in Seq(Operators) /\ Len(<<>>) = 0
      OBVIOUS
    <3> QED
      BY <3>1
  <2>2. PICK f \in [0..Len(e) -> Nat] : f[0] = 0 /\ PlanCost(e) = f[Len(e)]
    BY PlanCostSum
  <2> QED
    BY <2>1, <2>2
<1>2. ASSUME NEW plan \in Seq(Operators) PROVE PlanCost(plan) \in Nat
  <2>1. PICK f \in [0..Len(plan) -> Nat] : PlanCost(plan) = f[Len(plan)]
    BY PlanCostSum
  <2> QED
    BY <2>1
<1>3. ASSUME NEW plan \in Seq(Operators), NEW o \in Operators
      PROVE  PlanCost(Append(plan, o)) = PlanCost(plan) + Cost[o]
  <2>1. PICK N \in Nat : N = Len(plan)
    OBVIOUS
  <2>2. PICK f \in [0..N -> Nat] :
          /\ f[0] = 0 /\ \A i \in 1..N : f[i] = f[i-1] + Cost[plan[i]]
          /\ PlanCost(plan) = f[N]
    <3>1. \E f \in [0..Len(plan) -> Nat] :
            /\ f[0] = 0 /\ \A i \in 1..Len(plan) : f[i] = f[i-1] + Cost[plan[i]]
            /\ PlanCost(plan) = f[Len(plan)]
      BY PlanCostSum
    <3> QED
      BY <2>1, <3>1
  <2>3. PICK long \in Seq(Operators) : /\ long = Append(plan, o) /\ Len(long) = N + 1
                                       /\ long[N+1] = o /\ \A i \in 1..N : long[i] = plan[i]
    BY <2>1
  <2>4. PICK h \in [0..N+1 -> Nat] :
          /\ h[0] = 0 /\ \A i \in 1..N+1 : h[i] = h[i-1] + Cost[long[i]]
          /\ PlanCost(long) = h[N+1]
    <3>1. \E h \in [0..Len(long) -> Nat] :
            /\ h[0] = 0 /\ \A i \in 1..Len(long) : h[i] = h[i-1] + Cost[long[i]]
            /\ PlanCost(long) = h[Len(long)]
      BY PlanCostSum
    <3> QED
      BY <2>3, <3>1
  <2> DEFINE S == {i \in Nat : i <= N => h[i] = f[i]}
  <2>5. 0 \in S
    BY <2>2, <2>4
  <2>6. ASSUME NEW i \in Nat, i \in S PROVE i + 1 \in S
    <3> SUFFICES ASSUME i + 1 <= N PROVE h[i+1] = f[i+1]
      OBVIOUS
    <3>1. PICK j \in 1..N : j = i + 1
      OBVIOUS
    <3>2. h[i] = f[i] /\ j - 1 = i /\ j \in 1..N+1
      BY <2>6, <3>1
    <3>3. h[j] = h[j-1] + Cost[long[j]] /\ f[j] = f[j-1] + Cost[plan[j]] /\ long[j] = plan[j]
      BY <2>2, <2>3, <2>4, <3>1, <3>2
    <3> QED
      BY <3>1, <3>2, <3>3
  <2> HIDE DEF S
  <2>7. h[N] = f[N]
    <3>1. N \in S
      BY <2>5, <2>6, Induction
    <3> QED
      BY <3>1 DEF S
  <2>8. h[N+1] = h[N] + Cost[o]
    <3>1. PICK j \in 1..N+1 : j = N + 1
      OBVIOUS
    <3>2. h[j] = h[j-1] + Cost[long[j]] /\ j - 1 = N
      BY <2>4, <3>1
    <3> QED
      BY <2>3, <3>1, <3>2
  <2> QED
    BY <2>2, <2>3, <2>4, <2>7, <2>8
<1> QED
  BY <1>1, <1>2, <1>3

-----------------------------------------------------------------------------
(***************************************************************************)
(* What holds of all three engines: the frames of the stack form a path of *)
(* the task, whose operators are the operator sequence.                    *)
(***************************************************************************)

Frames == [state : States, g : Nat, next_limit : Nat \union {-1}, pending : SUBSET (Operators \X States)]

TreeTypes ==
  /\ search_status \in SearchStatus
  /\ config \in Configs /\ limit \in Int /\ iteration \in Nat
  /\ stack \in Seq(Frames) /\ operator_sequence \in Seq(Operators)
  /\ returned \in Nat \union {-1, None} /\ plans \in Seq(Seq(Operators))
  /\ EvaluationTypeOK /\ dirty = {}

\* The operators on the path: one for every frame but the first, and one more
\* for a call that has returned.
TreeControl ==
  /\ iteration = 0 => stack = <<>> /\ returned = None /\ plans = <<>>
  /\ search_status = "INITIALIZE" => iteration = 0
  /\ ~Running => stack = <<>> /\ returned = None
  /\ search_status = "SOLVED" => Found
  /\ search_status = "FAILED" => ~Found /\ ~Repeats
  /\ stack # <<>> =>
       Len(operator_sequence) = IF returned = None THEN Len(stack) - 1 ELSE Len(stack)
  /\ stack = <<>> => operator_sequence = <<>> \/ Unwinds

\* The frames of the stack form a path of the task, and g is its cost.
IsTreePath(st, ops) ==
  /\ st # <<>> => st[1].state = InitialState /\ st[1].g = 0
  /\ \A i \in 1..Len(st) : st[i].state \notin GoalStates /\ st[i].pending \subseteq Successors(st[i].state)
  /\ \A i \in 1..Len(st) : i + 1 \in 1..Len(st) =>
       /\ <<st[i].state, ops[i], st[i+1].state>> \in Transitions
       /\ st[i+1].g = st[i].g + AdjustedCost(ops[i])

TreeBase == TreeTypes /\ TreeControl /\ IsTreePath(stack, operator_sequence)

\* The components of frames.
LEMMA FramesAre ==
  ASSUME NEW st \in Seq(Frames)
  PROVE  \A i \in 1..Len(st) : /\ st[i] \in Frames /\ st[i].state \in States /\ st[i].g \in Nat
                               /\ st[i].next_limit \in Nat \union {-1}
<1>1. ASSUME NEW i \in 1..Len(st) PROVE st[i] \in Frames
  OBVIOUS
<1> QED
  BY <1>1 DEF Frames

\* The stack with another frame on top.
LEMMA FrameChanged ==
  ASSUME NEW st \in Seq(Frames), st # <<>>, NEW f \in Frames
  PROVE  /\ Len(st) \in Nat /\ Len(st) \in 1..Len(st) /\ st[Len(st)] \in Frames
         /\ [st EXCEPT ![Len(st)] = f] \in Seq(Frames)
         /\ Len([st EXCEPT ![Len(st)] = f]) = Len(st)
         /\ [st EXCEPT ![Len(st)] = f] # <<>>
         /\ [st EXCEPT ![Len(st)] = f][Len(st)] = f
         /\ \A i \in 1..Len(st) : i # Len(st) => [st EXCEPT ![Len(st)] = f][i] = st[i]
<1>1. Len(st) \in 1..Len(st) /\ Len(st) \in Nat
  OBVIOUS
<1>2. [st EXCEPT ![Len(st)] = f] \in Seq(Frames)
  BY <1>1, ExceptSeq
<1>3. Len([st EXCEPT ![Len(st)] = f]) = Len(st)
  BY <1>1, ExceptSeq
<1>4. st[Len(st)] \in Frames /\ Len(st) \in DOMAIN st
  BY <1>1
<1>5. /\ [st EXCEPT ![Len(st)] = f][Len(st)] = f
      /\ \A i \in 1..Len(st) : i # Len(st) => [st EXCEPT ![Len(st)] = f][i] = st[i]
  BY <1>4
<1>6. [st EXCEPT ![Len(st)] = f] # <<>>
  <2>1. PICK r \in Seq(Frames) : r = [st EXCEPT ![Len(st)] = f] /\ Len(r) = Len(st)
    BY <1>2, <1>3
  <2> QED
    BY <1>1, <2>1
<1> QED
  BY <1>1, <1>2, <1>3, <1>4, <1>5, <1>6

LEMMA TopIs ==
  ASSUME TreeTypes, stack # <<>>
  PROVE  Top = stack[Len(stack)] /\ Top \in Frames /\ Len(stack) \in 1..Len(stack)
<1>1. stack \in Seq(Frames)
  BY DEF TreeTypes
<1>2. PICK n \in Nat : n = Len(stack) /\ n \in 1..n /\ n \in DOMAIN stack
  BY <1>1
<1> QED
  BY <1>1, <1>2 DEF Top, Last

\* The stack when an operator was taken from the frame on top.
LEMMA PendingRemoved ==
  ASSUME TreeTypes, stack # <<>>, NEW x
  PROVE  \E rest \in Seq(Frames) :
           /\ rest = [stack EXCEPT ![Len(stack)].pending = @ \ {x}]
           /\ Len(rest) = Len(stack) /\ rest # <<>>
           /\ rest[Len(stack)] = [Top EXCEPT !.pending = @ \ {x}]
           /\ \A i \in 1..Len(stack) : i # Len(stack) => rest[i] = stack[i]
           /\ \A i \in 1..Len(stack) : /\ rest[i].state = stack[i].state /\ rest[i].g = stack[i].g
                                       /\ rest[i].next_limit = stack[i].next_limit
                                       /\ rest[i].pending \subseteq stack[i].pending
<1>1. stack \in Seq(Frames) /\ Top = stack[Len(stack)] /\ Top \in Frames
  BY TopIs DEF TreeTypes
<1>2. PICK f \in Frames : f = [Top EXCEPT !.pending = @ \ {x}]
  BY <1>1 DEF Frames
<1>3. [stack EXCEPT ![Len(stack)].pending = @ \ {x}] = [stack EXCEPT ![Len(stack)] = f]
  BY <1>1, <1>2
<1>4. f.state = Top.state /\ f.g = Top.g /\ f.next_limit = Top.next_limit /\ f.pending \subseteq Top.pending
  BY <1>1, <1>2 DEF Frames
<1>5. PICK rest \in Seq(Frames) :
        /\ rest = [stack EXCEPT ![Len(stack)] = f]
        /\ Len(rest) = Len(stack) /\ rest # <<>>
        /\ rest[Len(stack)] = f
        /\ \A i \in 1..Len(stack) : i # Len(stack) => rest[i] = stack[i]
  BY <1>1, FrameChanged
<1>6. ASSUME NEW i \in 1..Len(stack)
      PROVE  /\ rest[i].state = stack[i].state /\ rest[i].g = stack[i].g
             /\ rest[i].next_limit = stack[i].next_limit
             /\ rest[i].pending \subseteq stack[i].pending
  <2>1. CASE i = Len(stack)
    BY <1>1, <1>4, <1>5, <2>1
  <2>2. CASE i # Len(stack)
    BY <1>5, <2>2
  <2> QED
    BY <2>1, <2>2
<1> QED
  BY <1>2, <1>3, <1>5, <1>6

\* The stack when the frame on top has seen the limit l of a call.
LEMMA LimitNoted ==
  ASSUME TreeTypes, stack # <<>>, NEW l \in Nat \union {-1}
  PROVE  \E rest \in Seq(Frames) :
           /\ rest = [stack EXCEPT ![Len(stack)].next_limit = NextLimit(@, l)]
           /\ Len(rest) = Len(stack) /\ rest # <<>>
           /\ rest[Len(stack)] = [Top EXCEPT !.next_limit = NextLimit(@, l)]
           /\ \A i \in 1..Len(stack) : i # Len(stack) => rest[i] = stack[i]
           /\ \A i \in 1..Len(stack) : /\ rest[i].state = stack[i].state /\ rest[i].g = stack[i].g
                                       /\ rest[i].pending = stack[i].pending
<1>1. stack \in Seq(Frames) /\ Top = stack[Len(stack)] /\ Top \in Frames
  BY TopIs DEF TreeTypes
<1>2. PICK f \in Frames : f = [Top EXCEPT !.next_limit = NextLimit(@, l)]
  BY <1>1 DEF Frames, NextLimit
<1>3. [stack EXCEPT ![Len(stack)].next_limit = NextLimit(@, l)] = [stack EXCEPT ![Len(stack)] = f]
  BY <1>1, <1>2
<1>4. f.state = Top.state /\ f.g = Top.g /\ f.pending = Top.pending
  BY <1>1, <1>2 DEF Frames
<1>5. PICK rest \in Seq(Frames) :
        /\ rest = [stack EXCEPT ![Len(stack)] = f]
        /\ Len(rest) = Len(stack) /\ rest # <<>>
        /\ rest[Len(stack)] = f
        /\ \A i \in 1..Len(stack) : i # Len(stack) => rest[i] = stack[i]
  BY <1>1, FrameChanged
<1>6. ASSUME NEW i \in 1..Len(stack)
      PROVE  /\ rest[i].state = stack[i].state /\ rest[i].g = stack[i].g
             /\ rest[i].pending = stack[i].pending
  <2>1. CASE i = Len(stack)
    BY <1>1, <1>4, <1>5, <2>1
  <2>2. CASE i # Len(stack)
    BY <1>5, <2>2
  <2> QED
    BY <2>1, <2>2
<1> QED
  BY <1>2, <1>3, <1>5, <1>6

LEMMA FrontIs ==
  ASSUME TreeTypes, stack # <<>>
  PROVE  /\ Front(stack) \in Seq(Frames) /\ Len(Front(stack)) = Len(stack) - 1
         /\ \A i \in 1..Len(stack)-1 : Front(stack)[i] = stack[i]
<1>1. stack \in Seq(Frames)
  BY DEF TreeTypes
<1>2. PICK n \in Nat : n = Len(stack) /\ n - 1 \in Nat
  BY <1>1
<1> QED
  BY <1>1, <1>2 DEF Front

-----------------------------------------------------------------------------
(***************************************************************************)
(* What a call of recursive_search does, from the frames of its callers.   *)
(***************************************************************************)

LEMMA EngineIs == TreeTypes => Engine("dfs") \/ Engine("idastar") \/ Engine("ids")
BY ConfigAssumption DEF TreeTypes, Engine

LEMMA SequenceCostNat ==
  ASSUME NEW seq \in Seq(Operators)
  PROVE  SequenceCost(seq) \in Nat
BY PlanCostFacts DEF SequenceCost

\* What a call does: it is over the limit, or finds a goal state, or opens a frame.
Value(h) == IF h = DEAD_END THEN Infinity ELSE h

Passes(cost, h) ==
  /\ Engine("dfs") => cost < limit
  /\ Engine("idastar") => cost + Value(h) <= limit

TooDear(s, cost, h, callers) ==
  /\ ~Passes(cost, h)
  /\ stack' = callers /\ returned' = cost + Value(h)
  /\ limit' = limit /\ plans' = plans

AtGoal(s, cost, h, callers, seq) ==
  /\ Passes(cost, h) /\ s \in GoalStates
  /\ stack' = callers /\ returned' = -1
  /\ IF Saves(SequenceCost(seq))
       THEN plans' = Append(plans, seq) /\ limit' = NewLimit(SequenceCost(seq))
       ELSE plans' = plans /\ limit' = limit

Opens(s, cost, h, callers, seq) ==
  /\ Passes(cost, h) /\ s \notin GoalStates
  /\ limit' = limit /\ plans' = plans /\ returned' = returned
  /\ \E f \in Frames :
       /\ stack' = Append(callers, f)
       /\ f.state = s /\ f.g = cost /\ f.next_limit = Infinity
       /\ f.pending = IF Engine("ids") /\ Len(seq) >= limit THEN {} ELSE Successors(s)

Calls(s, cost, h, callers, seq) ==
  \/ TooDear(s, cost, h, callers)
  \/ AtGoal(s, cost, h, callers, seq)
  \/ Opens(s, cost, h, callers, seq)

LEMMA ValueNat == \A h \in Nat \union {DEAD_END} : Value(h) \in Nat
BY InfinityNat DEF Value, DEAD_END

\* A call is too dear, at a goal state, or opens a frame.
LEMMA CallCases ==
  ASSUME TreeTypes, NEW s \in States, NEW cost \in Nat, NEW h \in Nat \union {DEAD_END},
         NEW callers \in Seq(Frames), NEW seq \in Seq(Operators),
         Call(Node(s, cost, h), callers, seq)
  PROVE  Calls(s, cost, h, callers, seq)
<1> DEFINE node == Node(s, cost, h)
<1>1. node.h = Value(h) /\ node.state = s /\ node.g = cost /\ Value(h) \in Nat
  BY ValueNat DEF Node, Value
<1> HIDE DEF node
<1>0. OverLimit(node) <=> ~Passes(cost, h)
  <2>1. limit \in Int
    BY DEF TreeTypes
  <2>2. CASE Engine("dfs")
    BY <1>1, <2>1, <2>2 DEF OverLimit, Passes, Engine
  <2>3. CASE Engine("idastar")
    BY <1>1, <2>1, <2>3 DEF OverLimit, Passes, Engine
  <2>4. CASE Engine("ids")
    BY <2>4 DEF OverLimit, Passes, Engine
  <2> QED
    BY <2>2, <2>3, <2>4, EngineIs
<1>2. CASE /\ OverLimit(node) /\ returned' = node.g + node.h /\ stack' = callers
           /\ UNCHANGED <<limit, plans>>
  BY <1>0, <1>1, <1>2 DEF TooDear, Calls
<1>3. CASE /\ ~OverLimit(node) /\ IsGoal(node.state) /\ returned' = -1
           /\ IF Saves(SequenceCost(seq))
                THEN plans' = Append(plans, seq) /\ limit' = NewLimit(SequenceCost(seq))
                ELSE UNCHANGED <<limit, plans>>
           /\ stack' = callers
  BY <1>0, <1>1, <1>3 DEF IsGoal, AtGoal, Calls
<1>4. CASE /\ ~OverLimit(node) /\ ~IsGoal(node.state)
           /\ stack' = Append(callers, [state |-> node.state, g |-> node.g, next_limit |-> Infinity,
                                pending |-> IF Engine("ids") /\ Len(seq) >= limit
                                              THEN {} ELSE Successors(node.state)])
           /\ UNCHANGED <<limit, plans, returned>>
  <2> DEFINE f == [state |-> node.state, g |-> node.g, next_limit |-> Infinity,
                   pending |-> IF Engine("ids") /\ Len(seq) >= limit
                                 THEN {} ELSE Successors(node.state)]
  <2>1. f \in Frames
    BY <1>1, InfinityNat DEF Frames, Successors
  <2>2. f.state = s /\ f.g = cost /\ f.next_limit = Infinity
        /\ f.pending = IF Engine("ids") /\ Len(seq) >= limit THEN {} ELSE Successors(s)
    BY <1>1
  <2>3. stack' = Append(callers, f)
    BY <1>4
  <2> HIDE DEF f
  <2> QED
    BY <1>0, <1>1, <1>4, <2>1, <2>2, <2>3 DEF IsGoal, Opens, Calls
<1> QED
  BY <1>2, <1>3, <1>4 DEF Call, Calls, node

\* What the types need to know of a call.
Called(s, cost, callers) ==
  /\ stack' \in Seq(Frames) /\ limit' \in Int /\ returned' \in Nat \union {-1, None} /\ plans' \in Seq(Seq(Operators))
  /\ Found => plans' # <<>>
  /\ \/ stack' = callers /\ returned' \in Nat \union {-1}
     \/ /\ s \notin GoalStates /\ returned' = returned
        /\ \E f \in Frames : /\ stack' = Append(callers, f)
                             /\ f.state = s /\ f.g = cost /\ f.pending \subseteq Successors(s)

LEMMA CallTypes ==
  ASSUME TreeTypes, NEW s \in States, NEW cost \in Nat, NEW h \in Nat \union {DEAD_END},
         NEW callers \in Seq(Frames), NEW seq \in Seq(Operators),
         Calls(s, cost, h, callers, seq)
  PROVE  Called(s, cost, callers)
<1>1. limit \in Int /\ returned \in Nat \union {-1, None} /\ plans \in Seq(Seq(Operators))
  BY DEF TreeTypes
<1>2. SequenceCost(seq) \in Nat
  BY SequenceCostNat
<1>3. NewLimit(SequenceCost(seq)) \in Int
  BY <1>1, <1>2, EngineIs DEF NewLimit, Engine
<1>4. Append(plans, seq) \in Seq(Seq(Operators)) /\ Append(plans, seq) # <<>>
  <2> DEFINE P == Seq(Operators)
  <2>1. plans \in Seq(P) /\ seq \in P
    BY <1>1
  <2> HIDE DEF P
  <2>2. Append(plans, seq) \in Seq(P) /\ Append(plans, seq) # <<>>
    BY <2>1, AppendProperties
  <2> QED
    BY <2>2 DEF P
<1>5. CASE TooDear(s, cost, h, callers)
  <2>1. Value(h) \in Nat
    BY ValueNat
  <2>2. cost + Value(h) \in Nat
    BY <2>1
  <2> QED
    BY <1>1, <1>5, <2>2 DEF Found, Called, TooDear
<1>6. CASE AtGoal(s, cost, h, callers, seq)
  <2>1. CASE Saves(SequenceCost(seq))
    <3>1. plans' = Append(plans, seq) /\ limit' = NewLimit(SequenceCost(seq))
      BY <1>6, <2>1 DEF AtGoal
    <3>2. plans' \in Seq(Seq(Operators)) /\ plans' # <<>>
      BY <1>4, <3>1, Zenon
    <3> QED
      BY <1>3, <1>6, <3>1, <3>2 DEF Found, Called, AtGoal
  <2>2. CASE ~Saves(SequenceCost(seq))
    BY <1>1, <1>6, <2>2 DEF Found, Called, AtGoal
  <2> QED
    BY <2>1, <2>2
<1>7. CASE Opens(s, cost, h, callers, seq)
  <2>1. PICK f \in Frames :
                /\ stack' = Append(callers, f)
                /\ f.state = s /\ f.g = cost
                /\ f.pending = IF Engine("ids") /\ Len(seq) >= limit THEN {} ELSE Successors(s)
    BY <1>7 DEF Opens
  <2>2. f.pending \subseteq Successors(s)
    BY <2>1
  <2>3. stack' \in Seq(Frames)
    BY <2>1
  <2> QED
    BY <1>1, <1>7, <2>1, <2>2, <2>3 DEF Found, Called, Opens
<1> QED
  BY <1>5, <1>6, <1>7 DEF Calls

LEMMA EvaluationStays ==
  ASSUME TreeTypes, NEW s \in States, NEW h \in Estimates[s] \union {0}, ComputeH(s, h)
  PROVE  /\ h \in Nat \union {DEAD_END} /\ EvaluationTypeOK' /\ dirty' = {}
         /\ \A u \in States : heuristic_cache[u] # NO_VALUE => heuristic_cache'[u] = heuristic_cache[u]
         /\ \A u \in States : u # s => heuristic_cache'[u] = heuristic_cache[u]
         /\ Engine("idastar") => heuristic_cache'[s] = h
<1>1. heuristic_cache \in [States -> Nat \union {DEAD_END, NO_VALUE}] /\ dirty = {}
  BY DEF TreeTypes, EvaluationTypeOK
<1>2. h \in Nat \union {DEAD_END}
  BY EvaluationAssumption
<1>3. CASE Engine("idastar")
  <2>1. /\ h \in (IF heuristic_cache[s] # NO_VALUE /\ s \notin {} THEN {heuristic_cache[s]} ELSE Estimates[s])
        /\ heuristic_cache' = [heuristic_cache EXCEPT ![s] = h] /\ dirty' = {} \ {s}
    BY <1>3 DEF ComputeH, Evaluate
  <2> QED
    BY <1>1, <1>2, <2>1 DEF EvaluationTypeOK
<1>4. CASE ~Engine("idastar")
  BY <1>1, <1>2, <1>4 DEF ComputeH, evalvars, EvaluationTypeOK
<1> QED
  BY <1>3, <1>4

\* The part of a path that the frames of another stack share is a path.
LEMMA PathPrefix ==
  ASSUME NEW st \in Seq(Frames), NEW ops \in Seq(Operators), IsTreePath(st, ops),
         NEW st2 \in Seq(Frames), NEW ops2 \in Seq(Operators),
         Len(st2) <= Len(st),
         \A i \in 1..Len(st2) : /\ st2[i].state = st[i].state /\ st2[i].g = st[i].g
                                /\ st2[i].pending \subseteq st[i].pending
                                /\ i + 1 \in 1..Len(st2) => ops2[i] = ops[i]
  PROVE  IsTreePath(st2, ops2)
<1>1. PICK n \in Nat, m \in Nat : n = Len(st) /\ m = Len(st2) /\ m <= n
  OBVIOUS
<1>2. \A i \in 1..m : i \in 1..n
  BY <1>1
<1>3. st2 # <<>> => st # <<>> /\ 1 \in 1..m
  BY <1>1
<1>4. st2 # <<>> => st2[1].state = InitialState /\ st2[1].g = 0
  BY <1>1, <1>3 DEF IsTreePath
<1>5. \A i \in 1..m : st2[i].state \notin GoalStates /\ st2[i].pending \subseteq Successors(st2[i].state)
  BY <1>1, <1>2 DEF IsTreePath
<1>6. ASSUME NEW i \in 1..m, i + 1 \in 1..m
      PROVE  /\ <<st2[i].state, ops2[i], st2[i+1].state>> \in Transitions
             /\ st2[i+1].g = st2[i].g + AdjustedCost(ops2[i])
  <2>1. /\ <<st[i].state, ops[i], st[i+1].state>> \in Transitions
        /\ st[i+1].g = st[i].g + AdjustedCost(ops[i])
    BY <1>1, <1>2, <1>6 DEF IsTreePath
  <2> QED
    BY <1>1, <1>6, <2>1
<1> QED
  BY <1>1, <1>4, <1>5, <1>6 DEF IsTreePath

\* An applicable operator extends the path.
LEMMA PathExtended ==
  ASSUME NEW st \in Seq(Frames), NEW ops \in Seq(Operators), IsTreePath(st, ops), st # <<>>,
         Len(ops) = Len(st) - 1, NEW o \in Operators, NEW f \in Frames,
         <<st[Len(st)].state, o, f.state>> \in Transitions,
         f.g = st[Len(st)].g + AdjustedCost(o),
         f.state \notin GoalStates, f.pending \subseteq Successors(f.state)
  PROVE  IsTreePath(Append(st, f), Append(ops, o))
<1>1. PICK n \in Nat : n = Len(st) /\ n > 0 /\ Len(ops) = n - 1
  OBVIOUS
<1>2. PICK st2 \in Seq(Frames) : /\ st2 = Append(st, f) /\ Len(st2) = n + 1 /\ st2[n+1] = f
                                 /\ \A i \in 1..n : st2[i] = st[i]
  <2>1. Append(st, f) \in Seq(Frames) /\ Len(Append(st, f)) = n + 1 /\ Append(st, f)[n+1] = f
    BY <1>1, AppendProperties
  <2>2. \A i \in 1..n : Append(st, f)[i] = st[i]
    BY <1>1, AppendProperties
  <2> QED
    BY <2>1, <2>2
<1>3. PICK ops2 \in Seq(Operators) : /\ ops2 = Append(ops, o) /\ ops2[n] = o
                                     /\ \A i \in 1..n-1 : ops2[i] = ops[i]
  <2>1. Append(ops, o) \in Seq(Operators) /\ Append(ops, o)[Len(ops) + 1] = o
    BY AppendProperties
  <2>2. \A i \in 1..Len(ops) : Append(ops, o)[i] = ops[i]
    BY AppendProperties
  <2>3. Append(ops, o)[n] = o /\ \A i \in 1..n-1 : Append(ops, o)[i] = ops[i]
    BY <1>1, <2>1, <2>2
  <2> QED
    BY <2>1, <2>3
<1>4. st2 # <<>> /\ st2[1].state = InitialState /\ st2[1].g = 0
  BY <1>1, <1>2 DEF IsTreePath
<1>5. ASSUME NEW i \in 1..n+1
      PROVE st2[i].state \notin GoalStates /\ st2[i].pending \subseteq Successors(st2[i].state)
  <2>1. CASE i = n + 1
    BY <1>2, <2>1
  <2>2. CASE i # n + 1
    BY <1>1, <1>2, <2>2 DEF IsTreePath
  <2> QED
    BY <2>1, <2>2
<1>6. ASSUME NEW i \in 1..n+1, i + 1 \in 1..n+1
      PROVE  /\ <<st2[i].state, ops2[i], st2[i+1].state>> \in Transitions
             /\ st2[i+1].g = st2[i].g + AdjustedCost(ops2[i])
  <2>1. CASE i = n
    <3>1. st2[i] = st[n] /\ ops2[i] = o /\ st2[i+1] = f
      BY <1>1, <1>2, <1>3, <2>1
    <3> QED
      BY <1>1, <3>1
  <2>2. CASE i # n
    <3>1. i \in 1..n /\ i + 1 \in 1..n /\ i \in 1..n-1
      BY <1>1, <1>6, <2>2
    <3>2. /\ <<st[i].state, ops[i], st[i+1].state>> \in Transitions
          /\ st[i+1].g = st[i].g + AdjustedCost(ops[i])
      BY <1>1, <3>1 DEF IsTreePath
    <3> QED
      BY <1>2, <1>3, <3>1, <3>2
  <2> QED
    BY <2>1, <2>2
<1> QED
  BY <1>2, <1>3, <1>4, <1>5, <1>6 DEF IsTreePath

-----------------------------------------------------------------------------
(***************************************************************************)
(* What the two steps do that call it: the next iteration of the outer     *)
(* loop and the next operator of the call on top of the stack.             *)
(***************************************************************************)

treeallvars == <<ssvars, enginevars, evalvars, treevars>>

TreeSpec == EngineInit /\ EvaluationInit /\ TreeInit /\ [][TreeStep]_treeallvars

\* The evaluator answered h for s, or was not asked.
Asked(s, h) ==
  /\ h \in Nat \union {DEAD_END} /\ EvaluationTypeOK' /\ dirty' = {}
  /\ \A u \in States : heuristic_cache[u] # NO_VALUE => heuristic_cache'[u] = heuristic_cache[u]
  /\ \A u \in States : u # s => heuristic_cache'[u] = heuristic_cache[u]
  /\ Engine("idastar") => heuristic_cache'[s] = h
  /\ ~Engine("idastar") => h = 0

LEMMA AskedFacts ==
  ASSUME TreeTypes, NEW s \in States, NEW h \in Estimates[s] \union {0}, ComputeH(s, h)
  PROVE  Asked(s, h)
BY EvaluationStays DEF Asked, ComputeH

\* What an iteration of the outer loop and one of the loop over the operators do.
Starts ==
  /\ stack = <<>> /\ returned = None /\ operator_sequence = <<>> /\ Repeats
  /\ UNCHANGED <<search_status, config, operator_sequence, cache, cache_value>>
  /\ Running /\ iteration' = iteration + 1
  /\ \E h \in Nat \union {DEAD_END} :
       /\ Asked(InitialState, h)
       /\ Calls(InitialState, 0, h, <<>>, <<>>)

NewG(x) == Top.g + AdjustedCost(x[1])

Rest(x, rest) ==
  /\ rest \in Seq(Frames) /\ Len(rest) = Len(stack) /\ rest # <<>>
  /\ rest[Len(stack)].pending = Top.pending \ {x}
  /\ \A i \in 1..Len(stack) : /\ rest[i].state = stack[i].state /\ rest[i].g = stack[i].g
                              /\ rest[i].next_limit = stack[i].next_limit
                              /\ rest[i].pending \subseteq stack[i].pending
                              /\ i # Len(stack) => rest[i].pending = stack[i].pending

Hit(x) == Engine("idastar") /\ config.cache_size > 0 /\ CacheHit(x[2], NewG(x))

Remembers(x) ==
  IF Engine("idastar") /\ config.cache_size > 0 /\ ~Hit(x)
    THEN CacheAdd(x[2], NewG(x)) ELSE UNCHANGED <<cache, cache_value>>

Skips(x, rest) ==
  /\ Hit(x) \/ (Engine("dfs") /\ x[2] \in StatesOnPath)
  /\ stack' = rest
  /\ UNCHANGED <<limit, operator_sequence, plans, returned, evalvars>>

Avoids(x, rest) ==
  /\ Engine("idastar") /\ Asked(x[2], DEAD_END)
  /\ stack' = rest
  /\ UNCHANGED <<limit, operator_sequence, plans, returned>>

Tries(x, rest) ==
  /\ ~(Engine("dfs") /\ x[2] \in StatesOnPath)
  /\ operator_sequence' = Append(operator_sequence, x[1])
  /\ \E h \in Nat :
       /\ Asked(x[2], h)
       /\ Calls(x[2], NewG(x), h, rest, operator_sequence')

Descends(x, rest) ==
  /\ stack # <<>> /\ returned = None /\ Running
  /\ x \in Top.pending /\ x \in Operators \X States /\ x[1] \in Operators /\ x[2] \in States
  /\ <<Top.state, x[1], x[2]>> \in Transitions
  /\ NewG(x) \in Nat
  /\ UNCHANGED <<search_status, config, iteration>>
  /\ Remembers(x)
  /\ Rest(x, rest)
  /\ Skips(x, rest) \/ Avoids(x, rest) \/ Tries(x, rest)

LEMMA AdjustedNat == \A o \in Operators : AdjustedCost(o) \in Nat
BY CostAssumption, TaskAssumption DEF AdjustedCost

LEMMA NextIterationIs ==
  ASSUME TreeBase, NextIteration
  PROVE  Starts
<1>1. TreeTypes /\ TreeControl
  BY DEF TreeBase
<1>2. PICK h \in Estimates[InitialState] \union {0} :
        ComputeH(InitialState, h) /\ Call(Node(InitialState, 0, h), <<>>, <<>>)
  BY DEF NextIteration
<1>3. InitialState \in States /\ 0 \in Nat /\ <<>> \in Seq(Frames) /\ <<>> \in Seq(Operators)
  BY TaskAssumption
<1>4. Asked(InitialState, h)
  BY <1>1, <1>2, <1>3, AskedFacts
<1>5. h \in Nat \union {DEAD_END}
  BY <1>4 DEF Asked
<1>6. Calls(InitialState, 0, h, <<>>, <<>>)
  BY <1>1, <1>2, <1>3, <1>5, CallCases
<1>7. operator_sequence = <<>>
  <2>1. ~Unwinds
    BY <1>1, EngineIs DEF NextIteration, Repeats, Unwinds, TreeControl, Found, Engine
  <2> QED
    BY <1>1, <2>1 DEF NextIteration, TreeControl
<1>8. \E k \in Nat \union {DEAD_END} :
        /\ Asked(InitialState, k)
        /\ Calls(InitialState, 0, k, <<>>, <<>>)
  BY <1>4, <1>5, <1>6
<1> QED
  BY <1>7, <1>8 DEF NextIteration, Starts

LEMMA DescendIs ==
  ASSUME TreeBase, stack # <<>>, NEW x \in Top.pending, Descend(x)
  PROVE  \E rest \in Seq(Frames) : Descends(x, rest)
<1>1. TreeTypes /\ TreeControl /\ IsTreePath(stack, operator_sequence)
  BY DEF TreeBase
<1>2. Top = stack[Len(stack)] /\ Top \in Frames /\ Len(stack) \in 1..Len(stack)
  BY <1>1, TopIs
<1>3. x \in Operators \X States /\ <<Top.state, x[1], x[2]>> \in Transitions
      /\ x[1] \in Operators /\ x[2] \in States
  BY <1>1, <1>2 DEF IsTreePath, Successors
<1>4. NewG(x) \in Nat
  BY <1>2, <1>3, AdjustedNat DEF NewG, Frames
<1>5. PICK rest \in Seq(Frames) :
           /\ rest = [stack EXCEPT ![Len(stack)].pending = @ \ {x}]
           /\ Len(rest) = Len(stack) /\ rest # <<>>
           /\ rest[Len(stack)] = [Top EXCEPT !.pending = @ \ {x}]
           /\ \A i \in 1..Len(stack) : i # Len(stack) => rest[i] = stack[i]
           /\ \A i \in 1..Len(stack) : /\ rest[i].state = stack[i].state /\ rest[i].g = stack[i].g
                                       /\ rest[i].next_limit = stack[i].next_limit
                                       /\ rest[i].pending \subseteq stack[i].pending
  BY <1>1, PendingRemoved
<1>6. Rest(x, rest)
  <2>1. rest[Len(stack)].pending = Top.pending \ {x}
    BY <1>2, <1>5 DEF Frames
  <2>2. \A i \in 1..Len(stack) : i # Len(stack) => rest[i].pending = stack[i].pending
    BY <1>5
  <2> QED
    BY <1>5, <2>1, <2>2 DEF Rest
<1>7. Remembers(x)
  BY DEF Descend, Remembers, Hit, NewG
<1>8. Skips(x, rest) \/ Avoids(x, rest) \/ Tries(x, rest)
  <2>1. CASE Hit(x) \/ (Engine("dfs") /\ x[2] \in StatesOnPath)
    BY <1>5, <2>1 DEF Descend, Skips, Hit, NewG
  <2>2. CASE ~(Hit(x) \/ (Engine("dfs") /\ x[2] \in StatesOnPath))
    <3>1. PICK h \in Estimates[x[2]] \union {0} :
                 /\ ComputeH(x[2], h)
                 /\ IF h = DEAD_END
                      THEN /\ stack' = rest
                           /\ UNCHANGED <<limit, operator_sequence, plans, returned>>
                      ELSE /\ operator_sequence' = Append(operator_sequence, x[1])
                           /\ Call(Node(x[2], NewG(x), h), rest, Append(operator_sequence, x[1]))
      BY <1>5, <2>2 DEF Descend, Hit, NewG
    <3>2. Asked(x[2], h)
      BY <1>1, <1>3, <3>1, AskedFacts
    <3>3. CASE h = DEAD_END
      <4>1. Engine("idastar")
        BY <3>2, <3>3 DEF Asked, DEAD_END
      <4> QED
        BY <3>1, <3>2, <3>3, <4>1 DEF Avoids
    <3>4. CASE h # DEAD_END
      <4>1. h \in Nat
        BY <3>2, <3>4 DEF Asked
      <4>2. operator_sequence' = Append(operator_sequence, x[1])
            /\ Call(Node(x[2], NewG(x), h), rest, operator_sequence')
        BY <3>1, <3>4
      <4>3. operator_sequence' \in Seq(Operators)
        BY <1>1, <1>3, <4>2, AppendProperties DEF TreeTypes
      <4>4. Calls(x[2], NewG(x), h, rest, operator_sequence')
        BY <1>1, <1>3, <1>4, <1>5, <4>1, <4>2, <4>3, CallCases
      <4> QED
        BY <2>2, <3>2, <4>1, <4>2, <4>4 DEF Tries
    <3> QED
      BY <3>3, <3>4
  <2> QED
    BY <2>1, <2>2
<1> QED
  BY <1>3, <1>4, <1>5, <1>6, <1>7, <1>8 DEF Descend, Descends

-----------------------------------------------------------------------------
(***************************************************************************)
(* TreeBase is inductive.                                                  *)
(***************************************************************************)

LEMMA TreeInitBase == EngineInit /\ EvaluationInit /\ TreeInit => TreeBase
<1> SUFFICES ASSUME EngineInit, EvaluationInit, TreeInit PROVE TreeBase
  OBVIOUS
<1>1. limit \in Int
  BY ConfigAssumption DEF TreeInit, Engine
<1>2. TreeTypes
  <2>1. EvaluationTypeOK /\ dirty = {}
    BY DEF EvaluationInit, EvaluationTypeOK
  <2>2. stack \in Seq(Frames) /\ operator_sequence \in Seq(Operators) /\ plans \in Seq(Seq(Operators))
    BY DEF TreeInit
  <2> QED
    BY <1>1, <2>1, <2>2 DEF EngineInit, TreeInit, TreeTypes, SearchStatus
<1>3. TreeControl
  BY DEF EngineInit, TreeInit, TreeControl, Running, Found
<1>4. IsTreePath(stack, operator_sequence)
  BY DEF TreeInit, IsTreePath
<1> QED
  BY <1>2, <1>3, <1>4 DEF TreeBase

LEMMA StartsBase ==
  ASSUME TreeBase, Starts
  PROVE  TreeBase'
<1>1. TreeTypes /\ TreeControl
  BY DEF TreeBase
<1>2. PICK h \in Nat \union {DEAD_END} :
        /\ Asked(InitialState, h)
        /\ Calls(InitialState, 0, h, <<>>, <<>>)
  BY DEF Starts
<1>3. InitialState \in States /\ 0 \in Nat /\ <<>> \in Seq(Frames) /\ <<>> \in Seq(Operators)
  BY TaskAssumption
<1>0. Called(InitialState, 0, <<>>)
  BY <1>1, <1>2, <1>3, CallTypes
<1>4. /\ stack' \in Seq(Frames) /\ limit' \in Int /\ returned' \in Nat \union {-1, None} /\ plans' \in Seq(Seq(Operators))
      /\ \/ stack' = <<>> /\ returned' \in Nat \union {-1}
         \/ /\ InitialState \notin GoalStates /\ returned' = returned
            /\ \E f \in Frames : /\ stack' = Append(<<>>, f)
                                 /\ f.state = InitialState /\ f.g = 0 /\ f.pending \subseteq Successors(InitialState)
  BY <1>0 DEF Called
<1>5. TreeTypes'
  <2>1. iteration' \in Nat
    BY <1>1 DEF TreeTypes, Starts
  <2> QED
    BY <1>1, <1>2, <1>4, <2>1 DEF TreeTypes, Starts, Asked
<1>6. iteration' # 0 /\ search_status' = "IN_PROGRESS" /\ operator_sequence' = <<>>
  BY <1>1 DEF Starts, TreeTypes, Running
<1>7. CASE stack' = <<>> /\ returned' \in Nat \union {-1}
  <2>1. TreeControl'
    BY <1>6, <1>7 DEF TreeControl, Running
  <2>2. IsTreePath(stack, operator_sequence)'
    BY <1>7 DEF IsTreePath
  <2> QED
    BY <1>5, <2>1, <2>2 DEF TreeBase
<1>8. CASE /\ InitialState \notin GoalStates /\ returned' = returned
           /\ \E f \in Frames : /\ stack' = Append(<<>>, f)
                                /\ f.state = InitialState /\ f.g = 0 /\ f.pending \subseteq Successors(InitialState)
  <2>1. PICK f \in Frames : /\ stack' = <<f>>
                            /\ f.state = InitialState /\ f.g = 0 /\ f.pending \subseteq Successors(InitialState)
    BY <1>8
  <2>2. Len(stack') = 1 /\ stack'[1] = f /\ stack' # <<>> /\ returned' = None
    BY <1>8, <2>1 DEF Starts
  <2>3. TreeControl'
    BY <1>6, <2>2 DEF TreeControl, Running
  <2>4. IsTreePath(stack, operator_sequence)'
    BY <1>8, <2>1, <2>2 DEF IsTreePath
  <2> QED
    BY <1>5, <2>3, <2>4 DEF TreeBase
<1> QED
  BY <1>4, <1>7, <1>8

LEMMA DescendsBase ==
  ASSUME TreeBase, NEW x, NEW rest \in Seq(Frames), Descends(x, rest)
  PROVE  TreeBase'
<1>1. TreeTypes /\ TreeControl /\ IsTreePath(stack, operator_sequence) /\ stack \in Seq(Frames)
      /\ operator_sequence \in Seq(Operators)
  BY DEF TreeBase, TreeTypes
<1>2. PICK n \in Nat : n = Len(stack) /\ n \in 1..n /\ n > 0
  BY <1>1 DEF Descends
<1>3. Len(operator_sequence) = n - 1 /\ returned = None /\ iteration # 0 /\ Running
  BY <1>1, <1>2 DEF TreeControl, Descends
<1>4. Rest(x, rest) /\ x[1] \in Operators /\ x[2] \in States /\ NewG(x) \in Nat
      /\ Len(rest) = n /\ rest # <<>>
  BY <1>2 DEF Descends, Rest
<1>5. iteration' # 0 /\ iteration' \in Nat /\ search_status' = search_status /\ Running' /\ config' = config /\ config' \in Configs
  BY <1>1, <1>3 DEF Descends, Running, TreeTypes
<1>6. ASSUME NEW ops \in Seq(Operators), \A i \in 1..n : i + 1 \in 1..n => ops[i] = operator_sequence[i]
      PROVE  IsTreePath(rest, ops)
  <2>1. \A i \in 1..Len(rest) : /\ rest[i].state = stack[i].state /\ rest[i].g = stack[i].g
                                /\ rest[i].pending \subseteq stack[i].pending
                                /\ i + 1 \in 1..Len(rest) => ops[i] = operator_sequence[i]
    BY <1>2, <1>4, <1>6 DEF Rest
  <2>2. Len(rest) <= Len(stack)
    BY <1>2, <1>4
  <2> QED
    BY <1>1, <2>1, <2>2, PathPrefix
<1>7. CASE Skips(x, rest) \/ Avoids(x, rest)
  <2>1. /\ stack' = rest
        /\ UNCHANGED <<limit, operator_sequence, plans, returned>>
    BY <1>7 DEF Skips, Avoids
  <2>2. EvaluationTypeOK' /\ dirty' = {}
    BY <1>1, <1>7 DEF Skips, Avoids, Asked, evalvars, EvaluationTypeOK, TreeTypes
  <2>3. TreeTypes'
    BY <1>1, <1>5, <2>1, <2>2 DEF TreeTypes, Descends
  <2>4. TreeControl'
    BY <1>1, <1>2, <1>3, <1>4, <1>5, <2>1 DEF TreeControl, Running
  <2>5. IsTreePath(stack, operator_sequence)'
    BY <1>1, <1>6, <2>1
  <2> QED
    BY <2>3, <2>4, <2>5 DEF TreeBase
<1>8. CASE Tries(x, rest)
  <2>1. PICK h \in Nat :
          /\ Asked(x[2], h)
          /\ Calls(x[2], NewG(x), h, rest, operator_sequence')
    BY <1>8 DEF Tries
  <2>2. /\ operator_sequence' = Append(operator_sequence, x[1])
        /\ operator_sequence' \in Seq(Operators) /\ Len(operator_sequence') = n
        /\ \A i \in 1..n-1 : operator_sequence'[i] = operator_sequence[i]
    <3>1. operator_sequence' = Append(operator_sequence, x[1])
      BY <1>8 DEF Tries
    <3>2. /\ Append(operator_sequence, x[1]) \in Seq(Operators)
          /\ Len(Append(operator_sequence, x[1])) = Len(operator_sequence) + 1
          /\ \A i \in 1..Len(operator_sequence) : Append(operator_sequence, x[1])[i] = operator_sequence[i]
      BY <1>1, <1>4, AppendProperties
    <3> QED
      BY <1>2, <1>3, <3>1, <3>2
  <2>3. h \in Nat \union {DEAD_END}
    OBVIOUS
  <2>0. Called(x[2], NewG(x), rest)
    BY <1>1, <1>4, <2>1, <2>2, <2>3, CallTypes
  <2>4. /\ stack' \in Seq(Frames) /\ limit' \in Int /\ returned' \in Nat \union {-1, None} /\ plans' \in Seq(Seq(Operators))
        /\ Found => plans' # <<>>
        /\ \/ stack' = rest /\ returned' \in Nat \union {-1}
           \/ /\ x[2] \notin GoalStates /\ returned' = returned
              /\ \E f \in Frames : /\ stack' = Append(rest, f)
                                   /\ f.state = x[2] /\ f.g = NewG(x) /\ f.pending \subseteq Successors(x[2])
    BY <2>0 DEF Called
  <2>5. TreeTypes'
    BY <1>1, <1>5, <2>1, <2>2, <2>4 DEF TreeTypes, Asked, Descends
  <2>6. IsTreePath(rest, operator_sequence)
    BY <1>1, <1>6
  <2>7. CASE stack' = rest /\ returned' \in Nat \union {-1}
    <3>1. returned' # None
      BY <2>7 DEF None
    <3>2. TreeControl'
      BY <1>4, <1>5, <2>2, <2>7, <3>1 DEF TreeControl, Running
    <3>3. IsTreePath(rest, operator_sequence')
      <4>1. \A i \in 1..n : i + 1 \in 1..n => operator_sequence'[i] = operator_sequence[i]
        BY <1>2, <2>2
      <4> QED
        BY <1>6, <2>2, <4>1
    <3> QED
      BY <2>5, <2>7, <3>2, <3>3 DEF TreeBase
  <2>8. CASE /\ x[2] \notin GoalStates /\ returned' = returned
             /\ \E f \in Frames : /\ stack' = Append(rest, f)
                                  /\ f.state = x[2] /\ f.g = NewG(x) /\ f.pending \subseteq Successors(x[2])
    <3>1. PICK f \in Frames : /\ stack' = Append(rest, f)
                              /\ f.state = x[2] /\ f.g = NewG(x) /\ f.pending \subseteq Successors(x[2])
      BY <2>8
    <3>2. Len(stack') = n + 1 /\ stack' # <<>>
      <4>1. Len(Append(rest, f)) = Len(rest) + 1 /\ Append(rest, f) # <<>>
        BY AppendProperties
      <4> QED
        BY <1>4, <3>1, <4>1
    <3>3. TreeControl'
      BY <1>2, <1>3, <1>5, <2>2, <2>8, <3>2 DEF TreeControl, Running
    <3>4. rest[Len(rest)].state = Top.state /\ rest[Len(rest)].g = Top.g
      <4>1. Top = stack[Len(stack)]
        BY <1>1, <1>2, TopIs DEF Descends
      <4> QED
        BY <1>2, <1>4, <4>1 DEF Rest
    <3>5. <<rest[Len(rest)].state, x[1], f.state>> \in Transitions /\ f.g = rest[Len(rest)].g + AdjustedCost(x[1])
      BY <3>1, <3>4 DEF Descends, NewG
    <3>6. Len(operator_sequence) = Len(rest) - 1
      BY <1>3, <1>4
    <3>7. f.state \notin GoalStates /\ f.pending \subseteq Successors(f.state)
      BY <2>8, <3>1
    <3>8. IsTreePath(Append(rest, f), Append(operator_sequence, x[1]))
      BY <1>1, <1>4, <2>6, <3>5, <3>6, <3>7, PathExtended
    <3> QED
      BY <2>2, <2>5, <3>1, <3>3, <3>8 DEF TreeBase
  <2> QED
    BY <2>4, <2>7, <2>8
<1> QED
  BY <1>7, <1>8 DEF Descends

LEMMA LoopsBase ==
  ASSUME TreeBase, Loops
  PROVE  TreeBase'
<1>1. TreeTypes /\ TreeControl /\ IsTreePath(stack, operator_sequence) /\ stack \in Seq(Frames)
      /\ operator_sequence \in Seq(Operators) /\ stack # <<>> /\ returned = None
  BY DEF TreeBase, TreeTypes, Loops
<1>2. PICK n \in Nat : n = Len(stack) /\ n > 0
  BY <1>1
<1>3. /\ Front(stack) \in Seq(Frames) /\ Len(Front(stack)) = n - 1
      /\ \A i \in 1..n-1 : Front(stack)[i] = stack[i]
  BY <1>1, <1>2, FrontIs
<1>4. PICK st \in Seq(Frames) : st = Front(stack) /\ Len(st) = n - 1 /\ \A i \in 1..n-1 : st[i] = stack[i]
  BY <1>3
<1>5. Len(operator_sequence) = n - 1 /\ iteration # 0
  BY <1>1, <1>2 DEF TreeControl
<1>6. returned' \in Nat \union {-1} /\ returned' # None
  BY <1>1, TopIs DEF Loops, Frames, None
<1>7. TreeTypes'
  BY <1>1, <1>4, <1>6 DEF Loops, TreeTypes, evalvars, EvaluationTypeOK
<1>8. stack' = st /\ operator_sequence' = operator_sequence
  BY <1>4 DEF Loops
<1>9. TreeControl'
  <2>1. st = <<>> => operator_sequence = <<>>
    BY <1>1, <1>4, <1>5
  <2> QED
    BY <1>4, <1>5, <1>6, <1>8, <2>1 DEF TreeControl, Running, Loops
<1>10. IsTreePath(st, operator_sequence)
  <2>1. Len(st) <= Len(stack)
    BY <1>2, <1>4
  <2>2. \A i \in 1..Len(st) : st[i] = stack[i]
    BY <1>4
  <2> QED
    BY <1>1, <2>1, <2>2, PathPrefix
<1> QED
  BY <1>7, <1>8, <1>9, <1>10 DEF TreeBase

LEMMA ResumeBase ==
  ASSUME TreeBase, Resume
  PROVE  TreeBase'
<1>1. TreeTypes /\ TreeControl /\ IsTreePath(stack, operator_sequence) /\ stack \in Seq(Frames)
      /\ operator_sequence \in Seq(Operators) /\ stack # <<>> /\ returned # None
  BY DEF TreeBase, TreeTypes, Resume
<1>2. PICK n \in Nat : n = Len(stack) /\ n > 0
  BY <1>1
<1>3. returned \in Nat \union {-1}
  BY <1>1 DEF TreeTypes
<1>4. PICK rest \in Seq(Frames) :
           /\ rest = [stack EXCEPT ![Len(stack)].next_limit = NextLimit(@, returned)]
           /\ Len(rest) = Len(stack) /\ rest # <<>>
           /\ \A i \in 1..Len(stack) : /\ rest[i].state = stack[i].state /\ rest[i].g = stack[i].g
                                       /\ rest[i].pending = stack[i].pending
  BY <1>1, <1>3, LimitNoted
<1>5. Len(operator_sequence) = n /\ iteration # 0
  BY <1>1, <1>2 DEF TreeControl
<1>6. PICK ops \in Seq(Operators) : /\ ops = Front(operator_sequence) /\ Len(ops) = n - 1
                                    /\ \A i \in 1..n-1 : ops[i] = operator_sequence[i]
  <2>1. /\ SubSeq(operator_sequence, 1, n - 1) \in Seq(Operators)
        /\ Len(SubSeq(operator_sequence, 1, n - 1)) = n - 1
        /\ \A i \in 1..n-1 : SubSeq(operator_sequence, 1, n - 1)[i] = operator_sequence[i]
    BY <1>1, <1>2, <1>5
  <2> QED
    BY <1>5, <2>1 DEF Front
<1>7. stack' = rest /\ operator_sequence' = ops /\ returned' = None
  BY <1>4, <1>6 DEF Resume
<1>8. TreeTypes'
  BY <1>1, <1>7 DEF Resume, TreeTypes, evalvars, EvaluationTypeOK
<1>9. TreeControl'
  BY <1>2, <1>4, <1>5, <1>6, <1>7 DEF TreeControl, Running, Resume
<1>10. IsTreePath(rest, ops)
  <2>1. Len(rest) <= Len(stack)
    BY <1>2, <1>4
  <2>2. \A i \in 1..Len(rest) : i + 1 \in 1..Len(rest) => ops[i] = operator_sequence[i]
    BY <1>2, <1>4, <1>6
  <2> QED
    BY <1>1, <1>4, <2>1, <2>2, PathPrefix
<1> QED
  BY <1>7, <1>8, <1>9, <1>10 DEF TreeBase

LEMMA TreeStepBase ==
  ASSUME TreeBase, TreeStep \/ UNCHANGED treeallvars
  PROVE  TreeBase'
<1>1. TreeTypes /\ TreeControl /\ IsTreePath(stack, operator_sequence)
  BY DEF TreeBase
<1>2. CASE UNCHANGED treeallvars
  BY <1>2 DEF treeallvars, treevars, evalvars, enginevars, TreeBase, TreeTypes, TreeControl, IsTreePath,
     EvaluationTypeOK, Running, Found, Unwinds, Repeats, Engine
<1>3. CASE Initialize
  <2>1. TreeTypes'
    BY <1>1, <1>3 DEF Initialize, TreeTypes, evalvars, treevars, EvaluationTypeOK, SearchStatus
  <2>2. TreeControl'
    BY <1>1, <1>3 DEF Initialize, TreeControl, treevars, Running, Found, Unwinds
  <2>3. IsTreePath(stack, operator_sequence)'
    BY <1>1, <1>3 DEF Initialize, treevars, IsTreePath
  <2> QED
    BY <2>1, <2>2, <2>3 DEF TreeBase
<1>4. CASE NextIteration
  BY <1>4, NextIterationIs, StartsBase
<1>5. CASE stack # <<>> /\ \E x \in Top.pending : Descend(x)
  <2>1. PICK x \in Top.pending : Descend(x)
    BY <1>5
  <2>2. PICK rest \in Seq(Frames) : Descends(x, rest)
    BY <1>5, <2>1, DescendIs
  <2> QED
    BY <2>2, DescendsBase
<1>6. CASE Loops
  BY <1>6, LoopsBase
<1>7. CASE Resume
  BY <1>7, ResumeBase
<1>8. CASE Unwind
  <2>1. stack' = <<>> /\ returned' = -1 /\ iteration # 0
    BY <1>1, <1>8 DEF Unwind, TreeControl
  <2>2. TreeTypes'
    BY <1>1, <1>8, <2>1 DEF Unwind, TreeTypes, evalvars, EvaluationTypeOK
  <2>3. TreeControl'
    BY <1>8, <2>1 DEF Unwind, TreeControl, Running, Found, Unwinds
  <2>4. IsTreePath(stack, operator_sequence)'
    BY <2>1 DEF IsTreePath
  <2> QED
    BY <2>2, <2>3, <2>4 DEF TreeBase
<1>9. CASE EndIteration
  <2>1. stack' = stack /\ stack = <<>> /\ returned' = None /\ iteration # 0 /\ operator_sequence' = operator_sequence
    BY <1>1, <1>9 DEF EndIteration, TreeControl
  <2>2. limit' \in Int
    BY <1>1, <1>9, EngineIs DEF EndIteration, TreeTypes, Engine, None
  <2>3. TreeTypes'
    BY <1>1, <1>9, <2>1, <2>2 DEF EndIteration, TreeTypes, evalvars, EvaluationTypeOK
  <2>4. TreeControl'
    BY <1>1, <1>9, <2>1 DEF EndIteration, TreeControl, Running, Found, Unwinds
  <2>5. IsTreePath(stack, operator_sequence)'
    BY <2>1 DEF IsTreePath
  <2> QED
    BY <2>3, <2>4, <2>5 DEF TreeBase
<1>10. CASE EndStep
  <2>1. search_status' \in {IF Found THEN "SOLVED" ELSE "FAILED", "TIMEOUT"}
    BY <1>10 DEF EndStep, StepReturns
  <2>2. TreeTypes'
    BY <1>1, <1>10, <2>1 DEF EndStep, TreeTypes, treevars, evalvars, EvaluationTypeOK, SearchStatus
  <2>3. TreeControl'
    BY <1>1, <1>10, <2>1 DEF EndStep, TreeControl, Running, Found, Unwinds, treevars, Repeats, Engine
  <2>4. IsTreePath(stack, operator_sequence)'
    BY <1>1, <1>10 DEF EndStep, treevars, IsTreePath
  <2> QED
    BY <2>2, <2>3, <2>4 DEF TreeBase
<1> QED
  BY <1>2, <1>3, <1>4, <1>5, <1>6, <1>7, <1>8, <1>9, <1>10 DEF TreeStep

-----------------------------------------------------------------------------
(***************************************************************************)
(* The costs along the stack.  Depth is g, or the number of operators for  *)
(* iterative deepening; no path is shorter than the distances allow.       *)
(***************************************************************************)

UnitCost == [o \in Operators |-> 1]

\* What the engine adds up: iterative deepening counts operators.
Counts(c) == c = IF Engine("ids") THEN UnitCost ELSE Cost

Depth(st, i) == IF Engine("ids") THEN i - 1 ELSE st[i].g

LEMMA CountsTypes == \A c : Counts(c) => c \in [Operators -> Nat]
BY CostAssumption DEF Counts, UnitCost

LEMMA RealCosts == CostType = "NORMAL" => \A o \in Operators : AdjustedCost(o) = Cost[o]
BY DEF AdjustedCost

LEMMA DepthSteps ==
  ASSUME CostType = "NORMAL", NEW c, Counts(c),
         NEW st \in Seq(Frames), NEW ops \in Seq(Operators), IsTreePath(st, ops)
  PROVE  /\ st # <<>> => Depth(st, 1) = 0
         /\ \A i \in 1..Len(st) : Depth(st, i) \in Nat
         /\ \A i \in 1..Len(st) : i + 1 \in 1..Len(st) =>
              ops[i] \in Operators /\ Depth(st, i + 1) = Depth(st, i) + c[ops[i]]
<1>1. st # <<>> => Depth(st, 1) = 0
  BY DEF IsTreePath, Depth
<1>2. ASSUME NEW i \in 1..Len(st) PROVE Depth(st, i) \in Nat
  <2>1. st[i] \in Frames
    OBVIOUS
  <2>2. st[i].g \in Nat /\ i - 1 \in Nat
    BY <2>1 DEF Frames
  <2> QED
    BY <2>2 DEF Depth
<1>3. ASSUME NEW i \in 1..Len(st), i + 1 \in 1..Len(st)
      PROVE  ops[i] \in Operators /\ Depth(st, i + 1) = Depth(st, i) + c[ops[i]]
  <2>1. /\ <<st[i].state, ops[i], st[i+1].state>> \in Transitions
        /\ st[i+1].g = st[i].g + AdjustedCost(ops[i])
    BY <1>3 DEF IsTreePath
  <2>2. ops[i] \in Operators
    BY <2>1, TaskAssumption
  <2>3. AdjustedCost(ops[i]) = Cost[ops[i]]
    BY <2>2, RealCosts
  <2>4. CASE Engine("ids")
    BY <2>2, <2>4 DEF Depth, Counts, UnitCost
  <2>5. CASE ~Engine("ids")
    BY <2>1, <2>2, <2>3, <2>5 DEF Depth, Counts
  <2> QED
    BY <2>4, <2>5
<1> QED
  BY <1>1, <1>2, <1>3

\* A path through T is no shortcut, and its ends are both finitely far from the
\* goal or both not.
LEMMA AlongPath ==
  ASSUME CostType = "NORMAL", NEW c, Counts(c), IsFiniteSet(States), NEW T \in SUBSET States,
         NEW st \in Seq(Frames), NEW ops \in Seq(Operators), IsTreePath(st, ops),
         \A i \in 1..Len(st) : st[i].state \in T
  PROVE  /\ \A i \in 1..Len(st) :
              GoalDistance(c, T)[InitialState] <= Depth(st, i) + GoalDistance(c, T)[st[i].state]
         /\ \A M : PathsFit(c, T, M) =>
              \A i \in 1..Len(st) : GoalDistance(c, T)[st[i].state] # Infinity =>
                                      GoalDistance(c, T)[InitialState] # Infinity
<1> DEFINE D == GoalDistance(c, T)
           N == Len(st)
           S == {k \in Nat : k + 1 \in 1..N =>
                   /\ D[InitialState] <= Depth(st, k + 1) + D[st[k+1].state]
                   /\ \A M : PathsFit(c, T, M) =>
                        (D[st[k+1].state] # Infinity => D[InitialState] # Infinity)}
<1>1. c \in [Operators -> Nat] /\ N \in Nat
  BY CountsTypes
<1>2. /\ D \in [States -> Nat]
      /\ \A t \in Transitions : t[1] \in T => D[t[1]] <= c[t[2]] + D[t[3]]
  BY <1>1, GoalDistanceFacts
<1>3. \A M : PathsFit(c, T, M) =>
        \A t \in Transitions : t[1] \in T /\ D[t[3]] # Infinity => D[t[1]] # Infinity
  BY <1>1, DistancesFit
<1>4. /\ st # <<>> => Depth(st, 1) = 0
      /\ \A i \in 1..N : Depth(st, i) \in Nat
      /\ \A i \in 1..N : i + 1 \in 1..N =>
           ops[i] \in Operators /\ Depth(st, i + 1) = Depth(st, i) + c[ops[i]]
  BY DepthSteps
<1> HIDE DEF D
<1>5. 0 \in S
  <2> SUFFICES ASSUME 1 \in 1..N
               PROVE  /\ D[InitialState] <= Depth(st, 1) + D[st[1].state]
                      /\ D[st[1].state] # Infinity => D[InitialState] # Infinity
    OBVIOUS
  <2>1. st # <<>>
    OBVIOUS
  <2>2. st[1].state = InitialState /\ Depth(st, 1) = 0
    BY <1>4, <2>1 DEF IsTreePath
  <2>3. D[InitialState] \in Nat
    BY <1>2, TaskAssumption
  <2> QED
    BY <2>2, <2>3
<1>6. ASSUME NEW k \in Nat, k \in S PROVE k + 1 \in S
  <2> SUFFICES ASSUME (k + 1) + 1 \in 1..N
               PROVE  /\ D[InitialState] <= Depth(st, (k + 1) + 1) + D[st[(k+1)+1].state]
                      /\ \A M : PathsFit(c, T, M) =>
                           (D[st[(k+1)+1].state] # Infinity => D[InitialState] # Infinity)
    OBVIOUS
  <2>1. PICK i \in 1..N : i = k + 1 /\ i + 1 \in 1..N
    BY <1>1
  <2>2. /\ D[InitialState] <= Depth(st, i) + D[st[i].state]
        /\ \A M : PathsFit(c, T, M) => (D[st[i].state] # Infinity => D[InitialState] # Infinity)
    BY <1>6, <2>1
  <2>3. PICK t \in Transitions : t = <<st[i].state, ops[i], st[i+1].state>>
    BY <2>1 DEF IsTreePath
  <2>4. t[1] = st[i].state /\ t[2] = ops[i] /\ t[3] = st[i+1].state /\ t[1] \in T
    BY <2>3
  <2>5. D[st[i].state] <= c[ops[i]] + D[st[i+1].state]
    BY <1>2, <2>4
  <2>6. Depth(st, i + 1) = Depth(st, i) + c[ops[i]] /\ Depth(st, i) \in Nat /\ c[ops[i]] \in Nat
    BY <1>1, <1>4, <2>1
  <2>7. D[InitialState] \in Nat /\ D[st[i].state] \in Nat /\ D[st[i+1].state] \in Nat
    BY <1>2, <2>1, <2>3, TaskAssumption DEF Frames
  <2>8. D[InitialState] <= Depth(st, i + 1) + D[st[i+1].state]
    <3>1. D[InitialState] <= Depth(st, i) + D[st[i].state]
      BY <2>2
    <3>2. PICK d \in Nat, e \in Nat, a \in Nat, b \in Nat, z \in Nat :
            /\ z = D[InitialState] /\ d = Depth(st, i) /\ e = c[ops[i]] /\ a = D[st[i].state] /\ b = D[st[i+1].state]
      BY <2>6, <2>7
    <3>3. z <= d + a /\ a <= e + b /\ Depth(st, i + 1) = d + e
      BY <2>5, <2>6, <3>1, <3>2
    <3>4. z <= (d + e) + b
      BY <3>3
    <3> QED
      BY <3>2, <3>3, <3>4
  <2>9. \A M : PathsFit(c, T, M) => (D[st[i+1].state] # Infinity => D[InitialState] # Infinity)
    BY <1>3, <2>2, <2>4
  <2> QED
    BY <2>1, <2>8, <2>9
<1> HIDE DEF S
<1>7. ASSUME NEW i \in 1..N
      PROVE  /\ D[InitialState] <= Depth(st, i) + D[st[i].state]
             /\ \A M : PathsFit(c, T, M) => (D[st[i].state] # Infinity => D[InitialState] # Infinity)
  <2>1. \A k \in Nat : k \in S
    BY <1>5, <1>6, Induction
  <2>2. PICK k \in Nat : i = k + 1
    BY <1>1
  <2> QED
    BY <1>1, <2>1, <2>2 DEF S
<1> QED
  BY <1>7 DEF D

\* The operator sequence costs what the stack says.
LEMMA SequencePrice ==
  ASSUME CostType = "NORMAL", NEW c, Counts(c),
         NEW st \in Seq(Frames), NEW ops \in Seq(Operators), IsTreePath(st, ops),
         st # <<>>, Len(ops) = Len(st) - 1
  PROVE  /\ SequenceCost(ops) = Depth(st, Len(st))
         /\ \A o \in Operators : SequenceCost(Append(ops, o)) = Depth(st, Len(st)) + c[o]
<1>1. PICK n \in Nat : n = Len(st) /\ n > 0 /\ n \in 1..n /\ n - 1 \in Nat /\ Len(ops) = n - 1
  OBVIOUS
<1>2. /\ Depth(st, 1) = 0
      /\ \A i \in 1..n : Depth(st, i) \in Nat
      /\ \A i \in 1..n : i + 1 \in 1..n =>
           ops[i] \in Operators /\ Depth(st, i + 1) = Depth(st, i) + c[ops[i]]
  BY <1>1, DepthSteps
<1>3. CASE Engine("ids")
  <2>1. SequenceCost(ops) = n - 1 /\ Depth(st, Len(st)) = n - 1
    BY <1>1, <1>3 DEF SequenceCost, Depth
  <2>2. ASSUME NEW o \in Operators PROVE SequenceCost(Append(ops, o)) = Depth(st, Len(st)) + c[o]
    <3>1. Len(Append(ops, o)) = (n - 1) + 1 /\ c[o] = 1
      BY <1>1, <1>3, AppendProperties DEF Counts, UnitCost
    <3> QED
      BY <1>3, <2>1, <3>1 DEF SequenceCost
  <2> QED
    BY <2>1, <2>2
<1>4. CASE ~Engine("ids")
  <2>1. c = Cost /\ SequenceCost(ops) = PlanCost(ops)
    BY <1>4 DEF Counts, SequenceCost
  <2>2. PICK f \in [0..n-1 -> Nat] :
           /\ f[0] = 0 /\ \A i \in 1..n-1 : f[i] = f[i-1] + Cost[ops[i]]
           /\ PlanCost(ops) = f[n-1]
    <3>1. \E f \in [0..Len(ops) -> Nat] :
           /\ f[0] = 0 /\ \A i \in 1..Len(ops) : f[i] = f[i-1] + Cost[ops[i]]
           /\ PlanCost(ops) = f[Len(ops)]
      BY PlanCostSum
    <3> QED
      BY <1>1, <3>1
  <2> DEFINE S == {k \in Nat : k + 1 \in 1..n => f[k] = Depth(st, k + 1)}
  <2>3. 0 \in S
    BY <1>2, <2>2
  <2>4. ASSUME NEW k \in Nat, k \in S PROVE k + 1 \in S
    <3> SUFFICES ASSUME (k + 1) + 1 \in 1..n PROVE f[k+1] = Depth(st, (k + 1) + 1)
      OBVIOUS
    <3>1. PICK i \in 1..n : i = k + 1 /\ i + 1 \in 1..n /\ i \in 1..n-1 /\ i - 1 = k
      BY <1>1
    <3>2. Depth(st, i + 1) = Depth(st, i) + Cost[ops[i]]
      BY <1>2, <2>1, <3>1
    <3>3. f[i] = f[i-1] + Cost[ops[i]]
      BY <2>2, <3>1
    <3>4. f[k] = Depth(st, i)
      BY <2>4, <3>1
    <3> QED
      BY <3>1, <3>2, <3>3, <3>4
  <2> HIDE DEF S
  <2>5. n - 1 \in S
    <3>1. \A k \in Nat : k \in S
      BY <2>3, <2>4, Induction
    <3> QED
      BY <1>1, <3>1
  <2>6. PlanCost(ops) = Depth(st, n)
    <3>1. (n - 1) + 1 = n
      BY <1>1
    <3> QED
      BY <1>1, <2>2, <2>5, <3>1 DEF S
  <2>7. ASSUME NEW o \in Operators PROVE SequenceCost(Append(ops, o)) = Depth(st, Len(st)) + c[o]
    BY <1>1, <1>4, <2>1, <2>6, PlanCostFacts DEF SequenceCost
  <2> QED
    BY <1>1, <2>1, <2>6, <2>7
<1> QED
  BY <1>3, <1>4

\* What the last call adds to the path.
NewDepth(c, x) == Depth(stack, Len(stack)) + c[x[1]]

\* The same for the state that the next operator leads to.
LEMMA NewDepthFacts ==
  ASSUME TreeBase, CostType = "NORMAL", NEW c, Counts(c), IsFiniteSet(States), NEW T \in SUBSET States,
         NEW x, NEW rest \in Seq(Frames), Descends(x, rest),
         \A i \in 1..Len(stack) : stack[i].state \in T
  PROVE  /\ NewDepth(c, x) \in Nat
         /\ SequenceCost(Append(operator_sequence, x[1])) = NewDepth(c, x)
         /\ ~Engine("ids") => NewDepth(c, x) = NewG(x)
         /\ GoalDistance(c, T)[InitialState] <= NewDepth(c, x) + GoalDistance(c, T)[x[2]]
         /\ \A M : PathsFit(c, T, M) =>
              (GoalDistance(c, T)[x[2]] # Infinity => GoalDistance(c, T)[InitialState] # Infinity)
<1> DEFINE D == GoalDistance(c, T)
<1>1. TreeTypes /\ TreeControl /\ IsTreePath(stack, operator_sequence) /\ stack \in Seq(Frames)
      /\ operator_sequence \in Seq(Operators) /\ stack # <<>> /\ returned = None
  BY DEF TreeBase, TreeTypes, Descends
<1>2. x[1] \in Operators /\ x[2] \in States /\ <<Top.state, x[1], x[2]>> \in Transitions
  BY DEF Descends
<1>3. c \in [Operators -> Nat]
  BY CountsTypes
<1>4. /\ D \in [States -> Nat]
      /\ \A t \in Transitions : t[1] \in T => D[t[1]] <= c[t[2]] + D[t[3]]
  BY <1>3, GoalDistanceFacts
<1>5. \A M : PathsFit(c, T, M) =>
        \A t \in Transitions : t[1] \in T /\ D[t[3]] # Infinity => D[t[1]] # Infinity
  BY <1>3, DistancesFit
<1>6. PICK n \in Nat : n = Len(stack) /\ n \in 1..n /\ Top = stack[n] /\ Top \in Frames
  BY <1>1, TopIs
<1>7. Len(operator_sequence) = n - 1
  BY <1>1, <1>6 DEF TreeControl
<1>8. /\ SequenceCost(operator_sequence) = Depth(stack, n)
      /\ \A o \in Operators : SequenceCost(Append(operator_sequence, o)) = Depth(stack, n) + c[o]
  BY <1>1, <1>6, <1>7, SequencePrice
<1>9. Depth(stack, n) \in Nat
  BY <1>1, <1>6, DepthSteps
<1>10. NewDepth(c, x) \in Nat /\ NewDepth(c, x) = Depth(stack, n) + c[x[1]] /\ c[x[1]] \in Nat
  BY <1>2, <1>3, <1>6, <1>9 DEF NewDepth
<1>11. ~Engine("ids") => NewDepth(c, x) = NewG(x)
  BY <1>2, <1>6, <1>10, RealCosts DEF NewG, Depth, Counts
<1>12. /\ D[InitialState] <= Depth(stack, n) + D[Top.state]
       /\ \A M : PathsFit(c, T, M) => (D[Top.state] # Infinity => D[InitialState] # Infinity)
  BY <1>1, <1>6, AlongPath
<1>13. PICK t \in Transitions : t = <<Top.state, x[1], x[2]>> /\ t[1] = Top.state /\ t[2] = x[1] /\ t[3] = x[2]
  BY <1>2
<1>14. t[1] \in T
  BY <1>6, <1>13
<1>15. D[Top.state] <= c[x[1]] + D[x[2]]
  BY <1>4, <1>13, <1>14
<1>16. \A M : PathsFit(c, T, M) => (D[x[2]] # Infinity => D[InitialState] # Infinity)
  BY <1>5, <1>12, <1>13, <1>14
<1>17. D[InitialState] \in Nat /\ D[Top.state] \in Nat /\ D[x[2]] \in Nat
  BY <1>2, <1>4, <1>6, TaskAssumption DEF Frames
<1> HIDE DEF D
<1>18. D[InitialState] <= NewDepth(c, x) + D[x[2]]
  <2>1. PICK d \in Nat, e \in Nat, a \in Nat, b \in Nat, z \in Nat :
          /\ d = Depth(stack, n) /\ e = c[x[1]] /\ a = D[Top.state] /\ b = D[x[2]] /\ z = D[InitialState]
    BY <1>9, <1>10, <1>17
  <2>2. z <= d + a /\ a <= e + b /\ NewDepth(c, x) = d + e
    BY <1>10, <1>12, <1>15, <2>1
  <2>3. z <= (d + e) + b
    BY <2>2
  <2> QED
    BY <2>1, <2>2, <2>3
<1> QED
  BY <1>6, <1>8, <1>2, <1>10, <1>11, <1>16, <1>18 DEF D

-----------------------------------------------------------------------------
(***************************************************************************)
(* Depth-first search and iterative deepening: a cheapest path that was not*)
(* followed yet leaves the stack at an operator that is still to be tried. *)
(***************************************************************************)

Dist(c) == GoalDistance(c, States)

\* An operator that a cheapest path takes.
Cheapest(c, rank, s, x) ==
  /\ x \in Successors(s) /\ Dist(c)[x[2]] # Infinity
  /\ Dist(c)[s] = c[x[1]] + Dist(c)[x[2]] /\ rank[x[2]] < rank[s]

\* The first k frames lie on a cheapest path.
OnPath(c, rank, st, k) ==
  /\ \A i \in 1..k : /\ Dist(c)[st[i].state] # Infinity
                     /\ Dist(c)[InitialState] = Depth(st, i) + Dist(c)[st[i].state]
  /\ \A i, j \in 1..k : i < j => rank[st[j].state] < rank[st[i].state]

\* ... and frame k has still to try its next operator.
Covers(c, rank, st) ==
  \E k \in 1..Len(st) :
    /\ OnPath(c, rank, st, k)
    /\ \E x \in st[k].pending : Cheapest(c, rank, st[k].state, x)

SamePrefix(st, st2, n) ==
  \A i \in 1..n : st2[i].state = st[i].state /\ st2[i].g = st[i].g

LEMMA OnPathPrefix ==
  ASSUME NEW c, NEW rank, NEW st, NEW st2, NEW n \in Nat, NEW k \in Nat, k <= n,
         SamePrefix(st, st2, n), OnPath(c, rank, st, k)
  PROVE  OnPath(c, rank, st2, k)
<1>1. \A i \in 1..k : i \in 1..n
  OBVIOUS
<1>2. \A i \in 1..k : st2[i].state = st[i].state /\ st2[i].g = st[i].g
  BY <1>1 DEF SamePrefix
<1> QED
  BY <1>2 DEF OnPath, Depth

LEMMA CoversPrefix ==
  ASSUME NEW c, NEW rank, NEW st \in Seq(Frames), NEW st2 \in Seq(Frames), NEW n \in Nat,
         n <= Len(st), n <= Len(st2), SamePrefix(st, st2, n),
         \E k \in 1..n : /\ OnPath(c, rank, st, k)
                         /\ \E x \in st[k].pending \intersect st2[k].pending : Cheapest(c, rank, st[k].state, x)
  PROVE  Covers(c, rank, st2)
<1>1. PICK k \in 1..n : /\ OnPath(c, rank, st, k)
                        /\ \E x \in st[k].pending \intersect st2[k].pending : Cheapest(c, rank, st[k].state, x)
  OBVIOUS
<1>2. k \in Nat /\ k <= n /\ k \in 1..Len(st2)
  BY <1>1
<1>3. OnPath(c, rank, st2, k)
  BY <1>1, <1>2, OnPathPrefix
<1>4. st2[k].state = st[k].state
  BY <1>1 DEF SamePrefix
<1> QED
  BY <1>1, <1>2, <1>3, <1>4 DEF Covers

LEMMA CoversAppended ==
  ASSUME NEW c, NEW rank, NEW st \in Seq(Frames), Covers(c, rank, st), NEW f \in Frames
  PROVE  Covers(c, rank, Append(st, f))
<1>1. PICK n \in Nat : n = Len(st)
  OBVIOUS
<1>2. PICK st2 \in Seq(Frames) : st2 = Append(st, f) /\ Len(st2) = n + 1 /\ \A i \in 1..n : st2[i] = st[i]
  <2>1. Append(st, f) \in Seq(Frames) /\ Len(Append(st, f)) = n + 1
    BY <1>1, AppendProperties
  <2>2. \A i \in 1..n : Append(st, f)[i] = st[i]
    BY <1>1, AppendProperties
  <2> QED
    BY <2>1, <2>2
<1>3. PICK k \in 1..n : /\ OnPath(c, rank, st, k)
                        /\ \E x \in st[k].pending : Cheapest(c, rank, st[k].state, x)
  BY <1>1 DEF Covers
<1>4. \E x \in st[k].pending \intersect st2[k].pending : Cheapest(c, rank, st[k].state, x)
  BY <1>2, <1>3
<1>5. n <= Len(st) /\ n <= Len(st2) /\ SamePrefix(st, st2, n)
  BY <1>1, <1>2 DEF SamePrefix
<1>6. Covers(c, rank, st2)
  BY <1>3, <1>4, <1>5, CoversPrefix
<1> QED
  BY <1>2, <1>6

\* A frame whose operators have all been tried is not needed.
LEMMA CoversFront ==
  ASSUME NEW c, NEW rank, TreeTypes, stack # <<>>, Top.pending = {}, Covers(c, rank, stack)
  PROVE  Covers(c, rank, Front(stack))
<1>1. stack \in Seq(Frames)
  BY DEF TreeTypes
<1>2. PICK n \in Nat : n = Len(stack) /\ n > 0 /\ Top = stack[n]
  BY <1>1, TopIs
<1>3. PICK m \in Nat : m = n - 1
  BY <1>2
<1>4. PICK st \in Seq(Frames) : st = Front(stack) /\ Len(st) = m /\ \A i \in 1..m : st[i] = stack[i]
  BY <1>2, <1>3, FrontIs
<1>5. PICK k \in 1..n : /\ OnPath(c, rank, stack, k)
                        /\ \E x \in stack[k].pending : Cheapest(c, rank, stack[k].state, x)
  BY <1>2 DEF Covers
<1>6. k \in 1..m
  BY <1>2, <1>3, <1>5
<1>7. \E x \in stack[k].pending \intersect st[k].pending : Cheapest(c, rank, stack[k].state, x)
  BY <1>4, <1>5, <1>6
<1>8. m <= Len(stack) /\ m <= Len(st) /\ SamePrefix(stack, st, m)
  BY <1>2, <1>3, <1>4 DEF SamePrefix
<1>9. Covers(c, rank, st)
  BY <1>1, <1>5, <1>6, <1>7, <1>8, CoversPrefix
<1> QED
  BY <1>4, <1>9

\* Either another operator is still to be tried, or the one that is tried now
\* continues a cheapest path.
LEMMA CoversDescends ==
  ASSUME NEW c, NEW rank, TreeTypes, NEW x, NEW rest \in Seq(Frames), Descends(x, rest),
         Covers(c, rank, stack)
  PROVE  \/ Covers(c, rank, rest)
         \/ OnPath(c, rank, rest, Len(rest)) /\ Cheapest(c, rank, rest[Len(rest)].state, x)
<1>1. stack \in Seq(Frames) /\ stack # <<>> /\ Rest(x, rest)
  BY DEF TreeTypes, Descends
<1>2. PICK n \in Nat : n = Len(stack) /\ n > 0 /\ Top = stack[n] /\ n \in 1..n
  BY <1>1, TopIs
<1>3. /\ Len(rest) = n /\ rest[n].pending = Top.pending \ {x} /\ SamePrefix(stack, rest, n)
      /\ \A i \in 1..n : i # n => rest[i].pending = stack[i].pending
  BY <1>1, <1>2 DEF Rest, SamePrefix
<1>4. PICK k \in 1..n : /\ OnPath(c, rank, stack, k)
                        /\ \E y \in stack[k].pending : Cheapest(c, rank, stack[k].state, y)
  BY <1>2 DEF Covers
<1>5. PICK y \in stack[k].pending : Cheapest(c, rank, stack[k].state, y)
  BY <1>4
<1>6. CASE k # n \/ y # x
  <2>1. y \in rest[k].pending
    BY <1>2, <1>3, <1>5, <1>6
  <2>2. \E z \in stack[k].pending \intersect rest[k].pending : Cheapest(c, rank, stack[k].state, z)
    BY <1>5, <2>1
  <2>3. n <= Len(stack) /\ n <= Len(rest)
    BY <1>2, <1>3
  <2>4. Covers(c, rank, rest)
    BY <1>1, <1>3, <1>4, <2>2, <2>3, CoversPrefix
  <2> QED
    BY <2>4
<1>7. CASE k = n /\ y = x
  <2>1. OnPath(c, rank, stack, n)
    BY <1>4, <1>7
  <2>2. OnPath(c, rank, rest, n)
    BY <1>2, <1>3, <2>1, OnPathPrefix
  <2>3. rest[n].state = stack[n].state
    BY <1>2, <1>3 DEF SamePrefix
  <2> QED
    BY <1>3, <1>5, <1>7, <2>2, <2>3
<1> QED
  BY <1>6, <1>7

LEMMA OnPathExtends ==
  ASSUME CostType = "NORMAL", NEW c, Counts(c), IsFiniteSet(States),
         NEW rank, GoalRank(c, States, rank),
         NEW st \in Seq(Frames), NEW n \in Nat, n = Len(st), n > 0, OnPath(c, rank, st, n),
         NEW x, Cheapest(c, rank, st[n].state, x),
         NEW f \in Frames, f.state = x[2], f.g = st[n].g + AdjustedCost(x[1]),
         x[2] \notin GoalStates, f.pending = Successors(x[2])
  PROVE  Covers(c, rank, Append(st, f))
<1> DEFINE D == Dist(c)
<1>1. PICK st2 \in Seq(Frames) : /\ st2 = Append(st, f) /\ Len(st2) = n + 1 /\ st2[n+1] = f
                                 /\ \A i \in 1..n : st2[i] = st[i]
  <2>1. Append(st, f) \in Seq(Frames) /\ Len(Append(st, f)) = n + 1 /\ Append(st, f)[n+1] = f
    BY AppendProperties
  <2>2. \A i \in 1..n : Append(st, f)[i] = st[i]
    BY AppendProperties
  <2> QED
    BY <2>1, <2>2
<1>2. n \in 1..n /\ st[n] \in Frames
  OBVIOUS
<1>3. x[1] \in Operators /\ x[2] \in States /\ st[n].state \in States /\ st[n].g \in Nat
  BY <1>2 DEF Cheapest, Successors, Frames
<1>4. c \in [Operators -> Nat] /\ D \in [States -> Nat]
  BY CountsTypes, GoalDistanceFacts DEF Dist
<1>5. Depth(st2, n + 1) = Depth(st, n) + c[x[1]] /\ Depth(st, n) \in Nat /\ c[x[1]] \in Nat
  <2>1. CASE Engine("ids")
    BY <1>2, <1>3, <2>1 DEF Depth, Counts, UnitCost
  <2>2. CASE ~Engine("ids")
    BY <1>1, <1>2, <1>3, <1>4, <2>2, RealCosts DEF Depth, Counts
  <2> QED
    BY <2>1, <2>2
<1>6. /\ D[st[n].state] # Infinity /\ D[InitialState] = Depth(st, n) + D[st[n].state]
      /\ D[x[2]] # Infinity /\ D[st[n].state] = c[x[1]] + D[x[2]] /\ rank[x[2]] < rank[st[n].state]
  BY <1>2 DEF OnPath, Cheapest
<1>7. D[InitialState] = Depth(st2, n + 1) + D[x[2]]
  BY <1>3, <1>4, <1>5, <1>6
<1>8. OnPath(c, rank, st2, n + 1)
  <2>1. ASSUME NEW i \in 1..n+1
        PROVE  /\ D[st2[i].state] # Infinity
               /\ D[InitialState] = Depth(st2, i) + D[st2[i].state]
    <3>1. CASE i = n + 1
      BY <1>1, <1>6, <1>7, <3>1
    <3>2. CASE i # n + 1
      <4>1. i \in 1..n /\ st2[i] = st[i]
        BY <1>1, <3>2
      <4> QED
        BY <4>1 DEF OnPath, Depth
    <3> QED
      BY <3>1, <3>2
  <2>2. ASSUME NEW i \in 1..n+1, NEW j \in 1..n+1, i < j
        PROVE  rank[st2[j].state] < rank[st2[i].state]
    <3>1. i \in 1..n /\ st2[i] = st[i]
      BY <1>1, <2>2
    <3>2. CASE j = n + 1
      <4>1. st2[j].state = x[2]
        BY <1>1, <3>2
      <4>2. st[i] \in Frames /\ st[i].state \in States
        BY <3>1, FramesAre
      <4>3. rank[st[i].state] \in Nat /\ rank[st[n].state] \in Nat /\ rank[x[2]] \in Nat
        BY <1>3, <4>2 DEF GoalRank
      <4>4. i = n \/ rank[st[n].state] < rank[st[i].state]
        BY <1>2, <3>1 DEF OnPath
      <4> QED
        BY <1>6, <3>1, <4>1, <4>3, <4>4
    <3>3. CASE j # n + 1
      <4>1. j \in 1..n /\ st2[j] = st[j]
        BY <1>1, <3>3
      <4> QED
        BY <2>2, <3>1, <4>1 DEF OnPath
    <3> QED
      BY <3>2, <3>3
  <2> QED
    BY <2>1, <2>2 DEF OnPath
<1>9. \E y \in st2[n+1].pending : Cheapest(c, rank, st2[n+1].state, y)
  <2>1. PICK t \in Transitions :
          /\ t[1] = x[2] /\ t[3] \in States /\ D[t[3]] # Infinity
          /\ D[x[2]] = c[t[2]] + D[t[3]] /\ rank[t[3]] < rank[x[2]]
    BY <1>3, <1>6 DEF GoalRank, Dist
  <2>2. t = <<t[1], t[2], t[3]>> /\ t[2] \in Operators
    BY TaskAssumption
  <2>3. <<t[2], t[3]>> \in Successors(x[2])
    BY <2>1, <2>2 DEF Successors
  <2>4. Cheapest(c, rank, x[2], <<t[2], t[3]>>)
    BY <2>1, <2>3 DEF Cheapest
  <2> QED
    BY <1>1, <2>3, <2>4
<1>10. n + 1 \in 1..Len(st2)
  BY <1>1
<1> QED
  BY <1>1, <1>8, <1>9, <1>10 DEF Covers

LEMMA CoverStarts ==
  ASSUME CostType = "NORMAL", NEW c, Counts(c), IsFiniteSet(States),
         NEW rank, GoalRank(c, States, rank), InitialState \notin GoalStates,
         Dist(c)[InitialState] # Infinity,
         NEW f \in Frames, f.state = InitialState, f.g = 0, f.pending = Successors(InitialState)
  PROVE  Covers(c, rank, Append(<<>>, f))
<1> DEFINE D == Dist(c)
<1>1. PICK st \in Seq(Frames) : st = Append(<<>>, f) /\ Len(st) = 1 /\ st[1] = f
  <2>1. <<f>> \in Seq(Frames) /\ Append(<<>>, f) = <<f>> /\ Len(<<f>>) = 1 /\ <<f>>[1] = f
    OBVIOUS
  <2> QED
    BY <2>1
<1>2. c \in [Operators -> Nat] /\ D \in [States -> Nat] /\ InitialState \in States
  BY CountsTypes, GoalDistanceFacts, TaskAssumption DEF Dist
<1>3. Depth(st, 1) = 0
  BY <1>1 DEF Depth
<1>4. OnPath(c, rank, st, 1)
  <2>1. \A i \in 1..1 : i = 1
    OBVIOUS
  <2>2. D[InitialState] = Depth(st, 1) + D[st[1].state]
    BY <1>1, <1>2, <1>3
  <2>3. \A i, j \in 1..1 : ~(i < j)
    OBVIOUS
  <2> QED
    BY <1>1, <2>1, <2>2, <2>3 DEF OnPath
<1>5. \E y \in st[1].pending : Cheapest(c, rank, st[1].state, y)
  <2>1. PICK t \in Transitions :
          /\ t[1] = InitialState /\ t[3] \in States /\ D[t[3]] # Infinity
          /\ D[InitialState] = c[t[2]] + D[t[3]] /\ rank[t[3]] < rank[InitialState]
    BY <1>2 DEF GoalRank, Dist
  <2>2. t = <<t[1], t[2], t[3]>> /\ t[2] \in Operators
    BY TaskAssumption
  <2>3. <<t[2], t[3]>> \in Successors(InitialState)
    BY <2>1, <2>2 DEF Successors
  <2>4. Cheapest(c, rank, InitialState, <<t[2], t[3]>>)
    BY <2>1, <2>3 DEF Cheapest
  <2> QED
    BY <1>1, <2>3, <2>4
<1>6. 1 \in 1..Len(st)
  BY <1>1
<1> QED
  BY <1>1, <1>4, <1>5, <1>6 DEF Covers

-----------------------------------------------------------------------------
(***************************************************************************)
(* No plan is cheaper than the distance of the initial state, whatever the *)
(* engine.                                                                 *)
(***************************************************************************)

\* The plans are not cheaper than possible.
Priced(c) ==
  \A i \in 1..Len(plans) :
    Dist(c)[InitialState] # Infinity /\ Dist(c)[InitialState] <= SequenceCost(plans[i])

LEMMA PlansGrow ==
  ASSUME TreeBase, TreeStep \/ UNCHANGED treeallvars, CostType = "NORMAL", NEW c, Counts(c),
         IsFiniteSet(States), NEW M, PathsFit(c, States, M)
  PROVE  /\ config' = config
         /\ \/ plans' = plans
            \/ \E seq \in Seq(Operators) :
                 /\ plans' = Append(plans, seq)
                 /\ Dist(c)[InitialState] # Infinity /\ Dist(c)[InitialState] <= SequenceCost(seq)
<1>1. TreeTypes
  BY DEF TreeBase
<1>2. c \in [Operators -> Nat]
  BY CountsTypes
<1>3. /\ Dist(c) \in [States -> Nat] /\ \A s \in GoalStates : Dist(c)[s] = 0
      /\ InitialState \in States
  <2>1. GoalStates \intersect States = GoalStates /\ InitialState \in States
    BY TaskAssumption
  <2>2. /\ GoalDistance(c, States) \in [States -> Nat]
        /\ \A s \in GoalStates \intersect States : GoalDistance(c, States)[s] = 0
    BY <1>2, GoalDistanceFacts
  <2> QED
    BY <2>1, <2>2 DEF Dist
<1>4. CASE NextIteration
  <2>1. Starts
    BY <1>4, NextIterationIs
  <2>2. PICK h \in Nat \union {DEAD_END} : Calls(InitialState, 0, h, <<>>, <<>>)
    BY <2>1 DEF Starts
  <2>3. config' = config
    BY <2>1 DEF Starts
  <2>4. CASE AtGoal(InitialState, 0, h, <<>>, <<>>)
    <3>1. Dist(c)[InitialState] = 0
      BY <1>3, <2>4 DEF AtGoal
    <3>2. SequenceCost(<<>>) \in Nat /\ <<>> \in Seq(Operators)
      <4>1. <<>> \in Seq(Operators)
        OBVIOUS
      <4> QED
        BY <4>1, SequenceCostNat
    <3>3. Dist(c)[InitialState] # Infinity /\ Dist(c)[InitialState] <= SequenceCost(<<>>)
      BY <3>1, <3>2, InfinityNat
    <3>4. plans' = plans \/ plans' = Append(plans, <<>>)
      BY <2>4 DEF AtGoal
    <3> QED
      BY <2>3, <3>2, <3>3, <3>4
  <2>5. CASE ~AtGoal(InitialState, 0, h, <<>>, <<>>)
    BY <2>2, <2>3, <2>5 DEF Calls, TooDear, Opens
  <2> QED
    BY <2>4, <2>5
<1>5. CASE stack # <<>> /\ \E x \in Top.pending : Descend(x)
  <2>1. PICK x \in Top.pending : Descend(x)
    BY <1>5
  <2>2. PICK rest \in Seq(Frames) : Descends(x, rest)
    BY <1>5, <2>1, DescendIs
  <2>3. config' = config
    BY <2>2 DEF Descends
  <2>4. CASE Skips(x, rest) \/ Avoids(x, rest)
    BY <2>3, <2>4 DEF Skips, Avoids
  <2>5. CASE Tries(x, rest)
    <3>1. PICK h \in Nat : Calls(x[2], NewG(x), h, rest, operator_sequence')
      BY <2>5 DEF Tries
    <3>2. CASE AtGoal(x[2], NewG(x), h, rest, operator_sequence')
      <4>1. PICK seq \in Seq(Operators) : seq = operator_sequence' /\ seq = Append(operator_sequence, x[1])
        <5>1. x[1] \in Operators /\ operator_sequence \in Seq(Operators)
          BY <1>1, <2>2 DEF Descends, TreeTypes
        <5>2. Append(operator_sequence, x[1]) \in Seq(Operators)
          BY <5>1, AppendProperties
        <5> QED
          BY <2>5, <5>2 DEF Tries
      <4>2. \A i \in 1..Len(stack) : stack[i].state \in States
        BY <1>1, FramesAre DEF TreeTypes
      <4>3. /\ NewDepth(c, x) \in Nat /\ SequenceCost(seq) = NewDepth(c, x)
            /\ Dist(c)[InitialState] <= NewDepth(c, x) + Dist(c)[x[2]]
            /\ Dist(c)[x[2]] # Infinity => Dist(c)[InitialState] # Infinity
        BY <2>2, <4>1, <4>2, NewDepthFacts DEF Dist
      <4>4. Dist(c)[x[2]] = 0
        BY <1>3, <3>2 DEF AtGoal
      <4>5. Dist(c)[InitialState] # Infinity /\ Dist(c)[InitialState] <= SequenceCost(seq)
        BY <1>3, <4>3, <4>4, InfinityNat
      <4>6. plans' = plans \/ plans' = Append(plans, seq)
        BY <3>2, <4>1 DEF AtGoal
      <4> QED
        BY <2>3, <4>5, <4>6
    <3>3. CASE ~AtGoal(x[2], NewG(x), h, rest, operator_sequence')
      BY <2>3, <3>1, <3>3 DEF Calls, TooDear, Opens
    <3> QED
      BY <3>2, <3>3
  <2> QED
    BY <2>2, <2>4, <2>5 DEF Descends
<1>6. CASE Initialize \/ Loops \/ Resume \/ Unwind \/ EndIteration \/ EndStep \/ UNCHANGED treeallvars
  BY <1>6 DEF Initialize, Loops, Resume, Unwind, EndIteration, EndStep, treeallvars, treevars
<1> QED
  BY <1>4, <1>5, <1>6 DEF TreeStep

LEMMA PlanAppended ==
  ASSUME TreeTypes, NEW seq \in Seq(Operators), plans' = Append(plans, seq)
  PROVE  /\ plans' # <<>> /\ Last(plans') = seq /\ Len(plans') = Len(plans) + 1 /\ Len(plans) \in Nat
         /\ \A i \in 1..Len(plans) : plans'[i] = plans[i]
         /\ plans'[Len(plans) + 1] = seq
<1> DEFINE P == Seq(Operators)
<1>1. plans \in Seq(P) /\ seq \in P
  BY DEF TreeTypes
<1> HIDE DEF P
<1>2. PICK n \in Nat : n = Len(plans)
  BY <1>1
<1>3. PICK ps \in Seq(P) : /\ ps = Append(plans, seq) /\ ps # <<>> /\ Len(ps) = n + 1 /\ ps[n+1] = seq
                           /\ \A i \in 1..n : ps[i] = plans[i]
  <2>1. Append(plans, seq) \in Seq(P) /\ Append(plans, seq) # <<>> /\ Len(Append(plans, seq)) = n + 1
        /\ Append(plans, seq)[n+1] = seq
    BY <1>1, <1>2, AppendProperties
  <2>2. \A i \in 1..n : Append(plans, seq)[i] = plans[i]
    BY <1>1, <1>2, AppendProperties
  <2> QED
    BY <2>1, <2>2
<1>4. Last(ps) = seq
  BY <1>3 DEF Last
<1> QED
  BY <1>2, <1>3, <1>4

LEMMA PricedStep ==
  ASSUME TreeBase, TreeStep \/ UNCHANGED treeallvars, CostType = "NORMAL", NEW c, Counts(c),
         IsFiniteSet(States), NEW M, PathsFit(c, States, M), Priced(c)
  PROVE  Priced(c)'
<1>1. /\ config' = config
      /\ \/ plans' = plans
         \/ \E seq \in Seq(Operators) :
              /\ plans' = Append(plans, seq)
              /\ Dist(c)[InitialState] # Infinity /\ Dist(c)[InitialState] <= SequenceCost(seq)
  BY PlansGrow
<1>2. \A seq : SequenceCost(seq)' = SequenceCost(seq)
  BY <1>1 DEF SequenceCost, Engine
<1>3. CASE plans' = plans
  BY <1>1, <1>3 DEF Priced, SequenceCost, Engine
<1>4. CASE \E seq \in Seq(Operators) :
              /\ plans' = Append(plans, seq)
              /\ Dist(c)[InitialState] # Infinity /\ Dist(c)[InitialState] <= SequenceCost(seq)
  <2>1. PICK seq \in Seq(Operators) :
              /\ plans' = Append(plans, seq)
              /\ Dist(c)[InitialState] # Infinity /\ Dist(c)[InitialState] <= SequenceCost(seq)
    BY <1>4
  <2>2. /\ Len(plans') = Len(plans) + 1 /\ Len(plans) \in Nat
        /\ \A i \in 1..Len(plans) : plans'[i] = plans[i]
        /\ plans'[Len(plans) + 1] = seq
    BY <2>1, PlanAppended DEF TreeBase
  <2>3. ASSUME NEW i \in 1..Len(plans')
        PROVE  Dist(c)[InitialState] # Infinity /\ (Dist(c)[InitialState] <= SequenceCost(plans[i]))'
    <3>1. CASE i \in 1..Len(plans)
      BY <1>1, <2>2, <3>1 DEF Priced, SequenceCost, Engine
    <3>2. CASE i \notin 1..Len(plans)
      <4>1. i = Len(plans) + 1
        BY <2>2, <3>2
      <4> QED
        BY <1>1, <2>1, <2>2, <4>1 DEF SequenceCost, Engine
    <3> QED
      BY <3>1, <3>2
  <2> QED
    BY <2>3 DEF Priced
<1> QED
  BY <1>1, <1>3, <1>4

-----------------------------------------------------------------------------
(***************************************************************************)
(* Depth-first search.                                                     *)
(***************************************************************************)

LEMMA CoversStays ==
  ASSUME config' = config, NEW c, NEW rank, NEW st, stack' = st
  PROVE  (Covers(c, rank, stack))' <=> Covers(c, rank, st)
BY DEF Covers, OnPath, Depth, Engine

\* The state that a cheapest operator leads to is on a cheapest path.
LEMMA OnPathDepth ==
  ASSUME TreeTypes, CostType = "NORMAL", NEW c, Counts(c), IsFiniteSet(States), NEW rank,
         NEW x, NEW rest \in Seq(Frames), Descends(x, rest),
         OnPath(c, rank, rest, Len(rest)), Cheapest(c, rank, rest[Len(rest)].state, x)
  PROVE  /\ NewDepth(c, x) \in Nat /\ Dist(c)[x[2]] \in Nat
         /\ Dist(c)[InitialState] = NewDepth(c, x) + Dist(c)[x[2]]
<1>1. stack \in Seq(Frames) /\ stack # <<>> /\ Rest(x, rest)
  BY DEF TreeTypes, Descends
<1>2. PICK n \in Nat : n = Len(stack) /\ n > 0 /\ n \in 1..n
  BY <1>1
<1>3. Len(rest) = n /\ rest[n].g = stack[n].g
  BY <1>1, <1>2 DEF Rest
<1>4. Depth(rest, n) = Depth(stack, n)
  BY <1>3 DEF Depth
<1>5. /\ Dist(c)[InitialState] = Depth(stack, n) + Dist(c)[rest[n].state]
      /\ Dist(c)[rest[n].state] = c[x[1]] + Dist(c)[x[2]]
  BY <1>2, <1>3, <1>4 DEF OnPath, Cheapest
<1>6. c \in [Operators -> Nat] /\ Dist(c) \in [States -> Nat] /\ x[1] \in Operators /\ x[2] \in States
  BY CountsTypes, GoalDistanceFacts DEF Dist, Descends
<1>7. stack[n].g \in Nat
  BY <1>1, <1>2, FramesAre
<1>8. Depth(stack, n) \in Nat
  BY <1>2, <1>7 DEF Depth
<1> QED
  BY <1>2, <1>5, <1>6, <1>8 DEF NewDepth

Optimum(c) == Dist(c)[InitialState]

\* Depth-first search: while the limit exceeds the optimum, a cheapest path is
\* still to be continued.
DFSInv(rank) ==
  /\ limit = IF Found THEN SequenceCost(Last(plans)) ELSE config.bound
  /\ iteration > 0 /\ ~Unwinds =>
       limit <= Optimum(Cost) \/ Optimum(Cost) = Infinity \/ Covers(Cost, rank, stack)

LEMMA DFSCountsCost == Engine("dfs") => Counts(Cost) /\ ~Engine("idastar") /\ ~Engine("ids")
BY DEF Engine, Counts

\* The call for the initial state.
LEMMA DFSStarts ==
  ASSUME TreeBase, Starts, Engine("dfs"), CostType = "NORMAL", IsFiniteSet(States),
         NEW rank, GoalRank(Cost, States, rank), DFSInv(rank)
  PROVE  DFSInv(rank)'
<1>1. TreeTypes /\ TreeControl /\ Counts(Cost) /\ ~Engine("ids") /\ ~Engine("idastar")
  BY DFSCountsCost DEF TreeBase
<1>2. iteration = 0 /\ plans = <<>> /\ ~Found /\ limit = config.bound /\ config' = config
  BY <1>1 DEF Starts, Repeats, Engine, TreeControl, DFSInv, Found
<1>3. Optimum(Cost) \in Nat
  BY CostAssumption, TaskAssumption, GoalDistanceFacts DEF Optimum, Dist
<1>4. PICK h \in Nat \union {DEAD_END} : Asked(InitialState, h) /\ Calls(InitialState, 0, h, <<>>, <<>>)
  BY DEF Starts
<1>5. CASE TooDear(InitialState, 0, h, <<>>)
  <2>1. ~(0 < limit) /\ limit' = limit /\ plans' = plans
    BY <1>1, <1>5 DEF TooDear, Passes
  <2>2. limit' <= Optimum(Cost)
    BY <1>1, <1>3, <2>1 DEF TreeTypes
  <2> QED
    BY <1>2, <2>1, <2>2 DEF DFSInv, Found
<1>6. CASE AtGoal(InitialState, 0, h, <<>>, <<>>)
  <2>1. Saves(SequenceCost(<<>>))
    BY <1>2 DEF Saves
  <2>2. SequenceCost(<<>>) = 0
    BY <1>1, PlanCostFacts DEF SequenceCost
  <2>3. plans' = Append(plans, <<>>) /\ limit' = 0
    BY <1>6, <2>1, <2>2 DEF AtGoal, NewLimit, Engine
  <2>4. <<>> \in Seq(Operators)
    OBVIOUS
  <2>5. plans' # <<>> /\ Last(plans') = <<>>
    BY <1>1, <2>3, <2>4, PlanAppended
  <2>6. SequenceCost(Last(plans))' = 0
    BY <1>2, <2>2, <2>5 DEF SequenceCost, Engine
  <2> QED
    BY <1>3, <2>3, <2>5, <2>6 DEF DFSInv, Found
<1>7. CASE Opens(InitialState, 0, h, <<>>, <<>>)
  <2>1. PICK f \in Frames : /\ stack' = Append(<<>>, f) /\ f.state = InitialState /\ f.g = 0
                            /\ f.pending = Successors(InitialState)
    BY <1>1, <1>7 DEF Opens
  <2>2. InitialState \notin GoalStates /\ limit' = limit /\ plans' = plans
    BY <1>7 DEF Opens
  <2>3. Optimum(Cost) # Infinity => Covers(Cost, rank, Append(<<>>, f))
    BY <1>1, <2>1, <2>2, CoverStarts DEF Optimum
  <2>4. Optimum(Cost) # Infinity => Covers(Cost, rank, stack)'
    BY <1>2, <2>1, <2>3, CoversStays
  <2> QED
    BY <1>2, <2>2, <2>4 DEF DFSInv, Found
<1> QED
  BY <1>4, <1>5, <1>6, <1>7 DEF Calls

\* The next operator.
LEMMA DFSDescends ==
  ASSUME TreeBase, NEW x, NEW rest \in Seq(Frames), Descends(x, rest),
         Engine("dfs"), CostType = "NORMAL", IsFiniteSet(States),
         NEW rank, GoalRank(Cost, States, rank), DFSInv(rank)
  PROVE  DFSInv(rank)'
<1>1. TreeTypes /\ TreeControl /\ Counts(Cost) /\ ~Engine("ids") /\ ~Engine("idastar") /\ limit \in Int
  BY DFSCountsCost DEF TreeBase, TreeTypes
<1>2. config' = config /\ iteration' = iteration /\ stack # <<>>
  BY DEF Descends
<1>3. Optimum(Cost) \in Nat
  BY CostAssumption, TaskAssumption, GoalDistanceFacts DEF Optimum, Dist
<1>4. iteration > 0
  BY <1>1, <1>2 DEF TreeControl, TreeTypes
<1> DEFINE Follows == OnPath(Cost, rank, rest, Len(rest)) /\ Cheapest(Cost, rank, rest[Len(rest)].state, x)
<1>5. ~Unwinds => \/ limit <= Optimum(Cost) \/ Optimum(Cost) = Infinity
                  \/ Covers(Cost, rank, rest) \/ Follows
  BY <1>1, <1>4, CoversDescends DEF DFSInv
<1>6. NewG(x) \in Nat /\ (Follows => Optimum(Cost) = NewG(x) + Dist(Cost)[x[2]] /\ Dist(Cost)[x[2]] \in Nat)
  <2>1. NewDepth(Cost, x) = NewG(x)
    <3>1. \A i \in 1..Len(stack) : stack[i].state \in States
      BY <1>1, FramesAre DEF TreeTypes
    <3> QED
      BY <1>1, <3>1, NewDepthFacts
  <2>2. NewG(x) \in Nat
    BY DEF Descends
  <2> QED
    BY <1>1, <2>1, <2>2, OnPathDepth DEF Optimum
<1>7. CASE Skips(x, rest)
  <2>1. stack' = rest /\ limit' = limit /\ plans' = plans /\ x[2] \in StatesOnPath
    BY <1>1, <1>7 DEF Skips, Hit
  <2>2. ~Follows
    <3>1. PICK n \in Nat : n = Len(stack) /\ n \in 1..n
      BY <1>1, <1>2 DEF TreeTypes
    <3>2. Len(rest) = n /\ \A i \in 1..n : rest[i].state = stack[i].state /\ rest[i].state \in States
      BY <1>1, <3>1, FramesAre DEF Descends, Rest
    <3>3. PICK i \in 1..n : x[2] = rest[i].state
      <4>1. PICK i \in DOMAIN stack : x[2] = stack[i].state
        BY <2>1 DEF StatesOnPath
      <4>2. i \in 1..n
        BY <1>1, <3>1, <4>1 DEF TreeTypes
      <4> QED
        BY <3>2, <4>1, <4>2
    <3>4. rank[rest[i].state] \in Nat /\ rank[rest[n].state] \in Nat
      BY <3>1, <3>2 DEF GoalRank
    <3>5. SUFFICES ASSUME Follows PROVE FALSE
      OBVIOUS
    <3>6. rank[rest[i].state] < rank[rest[n].state]
      BY <3>2, <3>3, <3>5 DEF Cheapest
    <3>7. i = n \/ rank[rest[n].state] < rank[rest[i].state]
      BY <3>1, <3>2, <3>5 DEF OnPath
    <3> QED
      BY <3>4, <3>6, <3>7
  <2>3. Covers(Cost, rank, rest) => Covers(Cost, rank, stack)'
    BY <1>2, <2>1, CoversStays
  <2> HIDE DEF Follows
  <2> QED
    BY <1>2, <1>5, <2>1, <2>2, <2>3 DEF DFSInv, Found, Unwinds, SequenceCost, Engine
<1>8. CASE Tries(x, rest)
  <2>1. PICK seq \in Seq(Operators) : seq = operator_sequence' /\ SequenceCost(seq) = NewG(x)
    <3>1. operator_sequence' = Append(operator_sequence, x[1])
      BY <1>8 DEF Tries
    <3>2. x[1] \in Operators /\ operator_sequence \in Seq(Operators)
      BY <1>1 DEF Descends, TreeTypes
    <3>3. Append(operator_sequence, x[1]) \in Seq(Operators)
      BY <3>2, AppendProperties
    <3>4. \A i \in 1..Len(stack) : stack[i].state \in States
      BY <1>1, FramesAre DEF TreeTypes
    <3>5. SequenceCost(Append(operator_sequence, x[1])) = NewG(x)
      BY <1>1, <3>4, NewDepthFacts
    <3> QED
      BY <3>1, <3>3, <3>5
  <2>2. PICK h \in Nat : Calls(x[2], NewG(x), h, rest, seq)
    BY <1>8, <2>1 DEF Tries
  <2>3. CASE TooDear(x[2], NewG(x), h, rest)
    <3>1. ~(NewG(x) < limit) /\ limit' = limit /\ plans' = plans /\ stack' = rest
      BY <1>1, <2>3 DEF TooDear, Passes
    <3>2. Follows => limit <= Optimum(Cost)
      BY <1>1, <1>3, <1>6, <3>1
    <3>3. Covers(Cost, rank, rest) => Covers(Cost, rank, stack)'
      BY <1>2, <3>1, CoversStays
    <3> HIDE DEF Follows
    <3> QED
      BY <1>2, <1>5, <3>1, <3>2, <3>3 DEF DFSInv, Found, Unwinds, SequenceCost, Engine
  <2>4. CASE AtGoal(x[2], NewG(x), h, rest, seq)
    <3>1. NewG(x) < limit /\ stack' = rest /\ x[2] \in GoalStates
      BY <1>1, <2>4 DEF AtGoal, Passes
    <3>2. Saves(SequenceCost(seq))
      BY <1>1, <2>1, <3>1 DEF Saves, DFSInv
    <3>3. plans' = Append(plans, seq) /\ limit' = NewG(x)
      BY <2>1, <2>4, <3>2 DEF AtGoal, NewLimit, Engine
    <3>4. plans' # <<>> /\ Last(plans') = seq
      BY <1>1, <3>3, PlanAppended
    <3>5. SequenceCost(Last(plans))' = NewG(x)
      BY <1>2, <2>1, <3>4 DEF SequenceCost, Engine
    <3>6. Follows => limit' <= Optimum(Cost)
      <4>1. Dist(Cost)[x[2]] = 0
        <5>1. x[2] \in GoalStates \intersect States
          BY <3>1, TaskAssumption
        <5> QED
          BY <5>1, CostAssumption, GoalDistanceFacts DEF Dist
      <4> QED
        BY <1>6, <3>3, <4>1
    <3>7. limit <= Optimum(Cost) => limit' <= Optimum(Cost)
      BY <1>1, <1>3, <1>6, <3>1, <3>3
    <3>8. Covers(Cost, rank, rest) => Covers(Cost, rank, stack)'
      BY <1>2, <3>1, CoversStays
    <3>9. Unwinds => Unwinds'
      BY <1>2, <3>4 DEF Unwinds, Found
    <3>10. limit' = (IF Found THEN SequenceCost(Last(plans)) ELSE config.bound)'
      BY <3>3, <3>4, <3>5 DEF Found
    <3> HIDE DEF Follows
    <3> QED
      BY <1>5, <3>6, <3>7, <3>8, <3>9, <3>10 DEF DFSInv
  <2>5. CASE Opens(x[2], NewG(x), h, rest, seq)
    <3>1. limit' = limit /\ plans' = plans /\ x[2] \notin GoalStates
      BY <2>5 DEF Opens
    <3>2. PICK f \in Frames : /\ stack' = Append(rest, f) /\ f.state = x[2] /\ f.g = NewG(x)
                              /\ f.pending = Successors(x[2])
      BY <1>1, <2>5 DEF Opens
    <3>3. Covers(Cost, rank, rest) => Covers(Cost, rank, Append(rest, f))
      BY CoversAppended
    <3>4. Follows => Covers(Cost, rank, Append(rest, f))
      <4>1. PICK n \in Nat : n = Len(rest) /\ n > 0
        BY DEF Descends, Rest
      <4>2. rest[n].g = Top.g
        BY <1>1, <1>2, <4>1, TopIs DEF Descends, Rest
      <4>3. f.g = rest[n].g + AdjustedCost(x[1])
        BY <3>2, <4>2 DEF NewG
      <4> QED
        BY <1>1, <3>1, <3>2, <4>1, <4>3, OnPathExtends
    <3>5. Covers(Cost, rank, Append(rest, f)) => Covers(Cost, rank, stack)'
      BY <1>2, <3>2, CoversStays
    <3> HIDE DEF Follows
    <3> QED
      BY <1>2, <1>5, <3>1, <3>3, <3>4, <3>5 DEF DFSInv, Found, Unwinds, SequenceCost, Engine
  <2> QED
    BY <2>2, <2>3, <2>4, <2>5 DEF Calls
<1>9. ~Avoids(x, rest)
  BY <1>1 DEF Avoids
<1> QED
  BY <1>7, <1>8, <1>9 DEF Descends

LEMMA DFSStep ==
  ASSUME TreeBase, TreeStep \/ UNCHANGED treeallvars,
         Engine("dfs"), CostType = "NORMAL", IsFiniteSet(States),
         NEW rank, GoalRank(Cost, States, rank), DFSInv(rank)
  PROVE  DFSInv(rank)'
<1>1. TreeTypes /\ TreeControl /\ stack \in Seq(Frames)
  BY DEF TreeBase, TreeTypes
<1>2. CASE NextIteration
  BY <1>2, NextIterationIs, DFSStarts
<1>3. CASE stack # <<>> /\ \E x \in Top.pending : Descend(x)
  <2>1. PICK x \in Top.pending : Descend(x)
    BY <1>3
  <2>2. PICK rest \in Seq(Frames) : Descends(x, rest)
    BY <1>3, <2>1, DescendIs
  <2> QED
    BY <2>2, DFSDescends
<1>4. CASE Loops
  <2>1. /\ limit' = limit /\ plans' = plans /\ config' = config /\ iteration' = iteration
        /\ stack' = Front(stack) /\ stack # <<>> /\ Top.pending = {}
    BY <1>4 DEF Loops
  <2>2. Covers(Cost, rank, stack) => Covers(Cost, rank, Front(stack))
    BY <1>1, <2>1, CoversFront
  <2>3. PICK st \in Seq(Frames) : st = Front(stack) /\ stack' = st
    BY <1>1, <2>1, FrontIs
  <2>4. Covers(Cost, rank, stack) => Covers(Cost, rank, stack)'
    BY <2>1, <2>2, <2>3, CoversStays
  <2> QED
    BY <2>1, <2>4 DEF DFSInv, Found, Unwinds, SequenceCost, Engine
<1>5. CASE Resume
  <2>1. /\ limit' = limit /\ plans' = plans /\ config' = config /\ iteration' = iteration
        /\ stack # <<>> /\ returned # None
        /\ stack' = [stack EXCEPT ![Len(stack)].next_limit = NextLimit(@, returned)]
    BY <1>5 DEF Resume
  <2>2. returned \in Nat \union {-1}
    BY <1>1, <2>1 DEF TreeTypes
  <2>3. PICK st \in Seq(Frames) :
           /\ st = stack' /\ Len(st) = Len(stack)
           /\ \A i \in 1..Len(stack) : /\ st[i].state = stack[i].state /\ st[i].g = stack[i].g
                                       /\ st[i].pending = stack[i].pending
    BY <1>1, <2>1, <2>2, LimitNoted
  <2>4. Covers(Cost, rank, stack) => Covers(Cost, rank, st)
    <3>1. PICK n \in Nat : n = Len(stack) /\ n <= Len(st) /\ n <= Len(stack)
      BY <1>1, <2>3
    <3>2. SamePrefix(stack, st, n)
      BY <2>3, <3>1 DEF SamePrefix
    <3>3. \A k \in 1..n : stack[k].pending \intersect st[k].pending = stack[k].pending
      BY <2>3, <3>1
    <3>4. Covers(Cost, rank, stack) =>
            \E k \in 1..n : /\ OnPath(Cost, rank, stack, k)
                            /\ \E x \in stack[k].pending \intersect st[k].pending :
                                 Cheapest(Cost, rank, stack[k].state, x)
      BY <3>1, <3>3 DEF Covers
    <3> QED
      BY <1>1, <3>1, <3>2, <3>4, CoversPrefix
  <2>5. Covers(Cost, rank, stack) => Covers(Cost, rank, stack)'
    BY <2>1, <2>3, <2>4, CoversStays
  <2> QED
    BY <2>1, <2>5 DEF DFSInv, Found, Unwinds, SequenceCost, Engine
<1>6. CASE Unwind
  <2>1. limit' = limit /\ plans' = plans /\ config' = config /\ Unwinds
    BY <1>6 DEF Unwind
  <2> QED
    BY <2>1 DEF DFSInv, Found, Unwinds, SequenceCost, Engine
<1>7. CASE EndIteration \/ Initialize \/ EndStep \/ UNCHANGED treeallvars
  <2>1. limit' = limit /\ plans' = plans /\ config' = config /\ iteration' = iteration /\ stack' = stack
    BY <1>7 DEF EndIteration, Initialize, EndStep, treeallvars, treevars, Engine
  <2>2. Covers(Cost, rank, stack) => Covers(Cost, rank, stack)'
    BY <2>1 DEF Covers, OnPath, Depth, Engine
  <2> QED
    BY <2>1, <2>2 DEF DFSInv, Found, Unwinds, SequenceCost, Engine
<1> QED
  BY <1>2, <1>3, <1>4, <1>5, <1>6, <1>7 DEF TreeStep

-----------------------------------------------------------------------------
(***************************************************************************)
(* Iterative deepening.                                                    *)
(***************************************************************************)

BoundsFit == \A cfg \in Configs : cfg.bound <= Infinity

Iterating == stack # <<>> \/ returned # None

\* Iterative deepening: the limit does not pass the optimum before there is a plan,
\* and when it has reached it, a shortest path is still to be continued.
IDSInv(rank) ==
  /\ limit \in Nat /\ limit <= config.bound
  /\ Iterating => limit < config.bound
  /\ \A i \in 1..Len(stack) : stack[i].pending # {} => i <= limit
  /\ ~Found => limit <= Optimum(UnitCost)
  /\ Found => Len(plans[1]) <= Optimum(UnitCost)
  /\ Iterating /\ limit = Optimum(UnitCost) => Found \/ Covers(UnitCost, rank, stack)

LEMMA IDSCountsOperators == Engine("ids") => Counts(UnitCost) /\ ~Engine("idastar") /\ ~Engine("dfs")
BY DEF Engine, Counts

LEMMA UnitFacts ==
  /\ UnitCost \in [Operators -> Nat] /\ \A o \in Operators : UnitCost[o] = 1
  /\ IsFiniteSet(States) => Dist(UnitCost) \in [States -> Nat] /\ Optimum(UnitCost) \in Nat
<1>1. UnitCost \in [Operators -> Nat] /\ \A o \in Operators : UnitCost[o] = 1
  BY DEF UnitCost
<1> QED
  BY <1>1, GoalDistanceFacts, TaskAssumption DEF Dist, Optimum

\* A state that is no goal state is at least one operator away from one.
LEMMA FarFromGoal ==
  ASSUME IsFiniteSet(States), NEW rank, GoalRank(UnitCost, States, rank),
         NEW s \in States, s \notin GoalStates, Dist(UnitCost)[s] # Infinity
  PROVE  Dist(UnitCost)[s] >= 1
<1>1. PICK t \in Transitions : t[3] \in States /\ Dist(UnitCost)[s] = UnitCost[t[2]] + Dist(UnitCost)[t[3]]
  BY DEF GoalRank, Dist
<1>2. t[2] \in Operators
  BY TaskAssumption
<1>3. UnitCost[t[2]] = 1 /\ Dist(UnitCost)[t[3]] \in Nat
  BY <1>1, <1>2, UnitFacts
<1> QED
  BY <1>1, <1>3

\* What a call of iterative deepening does to the plans.
LEMMA IDSGoal ==
  ASSUME TreeTypes, Engine("ids"), NEW s, NEW cost, NEW h, NEW callers, NEW seq \in Seq(Operators),
         AtGoal(s, cost, h, callers, seq),
         ~Found => Len(seq) <= Optimum(UnitCost), Found => Len(plans[1]) <= Optimum(UnitCost)
  PROVE  limit' = limit /\ plans' # <<>> /\ Len(plans'[1]) <= Optimum(UnitCost) /\ stack' = callers
<1>1. stack' = callers
  BY DEF AtGoal
<1>2. CASE plans' = plans /\ limit' = limit /\ ~Saves(SequenceCost(seq))
  BY <1>1, <1>2 DEF Found, Saves
<1>3. CASE plans' = Append(plans, seq) /\ limit' = NewLimit(SequenceCost(seq))
  <2>1. limit' = limit
    BY <1>3 DEF NewLimit, Engine
  <2>2. /\ plans' # <<>> /\ Len(plans) \in Nat
        /\ \A i \in 1..Len(plans) : plans'[i] = plans[i]
        /\ plans'[Len(plans) + 1] = seq
    BY <1>3, PlanAppended
  <2>3. CASE Found
    <3>1. 1 \in 1..Len(plans)
      <4> DEFINE P == Seq(Operators)
      <4>1. plans \in Seq(P) /\ plans # <<>>
        BY <2>3 DEF TreeTypes, Found
      <4> HIDE DEF P
      <4> QED
        BY <4>1
    <3> QED
      BY <1>1, <2>1, <2>2, <2>3, <3>1
  <2>4. CASE ~Found
    <3>1. Len(plans) + 1 = 1
      BY <2>4 DEF Found
    <3> QED
      BY <1>1, <2>1, <2>2, <2>4, <3>1
  <2> QED
    BY <2>3, <2>4
<1> QED
  BY <1>2, <1>3 DEF AtGoal

\* The call for the initial state.
LEMMA IDSStarts ==
  ASSUME TreeBase, Starts, Engine("ids"), CostType = "NORMAL", IsFiniteSet(States), BoundsFit,
         NEW rank, GoalRank(UnitCost, States, rank), IDSInv(rank)
  PROVE  IDSInv(rank)'
<1>1. TreeTypes /\ TreeControl /\ Counts(UnitCost) /\ ~Engine("dfs") /\ ~Engine("idastar")
      /\ config \in Configs
  BY IDSCountsOperators DEF TreeBase, TreeTypes
<1>2. limit < config.bound /\ limit \in Nat /\ config' = config
  BY <1>1 DEF Starts, Repeats, Engine, IDSInv
<1>3. Optimum(UnitCost) \in Nat /\ InitialState \in States
  BY UnitFacts, TaskAssumption
<1>4. PICK h \in Nat \union {DEAD_END} : Asked(InitialState, h) /\ Calls(InitialState, 0, h, <<>>, <<>>)
  BY DEF Starts
<1>5. ~TooDear(InitialState, 0, h, <<>>)
  BY <1>1 DEF TooDear, Passes
<1>6. CASE AtGoal(InitialState, 0, h, <<>>, <<>>)
  <2>1. <<>> \in Seq(Operators) /\ Len(<<>>) = 0
    OBVIOUS
  <2>2. ~Found => Len(<<>>) <= Optimum(UnitCost)
    BY <1>3
  <2>3. Found => Len(plans[1]) <= Optimum(UnitCost)
    BY DEF IDSInv
  <2>4. limit' = limit /\ plans' # <<>> /\ Len(plans'[1]) <= Optimum(UnitCost) /\ stack' = <<>>
    BY <1>1, <1>6, <2>1, <2>2, <2>3, IDSGoal
  <2> QED
    BY <1>2, <2>4 DEF IDSInv, Found, Iterating
<1>7. CASE Opens(InitialState, 0, h, <<>>, <<>>)
  <2>1. PICK f \in Frames : /\ stack' = Append(<<>>, f) /\ f.state = InitialState /\ f.g = 0
                            /\ f.pending = IF 0 >= limit THEN {} ELSE Successors(InitialState)
    BY <1>7 DEF Opens
  <2>2. InitialState \notin GoalStates /\ limit' = limit /\ plans' = plans
    BY <1>7 DEF Opens
  <2>3. Len(stack') = 1 /\ stack'[1] = f
    <3>1. Append(<<>>, f) = <<f>> /\ Len(<<f>>) = 1 /\ <<f>>[1] = f
      OBVIOUS
    <3> QED
      BY <2>1, <3>1
  <2>4. \A i \in 1..Len(stack') : stack'[i].pending # {} => i <= limit'
    BY <1>2, <2>1, <2>2, <2>3
  <2>5. limit = Optimum(UnitCost) => Covers(UnitCost, rank, stack)'
    <3> SUFFICES ASSUME limit = Optimum(UnitCost) PROVE Covers(UnitCost, rank, stack)'
      OBVIOUS
    <3>1. config.bound \in Nat /\ config.bound <= Infinity
      BY <1>1, ConfigAssumption DEF BoundsFit
    <3>2. Optimum(UnitCost) # Infinity
      BY <1>2, <1>3, <3>1, InfinityNat
    <3>3. Optimum(UnitCost) >= 1
      BY <1>3, <2>2, <3>2, FarFromGoal DEF Optimum
    <3>4. f.pending = Successors(InitialState)
      BY <1>2, <2>1, <3>3
    <3>5. Covers(UnitCost, rank, Append(<<>>, f))
      BY <1>1, <2>1, <2>2, <3>2, <3>4, CoverStarts DEF Optimum
    <3> QED
      BY <1>2, <2>1, <3>5, CoversStays
  <2> QED
    BY <1>2, <2>2, <2>4, <2>5 DEF IDSInv, Found, Iterating
<1> QED
  BY <1>4, <1>5, <1>6, <1>7 DEF Calls

\* The next operator.
LEMMA IDSDescends ==
  ASSUME TreeBase, NEW x, NEW rest \in Seq(Frames), Descends(x, rest),
         Engine("ids"), CostType = "NORMAL", IsFiniteSet(States), BoundsFit,
         NEW rank, GoalRank(UnitCost, States, rank), IDSInv(rank)
  PROVE  IDSInv(rank)'
<1>1. TreeTypes /\ TreeControl /\ Counts(UnitCost) /\ ~Engine("dfs") /\ ~Engine("idastar")
      /\ config \in Configs
  BY IDSCountsOperators DEF TreeBase, TreeTypes
<1>2. config' = config /\ stack # <<>> /\ stack \in Seq(Frames)
  BY <1>1 DEF Descends, TreeTypes
<1>3. Optimum(UnitCost) \in Nat /\ limit \in Nat /\ limit < config.bound
  BY <1>2, UnitFacts DEF IDSInv, Iterating
<1>4. PICK n \in Nat : n = Len(stack) /\ n > 0 /\ n \in 1..n /\ Top = stack[n]
  BY <1>1, <1>2, TopIs
<1>5. n <= limit
  BY <1>4 DEF IDSInv, Descends
<1>6. /\ Len(rest) = n
      /\ \A i \in 1..n : rest[i].pending \subseteq stack[i].pending
  BY <1>4 DEF Descends, Rest
<1>7. \A i \in 1..n : rest[i].pending # {} => i <= limit
  BY <1>4, <1>6 DEF IDSInv
<1> DEFINE Follows == OnPath(UnitCost, rank, rest, Len(rest)) /\ Cheapest(UnitCost, rank, rest[Len(rest)].state, x)
<1>8. limit = Optimum(UnitCost) => Found \/ Covers(UnitCost, rank, rest) \/ Follows
  BY <1>1, <1>2, CoversDescends DEF IDSInv, Iterating
<1>9. x[1] \in Operators /\ x[2] \in States /\ NewDepth(UnitCost, x) = n
  <2>1. x[1] \in Operators /\ x[2] \in States
    BY DEF Descends
  <2> QED
    BY <1>4, <2>1, UnitFacts DEF NewDepth, Depth
<1>10. Tries(x, rest)
  BY <1>1 DEF Descends, Skips, Avoids, Hit
<1>11. PICK seq \in Seq(Operators) : seq = operator_sequence' /\ Len(seq) = n
  <2>1. operator_sequence' = Append(operator_sequence, x[1])
    BY <1>10 DEF Tries
  <2>2. operator_sequence \in Seq(Operators) /\ Len(operator_sequence) = n - 1
    BY <1>1, <1>2, <1>4 DEF Descends, TreeTypes, TreeControl
  <2>3. Append(operator_sequence, x[1]) \in Seq(Operators)
        /\ Len(Append(operator_sequence, x[1])) = (n - 1) + 1
    BY <1>9, <2>2, AppendProperties
  <2> QED
    BY <1>4, <2>1, <2>3
<1>12. PICK h \in Nat : Calls(x[2], NewG(x), h, rest, seq)
  BY <1>10, <1>11 DEF Tries
<1>13. ~TooDear(x[2], NewG(x), h, rest)
  BY <1>1 DEF TooDear, Passes
<1>14. CASE AtGoal(x[2], NewG(x), h, rest, seq)
  <2>1. ~Found => Len(seq) <= Optimum(UnitCost)
    BY <1>3, <1>5, <1>11 DEF IDSInv
  <2>2. Found => Len(plans[1]) <= Optimum(UnitCost)
    BY DEF IDSInv
  <2>3. limit' = limit /\ plans' # <<>> /\ Len(plans'[1]) <= Optimum(UnitCost) /\ stack' = rest
    BY <1>1, <1>14, <2>1, <2>2, IDSGoal
  <2> QED
    BY <1>2, <1>3, <1>6, <1>7, <2>3 DEF IDSInv, Found, Iterating
<1>15. CASE Opens(x[2], NewG(x), h, rest, seq)
  <2>1. limit' = limit /\ plans' = plans /\ x[2] \notin GoalStates
    BY <1>15 DEF Opens
  <2>2. PICK f \in Frames : /\ stack' = Append(rest, f) /\ f.state = x[2] /\ f.g = NewG(x)
                            /\ f.pending = IF n >= limit THEN {} ELSE Successors(x[2])
    BY <1>11, <1>15 DEF Opens
  <2>3. PICK st \in Seq(Frames) : /\ st = Append(rest, f) /\ Len(st) = n + 1 /\ st[n+1] = f
                                  /\ \A i \in 1..n : st[i] = rest[i]
    <3>1. Append(rest, f) \in Seq(Frames) /\ Len(Append(rest, f)) = n + 1 /\ Append(rest, f)[n+1] = f
      BY <1>6, AppendProperties
    <3>2. \A i \in 1..n : Append(rest, f)[i] = rest[i]
      BY <1>6, AppendProperties
    <3> QED
      BY <3>1, <3>2
  <2>4. ASSUME NEW i \in 1..n+1, st[i].pending # {} PROVE i <= limit
    <3>1. CASE i \in 1..n
      BY <1>7, <2>3, <2>4, <3>1
    <3>2. CASE i = n + 1
      BY <1>3, <2>2, <2>3, <2>4, <3>2
    <3> QED
      BY <3>1, <3>2
  <2>5. Covers(UnitCost, rank, rest) => Covers(UnitCost, rank, st)
    BY <2>3, CoversAppended
  <2>6. limit = Optimum(UnitCost) /\ Follows => Covers(UnitCost, rank, st)
    <3> SUFFICES ASSUME limit = Optimum(UnitCost), Follows PROVE Covers(UnitCost, rank, st)
      OBVIOUS
    <3>1. Optimum(UnitCost) = n + Dist(UnitCost)[x[2]]
      BY <1>1, <1>9, OnPathDepth DEF Optimum
    <3>2. Dist(UnitCost)[x[2]] >= 1
      <4>1. Dist(UnitCost)[x[2]] # Infinity
        BY DEF Cheapest
      <4> QED
        BY <1>9, <2>1, <4>1, FarFromGoal
    <3>3. ~(n >= limit)
      <4>1. Dist(UnitCost)[x[2]] \in Nat
        BY <1>9, UnitFacts
      <4> QED
        BY <3>1, <3>2, <4>1
    <3>4. f.pending = Successors(x[2])
      BY <2>2, <3>3
    <3>5. rest[n].g = Top.g
      BY <1>4 DEF Descends, Rest
    <3>6. f.g = rest[n].g + AdjustedCost(x[1])
      BY <2>2, <3>5 DEF NewG
    <3> QED
      BY <1>1, <1>4, <1>6, <2>1, <2>2, <2>3, <3>4, <3>6, OnPathExtends
  <2>7. Covers(UnitCost, rank, st) => Covers(UnitCost, rank, stack)'
    BY <1>2, <2>2, <2>3, CoversStays
  <2>8. limit' = Optimum(UnitCost) => Found' \/ Covers(UnitCost, rank, stack)'
    BY <1>8, <2>1, <2>5, <2>6, <2>7 DEF Found
  <2>9. \A i \in 1..Len(stack') : stack'[i].pending # {} => i <= limit'
    BY <2>1, <2>2, <2>3, <2>4
  <2> HIDE DEF Follows
  <2> QED
    BY <1>2, <1>3, <2>1, <2>8, <2>9 DEF IDSInv, Found, Iterating
<1> QED
  BY <1>12, <1>13, <1>14, <1>15 DEF Calls

LEMMA IDSStep ==
  ASSUME TreeBase, TreeStep \/ UNCHANGED treeallvars,
         Engine("ids"), CostType = "NORMAL", IsFiniteSet(States), BoundsFit,
         NEW rank, GoalRank(UnitCost, States, rank), IDSInv(rank)
  PROVE  IDSInv(rank)'
<1>1. TreeTypes /\ TreeControl /\ stack \in Seq(Frames)
  BY DEF TreeBase, TreeTypes
<1>2. CASE NextIteration
  BY <1>2, NextIterationIs, IDSStarts
<1>3. CASE stack # <<>> /\ \E x \in Top.pending : Descend(x)
  <2>1. PICK x \in Top.pending : Descend(x)
    BY <1>3
  <2>2. PICK rest \in Seq(Frames) : Descends(x, rest)
    BY <1>3, <2>1, DescendIs
  <2> QED
    BY <2>2, IDSDescends
<1>4. CASE Loops
  <2>1. /\ limit' = limit /\ plans' = plans /\ config' = config
        /\ stack' = Front(stack) /\ stack # <<>> /\ Top.pending = {}
    BY <1>4 DEF Loops
  <2>2. Covers(UnitCost, rank, stack) => Covers(UnitCost, rank, Front(stack))
    BY <1>1, <2>1, CoversFront
  <2>3. PICK st \in Seq(Frames) : st = Front(stack) /\ stack' = st /\ Len(st) = Len(stack) - 1
                                  /\ \A i \in 1..Len(stack) - 1 : st[i] = stack[i]
    BY <1>1, <2>1, FrontIs
  <2>4. Covers(UnitCost, rank, stack) => Covers(UnitCost, rank, stack)'
    BY <2>1, <2>2, <2>3, CoversStays
  <2>5. \A i \in 1..Len(stack') : stack'[i].pending # {} => i <= limit'
    <3>1. \A i \in 1..Len(st) : i \in 1..Len(stack) /\ st[i] = stack[i]
      BY <1>1, <2>3
    <3> QED
      BY <2>1, <2>3, <3>1 DEF IDSInv
  <2> QED
    BY <2>1, <2>4, <2>5 DEF IDSInv, Found, Iterating
<1>5. CASE Resume
  <2>1. /\ limit' = limit /\ plans' = plans /\ config' = config
        /\ stack # <<>> /\ returned # None
        /\ stack' = [stack EXCEPT ![Len(stack)].next_limit = NextLimit(@, returned)]
    BY <1>5 DEF Resume
  <2>2. returned \in Nat \union {-1}
    BY <1>1, <2>1 DEF TreeTypes
  <2>3. PICK st \in Seq(Frames) :
           /\ st = stack' /\ Len(st) = Len(stack)
           /\ \A i \in 1..Len(stack) : /\ st[i].state = stack[i].state /\ st[i].g = stack[i].g
                                       /\ st[i].pending = stack[i].pending
    BY <1>1, <2>1, <2>2, LimitNoted
  <2>4. Covers(UnitCost, rank, stack) => Covers(UnitCost, rank, st)
    <3>1. PICK n \in Nat : n = Len(stack) /\ n <= Len(st) /\ n <= Len(stack)
      BY <1>1, <2>3
    <3>2. SamePrefix(stack, st, n)
      BY <2>3, <3>1 DEF SamePrefix
    <3>3. \A k \in 1..n : stack[k].pending \intersect st[k].pending = stack[k].pending
      BY <2>3, <3>1
    <3>4. Covers(UnitCost, rank, stack) =>
            \E k \in 1..n : /\ OnPath(UnitCost, rank, stack, k)
                            /\ \E x \in stack[k].pending \intersect st[k].pending :
                                 Cheapest(UnitCost, rank, stack[k].state, x)
      BY <3>1, <3>3 DEF Covers
    <3> QED
      BY <1>1, <3>1, <3>2, <3>4, CoversPrefix
  <2>5. Covers(UnitCost, rank, stack) => Covers(UnitCost, rank, stack)'
    BY <2>1, <2>3, <2>4, CoversStays
  <2>6. \A i \in 1..Len(stack') : stack'[i].pending # {} => i <= limit'
    BY <2>1, <2>3 DEF IDSInv
  <2> QED
    BY <2>1, <2>5, <2>6 DEF IDSInv, Found, Iterating
<1>6. CASE Unwind
  <2>1. limit' = limit /\ plans' = plans /\ config' = config /\ Found /\ stack' = <<>> /\ stack # <<>>
    BY <1>6 DEF Unwind, Unwinds
  <2> QED
    BY <2>1 DEF IDSInv, Found, Iterating
<1>7. CASE EndIteration
  <2>1. /\ limit' = limit + 1 /\ plans' = plans /\ config' = config /\ stack' = <<>> /\ stack = <<>>
        /\ returned # None /\ returned' = None
    BY <1>7 DEF EndIteration, Engine
  <2>2. ~Covers(UnitCost, rank, stack)
    BY <2>1 DEF Covers
  <2>3. limit \in Nat /\ limit < config.bound /\ (~Found => limit < Optimum(UnitCost))
    BY <2>1, <2>2, UnitFacts DEF IDSInv, Iterating
  <2>4. config.bound \in Nat /\ Optimum(UnitCost) \in Nat
    BY <1>1, ConfigAssumption, UnitFacts DEF TreeTypes
  <2>5. limit' \in Nat /\ limit' <= config'.bound /\ (~Found' => limit' <= Optimum(UnitCost))
    BY <2>1, <2>3, <2>4 DEF Found
  <2> QED
    BY <2>1, <2>5 DEF IDSInv, Found, Iterating
<1>8. CASE Initialize \/ EndStep \/ UNCHANGED treeallvars
  <2>1. limit' = limit /\ plans' = plans /\ config' = config /\ stack' = stack /\ returned' = returned
    BY <1>8 DEF Initialize, EndStep, treeallvars, treevars
  <2>2. Covers(UnitCost, rank, stack) => Covers(UnitCost, rank, stack)'
    BY <2>1 DEF Covers, OnPath, Depth, Engine
  <2> QED
    BY <2>1, <2>2 DEF IDSInv, Found, Iterating
<1> QED
  BY <1>2, <1>3, <1>4, <1>5, <1>6, <1>7, <1>8 DEF TreeStep

-----------------------------------------------------------------------------
(***************************************************************************)
(* IDA*.  The states called on a cheapest way in this iteration (Expanded) *)
(* cannot all be dealt with: the last of them on a cheapest path would be a*)
(* goal state, or cut off by the limit, which the next limit then respects.*)
(* The cache does not interfere, as it holds no state reached on a cheapest*)
(* way in this iteration but those.                                        *)
(***************************************************************************)

\* An entry of the cache is old or that of the state just added.
LEMMA RememberFacts ==
  ASSUME NEW s, NEW cost, CacheAdd(s, cost)
  PROVE  \A u \in DOMAIN cache_value' :
           \/ u \in DOMAIN cache_value /\ cache_value'[u] = cache_value[u]
           \/ u = s /\ cache_value'[u] = <<cost, iteration>>
<1> DEFINE value == [u \in DOMAIN cache_value \union {s} |->
                  IF u = s THEN <<cost, iteration>> ELSE cache_value[u]]
<1>1. ASSUME NEW u \in DOMAIN value
      PROVE  \/ u \in DOMAIN cache_value /\ value[u] = cache_value[u]
             \/ u = s /\ value[u] = <<cost, iteration>>
  OBVIOUS
<1>2. \/ cache_value' = value
      \/ \E q : cache_value' = Restrict(value, DOMAIN value \ {q})
  BY DEF CacheAdd
<1> HIDE DEF value
<1>3. ASSUME NEW q, cache_value' = Restrict(value, DOMAIN value \ {q})
      PROVE  \A u \in DOMAIN cache_value' : u \in DOMAIN value /\ cache_value'[u] = value[u]
  BY <1>3 DEF Restrict
<1>4. \A u \in DOMAIN cache_value' : u \in DOMAIN value /\ cache_value'[u] = value[u]
  BY <1>2, <1>3
<1> QED
  BY <1>1, <1>4

\* The real distance of s to a goal through T.
To(T, s) == GoalDistance(Cost, T)[s]

\* A cheapest way through T comes by s, and has cost so much up to there.
Way(T, s, cost) == To(T, s) # Infinity /\ cost + To(T, s) = To(T, InitialState)

\* T is made of states not declared dead, all those that were evaluated among them,
\* and no limit of at least B cuts off a cheapest path through T.  If best holds, a
\* cheapest plan is expected of the search.
Relevant(T, B, best) ==
  /\ To(T, InitialState) # Infinity
  /\ \A s \in States : heuristic_cache[s] \notin {NO_VALUE, DEAD_END} => s \in T
  /\ \A s \in T : heuristic_cache[s] # DEAD_END
  /\ \A s \in T : To(T, InitialState) + heuristic_cache[s] <= B + To(T, s)
  /\ best => B = To(T, InitialState) /\ (config.limit <= B \/ ~config.single_plan)

Done(T, best) == Found /\ (best => SequenceCost(Last(plans)) <= To(T, InitialState))

\* The next limit will be at most B.
Noted(B) ==
  /\ ~Found /\ limit < B
  /\ returned \in 0..B \/ \E i \in 1..Len(stack) : stack[i].next_limit <= B

\* The operator x of s is still to be tried, in a call on a cheapest way.
Left(T, st, s, x) ==
  \E i \in 1..Len(st) : st[i].state = s /\ Way(T, s, st[i].g) /\ x \in st[i].pending

\* The states of E were called on a cheapest way, and the cheapest ways go on to
\* states of E or through operators still to be tried.
Expanded(T, E, st) ==
  /\ E \subseteq T /\ InitialState \in E
  /\ \A s \in E : s \notin GoalStates /\ To(T, s) # Infinity
  /\ \A s \in E : \A x \in Successors(s) :
       To(T, x[2]) # Infinity /\ To(T, s) = Cost[x[1]] + To(T, x[2]) =>
         x[2] \in E \/ Left(T, st, s, x)

\* Only states of E are in the cache as reached on a cheapest way in iteration it.
Remembered(T, E, values, it) ==
  \A s \in DOMAIN values : values[s][2] = it /\ Way(T, s, values[s][1]) => s \in E

Exhausting(T, B) ==
  /\ Found => B <= limit
  /\ \E E : Expanded(T, E, stack) /\ Remembered(T, E, cache_value, iteration)

\* No state is cached with less cost than the distances through T allow.
CacheSound(T) ==
  \A s \in DOMAIN cache_value :
    /\ s \in States /\ cache_value[s][1] \in Nat
    /\ cache_value[s][2] \in Nat /\ cache_value[s][2] <= iteration
    /\ To(T, InitialState) <= cache_value[s][1] + To(T, s)

\* No limit but -1 is negative, and -1 means that there is a plan.
Signals ==
  /\ returned = -1 \/ limit = -1 => Found
  /\ \A i \in 1..Len(stack) : stack[i].next_limit = -1 => Found

\* With single_plan no plan is found above the optimum.
SinglePlan0(T, B, best) ==
  best /\ config.single_plan => (Found /\ Done(T, best)) \/ (~Found /\ limit <= B)

\* An iteration ends with a plan that will do, or with a limit of at most B.
Progress(T, B, best) ==
  iteration > 0 =>
    \/ Done(T, best)
    \/ Iterating /\ (Noted(B) \/ Exhausting(T, B))
    \/ ~Iterating /\ ~Found /\ limit <= B

IDAInv(T, B, best) ==
  /\ \A i \in 1..Len(stack) : stack[i].state \in T
  /\ CacheSound(T) /\ Signals
  /\ SinglePlan0(T, B, best)
  /\ Progress(T, B, best)

\* The distances through T, from the lemmas about GoalDistance.
LEMMA ToFacts ==
  ASSUME IsFiniteSet(States), NEW T \in SUBSET States
  PROVE  /\ \A s \in States : To(T, s) \in Nat /\ (To(T, s) # Infinity => s \in T)
         /\ To(T, InitialState) \in Nat /\ InitialState \in States
         /\ \A s \in GoalStates \intersect T : To(T, s) = 0
         /\ \A t \in Transitions : t[1] \in T => To(T, t[1]) <= Cost[t[2]] + To(T, t[3])
         /\ \E rank : GoalRank(Cost, T, rank)
<1>1. Cost \in [Operators -> Nat] /\ InitialState \in States
  BY CostAssumption, TaskAssumption
<1> QED
  BY <1>1, GoalDistanceFacts DEF To

\* What is relevant after a step was so before.
LEMMA RelevantBefore ==
  ASSUME TreeTypes, IsFiniteSet(States), NEW T \in SUBSET States, NEW B \in Nat, NEW best,
         config' = config, heuristic_cache' \in [States -> Nat \union {DEAD_END, NO_VALUE}],
         \A s \in States : heuristic_cache[s] # NO_VALUE => heuristic_cache'[s] = heuristic_cache[s],
         Relevant(T, B, best)'
  PROVE  Relevant(T, B, best)
<1>1. heuristic_cache \in [States -> Nat \union {DEAD_END, NO_VALUE}]
  BY DEF TreeTypes, EvaluationTypeOK
<1>2. /\ To(T, InitialState) # Infinity
      /\ \A s \in States : heuristic_cache'[s] \notin {NO_VALUE, DEAD_END} => s \in T
      /\ \A s \in T : heuristic_cache'[s] # DEAD_END
      /\ \A s \in T : To(T, InitialState) + heuristic_cache'[s] <= B + To(T, s)
      /\ best => B = To(T, InitialState) /\ (config.limit <= B \/ ~config.single_plan)
  BY DEF Relevant
<1>3. ASSUME NEW s \in T PROVE To(T, InitialState) + heuristic_cache[s] <= B + To(T, s)
  <2>1. CASE heuristic_cache[s] = NO_VALUE
    <3>1. PICK d \in Nat, e \in Nat, h \in Nat \union {DEAD_END, NO_VALUE} :
            d = To(T, InitialState) /\ e = To(T, s) /\ h = heuristic_cache'[s]
      BY ToFacts
    <3>2. d + h <= B + e
      BY <1>2, <3>1
    <3>3. d + NO_VALUE <= B + e
      BY <3>2 DEF NO_VALUE, DEAD_END
    <3> QED
      BY <2>1, <3>1, <3>3
  <2>2. CASE heuristic_cache[s] # NO_VALUE
    BY <1>2, <2>2
  <2> QED
    BY <2>1, <2>2
<1>4. \A s \in States : heuristic_cache[s] \notin {NO_VALUE, DEAD_END} => s \in T
  BY <1>2
<1>5. \A s \in T : heuristic_cache[s] # DEAD_END
  BY <1>2 DEF NO_VALUE, DEAD_END
<1> QED
  BY <1>2, <1>3, <1>4, <1>5 DEF Relevant

\* Only a plan cheaper than the last one is saved.
LEMMA IDAGoal ==
  ASSUME TreeTypes, Engine("idastar"), config' = config, IsFiniteSet(States), NEW T \in SUBSET States, NEW best,
         NEW s, NEW cost \in Nat, NEW h, NEW callers, NEW seq \in Seq(Operators),
         AtGoal(s, cost, h, callers, seq), SequenceCost(seq) = cost
  PROVE  /\ stack' = callers /\ returned' = -1 /\ plans' # <<>>
         /\ Done(T, best) => Done(T, best)'
         /\ \/ plans' = plans /\ limit' = limit /\ Found /\ SequenceCost(Last(plans)) <= cost
            \/ /\ limit' = cost - 1
               /\ cost <= To(T, InitialState) => Done(T, best)'
               /\ ~best => Done(T, best)'
<1>1. stack' = callers /\ returned' = -1
  BY DEF AtGoal
<1>2. To(T, InitialState) \in Nat
  BY ToFacts
<1>3. Found => SequenceCost(Last(plans)) \in Nat
  <2> SUFFICES ASSUME Found PROVE SequenceCost(Last(plans)) \in Nat
    OBVIOUS
  <2> DEFINE P == Seq(Operators)
  <2>1. plans \in Seq(P) /\ plans # <<>>
    BY DEF TreeTypes, Found
  <2> HIDE DEF P
  <2>2. Last(plans) \in P
    BY <2>1 DEF Last
  <2> QED
    BY <2>2, SequenceCostNat DEF P
<1>4. CASE Saves(SequenceCost(seq))
  <2>1. plans' = Append(plans, seq) /\ limit' = cost - 1
    BY <1>4 DEF AtGoal, NewLimit, Engine
  <2>2. plans' # <<>> /\ Last(plans') = seq
    BY <2>1, PlanAppended
  <2>3. SequenceCost(Last(plans))' = cost
    BY <2>2 DEF SequenceCost, Engine
  <2>4. Found => cost < SequenceCost(Last(plans))
    BY <1>4 DEF Saves, Engine
  <2>5. cost <= To(T, InitialState) \/ ~best => Done(T, best)'
    BY <2>2, <2>3 DEF Done, Found
  <2>6. Done(T, best) => cost <= To(T, InitialState) \/ ~best
    BY <1>2, <1>3, <2>4 DEF Done
  <2> QED
    BY <1>1, <2>1, <2>2, <2>5, <2>6
<1>5. CASE ~Saves(SequenceCost(seq))
  <2>1. plans' = plans /\ limit' = limit
    BY <1>5 DEF AtGoal
  <2>2. Found /\ SequenceCost(Last(plans)) <= cost
    BY <1>3, <1>5 DEF Saves, Engine
  <2>3. Done(T, best) => Done(T, best)'
    BY <2>1 DEF Done, Found, SequenceCost, Engine
  <2> QED
    BY <1>1, <2>1, <2>2, <2>3 DEF Found
<1> QED
  BY <1>4, <1>5

LEMMA DoneSame ==
  ASSUME config' = config, plans' = plans, NEW T, NEW best
  PROVE  (Done(T, best)' <=> Done(T, best)) /\ (Found' <=> Found)
BY DEF Done, Found, SequenceCost, Engine

LEMMA SinglePlanSame ==
  ASSUME config' = config, plans' = plans, limit' = limit, NEW T, NEW B, NEW best,
         SinglePlan0(T, B, best)
  PROVE  SinglePlan0(T, B, best)'
BY DoneSame DEF SinglePlan0

\* The call for the initial state.
LEMMA IDAStarts ==
  ASSUME TreeBase, Starts, Engine("idastar"), IsFiniteSet(States),
         NEW T \in SUBSET States, NEW B \in Nat, NEW best,
         Relevant(T, B, best)', IDAInv(T, B, best)
  PROVE  IDAInv(T, B, best)'
<1>1. TreeTypes /\ TreeControl /\ limit \in Int /\ iteration \in Nat
  BY DEF TreeBase, TreeTypes
<1>2. /\ config' = config /\ cache_value' = cache_value /\ iteration' = iteration + 1
      /\ stack = <<>> /\ returned = None /\ ~Iterating
  BY DEF Starts, Iterating
<1>3. /\ To(T, InitialState) \in Nat /\ InitialState \in States
      /\ (To(T, InitialState) # Infinity => InitialState \in T)
      /\ \A s \in GoalStates \intersect T : To(T, s) = 0
  BY ToFacts
<1>4. PICK h \in Nat \union {DEAD_END} : Asked(InitialState, h) /\ Calls(InitialState, 0, h, <<>>, <<>>)
  BY DEF Starts
<1>5. heuristic_cache'[InitialState] = h
  BY <1>4 DEF Asked
<1>6. /\ To(T, InitialState) # Infinity /\ InitialState \in T
      /\ h # DEAD_END /\ h \in Nat /\ To(T, InitialState) + h <= B + To(T, InitialState)
  BY <1>3, <1>5 DEF Relevant
<1>7. h <= B /\ Value(h) = h
  BY <1>3, <1>6 DEF Value
<1>8. Done(T, best) \/ ~Found
  BY <1>1, <1>2 DEF IDAInv, Progress, TreeControl, Found
<1>9. CacheSound(T)'
  <2>1. ASSUME NEW s \in DOMAIN cache_value
        PROVE  cache_value[s][2] <= iteration + 1
    <3>1. cache_value[s][2] \in Nat /\ cache_value[s][2] <= iteration
      BY DEF IDAInv, CacheSound
    <3> QED
      BY <1>1, <3>1
  <2> QED
    BY <1>2, <2>1 DEF IDAInv, CacheSound
<1>10. iteration' > 0
  BY <1>1, <1>2
<1>11. CASE TooDear(InitialState, 0, h, <<>>)
  <2>1. stack' = <<>> /\ returned' = h /\ limit < h /\ plans' = plans /\ limit' = limit
    <3>1. ~Engine("dfs") /\ ~Engine("ids")
      BY DEF Engine
    <3>2. 0 + Value(h) = h
      BY <1>6, <1>7
    <3> QED
      BY <1>1, <1>6, <1>7, <1>11, <3>1, <3>2 DEF TooDear, Passes
  <2>2. Signals'
    BY <1>2, <1>6, <2>1, DoneSame DEF IDAInv, Signals
  <2>3. SinglePlan0(T, B, best)'
    BY <1>2, <2>1, SinglePlanSame DEF IDAInv
  <2>4. ~Found => Noted(B)'
    BY <1>1, <1>2, <1>6, <1>7, <2>1, DoneSame DEF Noted
  <2>5. Iterating'
    BY <1>6, <2>1 DEF Iterating, None
  <2>6. Progress(T, B, best)'
    BY <1>2, <1>8, <2>1, <2>4, <2>5, DoneSame DEF Progress
  <2> QED
    BY <1>9, <2>1, <2>2, <2>3, <2>6 DEF IDAInv
<1>12. CASE AtGoal(InitialState, 0, h, <<>>, <<>>)
  <2>1. <<>> \in Seq(Operators) /\ SequenceCost(<<>>) = 0 /\ 0 \in Nat
    <3>1. ~Engine("ids")
      BY DEF Engine
    <3> QED
      BY <3>1, PlanCostFacts DEF SequenceCost
  <2>2. /\ stack' = <<>> /\ returned' = -1 /\ plans' # <<>>
        /\ Done(T, best) => Done(T, best)'
        /\ \/ plans' = plans /\ limit' = limit /\ Found /\ SequenceCost(Last(plans)) <= 0
           \/ /\ limit' = 0 - 1
              /\ 0 <= To(T, InitialState) => Done(T, best)'
    BY <1>1, <1>2, <1>12, <2>1, IDAGoal
  <2>3. To(T, InitialState) = 0
    BY <1>3, <1>6, <1>12 DEF AtGoal
  <2>4. Done(T, best)'
    BY <2>2, <2>3 DEF Done
  <2>5. Found'
    BY <2>2 DEF Found
  <2> QED
    BY <1>9, <2>2, <2>4, <2>5 DEF IDAInv, Signals, SinglePlan0, Progress
<1>13. CASE Opens(InitialState, 0, h, <<>>, <<>>)
  <2>1. PICK f \in Frames : /\ stack' = Append(<<>>, f) /\ f.state = InitialState /\ f.g = 0
                            /\ f.next_limit = Infinity /\ f.pending = Successors(InitialState)
    BY <1>13 DEF Opens, Engine
  <2>2. InitialState \notin GoalStates /\ limit' = limit /\ plans' = plans /\ returned' = returned
    BY <1>13 DEF Opens
  <2>3. PICK st \in Seq(Frames) : stack' = st /\ Len(st) = 1 /\ st[1] = f /\ st # <<>>
    <3>1. Append(<<>>, f) = <<f>> /\ Len(<<f>>) = 1 /\ <<f>>[1] = f /\ <<f>> # <<>> /\ <<f>> \in Seq(Frames)
      OBVIOUS
    <3> QED
      BY <2>1, <3>1
  <2>4. \A i \in 1..Len(st) : i = 1
    BY <2>3
  <2>5. \A i \in 1..Len(stack') : stack'[i].state \in T
    BY <1>6, <2>1, <2>3, <2>4
  <2>6. Signals'
    <3>1. f.next_limit # -1
      BY <2>1, InfinityNat
    <3> QED
      BY <1>2, <2>2, <2>3, <2>4, <3>1, DoneSame DEF IDAInv, Signals
  <2>7. SinglePlan0(T, B, best)'
    BY <1>2, <2>2, SinglePlanSame DEF IDAInv
  <2>8. Expanded(T, {InitialState}, st)
    <3>1. ASSUME NEW x \in Successors(InitialState) PROVE Left(T, st, InitialState, x)
      <4>1. Way(T, InitialState, st[1].g)
        BY <1>3, <1>6, <2>1, <2>3 DEF Way
      <4>2. 1 \in 1..Len(st) /\ st[1].state = InitialState /\ x \in st[1].pending
        BY <2>1, <2>3
      <4> QED
        BY <4>1, <4>2 DEF Left
    <3> QED
      BY <1>6, <2>2, <3>1 DEF Expanded
  <2>9. Remembered(T, {InitialState}, cache_value, iteration')
    <3>1. ASSUME NEW s \in DOMAIN cache_value PROVE cache_value[s][2] # iteration'
      <4>1. cache_value[s][2] \in Nat /\ cache_value[s][2] <= iteration
        BY DEF IDAInv, CacheSound
      <4> QED
        BY <1>1, <1>2, <4>1
    <3> QED
      BY <3>1 DEF Remembered
  <2>10. ~Found => Exhausting(T, B)'
    <3>1. Expanded(T, {InitialState}, stack') /\ Remembered(T, {InitialState}, cache_value', iteration')
      BY <1>2, <2>3, <2>8, <2>9
    <3>2. \E E : Expanded(T, E, stack') /\ Remembered(T, E, cache_value', iteration')
      BY <3>1
    <3> QED
      BY <1>2, <2>2, <3>2, DoneSame DEF Exhausting
  <2>11. Progress(T, B, best)'
    BY <1>2, <1>8, <2>2, <2>3, <2>10, DoneSame DEF Progress, Iterating
  <2> QED
    BY <1>9, <2>5, <2>6, <2>7, <2>11 DEF IDAInv
<1> QED
  BY <1>4, <1>11, <1>12, <1>13 DEF Calls

\* A cheapest way to s goes on over a cheapest operator of s.
LEMMA WayGoesOn ==
  ASSUME TreeBase, CostType = "NORMAL", Engine("idastar"), IsFiniteSet(States), NEW T \in SUBSET States,
         NEW x, NEW rest \in Seq(Frames), Descends(x, rest),
         Way(T, Top.state, Top.g), To(T, x[2]) # Infinity,
         To(T, Top.state) = Cost[x[1]] + To(T, x[2])
  PROVE  Way(T, x[2], NewG(x))
<1>1. x[1] \in Operators /\ x[2] \in States /\ stack # <<>> /\ TreeTypes
  BY DEF Descends, TreeBase
<1>2. Top \in Frames
  BY <1>1, TopIs
<1>3. Top.g \in Nat /\ Top.state \in States
  BY <1>2 DEF Frames
<1>4. AdjustedCost(x[1]) = Cost[x[1]] /\ Cost[x[1]] \in Nat
  BY <1>1, CostAssumption, RealCosts
<1>5. To(T, x[2]) \in Nat /\ To(T, Top.state) \in Nat /\ To(T, InitialState) \in Nat
  BY <1>1, <1>3, ToFacts
<1>6. PICK d \in Nat, e \in Nat, a \in Nat, b \in Nat, z \in Nat :
        /\ d = Top.g /\ e = Cost[x[1]] /\ a = To(T, Top.state) /\ b = To(T, x[2])
        /\ z = To(T, InitialState)
  BY <1>3, <1>4, <1>5
<1>7. d + a = z /\ a = e + b
  BY <1>6 DEF Way
<1>8. NewG(x) = d + e
  BY <1>4, <1>6 DEF NewG
<1>9. (d + e) + b = z
  BY <1>7
<1> QED
  BY <1>6, <1>8, <1>9 DEF Way

\* An operator that was to be tried still is, unless it is tried now.
LEMMA LeftStays ==
  ASSUME TreeBase, CostType = "NORMAL", Engine("idastar"), IsFiniteSet(States), NEW T \in SUBSET States,
         NEW x, NEW rest \in Seq(Frames), Descends(x, rest),
         NEW s, NEW y, Left(T, stack, s, y),
         To(T, y[2]) # Infinity, To(T, s) = Cost[y[1]] + To(T, y[2])
  PROVE  Left(T, rest, s, y) \/ (y = x /\ Way(T, x[2], NewG(x)))
<1>1. TreeTypes /\ stack # <<>> /\ Rest(x, rest)
  BY DEF Descends, TreeBase
<1>2. PICK n \in Nat : n = Len(stack) /\ Top = stack[n] /\ n \in 1..n
  BY <1>1, TopIs
<1>3. PICK i \in 1..n : stack[i].state = s /\ Way(T, s, stack[i].g) /\ y \in stack[i].pending
  BY <1>2 DEF Left
<1>4. Len(rest) = n /\ rest[i].state = s /\ rest[i].g = stack[i].g
      /\ rest[n].pending = Top.pending \ {x} /\ (i # n => rest[i].pending = stack[i].pending)
  BY <1>1, <1>2, <1>3 DEF Rest
<1>5. CASE y \in rest[i].pending
  BY <1>3, <1>4, <1>5 DEF Left
<1>6. CASE y \notin rest[i].pending
  <2>1. i = n /\ y = x
    BY <1>2, <1>3, <1>4, <1>6
  <2> QED
    BY <1>2, <1>3, <2>1, WayGoesOn
<1> QED
  BY <1>5, <1>6

LEMMA ExpandedRest ==
  ASSUME TreeBase, CostType = "NORMAL", Engine("idastar"), IsFiniteSet(States), NEW T \in SUBSET States,
         NEW x, NEW rest \in Seq(Frames), Descends(x, rest), NEW E,
         Expanded(T, E, stack), Way(T, x[2], NewG(x)) => x[2] \in E
  PROVE  Expanded(T, E, rest)
<1>1. ASSUME NEW s \in E, NEW y \in Successors(s), To(T, y[2]) # Infinity,
             To(T, s) = Cost[y[1]] + To(T, y[2])
      PROVE  y[2] \in E \/ Left(T, rest, s, y)
  <2>1. CASE y[2] \in E
    BY <2>1
  <2>2. CASE y[2] \notin E
    <3>1. Left(T, stack, s, y)
      BY <1>1, <2>2 DEF Expanded
    <3>2. Left(T, rest, s, y) \/ (y = x /\ Way(T, x[2], NewG(x)))
      BY <1>1, <3>1, LeftStays
    <3> QED
      BY <3>2
  <2> QED
    BY <2>1, <2>2
<1> QED
  BY <1>1 DEF Expanded

LEMMA LeftAppended ==
  ASSUME NEW T, NEW st \in Seq(Frames), NEW f \in Frames, NEW s, NEW y, Left(T, st, s, y)
  PROVE  Left(T, Append(st, f), s, y)
<1>1. PICK n \in Nat : n = Len(st)
  OBVIOUS
<1>2. PICK st2 \in Seq(Frames) : st2 = Append(st, f) /\ Len(st2) = n + 1 /\ \A i \in 1..n : st2[i] = st[i]
  <2>1. Append(st, f) \in Seq(Frames) /\ Len(Append(st, f)) = n + 1
    BY <1>1, AppendProperties
  <2>2. \A i \in 1..n : Append(st, f)[i] = st[i]
    BY <1>1, AppendProperties
  <2> QED
    BY <2>1, <2>2
<1>3. PICK i \in 1..n : st[i].state = s /\ Way(T, s, st[i].g) /\ y \in st[i].pending
  BY <1>1 DEF Left
<1>4. i \in 1..Len(st2) /\ st2[i] = st[i]
  BY <1>2
<1>5. Left(T, st2, s, y)
  BY <1>3, <1>4 DEF Left
<1> QED
  BY <1>2, <1>5

LEMMA ExpandedAppended ==
  ASSUME NEW T, NEW E, NEW st \in Seq(Frames), NEW f \in Frames, Expanded(T, E, st)
  PROVE  Expanded(T, E, Append(st, f))
BY LeftAppended DEF Expanded

\* A state called on a cheapest way joins the states of E.
LEMMA ExpandedOpens ==
  ASSUME TreeBase, CostType = "NORMAL", Engine("idastar"), IsFiniteSet(States), NEW T \in SUBSET States,
         NEW x, NEW rest \in Seq(Frames), Descends(x, rest), NEW E,
         Expanded(T, E, stack), Way(T, x[2], NewG(x)), x[2] \notin GoalStates,
         NEW f \in Frames, f.state = x[2], f.g = NewG(x), f.pending = Successors(x[2])
  PROVE  Expanded(T, E \union {x[2]}, Append(rest, f))
<1>1. x[2] \in States
  BY DEF Descends
<1>2. x[2] \in T /\ To(T, x[2]) # Infinity
  BY <1>1, ToFacts DEF Way
<1>3. PICK st \in Seq(Frames) : st = Append(rest, f) /\ Len(st) \in 1..Len(st) /\ st[Len(st)] = f
  <2>1. Append(rest, f) \in Seq(Frames) /\ Len(Append(rest, f)) = Len(rest) + 1
        /\ Append(rest, f)[Len(rest) + 1] = f /\ Len(rest) \in Nat
    BY AppendProperties
  <2>2. Len(rest) + 1 \in 1..(Len(rest) + 1)
    BY <2>1
  <2> QED
    BY <2>1, <2>2
<1>4. ASSUME NEW s \in E, NEW y \in Successors(s), To(T, y[2]) # Infinity,
             To(T, s) = Cost[y[1]] + To(T, y[2]), y[2] \notin E \union {x[2]}
      PROVE  Left(T, st, s, y)
  <2>1. Left(T, stack, s, y)
    BY <1>4 DEF Expanded
  <2>2. Left(T, rest, s, y) \/ (y = x /\ Way(T, x[2], NewG(x)))
    BY <1>4, <2>1, LeftStays
  <2>3. Left(T, rest, s, y)
    BY <1>4, <2>2
  <2> QED
    BY <1>3, <2>3, LeftAppended
<1>5. ASSUME NEW y \in Successors(x[2])
      PROVE  Left(T, st, x[2], y)
  BY <1>3 DEF Left
<1>6. E \subseteq T /\ InitialState \in E /\ \A s \in E : s \notin GoalStates /\ To(T, s) # Infinity
  BY DEF Expanded
<1>7. Expanded(T, E \union {x[2]}, st)
  <2>1. \A s \in E \union {x[2]} : \A y \in Successors(s) :
         To(T, y[2]) # Infinity /\ To(T, s) = Cost[y[1]] + To(T, y[2]) =>
           y[2] \in E \union {x[2]} \/ Left(T, st, s, y)
    BY <1>4, <1>5
  <2> QED
    BY <1>2, <1>6, <2>1 DEF Expanded
<1> QED
  BY <1>3, <1>7

\* A state added to the cache on a cheapest way has to be one of E.
LEMMA RememberedStays ==
  ASSUME NEW x, Remembers(x), NEW T, NEW E, iteration' = iteration,
         Remembered(T, E, cache_value, iteration), Way(T, x[2], NewG(x)) => x[2] \in E
  PROVE  Remembered(T, E, cache_value', iteration')
<1>1. CASE cache_value' = cache_value
  BY <1>1 DEF Remembered
<1>2. CASE CacheAdd(x[2], NewG(x))
  <2>1. \A u \in DOMAIN cache_value' :
           \/ u \in DOMAIN cache_value /\ cache_value'[u] = cache_value[u]
           \/ u = x[2] /\ cache_value'[u] = <<NewG(x), iteration>>
    BY <1>2, RememberFacts
  <2> QED
    BY <2>1 DEF Remembered
<1> QED
  BY <1>1, <1>2 DEF Remembers

LEMMA CacheStaysSound ==
  ASSUME NEW x, Remembers(x), NEW T, iteration' = iteration, iteration \in Nat,
         CacheSound(T), x[2] \in States, NewG(x) \in Nat,
         To(T, InitialState) <= NewG(x) + To(T, x[2])
  PROVE  CacheSound(T)'
<1>1. CASE cache_value' = cache_value
  BY <1>1 DEF CacheSound
<1>2. CASE CacheAdd(x[2], NewG(x))
  <2>1. \A u \in DOMAIN cache_value' :
           \/ u \in DOMAIN cache_value /\ cache_value'[u] = cache_value[u]
           \/ u = x[2] /\ cache_value'[u] = <<NewG(x), iteration>>
    BY <1>2, RememberFacts
  <2> QED
    BY <2>1 DEF CacheSound
<1> QED
  BY <1>1, <1>2 DEF Remembers

\* A state that the cache lets pass was not called on a cheapest way.
LEMMA HitIsExpanded ==
  ASSUME IsFiniteSet(States), NEW T \in SUBSET States, NEW x, NEW E,
         CacheHit(x[2], NewG(x)), NewG(x) \in Nat,
         CacheSound(T), Remembered(T, E, cache_value, iteration), Way(T, x[2], NewG(x))
  PROVE  x[2] \in E
<1>1. x[2] \in DOMAIN cache_value
      /\ \/ NewG(x) > cache_value[x[2]][1]
         \/ NewG(x) = cache_value[x[2]][1] /\ iteration = cache_value[x[2]][2]
  BY DEF CacheHit
<1>2. x[2] \in States /\ cache_value[x[2]][1] \in Nat
      /\ To(T, InitialState) <= cache_value[x[2]][1] + To(T, x[2])
  BY <1>1 DEF CacheSound
<1>3. PICK d \in Nat, e \in Nat, k \in Nat, z \in Nat :
        /\ d = NewG(x) /\ e = To(T, x[2]) /\ k = cache_value[x[2]][1] /\ z = To(T, InitialState)
  BY <1>2, ToFacts
<1>4. d + e = z /\ z <= k + e
  BY <1>2, <1>3 DEF Way
<1>5. ~(d > k)
  BY <1>4
<1> QED
  BY <1>1, <1>3, <1>5 DEF Remembered

\* The frames after an operator: those of rest, and perhaps one more.
Pushes(x, rest) ==
  \/ stack' = rest
  \/ \E f \in Frames : /\ stack' = Append(rest, f) /\ f.state = x[2] /\ f.g = NewG(x)
                       /\ f.next_limit = Infinity /\ f.pending = Successors(x[2])
                       /\ x[2] \notin GoalStates /\ returned' = None

\* The frames after such a step.
LEMMA PushedFrames ==
  ASSUME TreeTypes, NEW x, NEW rest \in Seq(Frames), Rest(x, rest), Pushes(x, rest)
  PROVE  /\ stack' # <<>>
         /\ \A i \in 1..Len(stack') :
              \/ /\ i \in 1..Len(stack) /\ stack'[i].state = stack[i].state
                 /\ stack'[i].next_limit = stack[i].next_limit
              \/ /\ stack' # rest /\ stack'[i].state = x[2] /\ stack'[i].next_limit = Infinity
         /\ \A i \in 1..Len(stack) : i \in 1..Len(stack') /\ stack'[i].next_limit = stack[i].next_limit
<1>1. stack \in Seq(Frames)
  BY DEF TreeTypes
<1>2. PICK n \in Nat : n = Len(stack) /\ n = Len(rest)
  BY <1>1 DEF Rest
<1>3. \A i \in 1..n : rest[i].state = stack[i].state /\ rest[i].next_limit = stack[i].next_limit
  BY <1>2 DEF Rest
<1>4. CASE stack' = rest
  BY <1>2, <1>3, <1>4 DEF Rest
<1>5. CASE \E f \in Frames : stack' = Append(rest, f) /\ f.state = x[2] /\ f.next_limit = Infinity
  <2>1. PICK f \in Frames : stack' = Append(rest, f) /\ f.state = x[2] /\ f.next_limit = Infinity
    BY <1>5
  <2>2. Append(rest, f) \in Seq(Frames) /\ Len(Append(rest, f)) = n + 1
        /\ Append(rest, f)[n + 1] = f /\ \A i \in 1..n : Append(rest, f)[i] = rest[i]
    BY <1>2, AppendProperties
  <2>3. PICK st \in Seq(Frames) : stack' = st /\ Len(st) = n + 1 /\ st[n + 1] = f
                                  /\ \A i \in 1..n : st[i] = rest[i]
    BY <2>1, <2>2
  <2>4. st # <<>> /\ st # rest
    BY <1>2, <2>3
  <2>5. ASSUME NEW i \in 1..(n+1)
        PROVE  \/ i \in 1..n
               \/ i = n + 1
    OBVIOUS
  <2>6. \A i \in 1..n : i \in 1..(n+1)
    OBVIOUS
  <2> QED
    BY <1>2, <1>3, <2>1, <2>3, <2>4, <2>5, <2>6
<1> QED
  BY <1>4, <1>5 DEF Pushes

\* A step of the loop over the operators that saves no plan.
LEMMA IDAQuietDescends ==
  ASSUME TreeBase, Engine("idastar"), NEW T \in SUBSET States, NEW B \in Nat, NEW best,
         NEW x, NEW rest \in Seq(Frames), Descends(x, rest), IDAInv(T, B, best),
         CacheSound(T)', Pushes(x, rest), limit' = limit, plans' = plans,
         returned' \in Nat \union {None}, stack' # rest => x[2] \in T,
         Exhausting(T, B) => Noted(B)' \/ Exhausting(T, B)'
  PROVE  IDAInv(T, B, best)'
<1>1. /\ TreeTypes /\ TreeControl /\ stack # <<>> /\ Rest(x, rest) /\ returned = None
      /\ config' = config /\ iteration' = iteration
  BY DEF TreeBase, Descends
<1>2. iteration > 0 /\ iteration' > 0
  BY <1>1 DEF TreeControl, TreeTypes
<1>3. /\ stack' # <<>>
      /\ \A i \in 1..Len(stack') :
           \/ /\ i \in 1..Len(stack) /\ stack'[i].state = stack[i].state
              /\ stack'[i].next_limit = stack[i].next_limit
           \/ /\ stack' # rest /\ stack'[i].state = x[2] /\ stack'[i].next_limit = Infinity
      /\ \A i \in 1..Len(stack) : i \in 1..Len(stack') /\ stack'[i].next_limit = stack[i].next_limit
  BY <1>1, PushedFrames
<1>4. \A i \in 1..Len(stack') : stack'[i].state \in T
  BY <1>3 DEF IDAInv
<1>5. Signals'
  <2>1. Infinity # -1 /\ returned' # -1
    BY InfinityNat DEF None
  <2>2. \A i \in 1..Len(stack') : stack'[i].next_limit = -1 => Found'
    BY <1>1, <1>3, <2>1, DoneSame DEF IDAInv, Signals
  <2>3. limit' = -1 => Found'
    BY <1>1, DoneSame DEF IDAInv, Signals
  <2> QED
    BY <2>1, <2>2, <2>3 DEF Signals
<1>6. SinglePlan0(T, B, best)'
  BY <1>1, SinglePlanSame DEF IDAInv
<1>7. Iterating /\ Iterating'
  BY <1>1, <1>3 DEF Iterating
<1>8. Done(T, best) => Done(T, best)'
  BY <1>1, DoneSame
<1>9. Noted(B) => Noted(B)'
  <2> SUFFICES ASSUME Noted(B) PROVE Noted(B)'
    OBVIOUS
  <2>1. ~Found /\ limit < B /\ \E i \in 1..Len(stack) : stack[i].next_limit <= B
    BY <1>1 DEF Noted, None
  <2>2. \E i \in 1..Len(stack') : stack'[i].next_limit <= B
    BY <1>3, <2>1
  <2> QED
    BY <1>1, <2>1, <2>2, DoneSame DEF Noted
<1>10. Done(T, best) \/ Noted(B) \/ Exhausting(T, B)
  BY <1>2, <1>7 DEF IDAInv, Progress
<1>11. Progress(T, B, best)'
  BY <1>7, <1>8, <1>9, <1>10 DEF Progress
<1> QED
  BY <1>4, <1>5, <1>6, <1>11 DEF IDAInv

\* A step that calls no state on a cheapest way but those of E leaves E as it is.
LEMMA ExhaustingOtherwise ==
  ASSUME TreeBase, CostType = "NORMAL", Engine("idastar"), IsFiniteSet(States), NEW T \in SUBSET States,
         NEW x, NEW rest \in Seq(Frames), Descends(x, rest), NEW E,
         Expanded(T, E, stack), Remembered(T, E, cache_value, iteration),
         Way(T, x[2], NewG(x)) => x[2] \in E, Pushes(x, rest)
  PROVE  Expanded(T, E, stack') /\ Remembered(T, E, cache_value', iteration')
<1>1. Expanded(T, E, rest)
  BY ExpandedRest
<1>2. Expanded(T, E, stack')
  <2>1. CASE stack' = rest
    BY <1>1, <2>1
  <2>2. CASE \E f \in Frames : stack' = Append(rest, f)
    BY <1>1, <2>2, ExpandedAppended
  <2> QED
    BY <2>1, <2>2 DEF Pushes
<1>3. Remembers(x) /\ iteration' = iteration
  BY DEF Descends
<1> QED
  BY <1>2, <1>3, RememberedStays

\* A state is in the cache.
LEMMA IDASkips ==
  ASSUME TreeBase, CostType = "NORMAL", Engine("idastar"), IsFiniteSet(States),
         NEW T \in SUBSET States, NEW B \in Nat, NEW best,
         NEW x, NEW rest \in Seq(Frames), Descends(x, rest), IDAInv(T, B, best),
         Skips(x, rest), CacheSound(T)'
  PROVE  IDAInv(T, B, best)'
<1>1. Hit(x)
  BY DEF Skips, Engine
<1>2. /\ stack' = rest /\ limit' = limit /\ plans' = plans /\ returned' = returned
      /\ config' = config /\ iteration' = iteration
  BY DEF Skips, Descends
<1>3. Pushes(x, rest)
  BY <1>2 DEF Pushes
<1>4. returned' \in Nat \union {None}
  BY <1>2 DEF Descends
<1>5. ASSUME Exhausting(T, B) PROVE Exhausting(T, B)'
  <2>1. PICK E : Expanded(T, E, stack) /\ Remembered(T, E, cache_value, iteration)
    BY <1>5 DEF Exhausting
  <2>2. CacheHit(x[2], NewG(x)) /\ NewG(x) \in Nat /\ CacheSound(T)
    BY <1>1 DEF Hit, Descends, IDAInv
  <2>3. Way(T, x[2], NewG(x)) => x[2] \in E
    BY <2>1, <2>2, HitIsExpanded
  <2>4. Expanded(T, E, stack') /\ Remembered(T, E, cache_value', iteration')
    BY <1>3, <2>1, <2>3, ExhaustingOtherwise
  <2> QED
    BY <1>2, <1>5, <2>4, DoneSame DEF Exhausting
<1> QED
  BY <1>2, <1>3, <1>4, <1>5, IDAQuietDescends

\* A state is declared dead.
LEMMA IDAAvoids ==
  ASSUME TreeBase, CostType = "NORMAL", Engine("idastar"), IsFiniteSet(States),
         NEW T \in SUBSET States, NEW B \in Nat, NEW best,
         NEW x, NEW rest \in Seq(Frames), Descends(x, rest), Relevant(T, B, best)', IDAInv(T, B, best),
         Avoids(x, rest), CacheSound(T)'
  PROVE  IDAInv(T, B, best)'
<1>1. /\ stack' = rest /\ limit' = limit /\ plans' = plans /\ returned' = returned
      /\ config' = config /\ iteration' = iteration
  BY DEF Avoids, Descends
<1>2. Pushes(x, rest)
  BY <1>1 DEF Pushes
<1>3. returned' \in Nat \union {None}
  BY <1>1 DEF Descends
<1>4. ~Way(T, x[2], NewG(x))
  <2>1. x[2] \notin T
    BY DEF Avoids, Asked, Relevant
  <2> QED
    BY <2>1, ToFacts DEF Way, Descends
<1>5. ASSUME Exhausting(T, B) PROVE Exhausting(T, B)'
  <2>1. PICK E : Expanded(T, E, stack) /\ Remembered(T, E, cache_value, iteration)
    BY <1>5 DEF Exhausting
  <2>2. Expanded(T, E, stack') /\ Remembered(T, E, cache_value', iteration')
    BY <1>2, <1>4, <2>1, ExhaustingOtherwise
  <2> QED
    BY <1>1, <1>5, <2>2, DoneSame DEF Exhausting
<1> QED
  BY <1>1, <1>2, <1>3, <1>5, IDAQuietDescends

\* The state that the next operator leads to.
LEMMA IDANewFacts ==
  ASSUME TreeBase, CostType = "NORMAL", Engine("idastar"), IsFiniteSet(States), NEW T \in SUBSET States,
         NEW x, NEW rest \in Seq(Frames), Descends(x, rest), CacheSound(T),
         \A i \in 1..Len(stack) : stack[i].state \in T
  PROVE  /\ NewG(x) \in Nat /\ To(T, InitialState) <= NewG(x) + To(T, x[2])
         /\ SequenceCost(Append(operator_sequence, x[1])) = NewG(x)
         /\ Append(operator_sequence, x[1]) \in Seq(Operators)
         /\ CacheSound(T)'
<1>1. ~Engine("ids") /\ Counts(Cost)
  BY DEF Engine, Counts
<1>2. /\ NewDepth(Cost, x) \in Nat
      /\ SequenceCost(Append(operator_sequence, x[1])) = NewDepth(Cost, x)
      /\ NewDepth(Cost, x) = NewG(x)
      /\ GoalDistance(Cost, T)[InitialState] <= NewDepth(Cost, x) + GoalDistance(Cost, T)[x[2]]
  BY <1>1, NewDepthFacts
<1>3. /\ NewG(x) \in Nat /\ To(T, InitialState) <= NewG(x) + To(T, x[2])
      /\ SequenceCost(Append(operator_sequence, x[1])) = NewG(x)
  BY <1>2 DEF To
<1>4. Append(operator_sequence, x[1]) \in Seq(Operators)
  <2>1. operator_sequence \in Seq(Operators) /\ x[1] \in Operators
    BY DEF TreeBase, TreeTypes, Descends
  <2> QED
    BY <2>1, AppendProperties
<1>5. Remembers(x) /\ iteration' = iteration /\ iteration \in Nat /\ x[2] \in States
  BY DEF Descends, TreeBase, TreeTypes
<1> QED
  BY <1>3, <1>4, <1>5, CacheStaysSound

\* A call beyond the limit: on a cheapest way, its return value is at most B.
LEMMA IDATooDear ==
  ASSUME TreeBase, CostType = "NORMAL", Engine("idastar"), IsFiniteSet(States),
         NEW T \in SUBSET States, NEW B \in Nat, NEW best,
         NEW x, NEW rest \in Seq(Frames), Descends(x, rest), Relevant(T, B, best)', IDAInv(T, B, best),
         NEW h \in Nat, Asked(x[2], h), TooDear(x[2], NewG(x), h, rest),
         NewG(x) \in Nat, CacheSound(T)'
  PROVE  IDAInv(T, B, best)'
<1>1. /\ stack' = rest /\ limit' = limit /\ plans' = plans /\ returned' = NewG(x) + Value(h)
      /\ config' = config /\ iteration' = iteration /\ limit \in Int /\ x[2] \in States
  BY DEF TooDear, Descends, TreeBase, TreeTypes
<1>2. Pushes(x, rest)
  BY <1>1 DEF Pushes
<1>3. Value(h) = h
  BY DEF Value, DEAD_END
<1>4. returned' = NewG(x) + h /\ returned' \in Nat
  BY <1>1, <1>3
<1>5. limit < NewG(x) + h
  <2>1. ~Passes(NewG(x), h) /\ ~Engine("dfs")
    BY DEF TooDear, Engine
  <2> QED
    BY <1>1, <1>3, <1>4, <2>1 DEF Passes
<1>6. ASSUME Exhausting(T, B) PROVE Noted(B)' \/ Exhausting(T, B)'
  <2>1. CASE Way(T, x[2], NewG(x))
    <3>1. x[2] \in T /\ heuristic_cache'[x[2]] = h
      BY <1>1, <2>1, ToFacts DEF Way, Asked
    <3>2. To(T, InitialState) + h <= B + To(T, x[2])
      BY <3>1 DEF Relevant
    <3>3. PICK d \in Nat, e \in Nat, z \in Nat :
            d = NewG(x) /\ e = To(T, x[2]) /\ z = To(T, InitialState)
      BY <1>1, ToFacts
    <3>4. d + e = z /\ z + h <= B + e
      BY <2>1, <3>2, <3>3 DEF Way
    <3>5. d + h <= B
      BY <3>4
    <3>6. returned' <= B /\ limit' < B
      BY <1>1, <1>4, <1>5, <3>3, <3>5
    <3>7. ~(B <= limit)
      BY <1>1, <3>6
    <3>8. ~Found
      BY <1>6, <3>7 DEF Exhausting
    <3>9. ~Found'
      BY <1>1, <3>8, DoneSame
    <3>10. returned' \in 0..B
      BY <1>4, <3>6
    <3> QED
      BY <3>6, <3>9, <3>10 DEF Noted
  <2>2. CASE ~Way(T, x[2], NewG(x))
    <3>1. PICK E : Expanded(T, E, stack) /\ Remembered(T, E, cache_value, iteration)
      BY <1>6 DEF Exhausting
    <3>2. Expanded(T, E, stack') /\ Remembered(T, E, cache_value', iteration')
      BY <1>2, <2>2, <3>1, ExhaustingOtherwise
    <3> QED
      BY <1>1, <1>6, <3>2, DoneSame DEF Exhausting
  <2> QED
    BY <2>1, <2>2
<1> QED
  BY <1>1, <1>2, <1>4, <1>6, IDAQuietDescends

\* A call that opens a frame.
LEMMA IDAOpens ==
  ASSUME TreeBase, CostType = "NORMAL", Engine("idastar"), IsFiniteSet(States),
         NEW T \in SUBSET States, NEW B \in Nat, NEW best,
         NEW x, NEW rest \in Seq(Frames), Descends(x, rest), IDAInv(T, B, best),
         NEW h, NEW seq, Opens(x[2], NewG(x), h, rest, seq), x[2] \in T, CacheSound(T)'
  PROVE  IDAInv(T, B, best)'
<1>1. /\ limit' = limit /\ plans' = plans /\ returned' = returned /\ returned = None
      /\ config' = config /\ iteration' = iteration /\ x[2] \notin GoalStates /\ Remembers(x)
  BY DEF Opens, Descends
<1>2. PICK f \in Frames : /\ stack' = Append(rest, f) /\ f.state = x[2] /\ f.g = NewG(x)
                          /\ f.next_limit = Infinity /\ f.pending = Successors(x[2])
  BY DEF Opens, Engine
<1>3. Pushes(x, rest)
  BY <1>1, <1>2 DEF Pushes
<1>4. ASSUME Exhausting(T, B) PROVE Exhausting(T, B)'
  <2>1. PICK E : Expanded(T, E, stack) /\ Remembered(T, E, cache_value, iteration)
    BY <1>4 DEF Exhausting
  <2>2. CASE Way(T, x[2], NewG(x))
    <3>1. Expanded(T, E \union {x[2]}, stack')
      BY <1>1, <1>2, <2>1, <2>2, ExpandedOpens
    <3>2. Remembered(T, E \union {x[2]}, cache_value, iteration)
      BY <2>1 DEF Remembered
    <3>3. Remembered(T, E \union {x[2]}, cache_value', iteration')
      BY <1>1, <3>2, RememberedStays
    <3> QED
      BY <1>1, <1>4, <3>1, <3>3, DoneSame DEF Exhausting
  <2>3. CASE ~Way(T, x[2], NewG(x))
    <3>1. Expanded(T, E, stack') /\ Remembered(T, E, cache_value', iteration')
      BY <1>3, <2>1, <2>3, ExhaustingOtherwise
    <3> QED
      BY <1>1, <1>4, <3>1, DoneSame DEF Exhausting
  <2> QED
    BY <2>2, <2>3
<1> QED
  BY <1>1, <1>3, <1>4, IDAQuietDescends

\* A call for a goal state: on a cheapest way the plan is a cheapest one.
LEMMA IDAAtGoal ==
  ASSUME TreeBase, CostType = "NORMAL", Engine("idastar"), IsFiniteSet(States),
         NEW T \in SUBSET States, NEW B \in Nat, NEW best,
         NEW x, NEW rest \in Seq(Frames), Descends(x, rest), Relevant(T, B, best)', IDAInv(T, B, best),
         NEW h \in Nat, NEW seq \in Seq(Operators), AtGoal(x[2], NewG(x), h, rest, seq),
         SequenceCost(seq) = NewG(x), NewG(x) \in Nat, To(T, InitialState) <= NewG(x) + To(T, x[2]),
         x[2] \in T, CacheSound(T)'
  PROVE  IDAInv(T, B, best)'
<1>1. /\ TreeTypes /\ TreeControl /\ stack # <<>> /\ Rest(x, rest) /\ returned = None
      /\ config' = config /\ iteration' = iteration /\ x[2] \in GoalStates
      /\ limit \in Int /\ rest # <<>>
  BY DEF TreeBase, TreeTypes, Descends, AtGoal, Rest
<1>2. iteration > 0 /\ iteration' > 0
  BY <1>1 DEF TreeControl, TreeTypes
<1>3. /\ stack' = rest /\ returned' = -1 /\ plans' # <<>>
      /\ Done(T, best) => Done(T, best)'
      /\ \/ plans' = plans /\ limit' = limit /\ Found /\ SequenceCost(Last(plans)) <= NewG(x)
         \/ /\ limit' = NewG(x) - 1
            /\ NewG(x) <= To(T, InitialState) => Done(T, best)'
            /\ ~best => Done(T, best)'
  BY <1>1, IDAGoal
<1>4. Pushes(x, rest)
  BY <1>3 DEF Pushes
<1>5. To(T, x[2]) = 0 /\ To(T, InitialState) \in Nat /\ To(T, InitialState) <= NewG(x)
  BY <1>1, ToFacts
<1>6. Found'
  BY <1>3 DEF Found
<1>7. \A i \in 1..Len(stack') : stack'[i].state \in T
  BY <1>1, <1>4, PushedFrames DEF IDAInv
<1>8. NewG(x) + h <= limit
  BY DEF AtGoal, Passes, Value, DEAD_END
<1>9. NewG(x) <= limit
  BY <1>1, <1>8
<1>10. ASSUME ~Found, limit <= B, best
       PROVE  Done(T, best)'
  <2>1. B = To(T, InitialState)
    BY <1>10 DEF Relevant
  <2>2. NewG(x) <= To(T, InitialState)
    BY <1>1, <1>5, <1>9, <1>10, <2>1
  <2> QED
    BY <1>3, <1>10, <2>2
<1>11. SinglePlan0(T, B, best)'
  <2>1. ASSUME best, config.single_plan PROVE Done(T, best)'
    BY <1>3, <1>10, <2>1 DEF IDAInv, SinglePlan0
  <2> QED
    BY <1>1, <1>6, <2>1 DEF SinglePlan0
<1>12. Done(T, best)' \/ Exhausting(T, B)'
  <2>1. CASE Done(T, best)
    BY <1>3, <2>1
  <2>2. CASE ~best
    BY <1>3, <1>6, <2>2 DEF Done
  <2>3. CASE best /\ Noted(B)
    <3>1. ~Found /\ limit < B
      BY <2>3 DEF Noted
    <3>2. limit <= B
      BY <1>1, <3>1
    <3> QED
      BY <1>10, <2>3, <3>1, <3>2
  <2>4. CASE best /\ Exhausting(T, B)
    <3>1. B = To(T, InitialState)
      BY <2>4 DEF Relevant
    <3>2. CASE NewG(x) = To(T, InitialState)
      <4>1. CASE NewG(x) <= To(T, InitialState) => Done(T, best)'
        BY <1>5, <3>2, <4>1
      <4>2. CASE plans' = plans /\ Found /\ SequenceCost(Last(plans)) <= NewG(x)
        <5>1. Done(T, best)
          BY <3>2, <4>2 DEF Done
        <5> QED
          BY <1>3, <5>1
      <4> QED
        BY <1>3, <1>5, <3>2, <4>1, <4>2
    <3>3. CASE NewG(x) # To(T, InitialState)
      <4>1. ~Way(T, x[2], NewG(x))
        BY <1>5, <3>3 DEF Way
      <4>2. B <= limit'
        <5>1. CASE limit' = NewG(x) - 1
          BY <1>5, <3>1, <3>3, <5>1
        <5>2. CASE limit' = limit /\ Found
          BY <2>4, <5>2 DEF Exhausting
        <5> QED
          BY <1>3, <5>1, <5>2
      <4>3. PICK E : Expanded(T, E, stack) /\ Remembered(T, E, cache_value, iteration)
        BY <2>4 DEF Exhausting
      <4>4. Expanded(T, E, stack') /\ Remembered(T, E, cache_value', iteration')
        BY <1>4, <4>1, <4>3, ExhaustingOtherwise
      <4> QED
        BY <4>2, <4>4 DEF Exhausting
    <3> QED
      BY <3>2, <3>3
  <2>5. Done(T, best) \/ Noted(B) \/ Exhausting(T, B)
    BY <1>1, <1>2 DEF IDAInv, Progress, Iterating
  <2> QED
    BY <2>1, <2>2, <2>3, <2>4, <2>5
<1>13. Progress(T, B, best)'
  BY <1>1, <1>3, <1>12 DEF Progress, Iterating
<1> QED
  BY <1>6, <1>7, <1>11, <1>13 DEF IDAInv, Signals

\* The next operator.
LEMMA IDADescends ==
  ASSUME TreeBase, CostType = "NORMAL", Engine("idastar"), IsFiniteSet(States),
         NEW T \in SUBSET States, NEW B \in Nat, NEW best,
         NEW x, NEW rest \in Seq(Frames), Descends(x, rest), Relevant(T, B, best)', IDAInv(T, B, best)
  PROVE  IDAInv(T, B, best)'
<1>1. /\ NewG(x) \in Nat /\ To(T, InitialState) <= NewG(x) + To(T, x[2])
      /\ SequenceCost(Append(operator_sequence, x[1])) = NewG(x)
      /\ Append(operator_sequence, x[1]) \in Seq(Operators)
      /\ CacheSound(T)'
  BY IDANewFacts DEF IDAInv
<1>2. CASE Skips(x, rest)
  BY <1>1, <1>2, IDASkips
<1>3. CASE Avoids(x, rest)
  BY <1>1, <1>3, IDAAvoids
<1>4. CASE Tries(x, rest)
  <2>1. PICK h \in Nat : Asked(x[2], h) /\ Calls(x[2], NewG(x), h, rest, Append(operator_sequence, x[1]))
    BY <1>4 DEF Tries
  <2>2. x[2] \in T
    <3>1. heuristic_cache'[x[2]] = h /\ x[2] \in States
      BY <2>1 DEF Asked, Descends
    <3>2. h \notin {NO_VALUE, DEAD_END}
      BY DEF NO_VALUE, DEAD_END
    <3> QED
      BY <3>1, <3>2 DEF Relevant
  <2>3. CASE TooDear(x[2], NewG(x), h, rest)
    BY <1>1, <2>1, <2>3, IDATooDear
  <2>4. CASE AtGoal(x[2], NewG(x), h, rest, Append(operator_sequence, x[1]))
    BY <1>1, <2>2, <2>4, IDAAtGoal
  <2>5. CASE Opens(x[2], NewG(x), h, rest, Append(operator_sequence, x[1]))
    BY <1>1, <2>2, <2>5, IDAOpens
  <2> QED
    BY <2>1, <2>3, <2>4, <2>5 DEF Calls
<1> QED
  BY <1>2, <1>3, <1>4 DEF Descends

\* The frames that hold operators of the one stack are in the other as well.
LEMMA ExpandedKept ==
  ASSUME NEW T, NEW E, NEW st, NEW st2, Expanded(T, E, st),
         \A i \in 1..Len(st) : st[i].pending # {} =>
           /\ i \in 1..Len(st2) /\ st2[i].state = st[i].state
           /\ st2[i].g = st[i].g /\ st2[i].pending = st[i].pending
  PROVE  Expanded(T, E, st2)
<1>1. ASSUME NEW s, NEW x, Left(T, st, s, x) PROVE Left(T, st2, s, x)
  <2>1. PICK i \in 1..Len(st) : st[i].state = s /\ Way(T, s, st[i].g) /\ x \in st[i].pending
    BY <1>1 DEF Left
  <2>2. /\ i \in 1..Len(st2) /\ st2[i].state = st[i].state
        /\ st2[i].g = st[i].g /\ st2[i].pending = st[i].pending
    BY <2>1
  <2> QED
    BY <2>1, <2>2 DEF Left
<1> QED
  BY <1>1 DEF Expanded

\* A cheapest path that goes on is not at its end: as long as no plan was found,
\* some operator is left.
LEMMA NeverExhausted ==
  ASSUME IsFiniteSet(States), NEW T \in SUBSET States, NEW E, NEW st, Len(st) = 0, Expanded(T, E, st)
  PROVE  FALSE
<1>1. PICK rank : GoalRank(Cost, T, rank)
  BY ToFacts
<1>2. rank \in [States -> Nat] /\ InitialState \in E /\ InitialState \in States /\ E \subseteq States
  BY <1>1, TaskAssumption DEF GoalRank, Expanded
<1> DEFINE P(n) == \A s \in E : rank[s] >= n
<1>3. P(0)
  BY <1>2
<1>4. ASSUME NEW n \in Nat, P(n) PROVE P(n+1)
  <2> SUFFICES ASSUME NEW s \in E PROVE rank[s] >= n + 1
    OBVIOUS
  <2>1. s \in States \ GoalStates /\ To(T, s) # Infinity
    BY <1>2 DEF Expanded
  <2>2. PICK t \in Transitions :
         /\ t[1] = s /\ To(T, t[3]) # Infinity
         /\ To(T, s) = Cost[t[2]] + To(T, t[3])
         /\ rank[t[3]] < rank[s]
    BY <1>1, <2>1 DEF GoalRank, To
  <2>3. PICK x \in Successors(s) : x[1] = t[2] /\ x[2] = t[3]
    <3>1. t \in States \X Operators \X States
      BY TaskAssumption
    <3>2. <<t[2], t[3]>> \in Successors(s)
      BY <2>2, <3>1 DEF Successors
    <3>3. <<t[2], t[3]>>[1] = t[2] /\ <<t[2], t[3]>>[2] = t[3]
      OBVIOUS
    <3> QED
      BY <3>2, <3>3
  <2>4. ~Left(T, st, s, x)
    BY DEF Left
  <2>5. x[2] \in E
    BY <2>2, <2>3, <2>4 DEF Expanded
  <2>6. rank[t[3]] >= n
    BY <1>4, <2>3, <2>5
  <2>7. rank[s] \in Nat /\ rank[t[3]] \in Nat
    BY <1>2, <2>3, <2>5
  <2> QED
    BY <2>2, <2>6, <2>7
<1> HIDE DEF P
<1>5. \A n \in Nat : P(n)
  <2> DEFINE S == {n \in Nat : P(n)}
  <2>1. 0 \in S /\ \A n \in Nat : n \in S => n + 1 \in S
    BY <1>3, <1>4
  <2> HIDE DEF S
  <2>2. Nat \subseteq S
    BY <2>1, Induction
  <2> QED
    BY <2>2 DEF S
<1>6. P(rank[InitialState] + 1)
  BY <1>2, <1>5
<1> QED
  BY <1>2, <1>6 DEF P

\* A call whose operators have all been tried returns the next limit.
LEMMA IDALoops ==
  ASSUME TreeBase, Loops, Engine("idastar"), NEW T \in SUBSET States, NEW B \in Nat, NEW best,
         IDAInv(T, B, best)
  PROVE  IDAInv(T, B, best)'
<1>1. /\ TreeTypes /\ TreeControl /\ limit' = limit /\ plans' = plans /\ config' = config
      /\ iteration' = iteration /\ stack' = Front(stack) /\ stack # <<>> /\ Top.pending = {}
      /\ returned = None /\ returned' = Top.next_limit /\ cache_value' = cache_value
      /\ stack \in Seq(Frames)
  BY DEF Loops, TreeBase, TreeTypes
<1>2. PICK n \in Nat : n = Len(stack) /\ n \in 1..n /\ Top = stack[n] /\ Top \in Frames
  BY <1>1, TopIs
<1>3. PICK m \in Nat : m = n - 1
  BY <1>2
<1>4. PICK st \in Seq(Frames) : stack' = st /\ Len(st) = m /\ \A i \in 1..m : st[i] = stack[i]
  BY <1>1, <1>2, <1>3, FrontIs
<1>5. \A i \in 1..n : i = n \/ i \in 1..m
  BY <1>3
<1>6. \A i \in 1..m : i \in 1..n
  BY <1>3
<1>7. returned' \in Nat \union {-1} /\ returned' = stack[n].next_limit
  BY <1>1, <1>2 DEF Frames
<1>8. \A i \in 1..Len(stack') : stack'[i].state \in T
  BY <1>2, <1>4, <1>6 DEF IDAInv
<1>9. CacheSound(T)'
  BY <1>1 DEF IDAInv, CacheSound
<1>10. Signals'
  <2>1. \A i \in 1..n : stack[i].next_limit = -1 => Found
    BY <1>2 DEF IDAInv, Signals
  <2>2. \A i \in 1..m : stack'[i].next_limit = -1 => Found
    BY <1>4, <1>6, <2>1
  <2>3. limit' = -1 => Found
    BY <1>1 DEF IDAInv, Signals
  <2> QED
    BY <1>1, <1>2, <1>4, <1>7, <2>1, <2>2, <2>3, DoneSame DEF Signals
<1>11. SinglePlan0(T, B, best)'
  BY <1>1, SinglePlanSame DEF IDAInv
<1>12. Iterating /\ Iterating'
  BY <1>1, <1>7 DEF Iterating, None
<1>13. iteration > 0
  BY <1>1 DEF TreeControl, TreeTypes
<1>14. ASSUME Noted(B) PROVE Noted(B)'
  <2>1. ~Found /\ limit < B /\ \E i \in 1..n : stack[i].next_limit <= B
    BY <1>1, <1>2, <1>14 DEF Noted, None
  <2>2. PICK i \in 1..n : stack[i].next_limit <= B
    BY <2>1
  <2>3. CASE i = n
    <3>1. returned' # -1
      BY <1>2, <1>7, <2>1 DEF IDAInv, Signals
    <3>2. returned' \in 0..B
      BY <1>7, <2>2, <2>3, <3>1
    <3> QED
      BY <1>1, <2>1, <3>2, DoneSame DEF Noted
  <2>4. CASE i \in 1..m
    BY <1>1, <1>4, <2>1, <2>2, <2>4, DoneSame DEF Noted
  <2> QED
    BY <1>5, <2>3, <2>4
<1>15. ASSUME Exhausting(T, B) PROVE Exhausting(T, B)'
  <2>1. PICK E : Expanded(T, E, stack) /\ Remembered(T, E, cache_value, iteration)
    BY <1>15 DEF Exhausting
  <2>2. \A i \in 1..Len(stack) : stack[i].pending # {} =>
           /\ i \in 1..Len(st) /\ st[i].state = stack[i].state
           /\ st[i].g = stack[i].g /\ st[i].pending = stack[i].pending
    BY <1>1, <1>2, <1>4, <1>5
  <2>3. Expanded(T, E, st)
    BY <2>1, <2>2, ExpandedKept
  <2> QED
    BY <1>1, <1>4, <1>15, <2>1, <2>3, DoneSame DEF Exhausting
<1>16. Progress(T, B, best)'
  <2>1. Done(T, best) \/ Noted(B) \/ Exhausting(T, B)
    BY <1>12, <1>13 DEF IDAInv, Progress
  <2> QED
    BY <1>1, <1>12, <1>14, <1>15, <2>1, DoneSame DEF Progress
<1> QED
  BY <1>8, <1>9, <1>10, <1>11, <1>16 DEF IDAInv

\* Its caller takes the lesser limit.
LEMMA IDAResume ==
  ASSUME TreeBase, Resume, Engine("idastar"), NEW T \in SUBSET States, NEW B \in Nat, NEW best,
         IDAInv(T, B, best)
  PROVE  IDAInv(T, B, best)'
<1>1. /\ TreeTypes /\ TreeControl /\ limit' = limit /\ plans' = plans /\ config' = config
      /\ iteration' = iteration /\ stack # <<>>
      /\ stack' = [stack EXCEPT ![Len(stack)].next_limit = NextLimit(@, returned)]
      /\ returned # None /\ returned' = None /\ cache_value' = cache_value
      /\ stack \in Seq(Frames) /\ returned \in Nat \union {-1}
  BY DEF Resume, TreeBase, TreeTypes
<1>2. PICK n \in Nat : n = Len(stack) /\ n \in 1..n /\ Top = stack[n] /\ Top \in Frames
  BY <1>1, TopIs
<1>3. PICK st \in Seq(Frames) :
           /\ st = stack' /\ Len(st) = n /\ st # <<>>
           /\ st[n] = [Top EXCEPT !.next_limit = NextLimit(@, returned)]
           /\ \A i \in 1..n : i # n => st[i] = stack[i]
           /\ \A i \in 1..n : /\ st[i].state = stack[i].state /\ st[i].g = stack[i].g
                              /\ st[i].pending = stack[i].pending
  <2>1. PICK l \in Nat \union {-1} : l = returned
    BY <1>1
  <2>2. PICK rest \in Seq(Frames) :
           /\ rest = [stack EXCEPT ![Len(stack)].next_limit = NextLimit(@, l)]
           /\ Len(rest) = Len(stack) /\ rest # <<>>
           /\ rest[Len(stack)] = [Top EXCEPT !.next_limit = NextLimit(@, l)]
           /\ \A i \in 1..Len(stack) : i # Len(stack) => rest[i] = stack[i]
           /\ \A i \in 1..Len(stack) : /\ rest[i].state = stack[i].state /\ rest[i].g = stack[i].g
                                       /\ rest[i].pending = stack[i].pending
    BY <1>1, LimitNoted
  <2>3. rest = stack'
    BY <1>1, <2>1, <2>2
  <2> QED
    BY <1>2, <2>1, <2>2, <2>3
<1>4. st[n].next_limit = NextLimit(stack[n].next_limit, returned) /\ stack[n].next_limit \in Nat \union {-1}
  BY <1>2, <1>3 DEF Frames
<1>5. /\ st[n].next_limit <= returned /\ st[n].next_limit <= stack[n].next_limit
      /\ st[n].next_limit = returned \/ st[n].next_limit = stack[n].next_limit
  BY <1>1, <1>4 DEF NextLimit
<1>6. \A i \in 1..Len(stack') : stack'[i].state \in T
  BY <1>2, <1>3 DEF IDAInv
<1>7. CacheSound(T)'
  BY <1>1 DEF IDAInv, CacheSound
<1>8. Signals'
  <2>1. \A i \in 1..n : stack[i].next_limit = -1 => Found
    BY <1>2 DEF IDAInv, Signals
  <2>2. \A i \in 1..n : st[i].next_limit = -1 => Found
    BY <1>2, <1>3, <1>5, <2>1 DEF IDAInv, Signals
  <2>3. limit' = -1 => Found
    BY <1>1 DEF IDAInv, Signals
  <2>4. Found' <=> Found
    BY <1>1, DoneSame
  <2>5. \A i \in 1..Len(stack') : stack'[i].next_limit = -1 => Found'
    BY <1>3, <2>2, <2>4
  <2>6. returned' # -1
    BY <1>1 DEF None
  <2> QED
    BY <2>3, <2>4, <2>5, <2>6 DEF Signals
<1>9. SinglePlan0(T, B, best)'
  BY <1>1, SinglePlanSame DEF IDAInv
<1>10. Iterating /\ Iterating'
  BY <1>1, <1>3 DEF Iterating
<1>11. iteration > 0
  BY <1>1 DEF TreeControl, TreeTypes
<1>12. ASSUME Noted(B) PROVE Noted(B)'
  <2>1. ~Found /\ limit < B /\ (returned \in 0..B \/ \E i \in 1..n : stack[i].next_limit <= B)
    BY <1>2, <1>12 DEF Noted
  <2>2. \E i \in 1..n : st[i].next_limit <= B
    <3>1. CASE returned \in 0..B
      <4>1. st[n].next_limit <= B
        BY <1>1, <1>4, <1>5, <3>1
      <4> QED
        BY <1>2, <4>1
    <3>2. CASE \E i \in 1..n : stack[i].next_limit <= B
      <4>1. PICK i \in 1..n : stack[i].next_limit <= B
        BY <3>2
      <4>2. CASE i = n
        <5>1. st[n].next_limit <= B
          BY <1>1, <1>4, <1>5, <4>1, <4>2
        <5> QED
          BY <1>2, <5>1
      <4>3. CASE i # n
        BY <1>3, <4>1, <4>3
      <4> QED
        BY <4>2, <4>3
    <3> QED
      BY <2>1, <3>1, <3>2
  <2> QED
    BY <1>1, <1>3, <2>1, <2>2, DoneSame DEF Noted
<1>13. ASSUME Exhausting(T, B) PROVE Exhausting(T, B)'
  <2>1. PICK E : Expanded(T, E, stack) /\ Remembered(T, E, cache_value, iteration)
    BY <1>13 DEF Exhausting
  <2>2. \A i \in 1..Len(stack) : stack[i].pending # {} =>
           /\ i \in 1..Len(st) /\ st[i].state = stack[i].state
           /\ st[i].g = stack[i].g /\ st[i].pending = stack[i].pending
    BY <1>2, <1>3
  <2>3. Expanded(T, E, st)
    BY <2>1, <2>2, ExpandedKept
  <2> QED
    BY <1>1, <1>3, <1>13, <2>1, <2>3, DoneSame DEF Exhausting
<1>14. Progress(T, B, best)'
  <2>1. Done(T, best) \/ Noted(B) \/ Exhausting(T, B)
    BY <1>10, <1>11 DEF IDAInv, Progress
  <2> QED
    BY <1>1, <1>10, <1>12, <1>13, <2>1, DoneSame DEF Progress
<1> QED
  BY <1>6, <1>7, <1>8, <1>9, <1>14 DEF IDAInv

\* The first plan ends the search.
LEMMA IDAUnwind ==
  ASSUME TreeBase, Unwind, NEW T, NEW B, NEW best, IDAInv(T, B, best)
  PROVE  IDAInv(T, B, best)'
<1>1. /\ limit' = limit /\ plans' = plans /\ config' = config /\ iteration' = iteration
      /\ stack' = <<>> /\ cache_value' = cache_value /\ Found /\ config.single_plan
  BY DEF Unwind, Unwinds
<1>2. SinglePlan0(T, B, best)'
  BY <1>1, SinglePlanSame DEF IDAInv
<1>3. Done(T, best)
  BY <1>1 DEF IDAInv, SinglePlan0, Done
<1>4. Progress(T, B, best)'
  BY <1>1, <1>3, DoneSame DEF Progress
<1>5. CacheSound(T)'
  BY <1>1 DEF IDAInv, CacheSound
<1>6. Signals'
  BY <1>1, DoneSame DEF Signals
<1> QED
  BY <1>1, <1>2, <1>4, <1>5, <1>6 DEF IDAInv

\* What the call for the initial state returns is the next limit.
LEMMA IDAEndIteration ==
  ASSUME TreeBase, EndIteration, Engine("idastar"), IsFiniteSet(States), NEW T \in SUBSET States,
         NEW B \in Nat, NEW best, IDAInv(T, B, best)
  PROVE  IDAInv(T, B, best)'
<1>1. /\ limit' = returned /\ plans' = plans /\ config' = config /\ iteration' = iteration
      /\ stack' = <<>> /\ stack = <<>> /\ returned # None /\ returned' = None /\ cache_value' = cache_value
  BY DEF EndIteration, Engine
<1>2. Iterating /\ ~Iterating' /\ iteration > 0
  BY <1>1 DEF Iterating, TreeBase, TreeTypes, TreeControl
<1>3. ~Exhausting(T, B)
  BY <1>1, NeverExhausted DEF Exhausting
<1>4. Done(T, best) \/ (~Found /\ limit' <= B)
  <2>1. Done(T, best) \/ Noted(B)
    BY <1>2, <1>3 DEF IDAInv, Progress
  <2>2. Noted(B) => ~Found /\ returned \in 0..B
    BY <1>1 DEF Noted
  <2> QED
    BY <1>1, <2>1, <2>2
<1>5. SinglePlan0(T, B, best)'
  BY <1>1, <1>4, DoneSame DEF IDAInv, SinglePlan0, Done
<1>6. Progress(T, B, best)'
  BY <1>1, <1>2, <1>4, DoneSame DEF Progress
<1>7. CacheSound(T)'
  BY <1>1 DEF IDAInv, CacheSound
<1>8. Signals'
  BY <1>1, DoneSame DEF IDAInv, Signals, None
<1> QED
  BY <1>1, <1>5, <1>6, <1>7, <1>8 DEF IDAInv

LEMMA IDAStep ==
  ASSUME TreeBase, TreeStep \/ UNCHANGED treeallvars,
         Engine("idastar"), CostType = "NORMAL", IsFiniteSet(States),
         NEW T \in SUBSET States, NEW B \in Nat, NEW best,
         Relevant(T, B, best)', IDAInv(T, B, best)
  PROVE  IDAInv(T, B, best)'
<1>1. CASE NextIteration
  BY <1>1, NextIterationIs, IDAStarts
<1>2. CASE stack # <<>> /\ \E x \in Top.pending : Descend(x)
  <2>1. PICK x \in Top.pending : Descend(x)
    BY <1>2
  <2>2. PICK rest \in Seq(Frames) : Descends(x, rest)
    BY <1>2, <2>1, DescendIs
  <2> QED
    BY <2>2, IDADescends
<1>3. CASE Loops
  BY <1>3, IDALoops
<1>4. CASE Resume
  BY <1>4, IDAResume
<1>5. CASE Unwind
  BY <1>5, IDAUnwind
<1>6. CASE EndIteration
  BY <1>6, IDAEndIteration
<1>7. CASE Initialize \/ EndStep \/ UNCHANGED treeallvars
  <2>1. UNCHANGED treevars
    BY <1>7 DEF Initialize, EndStep, treeallvars
  <2>2. Done(T, best)' <=> Done(T, best)
    BY <2>1, DoneSame DEF treevars
  <2> QED
    BY <2>1, <2>2 DEF treevars, IDAInv, CacheSound, Signals, SinglePlan0, Progress, Found, Iterating, Noted, Exhausting
<1> QED
  BY <1>1, <1>2, <1>3, <1>4, <1>5, <1>6, <1>7 DEF TreeStep

-----------------------------------------------------------------------------
(***************************************************************************)
(* The inductive invariant of all engines, and the theorems.               *)
(***************************************************************************)

\* What a heuristic answered is in its cache.
Answers == \A s \in States : heuristic_cache[s] = NO_VALUE \/ heuristic_cache[s] \in Estimates[s]

LEMMA AnswersStep ==
  ASSUME TreeTypes, TreeStep \/ UNCHANGED treeallvars, Answers
  PROVE  Answers'
<1>1. heuristic_cache \in [States -> Nat \union {DEAD_END, NO_VALUE}]
  BY DEF TreeTypes, EvaluationTypeOK
<1>2. ASSUME NEW s \in States, NEW h, ComputeH(s, h) PROVE Answers'
  <2>1. CASE Evaluate(s, {}, h)
    BY <1>1, <1>2, <2>1 DEF Evaluate, Answers
  <2>2. CASE UNCHANGED evalvars
    BY <2>2 DEF evalvars, Answers
  <2> QED
    BY <1>2, <2>1, <2>2 DEF ComputeH
<1>3. ASSUME UNCHANGED heuristic_cache PROVE Answers'
  BY <1>3 DEF Answers
<1>4. CASE NextIteration
  BY <1>2, <1>4, TaskAssumption DEF NextIteration
<1>5. CASE stack # <<>> /\ \E x \in Top.pending : Descend(x)
  <2>1. PICK x \in Top.pending : Descend(x)
    BY <1>5
  <2>2. Top \in Frames
    BY <1>5, TopIs
  <2>3. x[2] \in States
    BY <2>2 DEF Frames
  <2> QED
    BY <1>2, <1>3, <2>1, <2>3 DEF Descend, evalvars
<1> QED
  BY <1>3, <1>4, <1>5 DEF TreeStep, Initialize, Loops, Resume, Unwind, EndIteration, EndStep, treeallvars, evalvars

\* No sum of the search overflows: M bounds the costs of the operators.
SumsFit(M) ==
  /\ PathsFit(Cost, States, M) /\ PathsFit(UnitCost, States, M)
  /\ \A s \in States : \A h \in Estimates[s] : M * Cardinality(States) + h < Infinity

TreeInv ==
  /\ TreeBase /\ Answers
  /\ CostType = "NORMAL" =>
       /\ \A c \in {Cost, UnitCost} : Counts(c) => Priced(c)
       /\ Engine("dfs") =>
            \A rank \in [States -> Nat] : GoalRank(Cost, States, rank) => DFSInv(rank)
       /\ Engine("ids") =>
            \A rank \in [States -> Nat] : GoalRank(UnitCost, States, rank) => IDSInv(rank)
       /\ Engine("idastar") =>
            \A T \in SUBSET States : \A B \in Nat : \A best \in BOOLEAN :
              Relevant(T, B, best) => IDAInv(T, B, best)

LEMMA IDAInit ==
  ASSUME TreeInit, Engine("idastar"), NEW T, NEW B, NEW best, Relevant(T, B, best)
  PROVE  IDAInv(T, B, best)
<1>1. /\ limit = config.limit /\ iteration = 0 /\ stack = <<>> /\ plans = <<>>
      /\ returned = None /\ cache_value = <<>> /\ config \in Configs
  BY DEF TreeInit, Engine
<1>2. limit \in Nat
  BY <1>1, ConfigAssumption
<1>3. DOMAIN cache_value = {} /\ Len(stack) = 0
  BY <1>1
<1>4. \A i \in 1..Len(stack) : FALSE
  BY <1>3
<1>5. CacheSound(T)
  BY <1>3 DEF CacheSound
<1>6. Signals
  BY <1>1, <1>2, <1>4 DEF Signals, None
<1>7. SinglePlan0(T, B, best)
  BY <1>1 DEF SinglePlan0, Relevant, Found
<1>8. Progress(T, B, best)
  BY <1>1 DEF Progress
<1> QED
  BY <1>4, <1>5, <1>6, <1>7, <1>8 DEF IDAInv

LEMMA TreeInvInit ==
  ASSUME EngineInit, EvaluationInit, TreeInit, IsFiniteSet(States)
  PROVE  TreeInv
<1>1. TreeBase
  BY TreeInitBase
<1>2. Answers
  BY DEF EvaluationInit, Answers
<1>3. /\ iteration = 0 /\ stack = <<>> /\ plans = <<>> /\ returned = None /\ config \in Configs
      /\ ~Found /\ ~Iterating
  BY DEF TreeInit, Found, Iterating
<1>4. \A i \in 1..Len(plans) : FALSE
  BY <1>3
<1>5. \A i \in 1..Len(stack) : FALSE
  BY <1>3
<1>6. \A c : Priced(c)
  BY <1>4 DEF Priced
<1>7. ASSUME Engine("dfs"), NEW rank PROVE DFSInv(rank)
  <2>1. limit = config.bound
    BY <1>7 DEF TreeInit, Engine
  <2> QED
    BY <1>3, <2>1 DEF DFSInv
<1>8. ASSUME Engine("ids"), NEW rank PROVE IDSInv(rank)
  <2>1. limit = 0
    BY <1>8 DEF TreeInit, Engine
  <2>2. config.bound \in Nat /\ Optimum(UnitCost) \in Nat
    BY <1>3, ConfigAssumption, UnitFacts
  <2> QED
    BY <1>3, <1>5, <2>1, <2>2 DEF IDSInv
<1> QED
  BY <1>1, <1>2, <1>6, <1>7, <1>8, IDAInit DEF TreeInv

LEMMA TreeInvStep ==
  ASSUME TreeInv, TreeStep \/ UNCHANGED treeallvars, IsFiniteSet(States), BoundsFit,
         NEW M, SumsFit(M)
  PROVE  TreeInv'
<1>1. TreeBase /\ TreeBase' /\ TreeTypes
  BY TreeStepBase DEF TreeInv, TreeBase
<1>2. Answers'
  BY <1>1, AnswersStep DEF TreeInv
<1>3. config' = config
  BY DEF TreeStep, Initialize, NextIteration, Descend, Loops, Resume, Unwind, EndIteration, EndStep, treeallvars,
     treevars
<1>4. \A e : Engine(e)' <=> Engine(e)
  BY <1>3 DEF Engine
<1>5. \A c : Counts(c)' <=> Counts(c)
  BY <1>4 DEF Counts
<1>6. ASSUME CostType = "NORMAL", NEW c \in {Cost, UnitCost}, Counts(c) PROVE Priced(c)'
  <2>1. Priced(c)
    BY <1>6 DEF TreeInv
  <2>2. PathsFit(c, States, M)
    BY <1>6 DEF SumsFit
  <2> QED
    BY <1>1, <1>6, <2>1, <2>2, PricedStep
<1>7. ASSUME CostType = "NORMAL", Engine("dfs"),
             NEW rank \in [States -> Nat], GoalRank(Cost, States, rank)
      PROVE  DFSInv(rank)'
  BY <1>1, <1>7, DFSStep DEF TreeInv
<1>8. ASSUME CostType = "NORMAL", Engine("ids"),
             NEW rank \in [States -> Nat], GoalRank(UnitCost, States, rank)
      PROVE  IDSInv(rank)'
  BY <1>1, <1>8, IDSStep DEF TreeInv
<1>9. ASSUME CostType = "NORMAL", Engine("idastar"), NEW T \in SUBSET States, NEW B \in Nat,
             NEW best \in BOOLEAN, Relevant(T, B, best)'
      PROVE  IDAInv(T, B, best)'
  <2>1. heuristic_cache' \in [States -> Nat \union {DEAD_END, NO_VALUE}]
    BY <1>1 DEF TreeBase, TreeTypes, EvaluationTypeOK
  <2>2. \A s \in States : heuristic_cache[s] # NO_VALUE => heuristic_cache'[s] = heuristic_cache[s]
    <3>1. ASSUME NEW s, NEW h, Asked(s, h)
          PROVE  \A u \in States : heuristic_cache[u] # NO_VALUE => heuristic_cache'[u] = heuristic_cache[u]
      BY <3>1 DEF Asked
    <3>2. CASE NextIteration
      BY <1>1, <3>1, <3>2, NextIterationIs DEF Starts
    <3>3. CASE stack # <<>> /\ \E x \in Top.pending : Descend(x)
      <4>1. PICK x \in Top.pending : Descend(x)
        BY <3>3
      <4>2. PICK rest \in Seq(Frames) : Descends(x, rest)
        BY <1>1, <3>3, <4>1, DescendIs
      <4> QED
        BY <3>1, <4>2 DEF Descends, Skips, Avoids, Tries, evalvars
    <3> QED
      BY <3>2, <3>3 DEF TreeStep, Initialize, Loops, Resume, Unwind, EndIteration, EndStep, treeallvars, evalvars
  <2>3. Relevant(T, B, best)
    BY <1>1, <1>3, <1>9, <2>1, <2>2, RelevantBefore
  <2>4. IDAInv(T, B, best)
    BY <1>9, <2>3 DEF TreeInv
  <2> QED
    BY <1>1, <1>9, <2>4, IDAStep
<1> QED
  BY <1>1, <1>2, <1>4, <1>5, <1>6, <1>7, <1>8, <1>9 DEF TreeInv

\* The last plan is priced as all are.
LEMMA LastPlan ==
  ASSUME TreeTypes, Found, NEW c, Priced(c), IsFiniteSet(States), Counts(c)
  PROVE  /\ Optimum(c) \in Nat /\ Optimum(c) # Infinity
         /\ SequenceCost(Last(plans)) \in Nat /\ Optimum(c) <= SequenceCost(Last(plans))
         /\ plans[1] \in Seq(Operators) /\ Optimum(c) <= SequenceCost(plans[1])
<1> DEFINE P == Seq(Operators)
<1>1. plans \in Seq(P) /\ plans # <<>>
  BY DEF TreeTypes, Found
<1> HIDE DEF P
<1>2. PICK n \in Nat : n = Len(plans) /\ n \in 1..n /\ 1 \in 1..n /\ Last(plans) = plans[n]
                       /\ plans[n] \in P /\ plans[1] \in P
  BY <1>1 DEF Last
<1>3. SequenceCost(plans[n]) \in Nat
  BY <1>2, SequenceCostNat DEF P
<1>4. Optimum(c) \in Nat
  BY CountsTypes, GoalDistanceFacts, TaskAssumption DEF Optimum, Dist
<1> QED
  BY <1>2, <1>3, <1>4 DEF Priced, Optimum, P

LEMMA EnginesDiffer ==
  /\ Engine("dfs") => ~Engine("idastar") /\ ~Engine("ids") /\ Counts(Cost)
  /\ Engine("idastar") => ~Engine("dfs") /\ ~Engine("ids") /\ Counts(Cost)
  /\ Engine("ids") => ~Engine("dfs") /\ ~Engine("idastar") /\ Counts(UnitCost)
BY DEF Engine, Counts

LEMMA DistIsReal == RealGoalDistance(States)[InitialState] = Optimum(Cost)
BY DEF RealGoalDistance, Optimum, Dist

LEMMA DFSPlan ==
  ASSUME TreeInv, CostType = "NORMAL", IsFiniteSet(States), search_status = "SOLVED", iteration > 0,
         Engine("dfs"), ~config.single_plan
  PROVE  PlanCost(Last(plans)) = Optimum(Cost)
<1>1. TreeTypes /\ TreeControl /\ Found /\ stack = <<>> /\ ~Unwinds
  BY DEF TreeInv, TreeBase, TreeControl, Running, Unwinds
<1>2. PICK rank : GoalRank(Cost, States, rank) /\ rank \in [States -> Nat]
  BY CostAssumption, GoalDistanceFacts DEF GoalRank
<1>3. DFSInv(rank)
  BY <1>2 DEF TreeInv
<1>4. /\ Optimum(Cost) \in Nat /\ Optimum(Cost) # Infinity
      /\ SequenceCost(Last(plans)) \in Nat /\ Optimum(Cost) <= SequenceCost(Last(plans))
  BY <1>1, EnginesDiffer, LastPlan DEF TreeInv
<1>5. ~Covers(Cost, rank, stack)
  BY <1>1 DEF Covers
<1>6. SequenceCost(Last(plans)) <= Optimum(Cost)
  BY <1>1, <1>3, <1>4, <1>5 DEF DFSInv
<1> QED
  BY <1>4, <1>6, EnginesDiffer DEF SequenceCost

LEMMA CacheInt == TreeTypes => \A s \in States : heuristic_cache[s] \in Int
BY DEF TreeTypes, EvaluationTypeOK, DEAD_END, NO_VALUE

LEMMA IDAPlan ==
  ASSUME TreeInv, CostType = "NORMAL", IsFiniteSet(States), search_status = "SOLVED", iteration > 0,
         Engine("idastar"), config.limit <= Optimum(Cost) \/ ~config.single_plan,
         \A s \in States : heuristic_cache[s] # DEAD_END /\ heuristic_cache[s] <= To(States, s)
  PROVE  PlanCost(Last(plans)) = Optimum(Cost)
<1>1. TreeTypes /\ TreeControl /\ Found /\ stack = <<>> /\ returned = None
  BY DEF TreeInv, TreeBase, TreeControl, Running
<1>2. /\ Optimum(Cost) \in Nat /\ Optimum(Cost) # Infinity
      /\ SequenceCost(Last(plans)) \in Nat /\ Optimum(Cost) <= SequenceCost(Last(plans))
  BY <1>1, EnginesDiffer, LastPlan DEF TreeInv
<1>3. PICK B \in Nat : B = Optimum(Cost) /\ B = To(States, InitialState)
  BY <1>2 DEF To, Optimum, Dist
<1>4. ASSUME NEW s \in States
      PROVE  To(States, InitialState) + heuristic_cache[s] <= B + To(States, s)
  <2>1. To(States, s) \in Nat
    BY ToFacts
  <2>2. heuristic_cache[s] \in Int
    BY <1>1, CacheInt
  <2>3. heuristic_cache[s] <= To(States, s)
    OBVIOUS
  <2> QED
    BY <1>3, <2>1, <2>2, <2>3
<1>5. Relevant(States, B, TRUE)
  BY <1>2, <1>3, <1>4 DEF Relevant
<1>6. IDAInv(States, B, TRUE)
  BY <1>5 DEF TreeInv
<1>7. Done(States, TRUE)
  BY <1>1, <1>6 DEF IDAInv, Progress, Iterating
<1>8. SequenceCost(Last(plans)) <= Optimum(Cost)
  BY <1>3, <1>7 DEF Done
<1> QED
  BY <1>2, <1>8, EnginesDiffer DEF SequenceCost

LEMMA IDSPlan ==
  ASSUME TreeInv, CostType = "NORMAL", IsFiniteSet(States), search_status = "SOLVED",
         Engine("ids")
  PROVE  Len(plans[1]) = Optimum(UnitCost)
<1>1. TreeTypes /\ TreeControl /\ Found
  BY DEF TreeInv, TreeBase, TreeControl
<1>2. PICK rank : GoalRank(UnitCost, States, rank) /\ rank \in [States -> Nat]
  BY UnitFacts, GoalDistanceFacts DEF GoalRank
<1>3. IDSInv(rank)
  BY <1>2 DEF TreeInv
<1>4. Optimum(UnitCost) \in Nat /\ plans[1] \in Seq(Operators) /\ Optimum(UnitCost) <= SequenceCost(plans[1])
  BY <1>1, EnginesDiffer, LastPlan DEF TreeInv
<1>5. SequenceCost(plans[1]) = Len(plans[1]) /\ Len(plans[1]) \in Nat
  BY <1>4 DEF SequenceCost
<1> QED
  BY <1>1, <1>3, <1>4, <1>5 DEF IDSInv

\* What TreeInv says at the end of a search.
LEMMA TreeInvPlan ==
  ASSUME TreeInv, IsFiniteSet(States)
  PROVE  BestPlan
<1> SUFFICES ASSUME search_status = "SOLVED", CostType = "NORMAL", iteration > 0 PROVE BestPlan
  BY DEF BestPlan
<1>1. CASE Engine("dfs")
  BY <1>1, DFSPlan, DistIsReal, EnginesDiffer DEF BestPlan
<1>2. CASE Engine("idastar")
  <2>1. \A s \in States : RealGoalDistance(States)[s] = To(States, s)
    BY DEF RealGoalDistance, To
  <2> QED
    BY <1>2, <2>1, IDAPlan, DistIsReal, EnginesDiffer DEF BestPlan
<1>3. CASE Engine("ids")
  <2>1. GoalDistance([o \in Operators |-> 1], States)[InitialState] = Optimum(UnitCost)
    BY DEF Optimum, Dist, UnitCost
  <2> QED
    BY <1>3, <2>1, IDSPlan, EnginesDiffer DEF BestPlan
<1> QED
  BY <1>1, <1>2, <1>3, EngineIs DEF TreeInv, TreeBase

LEMMA DFSFails ==
  ASSUME TreeInv, CostType = "NORMAL", IsFiniteSet(States), BoundsFit, search_status = "FAILED",
         iteration > 0, Engine("dfs")
  PROVE  Optimum(Cost) >= config.bound
<1>1. TreeTypes /\ TreeControl /\ ~Found /\ stack = <<>> /\ ~Unwinds /\ config \in Configs
  BY DEF TreeInv, TreeBase, TreeTypes, TreeControl, Running, Unwinds
<1>2. PICK rank : GoalRank(Cost, States, rank) /\ rank \in [States -> Nat]
  BY CostAssumption, GoalDistanceFacts DEF GoalRank
<1>3. DFSInv(rank)
  BY <1>2 DEF TreeInv
<1>4. ~Covers(Cost, rank, stack)
  BY <1>1 DEF Covers
<1>5. limit = config.bound /\ config.bound \in Nat /\ config.bound <= Infinity
  BY <1>1, <1>3, ConfigAssumption DEF DFSInv, BoundsFit
<1>6. Optimum(Cost) \in Nat
  BY CostAssumption, TaskAssumption, GoalDistanceFacts DEF Optimum, Dist
<1> QED
  BY <1>1, <1>3, <1>4, <1>5, <1>6 DEF DFSInv

LEMMA IDSFails ==
  ASSUME TreeInv, CostType = "NORMAL", IsFiniteSet(States), search_status = "FAILED", Engine("ids")
  PROVE  Optimum(UnitCost) >= config.bound
<1>1. TreeTypes /\ TreeControl /\ ~Found /\ ~Repeats /\ config \in Configs
  BY DEF TreeInv, TreeBase, TreeTypes, TreeControl
<1>2. PICK rank : GoalRank(UnitCost, States, rank) /\ rank \in [States -> Nat]
  BY UnitFacts, GoalDistanceFacts DEF GoalRank
<1>3. limit \in Nat /\ limit <= Optimum(UnitCost)
  BY <1>1, <1>2 DEF TreeInv, IDSInv
<1>4. ~(limit < config.bound) /\ config.bound \in Nat
  BY <1>1, ConfigAssumption DEF Repeats, Engine
<1>5. Optimum(UnitCost) \in Nat
  BY UnitFacts
<1> QED
  BY <1>3, <1>4, <1>5

LEMMA IDAFails ==
  ASSUME TreeInv, CostType = "NORMAL", IsFiniteSet(States), NEW M, SumsFit(M),
         search_status = "FAILED", iteration > 0, Engine("idastar")
  PROVE  To(NeverDead, InitialState) = Infinity
<1> SUFFICES ASSUME To(NeverDead, InitialState) # Infinity PROVE FALSE
  OBVIOUS
<1>1. TreeTypes /\ TreeControl /\ ~Found /\ ~Repeats /\ stack = <<>> /\ returned = None
  BY DEF TreeInv, TreeBase, TreeControl, Running
<1>2. PICK T \in SUBSET States : T = NeverDead
  BY DEF NeverDead
<1>3. /\ M \in Nat /\ Cardinality(T) \in Nat /\ Cardinality(States) \in Nat
      /\ Cardinality(T) <= Cardinality(States) /\ IsFiniteSet(T)
  BY FS_Subset, FS_CardinalityType DEF SumsFit, PathsFit
<1>4. /\ M * Cardinality(T) <= M * Cardinality(States)
      /\ M * Cardinality(T) \in Nat /\ M * Cardinality(States) \in Nat
  <2>1. \A m, a, b \in Nat : a <= b => m * a <= m * b /\ m * a \in Nat /\ m * b \in Nat
    OBVIOUS
  <2> QED
    BY <1>3, <2>1
<1>5. M * Cardinality(States) < Infinity /\ \A o \in Operators : Cost[o] <= M
  BY DEF SumsFit, PathsFit
<1>6. PathsFit(Cost, T, M)
  <2>1. M * Cardinality(T) < Infinity
    BY <1>4, <1>5, InfinityNat
  <2> QED
    BY <1>3, <1>5, <2>1 DEF PathsFit
<1>7. To(T, InitialState) \in Nat /\ To(T, InitialState) <= M * Cardinality(T)
  <2>1. GoalDistance(Cost, T)[InitialState] <= M * Cardinality(T)
    BY <1>2, <1>6, CostAssumption, TaskAssumption, DistancesFit DEF To
  <2> QED
    BY <2>1, ToFacts DEF To
<1>8. PICK B \in Nat : B = Infinity - 1
  BY InfinityNat
<1>9. ASSUME NEW s \in T
      PROVE  To(T, InitialState) + heuristic_cache[s] <= B + To(T, s)
  <2>1. To(T, s) \in Nat /\ heuristic_cache[s] \in Int
    BY <1>1, ToFacts, CacheInt
  <2>2. CASE heuristic_cache[s] = NO_VALUE
    BY <1>4, <1>5, <1>7, <1>8, <2>1, <2>2, InfinityNat DEF NO_VALUE
  <2>3. CASE heuristic_cache[s] \in Estimates[s]
    <3>1. M * Cardinality(States) + heuristic_cache[s] < Infinity
      BY <2>3 DEF SumsFit
    <3>2. PICK d \in Nat, e \in Nat, h \in Int, a \in Nat, b \in Nat :
            /\ d = To(T, InitialState) /\ e = To(T, s) /\ h = heuristic_cache[s]
            /\ a = M * Cardinality(T) /\ b = M * Cardinality(States)
      BY <1>4, <1>7, <2>1
    <3>3. d <= a /\ a <= b /\ b + h < Infinity
      BY <1>4, <1>7, <3>1, <3>2
    <3>4. d + h <= B + e
      BY <1>8, <3>3, InfinityNat
    <3> QED
      BY <3>2, <3>4
  <2> QED
    BY <2>2, <2>3 DEF TreeInv, Answers
<1>10. Relevant(T, B, FALSE)
  BY <1>2, <1>9 DEF Relevant, NeverDead
<1>11. IDAInv(T, B, FALSE)
  BY <1>10 DEF TreeInv
<1>12. limit <= B
  BY <1>1, <1>11 DEF IDAInv, Progress, Iterating, Done
<1>13. limit \in {Infinity, -1}
  BY <1>1 DEF Repeats, Engine, Found
<1>14. limit # -1
  BY <1>1, <1>11 DEF IDAInv, Signals
<1> QED
  BY <1>8, <1>12, <1>13, <1>14, InfinityNat

LEMMA TreeInvFailure ==
  ASSUME TreeInv, IsFiniteSet(States), BoundsFit, NEW M, SumsFit(M)
  PROVE  FailureHasReason
<1> SUFFICES ASSUME search_status = "FAILED", CostType = "NORMAL", iteration > 0 PROVE FailureHasReason
  BY DEF FailureHasReason
<1>1. CASE Engine("dfs")
  BY <1>1, DFSFails, DistIsReal, EnginesDiffer DEF FailureHasReason
<1>2. CASE Engine("idastar")
  <2>1. RealGoalDistance(NeverDead)[InitialState] = To(NeverDead, InitialState)
    BY DEF RealGoalDistance, To
  <2>2. To(NeverDead, InitialState) = Infinity
    BY <1>2, IDAFails
  <2> QED
    BY <1>2, <2>1, <2>2, EnginesDiffer DEF FailureHasReason
<1>3. CASE Engine("ids")
  <2>1. GoalDistance([o \in Operators |-> 1], States)[InitialState] = Optimum(UnitCost)
    BY DEF Optimum, Dist, UnitCost
  <2> QED
    BY <1>3, <2>1, IDSFails, EnginesDiffer DEF FailureHasReason
<1> QED
  BY <1>1, <1>2, <1>3, EngineIs DEF TreeInv, TreeBase

LEMMA TreeInvHolds ==
  ASSUME IsFiniteSet(States), BoundsFit, NEW M, SumsFit(M)
  PROVE  TreeSpec => []TreeInv
<1>1. EngineInit /\ EvaluationInit /\ TreeInit => TreeInv
  BY TreeInvInit
<1>2. TreeInv /\ [TreeStep]_treeallvars => TreeInv'
  BY TreeInvStep
<1> QED
  BY <1>1, <1>2, PTL DEF TreeSpec

\* A search that ends has the plan it promises.
THEOREM BestPlanTheorem ==
  ASSUME IsFiniteSet(States), BoundsFit, NEW M, SumsFit(M)
  PROVE  TreeSpec => []BestPlan
<1>1. TreeInv => BestPlan
  BY TreeInvPlan
<1> QED
  BY <1>1, TreeInvHolds, PTL

\* A search that fails has a reason.
THEOREM FailureReasonTheorem ==
  ASSUME IsFiniteSet(States), BoundsFit, NEW M, SumsFit(M)
  PROVE  TreeSpec => []FailureHasReason
<1>1. TreeInv => FailureHasReason
  BY TreeInvFailure
<1> QED
  BY <1>1, TreeInvHolds, PTL

=============================================================================
