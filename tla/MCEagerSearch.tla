-------------------------- MODULE MCEagerSearch --------------------------
(***************************************************************************)
(* EagerSearch on small tasks.  The evaluator is not fixed: a run lets it  *)
(* answer any admissible value, or any value at all, for every state, and  *)
(* the operators of a node are tried in every order.                       *)
(***************************************************************************)
EXTENDS EagerSearch

MCOperators == {"a", "b", "z"}
MCCost == [o \in MCOperators |-> CASE o = "a" -> 1 [] o = "b" -> 3 [] o = "z" -> 0]

\* A dear and a cheap way to 3, a zero-cost cycle between 2 and 3, the goal 5
\* behind 4 and, dearer, directly behind 3, and a dead end 6 that is found again
\* from 4 while it waits in the open list.
ReopenStates == 1..6
ReopenTransitions ==
  {<<1, "a", 2>>, <<1, "b", 3>>, <<2, "a", 3>>, <<3, "z", 2>>, <<2, "b", 6>>,
   <<3, "a", 4>>, <<4, "a", 5>>, <<3, "b", 5>>, <<4, "z", 3>>, <<4, "b", 6>>}

MCBoundCost == [o \in MCOperators |-> CASE o = "a" -> 1 [] o = "b" -> 2 [] o = "z" -> 0]

\* The cheapest way to 4 takes the most operators and is found late; by the
\* other ways the goal 6 is beyond the bounds of the runs.  State 8 is dead.
BoundStates == 1..8
BoundTransitions ==
  {<<1, "z", 2>>, <<2, "a", 3>>, <<3, "z", 4>>, <<4, "a", 6>>,
   <<1, "a", 5>>, <<5, "z", 7>>, <<7, "a", 4>>, <<5, "b", 4>>, <<2, "b", 4>>,
   <<4, "z", 3>>, <<3, "b", 5>>, <<7, "b", 6>>, <<3, "a", 8>>}

MCAdmissible ==
  LET d == AdjustedGoalDistance
  IN  [s \in States |-> IF d[s] = Infinity THEN {0, DEAD_END} ELSE 0..d[s]]

\* Any estimate.  State 4 can be declared a dead end, real or not, upon which
\* no plan is left below the bound, and 3, upon which dear ones are.
MCEstimates ==
  LET d == AdjustedGoalDistance
  IN  [s \in States |-> IF d[s] = Infinity THEN {0, DEAD_END}
                        ELSE IF s \in {3, 4} THEN {0, 1, DEAD_END} ELSE {0}]

\* The blind heuristic.
MCBlind == [s \in States |-> {0}]

MCAnything == [s \in States |-> {0, 1, 2, DEAD_END}]

=============================================================================
