----------------------------- MODULE Evaluation -----------------------------
(***************************************************************************)
(* The evaluator that guides an engine: Heuristic::compute_result with its *)
(* cache of estimates and the dirty flag that path-dependent evaluators    *)
(* set, and the key that an open list derives from g and the estimate.     *)
(*                                                                         *)
(* What a heuristic computes is left open: for every state, a set of       *)
(* estimates one of which it answers.  Without path dependence the first   *)
(* answer is kept, so that a behaviour sees one fixed heuristic.           *)
(***************************************************************************)
EXTENDS PlanningTask

CONSTANTS
  PathDependent,      \* the evaluator is told of transitions, as landmark count
  Estimates,          \* the values the evaluator may compute for a state
  GWeight, HWeight    \* key of an entry: GWeight * g + HWeight * h

DEAD_END == -1        \* Heuristic::DEAD_END
NO_VALUE == -2        \* Heuristic::NO_VALUE

ASSUME EvaluationAssumption ==
  /\ PathDependent \in BOOLEAN
  /\ Estimates \in [States -> SUBSET (Nat \union {DEAD_END})]
  /\ \A s \in States : Estimates[s] # {}
  /\ GWeight \in Nat /\ HWeight \in Nat

VARIABLES
  heuristic_cache,    \* HEntry::h of every state
  dirty               \* the states whose HEntry is dirty

evalvars == <<heuristic_cache, dirty>>

EvaluationTypeOK ==
  /\ heuristic_cache \in [States -> Nat \union {DEAD_END, NO_VALUE}]
  /\ dirty \subseteq States

EvaluationInit ==
  /\ heuristic_cache = [s \in States |-> NO_VALUE]
  /\ dirty = {}

\* Heuristic::compute_result for s, answering v: the cached estimate unless it
\* is dirty.  The argument d is the set of dirty states when it is called.
Evaluate(s, d, v) ==
  /\ v \in IF heuristic_cache[s] # NO_VALUE /\ s \notin d
             THEN {heuristic_cache[s]} ELSE Estimates[s]
  /\ heuristic_cache' = [heuristic_cache EXCEPT ![s] = v]
  /\ dirty' = d \ {s}

\* LandmarkCountHeuristic::notify_state_transition: the dirty states after a
\* transition to t was reported.
NotifyTransition(t) == IF PathDependent THEN dirty \union {t} ELSE dirty

Key(cost, h) == GWeight * cost + HWeight * h

\* An admissible evaluator never answers more than the true distance, and
\* calls a state a dead end only if no goal can be reached from it.
Admissible ==
  \A s \in States : \A h \in Estimates[s] :
    IF h = DEAD_END THEN AdjustedGoalDistance[s] = Infinity
                    ELSE h <= AdjustedGoalDistance[s]

=============================================================================
