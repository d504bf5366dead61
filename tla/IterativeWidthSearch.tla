----------------------- MODULE IterativeWidthSearch -----------------------
(***************************************************************************)
(* IterativeWidthSearch with its NoveltyTable: a breadth-first search that *)
(* keeps a generated state only if it contains a conjunction of at most    *)
(* width facts that no state had before.                                   *)
(*                                                                         *)
(* For a successor, the table looks only at the effects of the operator,   *)
(* without their conditions and without the facts that axioms derive.      *)
(***************************************************************************)
EXTENDS Expansion

CONSTANTS
  FactsOf,           \* the facts <<variable, value>> of a state
  EffectFacts,       \* the facts that the effects of an operator name
  Width              \* option width

ASSUME WidthAssumption ==
  /\ Width \in {1, 2}
  /\ \A s \in States : \A f1, f2 \in FactsOf[s] : f1[1] = f2[1] => f1 = f2

\* Every fact that becomes true is an effect of the operator.  A fact that an
\* axiom derives is none.
NoAxioms ==
  \A t \in Transitions : FactsOf[t[3]] \subseteq FactsOf[t[1]] \union EffectFacts[t[2]]

NoConditionalEffects == \A t \in Transitions : EffectFacts[t[2]] \subseteq FactsOf[t[3]]

VARIABLES
  iw_open,           \* the open list, a queue
  seen               \* seen_facts and seen_fact_pairs, as sets of facts

iwvars == <<iw_open, seen>>

allvars == <<ssvars, enginevars, evalvars, expansionvars, iwvars>>

IWInit == iw_open = <<>> /\ seen = {}

\* A fault: the pairs of a state are left out.
ConjunctionsSingle(s) == {{f} : f \in FactsOf[s]}

\* compute_novelty_and_update_table(state): the conjunctions it looks at.
Conjunctions(s) ==
  {{f} : f \in FactsOf[s]} \union
    (IF Width = 2 THEN {{p[1], p[2]} : p \in FactsOf[s] \X FactsOf[s]} ELSE {})

\* compute_novelty_and_update_table(op, succ_state): those with an effect.
EffectConjunctions(o, t) ==
  {{f} : f \in EffectFacts[o]} \union
    (IF Width = 2
       THEN {{p[1], p[2]} : p \in {q \in EffectFacts[o] \X FactsOf[t] : q[1][1] # q[2][1]}}
       ELSE {})

Novel(o, t) == ~(EffectConjunctions(o, t) \subseteq seen)

IWInitialize ==
  /\ search_status = "INITIALIZE"
  /\ search_status' = "IN_PROGRESS"
  /\ OpenInitial
  /\ iw_open' = <<InitialState>>
  /\ seen' = Conjunctions(InitialState)
  /\ UNCHANGED <<solution, expansionvars>>

IWFetching == search_status = "IN_PROGRESS" /\ node = NoState

IWOpenListEmpty ==
  /\ IWFetching
  /\ iw_open = <<>>
  /\ StepReturns("FAILED")
  /\ UNCHANGED <<ssvars, solution, expansionvars, iwvars>>

IWExpand ==
  /\ IWFetching
  /\ iw_open # <<>>
  /\ iw_open' = Tail(iw_open)
  /\ Close(Head(iw_open))
  /\ IF IsGoal(Head(iw_open))
       THEN SetPlan(Head(iw_open)) /\ StepReturns("SOLVED") /\ UNCHANGED expansionvars
       ELSE StartExpansion(Head(iw_open)) /\ UNCHANGED enginevars
  /\ UNCHANGED seen

IWCutsOff(o) == real_g[node] + Cost[o] >= Bound

\* SearchNode::open as it is without its assertion.
IWOpen(x) ==
  /\ status' = [status EXCEPT ![x[2]] = "OPEN"]
  /\ SetParent(x[2], node, x[1])
  /\ iw_open' = Append(iw_open, x[2])

IWGenerate(x) ==
  /\ NextOperator(x)
  /\ IF IWCutsOff(x[1])
       THEN UNCHANGED <<ssvars, iwvars>>
       ELSE /\ seen' = seen \union EffectConjunctions(x[1], x[2])
            /\ IF Novel(x[1], x[2]) THEN IWOpen(x) ELSE UNCHANGED <<ssvars, iw_open>>
  /\ UNCHANGED enginevars

IWStep ==
  /\ \/ IWInitialize \/ IWOpenListEmpty \/ IWExpand
     \/ \E x \in pending : IWGenerate(x)
     \/ EndExpansion /\ StepReturns("IN_PROGRESS") /\ UNCHANGED <<ssvars, solution, iwvars>>
  /\ UNCHANGED evalvars

IWNext == IWStep \/ (Finished /\ UNCHANGED allvars)

IWSpec ==
  /\ SSInit /\ EngineInit /\ EvaluationInit /\ ExpansionInit /\ IWInit
  /\ [][IWNext]_allvars

-----------------------------------------------------------------------------

\* "assert(succ_node.is_new())": a successor that passes the novelty test has
\* not been opened before, although the test looks at effects only and not at
\* the states.
NovelStatesAreNew ==
  \A x \in pending : ~IWCutsOff(x[1]) /\ Novel(x[1], x[2]) => status[x[2]] = "NEW"

\* Every fact, and for width 2 every pair of facts, of an opened state is in the
\* table, although only the conjunctions with an effect were put there.
OpenedFactsSeen == \A s \in States : status[s] # "NEW" => Conjunctions(s) \subseteq seen

=============================================================================
