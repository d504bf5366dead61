-------------------------- MODULE MCOtherEngines --------------------------
(***************************************************************************)
(* The engines besides eager and lazy search on small tasks.  A behaviour  *)
(* runs one engine; the variables of the others keep their initial values. *)
(* The operators of a node are tried in every order.                       *)
(***************************************************************************)
EXTENDS TreeSearch, BreadthFirstSearch, IterativeWidthSearch, EnforcedHillClimbing

VARIABLE engine

vars == <<engine, allvars, treevars, brfsvars, ehcvars>>

Init ==
  /\ engine \in {"tree", "brfs", "iw", "ehc"}
  /\ SSInit /\ EngineInit /\ EvaluationInit /\ ExpansionInit
  /\ TreeInit /\ BrFSInit /\ IWInit /\ EHCInit
  /\ engine # "tree" => config = CHOOSE c \in Configs : TRUE

RunTree == engine = "tree" /\ TreeStep /\ UNCHANGED <<engine, expansionvars, brfsvars, iwvars, ehcvars>>
RunBrFS == engine = "brfs" /\ BrFSStep /\ UNCHANGED <<engine, treevars, iwvars, ehcvars>>
RunIW == engine = "iw" /\ IWStep /\ UNCHANGED <<engine, treevars, brfsvars, ehcvars>>
RunEHC ==
  engine = "ehc" /\ EHCStep /\ UNCHANGED <<engine, expansionvars, treevars, brfsvars, iwvars>>

Step == RunTree \/ RunBrFS \/ RunIW \/ RunEHC

Terminated == Finished /\ UNCHANGED vars

Next == Step \/ Terminated

\* One thread runs the search and nothing blocks it.
Spec == Init /\ [][Next]_vars /\ WF_vars(Step)

-----------------------------------------------------------------------------

MCStates == 1..5

\* An operator is named by the states it leads from and to.  The cheapest way to
\* the goal 5 takes four operators, the shortest and dearer ones three; cycles
\* lead from 4 back to 2 and to 1.  Whether iterated width search cuts off the way
\* to 5 depends on which of 2 and 3 it expands first.
MCOperators == {<<1, 2>>, <<1, 3>>, <<2, 3>>, <<2, 4>>, <<3, 4>>, <<4, 5>>, <<4, 2>>, <<4, 1>>}
MCTransitions == {<<o[1], o, o[2]>> : o \in MCOperators}
MCCost == [o \in MCOperators |-> CASE o = <<1, 3>> -> 3 [] o = <<2, 4>> -> 4
                                   [] o = <<4, 2>> -> 2
                                   [] o = <<4, 1>> -> 0
                                   [] OTHER -> 1]

MCEstimates ==
  [s \in MCStates |-> CASE s = 1 -> {1, DEAD_END} [] s = 2 -> {1, 3} [] s = 3 -> {0, 2}
                        [] s = 4 -> {0, 1, DEAD_END} [] s = 5 -> {0}]

\* The facts of two variables; the effects of an operator are what it changes.
MCFactsOf ==
  [s \in MCStates |-> CASE s = 1 -> {<<0, 0>>, <<1, 0>>} [] s = 2 -> {<<0, 1>>, <<1, 0>>}
                        [] s = 3 -> {<<0, 0>>, <<1, 1>>} [] s = 4 -> {<<0, 1>>, <<1, 1>>}
                        [] s = 5 -> {<<0, 1>>, <<1, 2>>}]
MCEffectFacts == [o \in MCOperators |-> MCFactsOf[o[2]] \ MCFactsOf[o[1]]]

\* <<4, 1>> has an effect on variable 1 besides, whose condition is false in 4.
MCConditionalEffects == [MCEffectFacts EXCEPT ![<<4, 1>>] = @ \union {<<1, 2>>}]

TreeConfig(e, bounds, limits, sizes) ==
  [engine : {e}, single_plan : BOOLEAN, bound : bounds, limit : limits, cache_size : sizes]

MCConfigs == TreeConfig("dfs", {4, 9}, {0}, {0})
               \union TreeConfig("ids", {3, 4}, {0}, {0})
               \union TreeConfig("idastar", {9}, {0}, {0, 1, 5})
               \union TreeConfig("idastar", {9}, {7}, {2})

=============================================================================
