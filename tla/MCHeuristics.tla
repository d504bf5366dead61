--------------------------- MODULE MCHeuristics ---------------------------
(***************************************************************************)
(* The landmark status manager and the additive Cartesian abstractions on  *)
(* small tasks.  A behaviour uses one of them; the variables of the other  *)
(* keep their initial values.                                              *)
(***************************************************************************)
EXTENDS LandmarkStatusManager, CostSaturation

VARIABLE heuristic

vars == <<heuristic, lmvars, cegarvars, saturationvars>>

Init ==
  /\ heuristic \in {"landmarks", "cartesian"}
  /\ LandmarkInit /\ SaturationInit
  /\ heuristic = "landmarks" =>
       /\ subtasks = CHOOSE d \in Decompositions : TRUE
       /\ use_general_costs = CHOOSE b \in GeneralCosts : TRUE

UseLandmarks ==
  heuristic = "landmarks" /\ LandmarkStep /\ UNCHANGED <<heuristic, cegarvars, saturationvars>>
UseCartesian ==
  heuristic = "cartesian" /\ SaturationStep /\ UNCHANGED <<heuristic, lmvars>>

Next == UseLandmarks \/ UseCartesian

Spec == Init /\ [][Next]_vars

-----------------------------------------------------------------------------
(* Landmarks: states 3, 4 and 5, 3 form cycles, and the landmark 0 is true  *)
(* again behind the landmark 1.                                             *)

MCEdges == {<<1, 2>>, <<2, 3>>, <<2, 4>>, <<3, 4>>, <<4, 3>>, <<3, 5>>, <<5, 3>>, <<5, 6>>,
            <<6, 5>>, <<4, 1>>, <<6, 4>>}
MCTrueIn == [id \in 0..3 |-> CASE id = 0 -> {3, 5} [] id = 1 -> {5, 6} [] id = 2 -> {6}
                               [] id = 3 -> {2, 3}]
MCOrders == {<<3, 0>>, <<0, 1>>, <<1, 2>>}
MCGreedyNecessary == {<<0, 1>>, <<1, 2>>}

-----------------------------------------------------------------------------
(* Cartesian abstractions: a position, a key and a door.  The key is used   *)
(* up by the door it opens; where it is dropped it breaks, and without the  *)
(* door the goal is then lost.  Walking back and dropping are free.         *)

MCDirty == -1
MCInit == <<1, 0, 0>>
MCDomain == <<{1, 2, 3}, {0, 1, 2}, {0, 1}>>
MCPre == [walk |-> (1 :> 1), back |-> (1 :> 2), take |-> (1 :> 2) @@ (2 :> 0),
          open |-> (1 :> 2) @@ (2 :> 1), drop |-> (2 :> 1), enter |-> (1 :> 2) @@ (3 :> 1)]
MCEff == [walk |-> (1 :> 2), back |-> (1 :> 1), take |-> (2 :> 1),
          open |-> (2 :> 0) @@ (3 :> 1), drop |-> (2 :> 2), enter |-> (1 :> 3)]
MCCost == [walk |-> 1, back |-> 0, take |-> 1, open |-> 2, drop |-> 0, enter |-> 1]
MCGoal == (1 :> 3) @@ (2 :> 0)

\* The landmarks key and door and a goal fact, and the whole goal twice.
MCDecompositions == {<<(2 :> 1), (3 :> 1), (1 :> 3)>>, <<MCGoal, MCGoal>>}

=============================================================================
