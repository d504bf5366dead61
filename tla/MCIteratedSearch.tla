------------------------- MODULE MCIteratedSearch -------------------------
(***************************************************************************)
(* IteratedSearch with four phases on a task with plans of many costs, one *)
(* of them free, the first phases finding only the dear ones.  The second  *)
(* phase searches with a cost type that lets it exceed its bound.          *)
(* The search repeats its last phase, stops at a phase that fails, or runs *)
(* all phases with bounds of their own.                                    *)
(***************************************************************************)
EXTENDS IteratedSearch

Exact(costs) == [plans |-> costs, bound |-> 9, honours_bound |-> TRUE]

Inexact(costs) == [plans |-> costs, bound |-> 9, honours_bound |-> FALSE]

MCConfigs == <<Exact({6, 7, 8}), Inexact(4..8), Exact(2..8), Exact(0..8)>>

AllOn == [pass_bound |-> TRUE, repeat_last |-> TRUE,
          continue_on_fail |-> TRUE, continue_on_solve |-> TRUE]

MCOptions ==
  {AllOn, [AllOn EXCEPT !.continue_on_fail = FALSE],
   [AllOn EXCEPT !.pass_bound = FALSE, !.repeat_last = FALSE]}

=============================================================================
