--------------------------- MODULE AnytimeSearch ---------------------------
(***************************************************************************)
(* What one run of the planner promises to whoever started it: it writes   *)
(* plan files one after the other, each plan cheaper than the one before   *)
(* and all of them cheaper than the bound it was given, and it ends with   *)
(* an exit code that says whether it wrote any.  IteratedSearch implements *)
(* this specification; the driver's portfolios rely on it.                 *)
(***************************************************************************)
EXTENDS Integers, Sequences, SequencesExt

CONSTANTS
  Costs,          \* the costs that plans can have
  Bound           \* the bound on the cost of plans, exclusive

VARIABLES
  saved_plans,    \* the costs of the plans written so far
  exit_code       \* "RUNNING" until the planner ends

anyvars == <<saved_plans, exit_code>>

AnyInit == saved_plans = <<>> /\ exit_code = "RUNNING"

\* What the cost of the next plan has to stay below.
BestBound == IF saved_plans = <<>> THEN Bound ELSE Last(saved_plans)

\* The exit codes of utils/system.h that a planner ends with by itself.
\* UNSOLVED_INCOMPLETE may also hide the plans that were found: a search that
\* runs into its max_time reports it in any case.
MayEndWith(code, plans) ==
  \/ code = "SUCCESS" /\ plans # <<>>
  \/ code = "SEARCH_UNSOLVED_INCOMPLETE"

SavePlan ==
  /\ exit_code = "RUNNING"
  /\ \E c \in Costs : c < BestBound /\ saved_plans' = Append(saved_plans, c)
  /\ exit_code' = "RUNNING" \/ MayEndWith(exit_code', saved_plans')

End ==
  /\ exit_code = "RUNNING"
  /\ MayEndWith(exit_code', saved_plans)
  /\ UNCHANGED saved_plans

AnyNext == SavePlan \/ End

AnySpec == AnyInit /\ [][AnyNext]_anyvars

=============================================================================
