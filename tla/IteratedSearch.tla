--------------------------- MODULE IteratedSearch ---------------------------
(***************************************************************************)
(* IteratedSearch, with the part of PlanManager that numbers the plans.    *)
(* The engine of a phase is known by what it can answer for a bound: the   *)
(* cost of the plan it returns or no plan, as EagerSearch and LazySearch   *)
(* establish.  A step of this module is a call of step().                  *)
(***************************************************************************)
EXTENDS Integers, Sequences, SequencesExt

CONSTANTS
  EngineConfigs,      \* one record per phase: what its engine can do
  Bound,              \* the option bound of the iterated search
  Options,            \* the combinations of the other options
  InitialIsGoal,      \* the initial state is a goal state
  NoPlan

\* plans: the costs of the plans that the engine may return; bound: its own
\* option; honours_bound: it never returns a plan that is not below its bound.
Config == [plans : SUBSET Nat, bound : Nat, honours_bound : BOOLEAN]

ASSUME IteratedAssumption ==
  /\ EngineConfigs \in Seq(Config) /\ EngineConfigs # <<>>
  /\ Bound \in Nat
  /\ Options \subseteq [pass_bound : BOOLEAN, repeat_last : BOOLEAN,
                         continue_on_fail : BOOLEAN, continue_on_solve : BOOLEAN]
  /\ InitialIsGoal \in BOOLEAN
  /\ NoPlan \notin Nat

VARIABLES
  options,            \* those the search was given, never changed
  search_status,
  phase,              \* not counted beyond the number of phases
  last_phase_found_solution,
  iterated_found_solution,
  best_bound,
  plan,               \* the cost of the plan that set_plan() was given
  saved_plans,        \* the costs of the plans that save_plan() wrote
  last_run,           \* history: the phase run last and the bound it was given
  odd                 \* history: whether the number of runs is odd, so that a
                      \* run that repeats the last one is no stuttering step

vars == <<options, search_status, phase, last_phase_found_solution,
          iterated_found_solution, best_bound, plan, saved_plans, last_run, odd>>

Init ==
  /\ options \in Options
  /\ search_status = "IN_PROGRESS"
  /\ phase = 0
  /\ last_phase_found_solution = FALSE
  /\ iterated_found_solution = FALSE
  /\ best_bound = Bound
  /\ plan = NoPlan
  /\ saved_plans = <<>>
  /\ last_run = <<0, 0>>
  /\ odd = FALSE

-----------------------------------------------------------------------------

\* What the engine of configuration c can answer when it has the bound b.  The
\* engines test for a goal before they look at the bound, so that the empty
\* plan is returned whatever the bound is.
Answers(c, b) ==
  IF InitialIsGoal THEN {0}
  ELSE {NoPlan} \union {p \in c.plans : c.honours_bound => p < b}

\* search() in SearchEngine: the timer may have expired during the step.
StepReturns(result) == search_status' \in {result, "TIMEOUT"}

\* A fault: the last phase is repeated whether or not it found a solution.
RepeatsAlways == phase >= Len(EngineConfigs) /\ options.repeat_last

\* All phases are done and the last one is run again.
RepeatsLast ==
  phase >= Len(EngineConfigs) /\ options.repeat_last /\ last_phase_found_solution

\* create_current_phase: the phases, counted from 1, that can be run now.
CurrentPhases ==
  IF phase < Len(EngineConfigs) THEN {phase + 1}
  ELSE IF RepeatsLast THEN {Len(EngineConfigs)} ELSE {}

NoMorePhases ==
  /\ search_status = "IN_PROGRESS"
  /\ CurrentPhases = {}
  /\ StepReturns(IF plan # NoPlan THEN "SOLVED" ELSE "FAILED")
  /\ UNCHANGED <<options, phase, last_phase_found_solution, iterated_found_solution,
                 best_bound, plan, saved_plans, last_run, odd>>

\* A fault: every plan is saved.
SavesAlways(p) == plan' = p /\ saved_plans' = Append(saved_plans, p) /\ best_bound' = p

\* A phase returned a plan of cost p.
SavesIfBetter(p) ==
  IF p < best_bound
    THEN /\ plan' = p
         /\ saved_plans' = Append(saved_plans, p)
         /\ best_bound' = p
    ELSE UNCHANGED <<plan, saved_plans, best_bound>>

\* step_return_value, after a phase that found a solution or did not.
StepReturnValue(found) ==
  IF IF found THEN options.continue_on_solve ELSE options.continue_on_fail
    THEN "IN_PROGRESS"
    ELSE IF found \/ iterated_found_solution THEN "SOLVED" ELSE "FAILED"

\* A fault: the bound is not passed on.
OwnBound(i) == EngineConfigs[i].bound

\* The bound of the engine of phase i.
PhaseBound(i) == IF options.pass_bound THEN best_bound ELSE EngineConfigs[i].bound

RunPhase(i) ==
  /\ search_status = "IN_PROGRESS"
  /\ i \in CurrentPhases
  /\ LET bound == PhaseBound(i)
     IN  \E answer \in Answers(EngineConfigs[i], bound) :
           /\ last_run' = <<i, bound>>
           /\ odd' = ~odd
           /\ last_phase_found_solution' = (answer # NoPlan)
           /\ iterated_found_solution' = (iterated_found_solution \/ answer # NoPlan)
           /\ IF answer = NoPlan THEN UNCHANGED <<plan, saved_plans, best_bound>>
                                 ELSE SavesIfBetter(answer)
           /\ StepReturns(StepReturnValue(answer # NoPlan))
  /\ phase' = IF phase < Len(EngineConfigs) THEN phase + 1 ELSE phase
  /\ UNCHANGED options

Step == NoMorePhases \/ \E i \in 1..Len(EngineConfigs) : RunPhase(i)

Finished == search_status # "IN_PROGRESS"

Terminated == Finished /\ UNCHANGED vars

Next == Step \/ Terminated

Spec == Init /\ [][Next]_vars /\ WF_vars(Step)

-----------------------------------------------------------------------------
(***************************************************************************)
(* Properties.                                                             *)
(***************************************************************************)

\* The exit code that planner.cc derives from the status of the engine.
ExitCode ==
  CASE search_status = "IN_PROGRESS" -> "RUNNING"
    [] search_status = "SOLVED" -> "SUCCESS"
    [] OTHER -> "SEARCH_UNSOLVED_INCOMPLETE"

\* The plans come out in the order an anytime planner promises, and success is
\* only reported when there is a plan.
Anytime == INSTANCE AnytimeSearch WITH
  Costs <- UNION {EngineConfigs[i].plans : i \in 1..Len(EngineConfigs)} \union {0},
  exit_code <- ExitCode

ImplementsAnytime == Anytime!AnySpec

\* A phase is not run again with the bound it had before: without a better
\* plan it "would just behave the same way again".
NoFutileRepeat ==
  [][\A i \in 1..Len(EngineConfigs) :
       RunPhase(i) /\ phase >= Len(EngineConfigs) => last_run' # last_run]_vars

\* However often the last phase is repeated, the search comes to an end.
Termination == <>Finished

=============================================================================
