-------------------------- MODULE PortfolioRunner --------------------------
(***************************************************************************)
(* The driver's sequential portfolios: portfolio_runner.run with its       *)
(* run_sat and run_opt, the PlanManager that keeps track of the plan files *)
(* and generate_portfolio_exitcode.                                        *)
(*                                                                         *)
(* An action is a run of the planner together with everything the driver   *)
(* does until it starts the next one.  The planner may do what module      *)
(* AnytimeSearch allows: write plans, each cheaper than the one before and *)
(* than its bound, and end by itself.  A search that does not minimise     *)
(* real costs may return a plan beyond its bound.  A run may also meet a   *)
(* limit or crash, and leave the file it was writing incomplete.           *)
(***************************************************************************)
EXTENDS Integers, Sequences, FiniteSets, SequencesExt

CONSTANTS
  PlanCosts,          \* the costs of the plans that the task has
  GeneralCost,        \* its problem type is "general cost"
  InitialStateIsGoal, \* the empty plan is a plan
  Portfolios,         \* what the portfolio file may define
  PortfolioBound,     \* option --portfolio-bound
  NoConfig,
  Incomplete,         \* a plan file without the line of its cost
  NoFile

\* anytime: the configuration is an iterated search and writes a numbered file
\* for each plan that it finds below its bound; cost_type: of its search, "one"
\* also for plusone; a placeholder stands for one until it is changed to normal.
Config == [anytime : BOOLEAN, cost_type : {"placeholder", "one", "normal"}]
CanChangeCostType(c) == c.cost_type = "placeholder"
MaybeConfig == Config \union {NoConfig}

Attributes == [CONFIGS : Seq(Config), OPTIMAL : BOOLEAN,
               FINAL_CONFIG : MaybeConfig, FINAL_CONFIG_BUILDER : MaybeConfig]

ASSUME PortfolioAssumption ==
  /\ PlanCosts \subseteq Nat /\ IsFiniteSet(PlanCosts)
  /\ {GeneralCost, InitialStateIsGoal} \subseteq BOOLEAN
  /\ InitialStateIsGoal => PlanCosts = {0}
  /\ Portfolios \subseteq Attributes
  /\ PortfolioBound \in Nat
  /\ NoConfig \notin Config
  /\ Incomplete \notin Nat /\ NoFile \notin Nat \union {Incomplete}

VARIABLES
  attributes,         \* the portfolio
  single_plan,        \* PlanManager._single_plan
  plan_costs,         \* PlanManager._plan_costs
  files,              \* the plan files with numbers, in order
  base_file,          \* the plan file without a number
  configs,
  pos,
  configs_next_round,
  changed_cost_types,
  final_config,
  pc,                 \* "loop", "rerun" (with real costs) or "final"
  exitcodes,          \* of the planner runs
  exitcode            \* of the driver, "RUNNING" until it ends

diskvars == <<plan_costs, files, base_file>>
runvars == <<configs, pos, configs_next_round, changed_cost_types, final_config, pc>>
vars == <<attributes, single_plan, diskvars, runvars, exitcodes, exitcode>>

\* The planner did not end by itself: it may have been writing a plan file.
Stopped == {"SEARCH_OUT_OF_MEMORY", "SEARCH_OUT_OF_TIME", "SEARCH_CRITICAL_ERROR", "SIGKILL"}

SearchExitCodes ==
  {"SUCCESS", "SEARCH_UNSOLVABLE", "SEARCH_UNSOLVED_INCOMPLETE"} \union Stopped

\* run_components.run_search starts by deleting the plans of earlier runs.
Init ==
  /\ attributes \in Portfolios
  /\ single_plan \in BOOLEAN
  /\ plan_costs = <<>> /\ files = <<>> /\ base_file = NoFile
  /\ configs = attributes.CONFIGS
  /\ pos = 1
  /\ configs_next_round = <<>>
  /\ changed_cost_types = FALSE
  /\ final_config = attributes.FINAL_CONFIG
  /\ pc = "loop"
  /\ exitcodes = {} /\ exitcode = "RUNNING"

-----------------------------------------------------------------------------
(***************************************************************************)
(* A run of the planner.                                                   *)
(***************************************************************************)

\* A fault: the bound stays the one that the user gave.
PortfolioBoundOnly == PortfolioBound

\* get_next_portfolio_cost_bound.
NextPortfolioCostBound == IF plan_costs = <<>> THEN PortfolioBound ELSE Last(plan_costs)

\* Optimal portfolios pass no bound to the planner.
InBound(cost) == attributes.OPTIMAL \/ cost < NextPortfolioCostBound

\* The run may return a plan beyond its bound: with cost type one, reopening
\* makes paths shorter but not cheaper (module EagerSearch), and a search from
\* a goal state does not look at its bound.
IgnoresBound(c) ==
  \/ InitialStateIsGoal
  \/ /\ GeneralCost
     /\ c.cost_type = "one" \/ (CanChangeCostType(c) /\ ~changed_cost_types)

\* The plans that a run of c may write, one at most unless c is anytime.  An
\* iterated search only writes those below its bound.
PlansOf(c) ==
  {s \in SeqOf(PlanCosts, IF c.anytime THEN Cardinality(PlanCosts) ELSE 1) :
     \A i \in DOMAIN s : /\ c.anytime \/ ~IgnoresBound(c) => InBound(s[i])
                         /\ i > 1 => s[i] < s[i-1]}

\* An iterated search is successful also if all its plans are beyond its bound.
MayEnd(c, code, plans) ==
  \/ code = "SUCCESS" /\ plans # <<>>
  \/ /\ code = "SUCCESS" /\ plans = <<>> /\ c.anytime /\ IgnoresBound(c)
     /\ \E cost \in PlanCosts : ~InBound(cost)
  \/ /\ code = "SEARCH_UNSOLVABLE" /\ plans = <<>>
     /\ ~InitialStateIsGoal /\ \A cost \in PlanCosts : ~InBound(cost)
  \/ code = "SEARCH_UNSOLVED_INCOMPLETE"
  \/ code \in Stopped

\* What a run of c that ends with this code may leave in its plan files.
Outputs(c, code) ==
  LET plans == {s \in PlansOf(c) : MayEnd(c, code, s)}
      cut == {[s EXCEPT ![Len(s)] = Incomplete] : s \in plans \ {<<>>}}
  IN  IF code \in Stopped THEN plans \union cut ELSE plans

\* The planner is told how many plans there are already and numbers its own
\* from there on, unless only one plan is wanted.
ContinuesNumbers == ~attributes.OPTIMAL /\ ~single_plan

\* A fault: the first number is always 1.
WrittenFromOne(c, output) == output \o SubSeq(files, Len(output) + 1, Len(files))

\* The numbered files after a run of c (PlanManager::save_plan).
Written(c, output) ==
  IF ContinuesNumbers THEN files \o output
  ELSE IF c.anytime THEN output \o SubSeq(files, Len(output) + 1, Len(files))
  ELSE files

WriteBaseFile(c, output) ==
  base_file' = IF ContinuesNumbers \/ c.anytime \/ output = <<>> THEN base_file ELSE output[1]

IsComplete(file) == file # Incomplete

\* The plan in this file is cheaper than the one before it, as far as the plan
\* manager knows that one.
Improves(disk, i) ==
  i = 1 \/ disk[i] < IF i - 1 \in DOMAIN plan_costs THEN plan_costs[i-1] ELSE disk[i-1]

IsNewPlan(disk, i) == IsComplete(disk[i]) /\ Improves(disk, i)

\* process_new_plans looks at the files behind those it knows and accepts the
\* plans up to this number.
AcceptedUpTo(disk) ==
  CHOOSE n \in Len(plan_costs)..Len(disk) :
    /\ \A i \in Len(plan_costs)+1..n : IsNewPlan(disk, i)
    /\ n < Len(disk) => ~IsNewPlan(disk, n + 1)

\* _plan_costs when process_new_plans has looked at them.
Costs(disk) == plan_costs \o SubSeq(disk, Len(plan_costs) + 1, AcceptedUpTo(disk))

\* A fault: the incomplete plan is not deleted.
KeepFiles(disk) == disk

RemainingFiles(disk) ==
  LET n == AcceptedUpTo(disk)
  IN  IF n < Len(disk) /\ ~IsComplete(disk[n+1])
        THEN SubSeq(disk, 1, n) \o SubSeq(disk, n + 2, Len(disk))
        ELSE disk

\* "plan quality has not improved" or "plan found after incomplete plan".
Bogus(disk) ==
  LET n == AcceptedUpTo(disk)
  IN  n < Len(disk) /\ (IsComplete(disk[n+1]) \/ n + 1 < Len(disk))

\* run_sat_config, when there is time left for it.
RunSatConfig(c, code, output) ==
  /\ WriteBaseFile(c, output)
  /\ LET disk == Written(c, output)
     IN  files' = RemainingFiles(disk) /\ plan_costs' = Costs(disk)
  /\ exitcodes' = exitcodes \union {code}

-----------------------------------------------------------------------------

\* No run was successful; the assertion fails if no configuration ran, or if
\* signals are all that it is given.
UnsuccessfulExitcode(codes) ==
  IF "SEARCH_CRITICAL_ERROR" \in codes THEN "SEARCH_CRITICAL_ERROR"
  ELSE IF "SEARCH_UNSOLVABLE" \in codes THEN "SEARCH_UNSOLVABLE"
  ELSE IF "SEARCH_UNSOLVED_INCOMPLETE" \in codes THEN "SEARCH_UNSOLVED_INCOMPLETE"
  ELSE IF {"SEARCH_OUT_OF_MEMORY", "SEARCH_OUT_OF_TIME"} \subseteq codes
    THEN "SEARCH_OUT_OF_MEMORY_AND_TIME"
  ELSE IF "SEARCH_OUT_OF_MEMORY" \in codes THEN "SEARCH_OUT_OF_MEMORY"
  ELSE IF "SEARCH_OUT_OF_TIME" \in codes THEN "SEARCH_OUT_OF_TIME"
  ELSE "AssertionError"

\* A fault: a run that proves the task unsolvable counts before one with a plan.
UnsolvableFirst(codes) ==
  IF "SUCCESS" \in codes /\ "SEARCH_UNSOLVABLE" \notin codes
    THEN "SUCCESS" ELSE UnsuccessfulExitcode(codes)

\* generate_portfolio_exitcode.
GeneratePortfolioExitcode(codes) ==
  IF "SUCCESS" \in codes THEN "SUCCESS" ELSE UnsuccessfulExitcode(codes)

Return == exitcode' = GeneratePortfolioExitcode(exitcodes')

Complain == exitcode' = "DRIVER_CRITICAL_ERROR" /\ UNCHANGED runvars

InRound(p) ==
  exitcode = "RUNNING" /\ ~attributes.OPTIMAL /\ pc = p /\ pos <= Len(configs)

\* After a successful run: build the final configuration, or go on.
AfterSuccess ==
  IF attributes.FINAL_CONFIG_BUILDER # NoConfig
    THEN final_config' = attributes.FINAL_CONFIG_BUILDER /\ pc' = "final" /\ pos' = pos
    ELSE pc' = "loop" /\ pos' = pos + 1 /\ UNCHANGED final_config

RunConfig ==
  /\ InRound("loop")
  /\ LET c == configs[pos]
     IN  \E code \in SearchExitCodes : \E output \in Outputs(c, code) :
           /\ RunSatConfig(c, code, output)
           /\ IF Bogus(Written(c, output)) THEN Complain
              ELSE IF code = "SEARCH_UNSOLVABLE" \/ (code = "SUCCESS" /\ single_plan)
                THEN Return /\ UNCHANGED runvars
              ELSE IF code # "SUCCESS"
                THEN /\ pos' = pos + 1
                     /\ UNCHANGED <<configs, configs_next_round, changed_cost_types,
                                    final_config, pc, exitcode>>
              ELSE IF ~changed_cost_types /\ CanChangeCostType(c) /\ plan_costs' = <<>>
                THEN Complain     \* "no plans found yet: cost type not set"
              ELSE
                /\ configs_next_round' = Append(configs_next_round, c)
                /\ IF ~changed_cost_types /\ CanChangeCostType(c) /\ GeneralCost
                     THEN /\ changed_cost_types' = TRUE
                          /\ pc' = "rerun"
                          /\ UNCHANGED <<pos, final_config>>
                     ELSE AfterSuccess /\ UNCHANGED changed_cost_types
                /\ UNCHANGED <<configs, exitcode>>
  /\ UNCHANGED <<attributes, single_plan>>

\* The successful configuration is run again with real costs.
RerunConfig ==
  /\ InRound("rerun")
  /\ LET c == configs[pos]
     IN  \E code \in SearchExitCodes : \E output \in Outputs(c, code) :
           /\ RunSatConfig(c, code, output)
           /\ IF Bogus(Written(c, output)) THEN Complain
              ELSE IF code = "SEARCH_UNSOLVABLE" THEN Return /\ UNCHANGED runvars
              ELSE /\ AfterSuccess
                   /\ UNCHANGED <<configs, configs_next_round, changed_cost_types, exitcode>>
  /\ UNCHANGED <<attributes, single_plan>>

\* run_sat_config returns None: less than a second is left for the run.
SkipConfig ==
  /\ InRound("loop")
  /\ pos' = pos + 1
  /\ UNCHANGED <<attributes, single_plan, diskvars, configs, configs_next_round,
                 changed_cost_types, final_config, pc, exitcodes, exitcode>>

SkipRerun ==
  /\ InRound("rerun")
  /\ exitcodes' = exitcodes /\ Return
  /\ UNCHANGED <<attributes, single_plan, diskvars, runvars>>

\* A fault: every configuration is run again.
AllConfigs == configs

\* Only the successful configurations are run in the next round.
NextConfigs == configs_next_round

\* The end of a round.
NextRound ==
  /\ exitcode = "RUNNING" /\ ~attributes.OPTIMAL /\ pc = "loop" /\ pos > Len(configs)
  /\ exitcodes' = exitcodes
  /\ IF final_config # NoConfig
       THEN pc' = "final" /\ UNCHANGED <<configs, pos, configs_next_round, exitcode>>
       ELSE /\ configs' = NextConfigs
            /\ pos' = 1
            /\ configs_next_round' = <<>>
            /\ IF configs' = <<>> THEN Return ELSE UNCHANGED exitcode
            /\ UNCHANGED pc
  /\ UNCHANGED <<attributes, single_plan, diskvars, changed_cost_types, final_config>>

RunFinalConfig ==
  /\ exitcode = "RUNNING" /\ pc = "final"
  /\ \E code \in SearchExitCodes : \E output \in Outputs(final_config, code) :
       /\ RunSatConfig(final_config, code, output)
       /\ IF Bogus(Written(final_config, output)) THEN Complain
                                                  ELSE Return /\ UNCHANGED runvars
  /\ UNCHANGED <<attributes, single_plan>>

SkipFinalConfig ==
  /\ exitcode = "RUNNING" /\ pc = "final"
  /\ exitcodes' = exitcodes /\ Return
  /\ UNCHANGED <<attributes, single_plan, diskvars, runvars>>

\* run_opt: the configurations one after the other, until one is conclusive.
RunOptConfig ==
  /\ exitcode = "RUNNING" /\ attributes.OPTIMAL /\ pos <= Len(configs)
  /\ LET c == configs[pos]
     IN  \E code \in SearchExitCodes : \E output \in Outputs(c, code) :
           /\ WriteBaseFile(c, output)
           /\ files' = Written(c, output)
           /\ exitcodes' = exitcodes \union {code}
           /\ IF code \in {"SUCCESS", "SEARCH_UNSOLVABLE"} THEN Return ELSE UNCHANGED exitcode
  /\ pos' = pos + 1
  /\ UNCHANGED <<attributes, single_plan, plan_costs, configs, configs_next_round,
                 changed_cost_types, final_config, pc>>

\* No time is left, or no configuration.
EndOpt ==
  /\ exitcode = "RUNNING" /\ attributes.OPTIMAL
  /\ exitcodes' = exitcodes /\ Return
  /\ UNCHANGED <<attributes, single_plan, diskvars, runvars>>

Step ==
  \/ RunConfig \/ SkipConfig
  \/ RerunConfig \/ SkipRerun
  \/ NextRound
  \/ RunFinalConfig \/ SkipFinalConfig
  \/ RunOptConfig \/ EndOpt

Finished == exitcode # "RUNNING"

\* The driver has exited.
Terminated == Finished /\ UNCHANGED vars

Next == Step \/ Terminated

\* The driver is one process; every planner run ends, at its time limit if
\* not before.
Spec == Init /\ [][Next]_vars /\ WF_vars(Step)

-----------------------------------------------------------------------------
(***************************************************************************)
(* Properties.                                                             *)
(***************************************************************************)

CompletePlans == (Range(files) \union {base_file}) \ {Incomplete, NoFile}

\* The configurations that the portfolio may run.
PortfolioConfigs ==
  (Range(attributes.CONFIGS)
     \union {attributes.FINAL_CONFIG, attributes.FINAL_CONFIG_BUILDER}) \ {NoConfig}

\* Some run of c may ignore its bound.
IsCarefree(c) == InitialStateIsGoal \/ (GeneralCost /\ c.cost_type # "normal")

\* Between the runs of a satisficing portfolio the plan files on disk are
\* those the plan manager knows of: complete, numbered without a gap, each
\* cheaper than the one before, however many runs were stopped while they were
\* writing a plan.  Only the last run of a portfolio that ends with a critical
\* error may leave a file that the plan manager did not accept.  The plans are
\* below the bound that the user gave unless a configuration that is not
\* anytime can ignore it.
PlansOnDisk ==
  ContinuesNumbers =>
    /\ base_file = NoFile
    /\ exitcode # "DRIVER_CRITICAL_ERROR" => files = plan_costs
    /\ Len(plan_costs) <= Len(files)
    /\ \A i \in DOMAIN plan_costs :
         /\ files[i] = plan_costs[i]
         /\ i > 1 => plan_costs[i] < plan_costs[i-1]
         /\ (\A c \in PortfolioConfigs : IsCarefree(c) => c.anytime) =>
              plan_costs[i] < PortfolioBound

CurrentConfig == IF pc = "final" THEN final_config ELSE configs[pos]

\* The driver gives up only after a run that may ignore its bound, whatever
\* was killed before: because the plan of that run is not cheaper than an
\* earlier one, or because an anytime run claims success without a plan.
BoundedRunsAreAccepted ==
  [][exitcode = "RUNNING" /\ exitcode' = "DRIVER_CRITICAL_ERROR" =>
       /\ IgnoresBound(CurrentConfig)
       /\ plan_costs = <<>> <=> CurrentConfig.anytime]_vars

\* The driver reports success if and only if a run was successful, unless its
\* plan manager complained.  There is a complete plan on disk then, except that
\* anytime runs which ignore their bound may find plans but write none.
\* Unsolvability is only reported if the task has no plan cheaper than those
\* that were found.
ExitcodeIsTrue ==
  /\ exitcode = "SUCCESS" =>
       CompletePlans # {} \/ \E c \in PortfolioConfigs : IsCarefree(c) /\ c.anytime
  /\ Finished /\ exitcode # "DRIVER_CRITICAL_ERROR" =>
       (exitcode = "SUCCESS" <=> "SUCCESS" \in exitcodes)
  /\ exitcode = "SEARCH_UNSOLVABLE" => \A cost \in PlanCosts : ~InBound(cost)

\* A complete plan file stays as it is, unless only one plan is wanted.
PlansAreKept ==
  [][ContinuesNumbers =>
       \A i \in DOMAIN files : i \in DOMAIN files' /\ files'[i] = files[i]]_vars

\* Round after round of the successful configurations comes to an end.
Termination == <>Finished

=============================================================================
