------------------------ MODULE IteratedSearchProofs ------------------------
(***************************************************************************)
(* Theorems about IteratedSearch for every list of phases whose engines    *)
(* honour their bound and every choice of the other options.  Passing the  *)
(* bound on and a non-goal initial state are needed: without the one, a    *)
(* phase is repeated with its old bound, without the other, bounds are     *)
(* ignored.                                                                *)
(***************************************************************************)
EXTENDS IteratedSearch, TLAPS

ExactPhases ==
  /\ \A o \in Options : o.pass_bound
  /\ ~InitialIsGoal
  /\ \A i \in 1..Len(EngineConfigs) : EngineConfigs[i].honours_bound

\* The bound is the cost of the last plan saved, the three ways in which the
\* code remembers that it found a plan agree, and a phase that found a plan
\* was given a bound above the present one.
IteratedInv ==
  /\ options \in Options
  /\ phase \in Nat
  /\ iterated_found_solution \in BOOLEAN
  /\ saved_plans \in Seq(Nat)
  /\ best_bound \in Nat
  /\ best_bound = Anytime!BestBound
  /\ plan # NoPlan <=> saved_plans # <<>>
  /\ iterated_found_solution <=> saved_plans # <<>>
  /\ last_phase_found_solution => best_bound < last_run[2]

\* A phase that answers a plan below the bound makes it the new bound.
LEMMA PhaseStep ==
  ASSUME ExactPhases, IteratedInv, NEW i \in 1..Len(EngineConfigs), RunPhase(i)
  PROVE  /\ last_run' = <<i, best_bound>>
         /\ \/ /\ ~last_phase_found_solution'
               /\ UNCHANGED <<plan, saved_plans, best_bound, iterated_found_solution>>
               /\ StepReturns(StepReturnValue(FALSE))
            \/ \E p \in EngineConfigs[i].plans :
                 /\ p \in Nat /\ p < best_bound
                 /\ plan' = p
                 /\ saved_plans' = Append(saved_plans, p)
                 /\ best_bound' = p
                 /\ last_phase_found_solution' = TRUE
                 /\ iterated_found_solution' = TRUE
                 /\ StepReturns(StepReturnValue(TRUE))
<1>1. PICK answer \in Answers(EngineConfigs[i], best_bound) :
        /\ last_run' = <<i, best_bound>>
        /\ last_phase_found_solution' = (answer # NoPlan)
        /\ iterated_found_solution' = (iterated_found_solution \/ answer # NoPlan)
        /\ IF answer = NoPlan THEN UNCHANGED <<plan, saved_plans, best_bound>>
                              ELSE SavesIfBetter(answer)
        /\ StepReturns(StepReturnValue(answer # NoPlan))
  BY DEF RunPhase, PhaseBound, ExactPhases, IteratedInv
<1>2. CASE answer = NoPlan
  <2>1. StepReturns(StepReturnValue(FALSE)) /\ ~last_phase_found_solution'
    BY <1>1, <1>2
  <2>2. iterated_found_solution' = (iterated_found_solution \/ FALSE)
    BY <1>1, <1>2
  <2>3. iterated_found_solution' = iterated_found_solution
    <3>1. CASE iterated_found_solution
      BY <2>2, <3>1
    <3>2. CASE ~iterated_found_solution
      BY <2>2, <3>2 DEF IteratedInv
    <3> QED
      BY <3>1, <3>2
  <2> QED
    BY <1>1, <1>2, <2>1, <2>3
<1>3. CASE answer # NoPlan
  <2>1. answer \in EngineConfigs[i].plans /\ answer < best_bound
    BY <1>3 DEF Answers, ExactPhases
  <2>2. EngineConfigs[i] \in Config
    BY IteratedAssumption
  <2>3. answer \in Nat
    BY <2>1, <2>2 DEF Config
  <2>4. StepReturns(StepReturnValue(TRUE))
    BY <1>1, <1>3
  <2>5. /\ plan' = answer
        /\ saved_plans' = Append(saved_plans, answer)
        /\ best_bound' = answer
    BY <1>1, <1>3, <2>1 DEF SavesIfBetter
  <2>6. last_phase_found_solution' = TRUE /\ iterated_found_solution' = TRUE
    BY <1>1, <1>3
  <2> QED
    BY <1>1, <2>1, <2>3, <2>4, <2>5, <2>6
<1> QED
  BY <1>2, <1>3

LEMMA IteratedInvariant ==
  ASSUME ExactPhases
  PROVE  Spec => []IteratedInv
<1>1. Init => IteratedInv
  <2> SUFFICES ASSUME Init PROVE IteratedInv
    OBVIOUS
  <2>1. options \in Options /\ phase \in Nat /\ saved_plans \in Seq(Nat)
    BY DEF Init
  <2>2. best_bound \in Nat /\ best_bound = Anytime!BestBound
    BY IteratedAssumption DEF Init, Anytime!BestBound
  <2>3. /\ iterated_found_solution \in BOOLEAN
        /\ ~iterated_found_solution /\ ~last_phase_found_solution
    BY Zenon DEF Init
  <2>4. plan = NoPlan /\ saved_plans = <<>>
    BY DEF Init
  <2> QED
    BY <2>1, <2>2, <2>3, <2>4 DEF IteratedInv
<1>2. IteratedInv /\ [Next]_vars => IteratedInv'
  <2> SUFFICES ASSUME IteratedInv, [Next]_vars PROVE IteratedInv'
    OBVIOUS
  <2>1. CASE NoMorePhases
    BY <2>1 DEF NoMorePhases, IteratedInv, Anytime!BestBound
  <2>2. ASSUME NEW i \in 1..Len(EngineConfigs), RunPhase(i)
        PROVE  IteratedInv'
    <3>0. options' \in Options /\ phase' \in Nat
      BY <2>2, IteratedAssumption DEF RunPhase, IteratedInv
    <3>1. CASE ~last_phase_found_solution'
      BY <2>2, <3>0, <3>1, PhaseStep DEF IteratedInv, Anytime!BestBound
    <3>2. CASE last_phase_found_solution'
      <4>1. PICK p \in Nat :
              /\ p < best_bound
              /\ plan' = p
              /\ saved_plans' = Append(saved_plans, p)
              /\ best_bound' = p
              /\ iterated_found_solution' = TRUE
              /\ last_run' = <<i, best_bound>>
        BY <2>2, <3>2, PhaseStep
      <4>2. /\ saved_plans' \in Seq(Nat) /\ saved_plans' # <<>>
            /\ saved_plans'[Len(saved_plans')] = p
        BY <4>1 DEF IteratedInv
      <4>3. Anytime!BestBound' = p
        BY <4>2 DEF Anytime!BestBound, Last, Anytime!Last
      <4> QED
        BY <3>0, <4>1, <4>2, <4>3, IteratedAssumption DEF IteratedInv
    <3> QED
      BY <3>1, <3>2
  <2>3. CASE UNCHANGED vars
    BY <2>3 DEF vars, IteratedInv, Anytime!BestBound
  <2> QED
    BY <2>1, <2>2, <2>3 DEF Next, Step, Terminated
<1> QED
  BY <1>1, <1>2, PTL DEF Spec

\* The iterated search keeps the promise of an anytime planner: it saves ever
\* cheaper plans below its bound, and reports success only if it saved one.
THEOREM AnytimeTheorem ==
  ASSUME ExactPhases
  PROVE  Spec => ImplementsAnytime
<1> DEFINE Costs == UNION {EngineConfigs[i].plans : i \in 1..Len(EngineConfigs)} \union {0}
<1>1. Init => Anytime!AnyInit
  BY DEF Init, Anytime!AnyInit, ExitCode
<1>2. IteratedInv /\ [Next]_vars => [Anytime!AnyNext]_(Anytime!anyvars)
  <2> SUFFICES ASSUME IteratedInv, [Next]_vars
               PROVE  [Anytime!AnyNext]_(Anytime!anyvars)
    OBVIOUS
  <2>1. CASE NoMorePhases
    <3>1. ExitCode = "RUNNING" /\ UNCHANGED saved_plans
      BY <2>1 DEF NoMorePhases, ExitCode
    <3>2. Anytime!MayEndWith(ExitCode', saved_plans)
      BY <2>1 DEF NoMorePhases, StepReturns, ExitCode, Anytime!MayEndWith, IteratedInv
    <3> QED
      BY <3>1, <3>2 DEF Anytime!AnyNext, Anytime!End
  <2>2. ASSUME NEW i \in 1..Len(EngineConfigs), RunPhase(i)
        PROVE  [Anytime!AnyNext]_(Anytime!anyvars)
    <3>1. ExitCode = "RUNNING"
      BY <2>2 DEF RunPhase, ExitCode
    <3>2. CASE ~last_phase_found_solution'
      <4>1. UNCHANGED saved_plans /\ StepReturns(StepReturnValue(FALSE))
        BY <2>2, <3>2, PhaseStep
      <4>2. ExitCode' = "RUNNING" \/ Anytime!MayEndWith(ExitCode', saved_plans)
        BY <4>1 DEF StepReturns, StepReturnValue, ExitCode, Anytime!MayEndWith, IteratedInv
      <4> QED
        BY <3>1, <4>1, <4>2 DEF Anytime!AnyNext, Anytime!End, Anytime!anyvars
    <3>3. CASE last_phase_found_solution'
      <4>1. PICK p \in EngineConfigs[i].plans :
              /\ p \in Nat /\ p < best_bound
              /\ saved_plans' = Append(saved_plans, p)
              /\ StepReturns(StepReturnValue(TRUE))
        BY <2>2, <3>3, PhaseStep
      <4>2. saved_plans' # <<>>
        BY <4>1 DEF IteratedInv
      <4>3. ExitCode' = "RUNNING" \/ Anytime!MayEndWith(ExitCode', saved_plans')
        BY <4>1, <4>2 DEF StepReturns, StepReturnValue, ExitCode, Anytime!MayEndWith
      <4>4. p \in Costs /\ p < Anytime!BestBound
        BY <4>1 DEF IteratedInv
      <4> QED
        BY <3>1, <4>1, <4>3, <4>4 DEF Anytime!AnyNext, Anytime!SavePlan
    <3> QED
      BY <3>2, <3>3
  <2>3. CASE UNCHANGED vars
    BY <2>3 DEF vars, ExitCode, Anytime!anyvars
  <2> QED
    BY <2>1, <2>2, <2>3 DEF Next, Step, Terminated
<1> QED
  BY <1>1, <1>2, IteratedInvariant, PTL DEF Spec, ImplementsAnytime, Anytime!AnySpec

\* With such phases, repeat_last never repeats a phase with the same bound.
THEOREM NoFutileRepeatTheorem ==
  ASSUME ExactPhases
  PROVE  Spec => NoFutileRepeat
<1> DEFINE A == \A i \in 1..Len(EngineConfigs) :
                  RunPhase(i) /\ phase >= Len(EngineConfigs) => last_run' # last_run
<1>1. IteratedInv /\ [Next]_vars => [A]_vars
  <2> SUFFICES ASSUME IteratedInv, NEW i \in 1..Len(EngineConfigs), RunPhase(i),
                      phase >= Len(EngineConfigs)
               PROVE  last_run' # last_run
    OBVIOUS
  <2>1. last_phase_found_solution
    <3>1. ~(phase < Len(EngineConfigs))
      BY IteratedAssumption DEF IteratedInv
    <3>2. i \in CurrentPhases
      BY DEF RunPhase
    <3> QED
      BY <3>1, <3>2, Zenon DEF CurrentPhases, RepeatsLast
  <2>2. best_bound < last_run[2] /\ best_bound \in Nat
    BY <2>1 DEF IteratedInv
  <2>3. last_run' = <<i, best_bound>>
    BY PhaseStep
  <2> QED
    BY <2>2, <2>3
<1> QED
  BY <1>1, IteratedInvariant, PTL DEF Spec, NoFutileRepeat

=============================================================================
