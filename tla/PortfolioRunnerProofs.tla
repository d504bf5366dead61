----------------------- MODULE PortfolioRunnerProofs -----------------------
(***************************************************************************)
(* Theorems about PortfolioRunner for every task, every set of portfolios  *)
(* and every way in which the runs of the planner may end.                 *)
(***************************************************************************)
EXTENDS PortfolioRunner, SequenceTheorems, TLAPS

FileContents == Nat \union {Incomplete}

\* The types of the portfolio's state and the two modes of run_sat.
RunInv ==
  /\ attributes \in Portfolios /\ single_plan \in BOOLEAN
  /\ configs \in Seq(PortfolioConfigs) /\ configs_next_round \in Seq(PortfolioConfigs)
  /\ pos \in Nat \ {0}
  /\ changed_cost_types \in BOOLEAN
  /\ final_config \in PortfolioConfigs \union {NoConfig}
  /\ pc \in {"loop", "rerun", "final"}
  /\ pc = "final" => final_config # NoConfig
  /\ pc = "rerun" => changed_cost_types /\ ~single_plan
  /\ attributes.OPTIMAL => pc = "loop"

\* What the plan manager knows of the files of a satisficing portfolio: all of
\* them until it complains, and the files themselves if the planner continues
\* their numbers.  It accepts cheaper plans only.
DiskInv ==
  /\ plan_costs \in Seq(Nat)
  /\ files \in Seq(FileContents)
  /\ base_file \in FileContents \union {NoFile}
  /\ attributes.OPTIMAL => plan_costs = <<>>
  /\ Len(plan_costs) <= Len(files)
  /\ ~attributes.OPTIMAL /\ exitcode # "DRIVER_CRITICAL_ERROR" => Len(files) = Len(plan_costs)
  /\ \A i \in 1..Len(plan_costs) :
       /\ ContinuesNumbers => files[i] = plan_costs[i]
       /\ i > 1 => plan_costs[i] < plan_costs[i-1]
  /\ ContinuesNumbers => base_file = NoFile

PortfolioInv == RunInv /\ DiskInv

\* No run of c writes a plan beyond its bound.
KeepsBound(c) == c.anytime \/ ~IgnoresBound(c)

\* A successful run of c has written a plan.
WritesPlans(c) == ~c.anytime \/ ~IgnoresBound(c)

LEMMA PortfolioConfigsProperties ==
  ASSUME attributes \in Portfolios
  PROVE  /\ PortfolioConfigs \subseteq Config
         /\ NoConfig \notin PortfolioConfigs
         /\ attributes.CONFIGS \in Seq(PortfolioConfigs)
         /\ attributes.FINAL_CONFIG \in PortfolioConfigs \union {NoConfig}
         /\ attributes.FINAL_CONFIG_BUILDER \in PortfolioConfigs \union {NoConfig}
<1>1. /\ attributes.CONFIGS \in Seq(Config)
      /\ attributes.FINAL_CONFIG \in Config \union {NoConfig}
      /\ attributes.FINAL_CONFIG_BUILDER \in Config \union {NoConfig}
      /\ NoConfig \notin Config
  BY PortfolioAssumption DEF Attributes, MaybeConfig
<1> DEFINE list == attributes.CONFIGS
<1>2. \A i \in 1..Len(list) : list[i] \in Config
  BY <1>1, ElementOfSeq
<1>3. \A i \in 1..Len(list) : list[i] \in PortfolioConfigs
  BY <1>1, <1>2 DEF PortfolioConfigs, Range
<1>4. list \in Seq(PortfolioConfigs)
  BY <1>1, <1>3
<1>5. Range(list) \subseteq Config
  BY <1>1, <1>2 DEF Range
<1> QED
  BY <1>1, <1>4, <1>5 DEF PortfolioConfigs

-----------------------------------------------------------------------------
(***************************************************************************)
(* What a run of the planner leaves on disk.                               *)
(***************************************************************************)

\* Every plan file of a run is complete but for the last one, each plan is
\* cheaper than the one before.
LEMMA OutputProperties ==
  ASSUME NEW c \in Config, NEW code \in SearchExitCodes, NEW output \in Outputs(c, code)
  PROVE  /\ output \in Seq(FileContents)
         /\ \A i \in 1..Len(output) :
              /\ i < Len(output) => output[i] \in Nat
              /\ output[i] # Incomplete =>
                   /\ output[i] \in PlanCosts
                   /\ KeepsBound(c) => InBound(output[i])
                   /\ i > 1 => output[i] < output[i-1]
         /\ code = "SUCCESS" =>
              /\ WritesPlans(c) => output # <<>>
              /\ \A i \in 1..Len(output) : output[i] \in Nat
         /\ code = "SEARCH_UNSOLVABLE" =>
              output = <<>> /\ \A cost \in PlanCosts : ~InBound(cost)
<1>0. PlanCosts \subseteq Nat /\ Incomplete \notin Nat
  BY PortfolioAssumption
<1> DEFINE plans == {s \in PlansOf(c) : MayEnd(c, code, s)}
<1>1. ASSUME NEW s \in plans
      PROVE  /\ s \in Seq(PlanCosts)
             /\ \A i \in 1..Len(s) : /\ s[i] \in PlanCosts
                                     /\ KeepsBound(c) => InBound(s[i])
                                     /\ i > 1 => s[i] < s[i-1]
             /\ code = "SUCCESS" /\ WritesPlans(c) => s # <<>>
             /\ code = "SEARCH_UNSOLVABLE" => s = <<>> /\ \A cost \in PlanCosts : ~InBound(cost)
  <2>1. PICK m : s \in [1..m -> PlanCosts] /\ m \in Nat
    <3>1. \E k : s \in SeqOf(PlanCosts, k)
      BY DEF PlansOf
    <3> QED
      BY <3>1 DEF SeqOf
  <2>2. s \in Seq(PlanCosts) /\ Len(s) = m /\ DOMAIN s = 1..m
    BY <2>1
  <2>3. /\ code = "SUCCESS" /\ WritesPlans(c) => s # <<>>
        /\ code = "SEARCH_UNSOLVABLE" => s = <<>> /\ \A cost \in PlanCosts : ~InBound(cost)
    BY DEF MayEnd, Stopped, WritesPlans
  <2> QED
    BY <2>1, <2>2, <2>3 DEF PlansOf, KeepsBound
<1>2. CASE output \in plans
  BY <1>0, <1>1, <1>2, SeqMonotonic DEF FileContents
<1>3. CASE output \notin plans
  <2>1. /\ code \in Stopped
        /\ \E s \in plans \ {<<>>} : output = [s EXCEPT ![Len(s)] = Incomplete]
    BY <1>3 DEF Outputs
  <2>2. PICK s \in plans : s # <<>> /\ output = [s EXCEPT ![Len(s)] = Incomplete]
    BY <2>1
  <2>3. s \in Seq(FileContents) /\ s \in Seq(PlanCosts) /\ Len(s) \in Nat \ {0}
    BY <1>0, <1>1, <2>2, SeqMonotonic, EmptySeq DEF FileContents
  <2>4. /\ output \in Seq(FileContents) /\ Len(output) = Len(s)
        /\ \A i \in 1..Len(s) : output[i] = IF i = Len(s) THEN Incomplete ELSE s[i]
    <3>1. Len(s) \in 1..Len(s) /\ Incomplete \in FileContents
      BY <2>3 DEF FileContents
    <3> QED
      BY <3>1, <2>2, <2>3, ExceptSeq
  <2>5. code # "SUCCESS" /\ code # "SEARCH_UNSOLVABLE"
    BY <2>1 DEF Stopped
  <2>6. ASSUME NEW i \in 1..Len(output)
        PROVE  /\ i < Len(output) => output[i] \in Nat
               /\ output[i] # Incomplete =>
                    /\ output[i] \in PlanCosts
                    /\ KeepsBound(c) => InBound(output[i])
                    /\ i > 1 => output[i] < output[i-1]
    <3>1. CASE i = Len(s)
      BY <3>1, <2>4, <2>3
    <3>2. CASE i # Len(s)
      <4>1. i \in 1..Len(s) /\ output[i] = s[i]
        BY <3>2, <2>3, <2>4
      <4>2. i > 1 => i - 1 \in 1..Len(s) /\ output[i-1] = s[i-1]
        BY <3>2, <2>3, <2>4
      <4> QED
        BY <1>0, <1>1, <4>1, <4>2
    <3> QED
      BY <3>1, <3>2
  <2> QED
    BY <2>4, <2>5, <2>6
<1> QED
  BY <1>2, <1>3

\* The files on disk after the run: those behind the known ones are output
\* of the run, in order and to its end.
LEMMA WrittenProperties ==
  ASSUME PortfolioInv, NEW c \in Config, NEW code \in SearchExitCodes,
         NEW output \in Outputs(c, code), NEW disk, disk = Written(c, output)
  PROVE  /\ disk \in Seq(FileContents) /\ Len(disk) >= Len(files)
         /\ \A i \in Len(files)+1..Len(disk) :
              /\ i < Len(disk) => disk[i] \in Nat
              /\ code = "SUCCESS" => disk[i] \in Nat
              /\ disk[i] # Incomplete =>
                   /\ disk[i] \in PlanCosts
                   /\ KeepsBound(c) => InBound(disk[i])
                   /\ i > Len(files) + 1 => disk[i] < disk[i-1]
         /\ ContinuesNumbers => disk = files \o output
         /\ output = <<>> => disk = files
         /\ ~ContinuesNumbers /\ c.anytime /\ output # <<>> =>
              1 \in 1..Len(disk) /\ disk[1] = output[1]
<1> DEFINE k == Len(files)
<1>1. files \in Seq(FileContents) /\ output \in Seq(FileContents) /\ k \in Nat /\ Len(output) \in Nat
  BY OutputProperties DEF PortfolioInv, DiskInv
<1>2. CASE ContinuesNumbers
  <2>1. disk = files \o output
    BY <1>2 DEF Written
  <2>2. /\ disk \in Seq(FileContents) /\ Len(disk) = k + Len(output)
        /\ \A i \in k+1..k+Len(output) : i - k \in 1..Len(output) /\ disk[i] = output[i-k]
    <3>1. /\ disk \in Seq(FileContents) /\ Len(disk) = k + Len(output)
          /\ \A i \in 1..k+Len(output) : disk[i] = IF i <= k THEN files[i] ELSE output[i-k]
      BY <1>1, <2>1, ConcatProperties
    <3> QED
      BY <1>1, <3>1
  <2>3. ASSUME NEW i \in k+1..Len(disk)
        PROVE  /\ i < Len(disk) => disk[i] \in Nat
               /\ code = "SUCCESS" => disk[i] \in Nat
               /\ disk[i] # Incomplete =>
                    /\ disk[i] \in PlanCosts
                    /\ KeepsBound(c) => InBound(disk[i])
                    /\ i > k + 1 => disk[i] < disk[i-1]
    <3>1. i - k \in 1..Len(output) /\ disk[i] = output[i-k]
      BY <2>2
    <3>2. i > k + 1 => i - k > 1 /\ disk[i-1] = output[(i-k)-1]
      <4>1. i > k + 1 => i - 1 \in k+1..k+Len(output) /\ (i - 1) - k = (i - k) - 1
        BY <1>1, <2>2
      <4> QED
        BY <1>1, <2>2, <4>1
    <3>3. i < Len(disk) => i - k < Len(output)
      BY <1>1, <2>2
    <3> QED
      BY <3>1, <3>2, <3>3, OutputProperties
  <2>4. output = <<>> => disk = files
    BY <1>1, <2>1, ConcatEmptySeq
  <2> QED
    BY <1>1, <1>2, <2>1, <2>2, <2>3, <2>4
<1>3. CASE ~ContinuesNumbers /\ ~c.anytime
  <2>1. disk = files
    BY <1>3 DEF Written
  <2> QED
    BY <1>1, <1>3, <2>1
<1>4. CASE ~ContinuesNumbers /\ c.anytime
  <2> DEFINE rest == SubSeq(files, Len(output) + 1, k)
  <2>1. disk = output \o rest
    BY <1>4 DEF Written
  <2>2. /\ rest \in Seq(FileContents)
        /\ Len(rest) = IF Len(output) + 1 <= k THEN k - Len(output) ELSE 0
        /\ \A i \in 1..k-Len(output) : rest[i] = files[Len(output)+i]
    <3>1. \A i \in Len(output)+1..k : files[i] \in FileContents
      BY <1>1, ElementOfSeq
    <3>2. Len(output) + 1 \in Int /\ k \in Int
      BY <1>1
    <3>3. /\ rest \in Seq(FileContents)
          /\ Len(rest) = IF Len(output) + 1 <= k THEN k - (Len(output) + 1) + 1 ELSE 0
          /\ \A i \in 1..k-(Len(output)+1)+1 : rest[i] = files[(Len(output)+1)+i-1]
      BY <3>1, <3>2, SubSeqProperties
    <3> QED
      BY <1>1, <3>3
  <2>3. /\ disk \in Seq(FileContents)
        /\ Len(disk) = IF Len(output) <= k THEN k ELSE Len(output)
        /\ \A i \in 1..Len(output) : i \in 1..Len(disk) /\ disk[i] = output[i]
    <3>1. /\ disk \in Seq(FileContents) /\ Len(disk) = Len(output) + Len(rest)
          /\ \A i \in 1..Len(output)+Len(rest) :
               disk[i] = IF i <= Len(output) THEN output[i] ELSE rest[i-Len(output)]
      BY <1>1, <2>1, <2>2, ConcatProperties
    <3> QED
      BY <1>1, <2>2, <3>1
  <2>4. output = <<>> => disk = files
    <3>1. output = <<>> => rest = files
      BY <1>1, SubSeqFull
    <3> QED
      BY <1>1, <2>1, <3>1, ConcatEmptySeq
  <2>5. ASSUME NEW i \in k+1..Len(disk)
        PROVE  /\ i < Len(disk) => disk[i] \in Nat
               /\ code = "SUCCESS" => disk[i] \in Nat
               /\ disk[i] # Incomplete =>
                    /\ disk[i] \in PlanCosts
                    /\ KeepsBound(c) => InBound(disk[i])
                    /\ i > k + 1 => disk[i] < disk[i-1]
    <3>1. i \in 1..Len(output) /\ disk[i] = output[i] /\ Len(disk) = Len(output)
      BY <1>1, <2>3
    <3>2. i > k + 1 => i > 1 /\ disk[i-1] = output[i-1]
      BY <1>1, <2>3, <3>1
    <3> QED
      BY <3>1, <3>2, OutputProperties
  <2>6. output # <<>> => 1 \in 1..Len(output)
    BY <1>1
  <2> QED
    BY <1>1, <1>4, <2>3, <2>4, <2>5, <2>6
<1> QED
  BY <1>2, <1>3, <1>4

\* The plan manager stops at the last file if it is incomplete, or at the
\* first one if its plan is not cheaper than the last known one.
LEMMA AcceptedUpToProperties ==
  ASSUME PortfolioInv, ~attributes.OPTIMAL, exitcode = "RUNNING",
         NEW disk \in Seq(FileContents), Len(disk) >= Len(plan_costs),
         \A i \in Len(plan_costs)+1..Len(disk) :
           /\ i < Len(disk) => disk[i] \in Nat
           /\ disk[i] # Incomplete /\ i > Len(plan_costs) + 1 => disk[i] < disk[i-1]
  PROVE  LET k == Len(plan_costs)
             n == AcceptedUpTo(disk)
         IN  /\ n \in k..Len(disk)
             /\ \A i \in k+1..n : disk[i] \in Nat /\ Improves(disk, i)
             /\ n < Len(disk) =>
                  \/ n + 1 = Len(disk) /\ disk[n+1] = Incomplete
                  \/ /\ n = k /\ k \in Nat \ {0} /\ disk[k+1] \in Nat
                     /\ ~(disk[k+1] < plan_costs[k])
<1> DEFINE k == Len(plan_costs)
           isEnd(m) == /\ \A i \in k+1..m : IsNewPlan(disk, i)
                       /\ m < Len(disk) => ~IsNewPlan(disk, m + 1)
<1>1. /\ Incomplete \notin Nat /\ k \in Nat /\ Len(disk) \in Nat /\ Len(disk) >= k
      /\ DOMAIN plan_costs = 1..k
  BY PortfolioAssumption DEF PortfolioInv, DiskInv
<1>2. \A i \in 1..Len(disk) : disk[i] \in Nat \union {Incomplete}
  BY ElementOfSeq DEF FileContents
<1>3. ASSUME NEW i \in k+1..Len(disk), disk[i] # Incomplete, i > k + 1
      PROVE  IsNewPlan(disk, i)
  <2>1. disk[i] < disk[i-1] /\ i - 1 \notin 1..k
    BY <1>1, <1>3
  <2> QED
    BY <1>1, <1>3, <2>1 DEF IsNewPlan, IsComplete, Improves
<1>4. \E m \in k..Len(disk) : isEnd(m)
  <2>1. CASE Len(disk) = k \/ ~IsNewPlan(disk, k + 1)
    <3>1. k \in k..Len(disk) /\ k+1..k = {}
      BY <1>1
    <3>2. isEnd(k)
      BY <1>1, <2>1, <3>1
    <3> QED
      BY <3>1, <3>2
  <2>2. CASE Len(disk) > k /\ IsNewPlan(disk, k + 1) /\ disk[Len(disk)] = Incomplete
    <3>1. /\ Len(disk) - 1 \in k..Len(disk) /\ (Len(disk) - 1) + 1 = Len(disk)
          /\ k + 1 < Len(disk)
      BY <1>1, <2>2 DEF IsNewPlan, IsComplete
    <3>2. ~IsNewPlan(disk, Len(disk))
      BY <2>2 DEF IsNewPlan, IsComplete
    <3>3. ASSUME NEW i \in k+1..Len(disk)-1 PROVE IsNewPlan(disk, i)
      <4>1. i \in k+1..Len(disk) /\ i < Len(disk) /\ disk[i] # Incomplete
        BY <1>1
      <4>2. i = k + 1 \/ i > k + 1
        BY <1>1
      <4> QED
        BY <1>3, <2>2, <4>1, <4>2
    <3>4. isEnd(Len(disk) - 1)
      BY <3>1, <3>2, <3>3
    <3> QED
      BY <3>1, <3>4
  <2>3. CASE Len(disk) > k /\ IsNewPlan(disk, k + 1) /\ disk[Len(disk)] # Incomplete
    <3>1. Len(disk) \in k..Len(disk)
      BY <1>1
    <3>2. ASSUME NEW i \in k+1..Len(disk) PROVE IsNewPlan(disk, i)
      <4>1. disk[i] # Incomplete
        BY <1>1, <2>3
      <4>2. i = k + 1 \/ i > k + 1
        BY <1>1
      <4> QED
        BY <1>3, <2>3, <4>1, <4>2
    <3>3. isEnd(Len(disk))
      BY <1>1, <3>2
    <3> QED
      BY <3>1, <3>3
  <2> QED
    BY <1>1, <2>1, <2>2, <2>3
<1> DEFINE n == AcceptedUpTo(disk)
<1>5. n \in k..Len(disk) /\ isEnd(n)
  BY <1>4 DEF AcceptedUpTo
<1> HIDE DEF n
<1>6. ASSUME NEW i \in k+1..n PROVE disk[i] \in Nat /\ Improves(disk, i)
  <2>1. IsNewPlan(disk, i) /\ i \in 1..Len(disk)
    BY <1>1, <1>5
  <2> QED
    BY <1>2, <2>1 DEF IsNewPlan, IsComplete
<1>7. ASSUME n < Len(disk), disk[n+1] = Incomplete PROVE n + 1 = Len(disk)
  <2>1. n + 1 \in k+1..Len(disk)
    BY <1>1, <1>5, <1>7
  <2> QED
    BY <1>1, <1>7, <2>1
<1>8. ASSUME n < Len(disk), disk[n+1] # Incomplete
      PROVE  /\ n = k /\ k \in Nat \ {0} /\ disk[k+1] \in Nat
             /\ ~(disk[k+1] < plan_costs[k])
  <2>1. n + 1 \in k+1..Len(disk) /\ n + 1 \in 1..Len(disk) /\ n \in Nat
    BY <1>1, <1>5, <1>8
  <2>2. n = k
    <3>1. ASSUME n # k PROVE FALSE
      <4>0. n \in k..Len(disk) /\ k \in Nat /\ n \in Nat
        BY <1>1, <1>5, <2>1
      <4>1. n + 1 > k + 1
        <5> HIDE DEF k
        <5> QED
          BY <3>1, <4>0
      <4>2. IsNewPlan(disk, n + 1)
        BY <1>3, <1>8, <2>1, <4>1
      <4> QED
        BY <1>5, <1>8, <4>2
    <3> QED
      BY <3>1
  <2>3. disk[k+1] \in Nat
    BY <1>2, <1>8, <2>1, <2>2
  <2>4. ~Improves(disk, k + 1)
    BY <1>5, <1>8, <2>2 DEF IsNewPlan, IsComplete
  <2>5. k # 0 /\ (k + 1) - 1 = k /\ k \in 1..k
    BY <1>1, <2>4 DEF Improves
  <2>6. ~(disk[k+1] < plan_costs[k])
    BY <1>1, <2>4, <2>5 DEF Improves
  <2> QED
    BY <1>1, <2>2, <2>3, <2>5, <2>6
<1> QED
  BY <1>5, <1>6, <1>7, <1>8 DEF n

\* A run of run_sat_config: what becomes of the files and of what the plan
\* manager knows.
LEMMA SatRun ==
  ASSUME PortfolioInv, ~attributes.OPTIMAL, exitcode = "RUNNING",
         NEW c \in Config, NEW code \in SearchExitCodes,
         NEW output \in Outputs(c, code), RunSatConfig(c, code, output)
  PROVE  /\ plan_costs' \in Seq(Nat) /\ Len(plan_costs') >= Len(plan_costs)
         /\ \A i \in 1..Len(plan_costs) : plan_costs'[i] = plan_costs[i]
         /\ \A i \in Len(plan_costs)+1..Len(plan_costs') :
              /\ plan_costs'[i] \in PlanCosts
              /\ KeepsBound(c) => InBound(plan_costs'[i])
              /\ i > 1 => plan_costs'[i] < plan_costs'[i-1]
         /\ files' \in Seq(FileContents) /\ Len(files') >= Len(plan_costs')
         /\ ~Bogus(Written(c, output)) => Len(files') = Len(plan_costs')
         /\ base_file' \in FileContents \union {NoFile}
         /\ ContinuesNumbers =>
              /\ base_file' = NoFile
              /\ \A i \in 1..Len(plan_costs') : files'[i] = plan_costs'[i]
         /\ code = "SUCCESS" /\ WritesPlans(c) => /\ ContinuesNumbers => plan_costs' # <<>>
                                                  /\ CompletePlans' # {}
         /\ code = "SEARCH_UNSOLVABLE" =>
              plan_costs' = plan_costs /\ \A cost \in PlanCosts : ~InBound(cost)
         /\ Bogus(Written(c, output)) => ~KeepsBound(c) /\ plan_costs # <<>>
<1> DEFINE disk == Written(c, output)
           k == Len(plan_costs)
           n == AcceptedUpTo(disk)
<1>0. /\ Incomplete \notin Nat /\ NoFile \notin Nat \union {Incomplete}
      /\ plan_costs \in Seq(Nat) /\ files \in Seq(FileContents)
      /\ Len(files) = k /\ k \in Nat
      /\ base_file \in FileContents \union {NoFile}
      /\ \A i \in 1..k : plan_costs[i] \in Nat
  BY PortfolioAssumption, ElementOfSeq DEF PortfolioInv, DiskInv
<1>1. /\ disk \in Seq(FileContents) /\ Len(disk) >= k /\ Len(disk) \in Nat
      /\ \A i \in k+1..Len(disk) :
           /\ i < Len(disk) => disk[i] \in Nat
           /\ code = "SUCCESS" => disk[i] \in Nat
           /\ disk[i] # Incomplete =>
                /\ disk[i] \in PlanCosts
                /\ KeepsBound(c) => InBound(disk[i])
                /\ i > k + 1 => disk[i] < disk[i-1]
      /\ ContinuesNumbers => disk = files \o output
      /\ output = <<>> => disk = files
      /\ ~ContinuesNumbers /\ c.anytime /\ output # <<>> =>
           1 \in 1..Len(disk) /\ disk[1] = output[1]
  BY <1>0, WrittenProperties
<1>2. /\ n \in k..Len(disk)
      /\ \A i \in k+1..n : disk[i] \in Nat /\ Improves(disk, i)
      /\ n < Len(disk) =>
           \/ n + 1 = Len(disk) /\ disk[n+1] = Incomplete
           \/ /\ n = k /\ k \in Nat \ {0} /\ disk[k+1] \in Nat
              /\ ~(disk[k+1] < plan_costs[k])
  BY <1>0, <1>1, AcceptedUpToProperties
<1>3. plan_costs' = plan_costs \o SubSeq(disk, k + 1, n)
  BY DEF RunSatConfig, Costs
<1>4. files' = IF n < Len(disk) /\ disk[n+1] = Incomplete
                 THEN SubSeq(disk, 1, n) \o SubSeq(disk, n + 2, Len(disk)) ELSE disk
  BY DEF RunSatConfig, RemainingFiles, IsComplete
<1>5. base_file' = IF ContinuesNumbers \/ c.anytime \/ output = <<>> THEN base_file ELSE output[1]
  BY DEF RunSatConfig, WriteBaseFile
<1>b. Bogus(disk) <=> n < Len(disk) /\ disk[n+1] # Incomplete
  BY <1>0, <1>1, <1>2 DEF Bogus, IsComplete
<1> HIDE DEF disk, n
<1>6. /\ plan_costs' \in Seq(Nat) /\ Len(plan_costs') = n
      /\ \A i \in 1..n : plan_costs'[i] = IF i <= k THEN plan_costs[i] ELSE disk[i]
  <2>1. k + 1 \in Int /\ n \in Int
    BY <1>0, <1>2
  <2>2. /\ SubSeq(disk, k + 1, n) \in Seq(Nat)
        /\ Len(SubSeq(disk, k + 1, n)) = IF k + 1 <= n THEN n - (k + 1) + 1 ELSE 0
        /\ \A i \in 1..n-(k+1)+1 : SubSeq(disk, k + 1, n)[i] = disk[(k+1)+i-1]
    BY <1>2, <2>1, SubSeqProperties
  <2>3. Len(SubSeq(disk, k + 1, n)) = n - k
    BY <1>0, <1>2, <2>1, <2>2
  <2>4. /\ plan_costs' \in Seq(Nat) /\ Len(plan_costs') = k + (n - k)
        /\ \A i \in 1..k+(n-k) : plan_costs'[i] = IF i <= k THEN plan_costs[i]
                                                  ELSE SubSeq(disk, k + 1, n)[i-k]
    BY <1>0, <1>3, <2>2, <2>3, ConcatProperties
  <2>5. ASSUME NEW i \in k+1..n PROVE SubSeq(disk, k + 1, n)[i-k] = disk[i]
    <3>1. i - k \in 1..n-(k+1)+1 /\ (k + 1) + (i - k) - 1 = i
      BY <1>0, <2>1
    <3> QED
      BY <2>2, <3>1
  <2> QED
    BY <1>0, <1>2, <2>4, <2>5
<1>7. /\ files' \in Seq(FileContents) /\ Len(files') >= n
      /\ ~Bogus(disk) => Len(files') = n
      /\ code = "SUCCESS" => files' = disk
      /\ \A i \in 1..n : files'[i] = disk[i]
  <2>1. CASE n < Len(disk) /\ disk[n+1] = Incomplete
    <3>0. n + 1 = Len(disk) /\ n \in Nat /\ n + 1 \in k+1..Len(disk)
      BY <1>0, <1>1, <1>2, <2>1
    <3>1. SubSeq(disk, n + 2, Len(disk)) = <<>>
      BY <1>1, <3>0, SubSeqEmpty
    <3>2. \A i \in 1..n : disk[i] \in FileContents
      BY <1>1, <3>0, ElementOfSeq
    <3>3. /\ SubSeq(disk, 1, n) \in Seq(FileContents)
          /\ Len(SubSeq(disk, 1, n)) = IF 1 <= n THEN n - 1 + 1 ELSE 0
          /\ \A i \in 1..n-1+1 : SubSeq(disk, 1, n)[i] = disk[1+i-1]
      <4>1. n \in Int /\ 1 \in Int
        BY <3>0
      <4> QED
        BY <3>2, <4>1, SubSeqProperties
    <3>4. files' = SubSeq(disk, 1, n)
      BY <1>4, <2>1, <3>1, <3>3, ConcatEmptySeq
    <3>5. code # "SUCCESS"
      BY <1>0, <1>1, <2>1, <3>0
    <3> QED
      BY <3>0, <3>3, <3>4, <3>5
  <2>2. CASE ~(n < Len(disk) /\ disk[n+1] = Incomplete)
    <3>1. files' = disk
      BY <1>4, <2>2
    <3>2. ~Bogus(disk) => n = Len(disk)
      BY <1>b, <1>0, <1>1, <1>2, <2>2
    <3> QED
      BY <1>0, <1>1, <1>2, <3>1, <3>2
  <2> QED
    BY <2>1, <2>2
<1>8. /\ \A i \in 1..k : plan_costs'[i] = plan_costs[i]
      /\ \A i \in k+1..n :
           /\ plan_costs'[i] \in PlanCosts
           /\ KeepsBound(c) => InBound(plan_costs'[i])
           /\ i > 1 => plan_costs'[i] < plan_costs'[i-1]
  <2>1. \A i \in 1..k : plan_costs'[i] = plan_costs[i]
    BY <1>0, <1>2, <1>6
  <2>2. ASSUME NEW i \in k+1..n
        PROVE  /\ plan_costs'[i] \in PlanCosts
               /\ KeepsBound(c) => InBound(plan_costs'[i])
               /\ i > 1 => plan_costs'[i] < plan_costs'[i-1]
    <3>1. i \in k+1..Len(disk) /\ disk[i] # Incomplete /\ Improves(disk, i)
      BY <1>0, <1>1, <1>2
    <3>2. plan_costs'[i] = disk[i]
      BY <1>0, <1>2, <1>6
    <3>3. i > 1 => plan_costs'[i] < plan_costs'[i-1]
      <4>1. SUFFICES ASSUME i > 1 PROVE plan_costs'[i] < plan_costs'[i-1]
        OBVIOUS
      <4>2. i - 1 \in 1..n /\ DOMAIN plan_costs = 1..k
        BY <1>0, <1>2, <4>1
      <4>3. plan_costs'[i-1] = IF i - 1 \in DOMAIN plan_costs THEN plan_costs[i-1] ELSE disk[i-1]
        BY <1>0, <1>2, <1>6, <4>2
      <4> QED
        BY <3>1, <3>2, <4>1, <4>3 DEF Improves
    <3> QED
      BY <1>1, <3>1, <3>2, <3>3
  <2> QED
    BY <2>1, <2>2
<1>9. ContinuesNumbers =>
        base_file' = NoFile /\ \A i \in 1..n : files'[i] = plan_costs'[i]
  <2>1. SUFFICES ASSUME ContinuesNumbers
                 PROVE  base_file' = NoFile /\ \A i \in 1..n : files'[i] = plan_costs'[i]
    OBVIOUS
  <2>2. base_file = NoFile /\ \A i \in 1..k : files[i] = plan_costs[i]
    BY <2>1 DEF PortfolioInv, DiskInv
  <2>3. \A i \in 1..k : disk[i] = plan_costs[i]
    <3>1. output \in Seq(FileContents)
      BY OutputProperties
    <3>2. \A i \in 1..Len(files)+Len(output) :
            disk[i] = IF i <= Len(files) THEN files[i] ELSE output[i-Len(files)]
      BY <1>0, <1>1, <2>1, <3>1, ConcatProperties
    <3>3. Len(output) \in Nat
      BY <3>1
    <3> QED
      BY <1>0, <2>2, <3>2, <3>3
  <2>4. \A i \in 1..n : files'[i] = plan_costs'[i]
    BY <1>0, <1>2, <1>6, <1>7, <2>3
  <2> QED
    BY <1>5, <2>1, <2>2, <2>4
<1>10. base_file' \in FileContents \union {NoFile}
  <2>1. output # <<>> => output[1] \in FileContents
    BY OutputProperties
  <2> QED
    BY <1>0, <1>5, <2>1
<1>11. ASSUME code = "SUCCESS", WritesPlans(c)
       PROVE  (ContinuesNumbers => plan_costs' # <<>>) /\ CompletePlans' # {}
  <2>1. /\ output \in Seq(FileContents) /\ output # <<>> /\ Len(output) \in Nat \ {0}
        /\ output[1] \in Nat
    <3>1. output \in Seq(FileContents) /\ output # <<>>
      BY <1>11, OutputProperties
    <3>2. Len(output) \in Nat \ {0} /\ 1 \in 1..Len(output)
      BY <3>1, EmptySeq
    <3> QED
      BY <1>11, <3>1, <3>2, OutputProperties
  <2>2. CASE ContinuesNumbers
    <3>1. Len(disk) = k + Len(output)
      <4>1. Len(files \o output) = Len(files) + Len(output)
        BY <1>0, <2>1, ConcatProperties
      <4> QED
        BY <1>0, <1>1, <2>2, <4>1
    <3>2. n >= 1
      <4>1. CASE n = Len(disk)
        BY <1>0, <2>1, <3>1, <4>1
      <4>2. CASE n < Len(disk)
        <5>1. n + 1 \in k+1..Len(disk) /\ disk[n+1] # Incomplete
          <6>1. n + 1 \in k+1..Len(disk)
            BY <1>0, <1>1, <1>2, <4>2
          <6> QED
            BY <1>0, <1>1, <1>11, <6>1
        <5> QED
          BY <1>0, <1>2, <4>2, <5>1
      <4> QED
        BY <1>1, <1>2, <4>1, <4>2
    <3>3. plan_costs' # <<>> /\ 1 \in DOMAIN files' /\ files'[1] \in Nat
      <4>1. 1 \in 1..n /\ plan_costs'[1] \in Nat /\ plan_costs' # <<>>
        <5>1. 1 \in 1..n /\ 1 \in 1..Len(plan_costs')
          BY <1>0, <1>1, <1>2, <1>6, <3>2
        <5> QED
          BY <1>6, <5>1, ElementOfSeq
      <4>2. 1 \in DOMAIN files'
        <5>1. files' \in Seq(FileContents) /\ Len(files') >= n /\ n \in Nat
          BY <1>0, <1>1, <1>2, <1>7
        <5>2. 1 \in 1..Len(files') /\ DOMAIN files' = 1..Len(files')
          BY <3>2, <5>1
        <5> QED
          BY <5>2
      <4> QED
        BY <1>9, <2>2, <4>1, <4>2
    <3>4. files'[1] \in Range(files')
      BY <3>3 DEF Range
    <3> QED
      BY <1>0, <3>3, <3>4 DEF CompletePlans
  <2>3. CASE ~ContinuesNumbers /\ c.anytime
    <3>1. 1 \in DOMAIN files' /\ files'[1] = output[1]
      BY <1>1, <1>7, <1>11, <2>1, <2>3
    <3>2. files'[1] \in Range(files')
      BY <3>1 DEF Range
    <3> QED
      BY <1>0, <2>1, <2>3, <3>1, <3>2 DEF CompletePlans
  <2>4. CASE ~ContinuesNumbers /\ ~c.anytime
    <3>1. base_file' = output[1]
      BY <1>5, <2>1, <2>4
    <3> QED
      BY <1>0, <2>1, <2>4, <3>1 DEF CompletePlans
  <2> QED
    BY <2>2, <2>3, <2>4
<1>12. ASSUME code = "SEARCH_UNSOLVABLE"
       PROVE  plan_costs' = plan_costs /\ \A cost \in PlanCosts : ~InBound(cost)
  <2>1. output = <<>> /\ \A cost \in PlanCosts : ~InBound(cost)
    BY <1>12, OutputProperties
  <2>2. n = k
    BY <1>0, <1>1, <1>2, <2>1
  <2>3. \A i \in 1..k : plan_costs'[i] = plan_costs[i]
    BY <1>8
  <2>4. plan_costs' = plan_costs
    BY <1>0, <1>6, <2>2, <2>3, SeqEqual
  <2> QED
    BY <2>1, <2>4
<1>13. ASSUME Bogus(disk) PROVE ~KeepsBound(c) /\ plan_costs # <<>>
  <2>1. /\ n = k /\ k \in Nat \ {0} /\ disk[k+1] \in Nat /\ k + 1 \in k+1..Len(disk)
        /\ disk[k+1] # Incomplete /\ ~(disk[k+1] < plan_costs[k])
    BY <1>b, <1>0, <1>1, <1>2, <1>13
  <2>2. plan_costs # <<>> /\ Last(plan_costs) = plan_costs[k]
    BY <1>0, <2>1 DEF Last
  <2>3. ASSUME KeepsBound(c) PROVE FALSE
    <3>1. InBound(disk[k+1])
      BY <1>1, <2>1, <2>3
    <3>2. disk[k+1] < Last(plan_costs)
      BY <2>2, <3>1 DEF InBound, NextPortfolioCostBound
    <3> QED
      BY <2>1, <2>2, <3>2
  <2> QED
    BY <2>2, <2>3
<1> QED
  BY <1>2, <1>0, <1>6, <1>7, <1>8, <1>9, <1>10, <1>11, <1>12, <1>13 DEF disk

-----------------------------------------------------------------------------
(***************************************************************************)
(* The steps of the portfolio.                                             *)
(***************************************************************************)

\* A run that continues the portfolio without changing it.
RunEnds == Return /\ UNCHANGED runvars

\* What a step of run_sat's loop does after its run of the planner.
LEMMA RunConfigCases ==
  ASSUME PortfolioInv, RunConfig
  PROVE  /\ ~attributes.OPTIMAL /\ pc = "loop" /\ pos \in 1..Len(configs)
         /\ configs[pos] \in PortfolioConfigs /\ configs[pos] \in Config
         /\ exitcode = "RUNNING"
         /\ UNCHANGED <<attributes, single_plan>>
         /\ \E code \in SearchExitCodes : \E output \in Outputs(configs[pos], code) :
              /\ RunSatConfig(configs[pos], code, output)
              /\ \/ Bogus(Written(configs[pos], output)) /\ Complain
                 \/ /\ ~Bogus(Written(configs[pos], output)) /\ Complain
                    /\ plan_costs = <<>> /\ ~WritesPlans(configs[pos])
                 \/ /\ ~Bogus(Written(configs[pos], output))
                    /\ RunEnds /\ (code = "SEARCH_UNSOLVABLE" \/ (code = "SUCCESS" /\ single_plan))
                 \/ /\ ~Bogus(Written(configs[pos], output))
                    /\ code \notin {"SUCCESS", "SEARCH_UNSOLVABLE"}
                    /\ pos' = pos + 1
                    /\ UNCHANGED <<configs, configs_next_round, changed_cost_types,
                                   final_config, pc, exitcode>>
                 \/ /\ ~Bogus(Written(configs[pos], output))
                    /\ code = "SUCCESS" /\ ~single_plan
                    /\ configs_next_round' = Append(configs_next_round, configs[pos])
                    /\ changed_cost_types' = TRUE /\ pc' = "rerun"
                    /\ UNCHANGED <<pos, final_config, configs, exitcode>>
                 \/ /\ ~Bogus(Written(configs[pos], output))
                    /\ code = "SUCCESS" /\ ~single_plan
                    /\ configs_next_round' = Append(configs_next_round, configs[pos])
                    /\ AfterSuccess
                    /\ UNCHANGED <<changed_cost_types, configs, exitcode>>
<1>1. /\ ~attributes.OPTIMAL /\ pc = "loop" /\ pos \in 1..Len(configs)
      /\ configs[pos] \in PortfolioConfigs /\ configs[pos] \in Config
      /\ exitcode = "RUNNING" /\ UNCHANGED <<attributes, single_plan>>
  <2>1. ~attributes.OPTIMAL /\ pc = "loop" /\ pos \in 1..Len(configs) /\ exitcode = "RUNNING"
    BY DEF RunConfig, InRound, PortfolioInv, RunInv
  <2>2. configs[pos] \in PortfolioConfigs /\ configs[pos] \in Config
    BY <2>1, ElementOfSeq, PortfolioConfigsProperties DEF PortfolioInv, RunInv
  <2>3. UNCHANGED <<attributes, single_plan>>
    BY DEF RunConfig
  <2> QED
    BY <2>1, <2>2, <2>3
<1> DEFINE c == configs[pos]
<1>2. PICK code \in SearchExitCodes : \E output \in Outputs(c, code) :
        /\ RunSatConfig(c, code, output)
        /\ IF Bogus(Written(c, output)) THEN Complain
           ELSE IF code = "SEARCH_UNSOLVABLE" \/ (code = "SUCCESS" /\ single_plan)
             THEN RunEnds
           ELSE IF code # "SUCCESS"
             THEN /\ pos' = pos + 1
                  /\ UNCHANGED <<configs, configs_next_round, changed_cost_types,
                                 final_config, pc, exitcode>>
           ELSE IF ~changed_cost_types /\ CanChangeCostType(c) /\ plan_costs' = <<>>
             THEN Complain
           ELSE
             /\ configs_next_round' = Append(configs_next_round, c)
             /\ IF ~changed_cost_types /\ CanChangeCostType(c) /\ GeneralCost
                  THEN /\ changed_cost_types' = TRUE
                       /\ pc' = "rerun"
                       /\ UNCHANGED <<pos, final_config>>
                  ELSE AfterSuccess /\ UNCHANGED changed_cost_types
             /\ UNCHANGED <<configs, exitcode>>
  BY Zenon DEF RunConfig, RunEnds
<1>3. PICK output \in Outputs(c, code) :
        /\ RunSatConfig(c, code, output)
        /\ IF Bogus(Written(c, output)) THEN Complain
           ELSE IF code = "SEARCH_UNSOLVABLE" \/ (code = "SUCCESS" /\ single_plan)
             THEN RunEnds
           ELSE IF code # "SUCCESS"
             THEN /\ pos' = pos + 1
                  /\ UNCHANGED <<configs, configs_next_round, changed_cost_types,
                                 final_config, pc, exitcode>>
           ELSE IF ~changed_cost_types /\ CanChangeCostType(c) /\ plan_costs' = <<>>
             THEN Complain
           ELSE
             /\ configs_next_round' = Append(configs_next_round, c)
             /\ IF ~changed_cost_types /\ CanChangeCostType(c) /\ GeneralCost
                  THEN /\ changed_cost_types' = TRUE
                       /\ pc' = "rerun"
                       /\ UNCHANGED <<pos, final_config>>
                  ELSE AfterSuccess /\ UNCHANGED changed_cost_types
             /\ UNCHANGED <<configs, exitcode>>
  BY <1>2
<1>4. code = "SUCCESS" /\ ~single_plan /\ plan_costs' = <<>> =>
        plan_costs = <<>> /\ ~WritesPlans(c)
  <2>1. /\ code = "SUCCESS" /\ WritesPlans(c) /\ ContinuesNumbers => plan_costs' # <<>>
        /\ Len(plan_costs') >= Len(plan_costs) /\ plan_costs \in Seq(Nat)
    BY <1>1, <1>3, SatRun DEF PortfolioInv, DiskInv
  <2>2. plan_costs' = <<>> => plan_costs = <<>>
    BY <2>1
  <2> QED
    BY <1>1, <2>1, <2>2 DEF ContinuesNumbers
<1> HIDE DEF c
<1> DEFINE bogus == Bogus(Written(c, output))
<1>5. \/ bogus /\ Complain
      \/ ~bogus /\ Complain /\ plan_costs = <<>> /\ ~WritesPlans(c)
      \/ ~bogus /\ RunEnds /\ (code = "SEARCH_UNSOLVABLE" \/ (code = "SUCCESS" /\ single_plan))
      \/ /\ ~bogus /\ code \notin {"SUCCESS", "SEARCH_UNSOLVABLE"}
         /\ pos' = pos + 1
         /\ UNCHANGED <<configs, configs_next_round, changed_cost_types,
                        final_config, pc, exitcode>>
      \/ /\ ~bogus /\ code = "SUCCESS" /\ ~single_plan
         /\ configs_next_round' = Append(configs_next_round, c)
         /\ changed_cost_types' = TRUE /\ pc' = "rerun"
         /\ UNCHANGED <<pos, final_config, configs, exitcode>>
      \/ /\ ~bogus /\ code = "SUCCESS" /\ ~single_plan
         /\ configs_next_round' = Append(configs_next_round, c)
         /\ AfterSuccess
         /\ UNCHANGED <<changed_cost_types, configs, exitcode>>
  <2> HIDE DEF bogus
  <2>1. CASE bogus
    BY <1>3, <2>1 DEF bogus
  <2>2. CASE ~bogus
    BY <1>3, <1>4, <2>2 DEF bogus
  <2> QED
    BY <2>1, <2>2
<1> QED
  BY <1>1, <1>3, <1>5 DEF c

\* The repetition with real costs.
LEMMA RerunConfigCases ==
  ASSUME PortfolioInv, RerunConfig
  PROVE  /\ ~attributes.OPTIMAL /\ pc = "rerun" /\ pos \in 1..Len(configs)
         /\ configs[pos] \in PortfolioConfigs /\ configs[pos] \in Config
         /\ exitcode = "RUNNING"
         /\ UNCHANGED <<attributes, single_plan>>
         /\ \E code \in SearchExitCodes : \E output \in Outputs(configs[pos], code) :
              /\ RunSatConfig(configs[pos], code, output)
              /\ \/ Bogus(Written(configs[pos], output)) /\ Complain
                 \/ ~Bogus(Written(configs[pos], output)) /\ RunEnds /\ code = "SEARCH_UNSOLVABLE"
                 \/ /\ ~Bogus(Written(configs[pos], output)) /\ code # "SEARCH_UNSOLVABLE"
                    /\ AfterSuccess
                    /\ UNCHANGED <<configs, configs_next_round, changed_cost_types, exitcode>>
<1>1. ~attributes.OPTIMAL /\ pc = "rerun" /\ pos \in 1..Len(configs) /\ exitcode = "RUNNING"
  BY DEF RerunConfig, InRound, PortfolioInv, RunInv
<1>2. configs[pos] \in PortfolioConfigs /\ configs[pos] \in Config
  BY <1>1, ElementOfSeq, PortfolioConfigsProperties DEF PortfolioInv, RunInv
<1>3. UNCHANGED <<attributes, single_plan>>
  BY DEF RerunConfig
<1>4. \E code \in SearchExitCodes : \E output \in Outputs(configs[pos], code) :
        /\ RunSatConfig(configs[pos], code, output)
        /\ \/ Bogus(Written(configs[pos], output)) /\ Complain
           \/ ~Bogus(Written(configs[pos], output)) /\ RunEnds /\ code = "SEARCH_UNSOLVABLE"
           \/ /\ ~Bogus(Written(configs[pos], output)) /\ code # "SEARCH_UNSOLVABLE"
              /\ AfterSuccess
              /\ UNCHANGED <<configs, configs_next_round, changed_cost_types, exitcode>>
  BY Zenon DEF RerunConfig, RunEnds
<1> QED
  BY <1>1, <1>2, <1>3, <1>4

\* The run of the final configuration.
LEMMA RunFinalConfigCases ==
  ASSUME PortfolioInv, RunFinalConfig
  PROVE  /\ ~attributes.OPTIMAL /\ pc = "final"
         /\ final_config \in PortfolioConfigs /\ final_config \in Config /\ exitcode = "RUNNING"
         /\ UNCHANGED <<attributes, single_plan>>
         /\ \E code \in SearchExitCodes : \E output \in Outputs(final_config, code) :
              /\ RunSatConfig(final_config, code, output)
              /\ \/ Bogus(Written(final_config, output)) /\ Complain
                 \/ ~Bogus(Written(final_config, output)) /\ RunEnds
<1>1. /\ ~attributes.OPTIMAL /\ pc = "final" /\ exitcode = "RUNNING"
      /\ final_config \in PortfolioConfigs /\ final_config \in Config
  BY PortfolioConfigsProperties DEF RunFinalConfig, PortfolioInv, RunInv
<1>2. UNCHANGED <<attributes, single_plan>>
  BY DEF RunFinalConfig
<1>3. \E code \in SearchExitCodes : \E output \in Outputs(final_config, code) :
        /\ RunSatConfig(final_config, code, output)
        /\ \/ Bogus(Written(final_config, output)) /\ Complain
           \/ ~Bogus(Written(final_config, output)) /\ RunEnds
  BY Zenon DEF RunFinalConfig, RunEnds
<1> QED
  BY <1>1, <1>2, <1>3

LEMMA DiskStep ==
  ASSUME PortfolioInv, ~attributes.OPTIMAL, exitcode = "RUNNING",
         NEW c \in Config, NEW code \in SearchExitCodes,
         NEW output \in Outputs(c, code), RunSatConfig(c, code, output),
         Bogus(Written(c, output)) => exitcode' = "DRIVER_CRITICAL_ERROR",
         UNCHANGED <<attributes, single_plan>>
  PROVE  DiskInv'
<1>1. ContinuesNumbers' <=> ContinuesNumbers
  BY DEF ContinuesNumbers
<1>2. /\ plan_costs' \in Seq(Nat) /\ files' \in Seq(FileContents)
      /\ base_file' \in FileContents \union {NoFile}
      /\ Len(plan_costs') <= Len(files')
      /\ ~Bogus(Written(c, output)) => Len(files') = Len(plan_costs')
      /\ ContinuesNumbers =>
           base_file' = NoFile /\ \A i \in 1..Len(plan_costs') : files'[i] = plan_costs'[i]
  BY SatRun
<1>3. ASSUME NEW i \in 1..Len(plan_costs'), i > 1 PROVE plan_costs'[i] < plan_costs'[i-1]
  <2>1. /\ plan_costs \in Seq(Nat) /\ Len(plan_costs') >= Len(plan_costs)
        /\ \A j \in 1..Len(plan_costs) : plan_costs'[j] = plan_costs[j]
        /\ \A j \in Len(plan_costs)+1..Len(plan_costs') :
             j > 1 => plan_costs'[j] < plan_costs'[j-1]
        /\ \A j \in 1..Len(plan_costs) : j > 1 => plan_costs[j] < plan_costs[j-1]
    BY SatRun DEF PortfolioInv, DiskInv
  <2>2. CASE i \in 1..Len(plan_costs)
    <3>1. i - 1 \in 1..Len(plan_costs)
      BY <1>3, <2>2
    <3> QED
      BY <1>3, <2>1, <2>2, <3>1
  <2>3. CASE i \in Len(plan_costs)+1..Len(plan_costs')
    BY <1>3, <2>1, <2>3
  <2> QED
    BY <1>2, <2>1, <2>2, <2>3
<1> QED
  BY <1>1, <1>2, <1>3 DEF DiskInv

LEMMA AfterSuccessStep ==
  ASSUME RunInv, AfterSuccess, ~attributes.OPTIMAL, pc \in {"loop", "rerun"}
  PROVE  /\ pos' \in Nat \ {0} /\ pc' \in {"loop", "final"}
         /\ final_config' \in PortfolioConfigs \union {NoConfig}
         /\ pc' = "final" => final_config' # NoConfig
<1>1. attributes.FINAL_CONFIG_BUILDER \in PortfolioConfigs \union {NoConfig}
  BY PortfolioConfigsProperties DEF RunInv
<1>2. CASE attributes.FINAL_CONFIG_BUILDER # NoConfig
  BY <1>1, <1>2 DEF AfterSuccess, RunInv
<1>3. CASE attributes.FINAL_CONFIG_BUILDER = NoConfig
  BY <1>3 DEF AfterSuccess, RunInv
<1> QED
  BY <1>2, <1>3

\* The configurations of the portfolio do not change.
LEMMA PortfolioConfigsUnchanged ==
  ASSUME attributes' = attributes
  PROVE  PortfolioConfigs' = PortfolioConfigs
BY DEF PortfolioConfigs

\* A step that does not touch the disk and ends the portfolio at most.
LEMMA DiskInvUnchanged ==
  ASSUME DiskInv, UNCHANGED <<attributes, single_plan, diskvars>>,
         exitcode = "RUNNING" \/ exitcode' = exitcode
  PROVE  DiskInv'
<1>1. /\ plan_costs' = plan_costs /\ files' = files /\ base_file' = base_file
      /\ attributes' = attributes /\ (ContinuesNumbers' <=> ContinuesNumbers)
  BY DEF diskvars, ContinuesNumbers
<1>2. exitcode' # "DRIVER_CRITICAL_ERROR" => exitcode # "DRIVER_CRITICAL_ERROR"
  OBVIOUS
<1> QED
  BY <1>1, <1>2 DEF DiskInv

LEMMA RunInvUnchanged ==
  ASSUME RunInv, UNCHANGED <<attributes, single_plan>>, UNCHANGED runvars
  PROVE  RunInv'
BY PortfolioConfigsUnchanged DEF RunInv, runvars

\* The types, and what the plan manager knows of the files.
THEOREM PortfolioInvHolds == Spec => []PortfolioInv
<1>1. Init => PortfolioInv
  <2>1. SUFFICES ASSUME Init PROVE PortfolioInv
    OBVIOUS
  <2>2. attributes \in Portfolios
    BY <2>1 DEF Init
  <2>3. RunInv
    <3>1. /\ attributes.CONFIGS \in Seq(PortfolioConfigs)
          /\ attributes.FINAL_CONFIG \in PortfolioConfigs \union {NoConfig}
      BY <2>2, PortfolioConfigsProperties
    <3>2. <<>> \in Seq(PortfolioConfigs)
      OBVIOUS
    <3>3. pos \in Nat \ {0}
      BY <2>1 DEF Init
    <3>4. /\ attributes \in Portfolios /\ single_plan \in BOOLEAN
          /\ configs = attributes.CONFIGS /\ configs_next_round = <<>>
          /\ changed_cost_types = FALSE
          /\ final_config = attributes.FINAL_CONFIG /\ pc = "loop"
      BY <2>1, Zenon DEF Init
    <3> QED
      BY <3>1, <3>2, <3>3, <3>4 DEF RunInv
  <2>4. <<>> \in Seq(Nat) /\ <<>> \in Seq(FileContents) /\ Len(<<>>) = 0
    OBVIOUS
  <2>5. DiskInv
    BY <2>1, <2>4 DEF Init, DiskInv
  <2> QED
    BY <2>3, <2>5 DEF PortfolioInv
<1>2. PortfolioInv /\ [Next]_vars => PortfolioInv'
  <2> SUFFICES ASSUME PortfolioInv, [Next]_vars PROVE PortfolioInv'
    OBVIOUS
  <2>1. CASE RunConfig
    <3>1. PICK code \in SearchExitCodes : \E output \in Outputs(configs[pos], code) :
              /\ RunSatConfig(configs[pos], code, output)
              /\ Bogus(Written(configs[pos], output)) => exitcode' = "DRIVER_CRITICAL_ERROR"
              /\ \/ UNCHANGED runvars
                 \/ /\ pos' = pos + 1
                    /\ UNCHANGED <<configs, configs_next_round, changed_cost_types,
                                   final_config, pc>>
                 \/ /\ ~single_plan
                    /\ configs_next_round' = Append(configs_next_round, configs[pos])
                    /\ changed_cost_types' = TRUE /\ pc' = "rerun"
                    /\ UNCHANGED <<pos, final_config, configs>>
                 \/ /\ configs_next_round' = Append(configs_next_round, configs[pos])
                    /\ AfterSuccess
                    /\ UNCHANGED <<changed_cost_types, configs>>
      BY <2>1, RunConfigCases, Zenon DEF RunEnds, Complain
    <3>2. PICK output \in Outputs(configs[pos], code) :
              /\ RunSatConfig(configs[pos], code, output)
              /\ Bogus(Written(configs[pos], output)) => exitcode' = "DRIVER_CRITICAL_ERROR"
              /\ \/ UNCHANGED runvars
                 \/ /\ pos' = pos + 1
                    /\ UNCHANGED <<configs, configs_next_round, changed_cost_types,
                                   final_config, pc>>
                 \/ /\ ~single_plan
                    /\ configs_next_round' = Append(configs_next_round, configs[pos])
                    /\ changed_cost_types' = TRUE /\ pc' = "rerun"
                    /\ UNCHANGED <<pos, final_config, configs>>
                 \/ /\ configs_next_round' = Append(configs_next_round, configs[pos])
                    /\ AfterSuccess
                    /\ UNCHANGED <<changed_cost_types, configs>>
      BY <3>1
    <3>3. /\ ~attributes.OPTIMAL /\ pc = "loop" /\ exitcode = "RUNNING"
          /\ configs[pos] \in Config /\ configs[pos] \in PortfolioConfigs
          /\ UNCHANGED <<attributes, single_plan>> /\ PortfolioConfigs' = PortfolioConfigs
      BY <2>1, RunConfigCases, PortfolioConfigsUnchanged
    <3>4. DiskInv'
      BY <3>2, <3>3, DiskStep
    <3>5. Append(configs_next_round, configs[pos]) \in Seq(PortfolioConfigs)
      BY <3>3, AppendProperties DEF PortfolioInv, RunInv
    <3>6. RunInv'
      <4>1. CASE UNCHANGED runvars
        BY <3>3, <4>1, RunInvUnchanged DEF PortfolioInv
      <4>2. CASE /\ pos' = pos + 1
                 /\ UNCHANGED <<configs, configs_next_round, changed_cost_types,
                                final_config, pc>>
        BY <3>3, <4>2 DEF PortfolioInv, RunInv
      <4>3. CASE /\ ~single_plan
                 /\ configs_next_round' = Append(configs_next_round, configs[pos])
                 /\ changed_cost_types' = TRUE /\ pc' = "rerun"
                 /\ UNCHANGED <<pos, final_config, configs>>
        BY <3>3, <3>5, <4>3 DEF PortfolioInv, RunInv
      <4>4. CASE /\ configs_next_round' = Append(configs_next_round, configs[pos])
                 /\ AfterSuccess
                 /\ UNCHANGED <<changed_cost_types, configs>>
        <5>1. /\ pos' \in Nat \ {0} /\ pc' \in {"loop", "final"}
              /\ final_config' \in PortfolioConfigs \union {NoConfig}
              /\ pc' = "final" => final_config' # NoConfig
          BY <3>3, <4>4, AfterSuccessStep DEF PortfolioInv
        <5> QED
          BY <3>3, <3>5, <4>4, <5>1 DEF PortfolioInv, RunInv
      <4> QED
        BY <3>2, <4>1, <4>2, <4>3, <4>4
    <3> QED
      BY <3>4, <3>6 DEF PortfolioInv
  <2>2. CASE RerunConfig
    <3>1. PICK code \in SearchExitCodes : \E output \in Outputs(configs[pos], code) :
              /\ RunSatConfig(configs[pos], code, output)
              /\ Bogus(Written(configs[pos], output)) => exitcode' = "DRIVER_CRITICAL_ERROR"
              /\ \/ UNCHANGED runvars
                 \/ /\ AfterSuccess
                    /\ UNCHANGED <<configs, configs_next_round, changed_cost_types>>
      BY <2>2, RerunConfigCases, Zenon DEF RunEnds, Complain
    <3>2. /\ ~attributes.OPTIMAL /\ pc = "rerun" /\ exitcode = "RUNNING"
          /\ configs[pos] \in Config
          /\ UNCHANGED <<attributes, single_plan>> /\ PortfolioConfigs' = PortfolioConfigs
      BY <2>2, RerunConfigCases, PortfolioConfigsUnchanged
    <3>3. DiskInv'
      BY <3>1, <3>2, DiskStep
    <3>4. CASE UNCHANGED runvars
      BY <3>2, <3>3, <3>4, RunInvUnchanged DEF PortfolioInv
    <3>5. CASE AfterSuccess /\ UNCHANGED <<configs, configs_next_round, changed_cost_types>>
      <4>1. /\ pos' \in Nat \ {0} /\ pc' \in {"loop", "final"}
            /\ final_config' \in PortfolioConfigs \union {NoConfig}
            /\ pc' = "final" => final_config' # NoConfig
        BY <3>2, <3>5, AfterSuccessStep DEF PortfolioInv
      <4>2. RunInv'
        BY <3>2, <3>5, <4>1 DEF PortfolioInv, RunInv
      <4> QED
        BY <3>3, <4>2 DEF PortfolioInv
    <3> QED
      BY <3>1, <3>4, <3>5
  <2>3. CASE RunFinalConfig
    <3>1. PICK code \in SearchExitCodes : \E output \in Outputs(final_config, code) :
              /\ RunSatConfig(final_config, code, output) /\ UNCHANGED runvars
              /\ Bogus(Written(final_config, output)) => exitcode' = "DRIVER_CRITICAL_ERROR"
      BY <2>3, RunFinalConfigCases, Zenon DEF RunEnds, Complain
    <3>2. /\ ~attributes.OPTIMAL /\ final_config \in Config /\ exitcode = "RUNNING"
          /\ UNCHANGED <<attributes, single_plan>>
      BY <2>3, RunFinalConfigCases
    <3>3. DiskInv'
      BY <3>1, <3>2, DiskStep
    <3> QED
      BY <3>1, <3>2, <3>3, RunInvUnchanged DEF PortfolioInv
  <2>4. CASE RunOptConfig
    <3>1. /\ attributes.OPTIMAL /\ plan_costs = <<>> /\ ~ContinuesNumbers
          /\ UNCHANGED <<attributes, single_plan, plan_costs, configs, configs_next_round,
                         changed_cost_types, final_config, pc>>
          /\ pos' = pos + 1 /\ pos \in 1..Len(configs)
          /\ PortfolioConfigs' = PortfolioConfigs
      BY <2>4, PortfolioConfigsUnchanged
         DEF RunOptConfig, PortfolioInv, RunInv, DiskInv, ContinuesNumbers
    <3>2. configs[pos] \in Config
      BY <3>1, ElementOfSeq, PortfolioConfigsProperties DEF PortfolioInv, RunInv
    <3>3. PICK code \in SearchExitCodes : \E output \in Outputs(configs[pos], code) :
            WriteBaseFile(configs[pos], output) /\ files' = Written(configs[pos], output)
      BY <2>4, Zenon DEF RunOptConfig
    <3>4. PICK output \in Outputs(configs[pos], code) :
            WriteBaseFile(configs[pos], output) /\ files' = Written(configs[pos], output)
      BY <3>3
    <3>5. files' \in Seq(FileContents)
      BY <3>2, <3>4, WrittenProperties
    <3>6. base_file' \in FileContents \union {NoFile}
      <4>1. output # <<>> => output[1] \in FileContents
        BY <3>2, OutputProperties
      <4> QED
        BY <3>4, <4>1 DEF WriteBaseFile, PortfolioInv, DiskInv
    <3>7. DiskInv'
      <4>1. /\ attributes'.OPTIMAL /\ ~ContinuesNumbers' /\ plan_costs' = <<>>
            /\ plan_costs' \in Seq(Nat) /\ 1..Len(plan_costs') = {} /\ Len(plan_costs') <= Len(files')
        BY <3>1, <3>5 DEF ContinuesNumbers
      <4> QED
        BY <3>5, <3>6, <4>1 DEF DiskInv
    <3>8. RunInv'
      BY <3>1 DEF PortfolioInv, RunInv
    <3> QED
      BY <3>7, <3>8 DEF PortfolioInv
  <2>5. CASE NextRound
    <3>1. /\ UNCHANGED <<attributes, single_plan, diskvars, changed_cost_types, final_config>>
          /\ ~attributes.OPTIMAL /\ pc = "loop" /\ exitcode = "RUNNING"
          /\ PortfolioConfigs' = PortfolioConfigs
          /\ \/ /\ final_config # NoConfig /\ pc' = "final"
                /\ UNCHANGED <<configs, pos, configs_next_round>>
             \/ configs' = configs_next_round /\ pos' = 1 /\ configs_next_round' = <<>> /\ pc' = pc
      BY <2>5, PortfolioConfigsUnchanged DEF NextRound, NextConfigs
    <3>2. DiskInv'
      BY <3>1, DiskInvUnchanged DEF PortfolioInv
    <3>3. <<>> \in Seq(PortfolioConfigs)
      OBVIOUS
    <3>4. RunInv'
      <4>1. CASE /\ final_config # NoConfig /\ pc' = "final"
                 /\ UNCHANGED <<configs, pos, configs_next_round>>
        BY <3>1, <4>1 DEF PortfolioInv, RunInv
      <4>2. CASE /\ configs' = configs_next_round /\ pos' = 1
                 /\ configs_next_round' = <<>> /\ pc' = pc
        BY <3>1, <3>3, <4>2 DEF PortfolioInv, RunInv
      <4> QED
        BY <3>1, <4>1, <4>2
    <3> QED
      BY <3>2, <3>4 DEF PortfolioInv
  <2>6. CASE SkipConfig
    <3>1. DiskInv'
      BY <2>6, DiskInvUnchanged DEF SkipConfig, PortfolioInv
    <3>2. RunInv'
      BY <2>6, PortfolioConfigsUnchanged DEF SkipConfig, PortfolioInv, RunInv
    <3> QED
      BY <3>1, <3>2 DEF PortfolioInv
  <2>7. CASE /\ UNCHANGED <<attributes, single_plan, diskvars, runvars>>
             /\ exitcode = "RUNNING" \/ exitcode' = exitcode
    <3>1. DiskInv'
      BY <2>7, DiskInvUnchanged DEF PortfolioInv
    <3> QED
      BY <2>7, <3>1, RunInvUnchanged DEF PortfolioInv
  <2>8. SkipRerun \/ SkipFinalConfig \/ EndOpt \/ Terminated \/ UNCHANGED vars
          => /\ UNCHANGED <<attributes, single_plan, diskvars, runvars>>
             /\ exitcode = "RUNNING" \/ exitcode' = exitcode
    BY Zenon DEF SkipRerun, SkipFinalConfig, EndOpt, Terminated, InRound, vars
  <2> QED
    BY <2>1, <2>2, <2>3, <2>4, <2>5, <2>6, <2>7, <2>8 DEF Next, Step
<1> QED
  BY <1>1, <1>2, PTL DEF Spec

\* A satisficing portfolio changes the disk by runs of run_sat_config only.
LEMMA StepOnDisk ==
  ASSUME PortfolioInv, [Next]_vars, ~attributes.OPTIMAL
  PROVE  /\ UNCHANGED <<attributes, single_plan>>
         /\ \/ UNCHANGED diskvars
            \/ /\ exitcode = "RUNNING"
               /\ \E c \in PortfolioConfigs \intersect Config :
                    \E code \in SearchExitCodes : \E output \in Outputs(c, code) :
                      RunSatConfig(c, code, output)
<1>1. CASE RunConfig
  BY <1>1, RunConfigCases, Zenon
<1>2. CASE RerunConfig
  BY <1>2, RerunConfigCases, Zenon
<1>3. CASE RunFinalConfig
  BY <1>3, RunFinalConfigCases, Zenon
<1>4. CASE UNCHANGED <<attributes, single_plan, diskvars>>
  BY <1>4
<1>5. SkipConfig \/ SkipRerun \/ SkipFinalConfig \/ NextRound \/ EndOpt \/ Terminated
        \/ UNCHANGED vars => UNCHANGED <<attributes, single_plan, diskvars>>
  BY Zenon DEF SkipConfig, SkipRerun, SkipFinalConfig, NextRound, EndOpt, Terminated, vars
<1>6. ~RunOptConfig
  BY DEF RunOptConfig
<1> QED
  BY <1>1, <1>2, <1>3, <1>4, <1>5, <1>6 DEF Next, Step

\* A complete plan file stays as it is while the planner continues the
\* numbers of the files.
THEOREM PlansAreKeptHolds == Spec => PlansAreKept
<1>1. PortfolioInv /\ PortfolioInv' /\ [Next]_vars =>
        [ContinuesNumbers =>
           \A i \in DOMAIN files : i \in DOMAIN files' /\ files'[i] = files[i]]_vars
  <2> SUFFICES ASSUME PortfolioInv, PortfolioInv', [Next]_vars, ContinuesNumbers
               PROVE  \A i \in DOMAIN files : i \in DOMAIN files' /\ files'[i] = files[i]
    OBVIOUS
  <2>1. /\ ~attributes.OPTIMAL /\ files \in Seq(FileContents) /\ plan_costs \in Seq(Nat)
        /\ \A i \in 1..Len(plan_costs) : files[i] = plan_costs[i]
        /\ exitcode = "RUNNING" => Len(files) = Len(plan_costs)
    BY DEF ContinuesNumbers, PortfolioInv, DiskInv
  <2>2. UNCHANGED <<attributes, single_plan>>
    BY <2>1, StepOnDisk
  <2>3. CASE UNCHANGED diskvars
    BY <2>3 DEF diskvars
  <2>4. CASE /\ exitcode = "RUNNING"
             /\ \E c \in PortfolioConfigs \intersect Config :
                  \E code \in SearchExitCodes : \E output \in Outputs(c, code) :
                    RunSatConfig(c, code, output)
    <3>1. PICK c \in Config : \E code \in SearchExitCodes : \E output \in Outputs(c, code) :
            RunSatConfig(c, code, output)
      BY <2>4
    <3>2. PICK code \in SearchExitCodes : \E output \in Outputs(c, code) :
            RunSatConfig(c, code, output)
      BY <3>1
    <3>3. /\ files' \in Seq(FileContents) /\ Len(files') >= Len(plan_costs')
          /\ plan_costs' \in Seq(Nat) /\ Len(plan_costs') >= Len(plan_costs)
          /\ \A i \in 1..Len(plan_costs') : files'[i] = plan_costs'[i]
          /\ \A i \in 1..Len(plan_costs) : plan_costs'[i] = plan_costs[i]
      BY <2>1, <2>4, <3>2, SatRun
    <3>4. DOMAIN files = 1..Len(plan_costs) /\ DOMAIN files' = 1..Len(files')
      BY <2>1, <2>4, <3>3
    <3>5. ASSUME NEW i \in 1..Len(plan_costs) PROVE i \in DOMAIN files' /\ files'[i] = files[i]
      <4>1. i \in 1..Len(plan_costs') /\ i \in 1..Len(files')
        BY <2>1, <3>3
      <4> QED
        BY <2>1, <3>3, <3>4, <4>1
    <3> QED
      BY <3>4, <3>5
  <2> QED
    BY <2>1, <2>3, <2>4, StepOnDisk
<1> QED
  BY <1>1, PortfolioInvHolds, PTL DEF Spec, PlansAreKept

-----------------------------------------------------------------------------
(***************************************************************************)
(* The exit code.                                                          *)
(***************************************************************************)

\* A successful run need not have left a plan.
MayFindNone == \E c \in PortfolioConfigs : IsCarefree(c) /\ c.anytime

\* The driver goes on only while no run was conclusive, and each success has
\* left a complete plan.
ExitInv ==
  /\ exitcode = "RUNNING" =>
       /\ "SEARCH_UNSOLVABLE" \notin exitcodes
       /\ single_plan \/ attributes.OPTIMAL => "SUCCESS" \notin exitcodes
  /\ "SUCCESS" \in exitcodes => CompletePlans # {} \/ MayFindNone
  /\ Finished /\ exitcode # "DRIVER_CRITICAL_ERROR" =>
       (exitcode = "SUCCESS" <=> "SUCCESS" \in exitcodes)
  /\ exitcode = "SEARCH_UNSOLVABLE" => \A cost \in PlanCosts : ~InBound(cost)

LEMMA GeneratedExitcode ==
  ASSUME NEW codes
  PROVE  LET result == GeneratePortfolioExitcode(codes)
         IN  /\ result = "SUCCESS" <=> "SUCCESS" \in codes
             /\ result = "SEARCH_UNSOLVABLE" => "SEARCH_UNSOLVABLE" \in codes
             /\ result # "RUNNING" /\ result # "DRIVER_CRITICAL_ERROR"
BY DEF GeneratePortfolioExitcode, UnsuccessfulExitcode

LEMMA MayFindNoneUnchanged ==
  ASSUME attributes' = attributes
  PROVE  MayFindNone' <=> MayFindNone
BY PortfolioConfigsUnchanged DEF MayFindNone, IsCarefree

\* A run of the planner, whatever the driver does with its exit code.
LEMMA ExitAfterRun ==
  ASSUME PortfolioInv, ExitInv, exitcode = "RUNNING", NEW code \in SearchExitCodes,
         UNCHANGED <<attributes, single_plan>>,
         exitcodes' = exitcodes \union {code},
         code = "SUCCESS" => CompletePlans' # {} \/ MayFindNone,
         ContinuesNumbers /\ CompletePlans # {} => CompletePlans' # {},
         code = "SEARCH_UNSOLVABLE" =>
           plan_costs' = plan_costs /\ \A cost \in PlanCosts : ~InBound(cost),
         \/ exitcode' = "DRIVER_CRITICAL_ERROR"
         \/ Return
         \/ /\ exitcode' = exitcode /\ code # "SEARCH_UNSOLVABLE"
            /\ code = "SUCCESS" => ~single_plan /\ ~attributes.OPTIMAL
  PROVE  ExitInv'
<1>1. "SUCCESS" \in exitcodes' => CompletePlans' # {} \/ MayFindNone'
  <2>1. "SUCCESS" \in exitcodes => ContinuesNumbers /\ (CompletePlans # {} \/ MayFindNone)
    BY DEF ExitInv, ContinuesNumbers
  <2> QED
    BY <2>1, MayFindNoneUnchanged
<1>2. "SEARCH_UNSOLVABLE" \in exitcodes' => \A cost \in PlanCosts : ~InBound(cost)'
  <2>1. "SEARCH_UNSOLVABLE" \in exitcodes' => code = "SEARCH_UNSOLVABLE"
    BY DEF ExitInv
  <2>2. ASSUME code = "SEARCH_UNSOLVABLE", NEW cost \in PlanCosts
        PROVE  ~InBound(cost)'
    <3>1. ~InBound(cost) /\ plan_costs' = plan_costs /\ attributes' = attributes
      BY <2>2
    <3> QED
      BY <3>1 DEF InBound, NextPortfolioCostBound
  <2> QED
    BY <2>1, <2>2
<1>3. CASE exitcode' = "DRIVER_CRITICAL_ERROR"
  BY <1>1, <1>3 DEF ExitInv
<1>4. CASE Return
  <2>1. /\ exitcode' = "SUCCESS" <=> "SUCCESS" \in exitcodes'
        /\ exitcode' = "SEARCH_UNSOLVABLE" => "SEARCH_UNSOLVABLE" \in exitcodes'
        /\ exitcode' # "RUNNING"
    BY <1>4, GeneratedExitcode, Zenon DEF Return
  <2> QED
    BY <1>1, <1>2, <2>1, Zenon DEF ExitInv, Finished
<1>5. CASE /\ exitcode' = exitcode /\ code # "SEARCH_UNSOLVABLE"
           /\ code = "SUCCESS" => ~single_plan /\ ~attributes.OPTIMAL
  <2>1. "SEARCH_UNSOLVABLE" \notin exitcodes'
    BY <1>5 DEF ExitInv
  <2>2. single_plan' \/ attributes'.OPTIMAL => "SUCCESS" \notin exitcodes'
    BY <1>5 DEF ExitInv
  <2> QED
    BY <1>1, <1>5, <2>1, <2>2 DEF ExitInv, Finished
<1> QED
  BY <1>3, <1>4, <1>5

\* A run of run_sat_config.
LEMMA ExitAfterSatRun ==
  ASSUME PortfolioInv, ExitInv, exitcode = "RUNNING", ~attributes.OPTIMAL,
         UNCHANGED <<attributes, single_plan>>,
         NEW c \in PortfolioConfigs, c \in Config,
         NEW code \in SearchExitCodes, NEW output \in Outputs(c, code),
         RunSatConfig(c, code, output),
         \/ Complain
         \/ RunEnds
         \/ /\ exitcode' = exitcode /\ code # "SEARCH_UNSOLVABLE"
            /\ code = "SUCCESS" => ~single_plan
  PROVE  ExitInv'
<1>0. ~WritesPlans(c) => MayFindNone
  <2>1. IgnoresBound(c) => IsCarefree(c)
    BY DEF IgnoresBound, IsCarefree, CanChangeCostType
  <2> QED
    BY <2>1 DEF WritesPlans, MayFindNone
<1>1. /\ code = "SUCCESS" => CompletePlans' # {} \/ MayFindNone
      /\ code = "SEARCH_UNSOLVABLE" =>
           plan_costs' = plan_costs /\ \A cost \in PlanCosts : ~InBound(cost)
      /\ exitcodes' = exitcodes \union {code}
  BY <1>0, SatRun DEF RunSatConfig
<1>2. ContinuesNumbers /\ CompletePlans # {} => CompletePlans' # {}
  <2>1. SUFFICES ASSUME ContinuesNumbers, CompletePlans # {} PROVE CompletePlans' # {}
    OBVIOUS
  <2>2. /\ files \in Seq(FileContents) /\ Len(files) = Len(plan_costs)
        /\ base_file = NoFile /\ plan_costs \in Seq(Nat)
        /\ files' \in Seq(FileContents) /\ plan_costs' \in Seq(Nat)
        /\ Len(plan_costs') >= Len(plan_costs) /\ Len(files') >= Len(plan_costs')
        /\ \A i \in 1..Len(plan_costs') : files'[i] = plan_costs'[i]
    BY <2>1, SatRun DEF PortfolioInv, DiskInv
  <2>3. DOMAIN files # {}
    BY <2>1, <2>2 DEF CompletePlans, Range
  <2>4. 1 \in DOMAIN files' /\ files'[1] \in Nat
    <3>1. 1 \in 1..Len(plan_costs') /\ 1 \in 1..Len(files')
      BY <2>2, <2>3
    <3>2. plan_costs'[1] \in Nat
      BY <2>2, <3>1, ElementOfSeq
    <3> QED
      BY <2>2, <3>1, <3>2
  <2>5. files'[1] \in Range(files')
    BY <2>4 DEF Range
  <2> QED
    BY <2>4, <2>5, PortfolioAssumption DEF CompletePlans
<1> QED
  BY <1>1, <1>2, ExitAfterRun DEF Complain, RunEnds

LEMMA ExitInvHolds == Spec => []ExitInv
<1>1. Init => ExitInv
  BY DEF Init, ExitInv, Finished
<1>2. PortfolioInv /\ ExitInv /\ [Next]_vars => ExitInv'
  <2> SUFFICES ASSUME PortfolioInv, ExitInv, [Next]_vars PROVE ExitInv'
    OBVIOUS
  <2>1. CASE RunConfig
    <3>1. PICK code \in SearchExitCodes : \E output \in Outputs(configs[pos], code) :
            /\ RunSatConfig(configs[pos], code, output)
            /\ \/ Complain
               \/ RunEnds
               \/ /\ exitcode' = exitcode /\ code # "SEARCH_UNSOLVABLE"
                  /\ code = "SUCCESS" => ~single_plan
      BY <2>1, RunConfigCases, Zenon
    <3> QED
      BY <2>1, <3>1, RunConfigCases, ExitAfterSatRun
  <2>2. CASE RerunConfig
    <3>1. PICK code \in SearchExitCodes : \E output \in Outputs(configs[pos], code) :
            /\ RunSatConfig(configs[pos], code, output)
            /\ \/ Complain
               \/ RunEnds
               \/ exitcode' = exitcode /\ code # "SEARCH_UNSOLVABLE"
      BY <2>2, RerunConfigCases, Zenon
    <3>2. ~single_plan
      BY <2>2, RerunConfigCases DEF PortfolioInv, RunInv
    <3> QED
      BY <2>2, <3>1, <3>2, RerunConfigCases, ExitAfterSatRun
  <2>3. CASE RunFinalConfig
    <3>1. PICK code \in SearchExitCodes : \E output \in Outputs(final_config, code) :
            RunSatConfig(final_config, code, output) /\ (Complain \/ RunEnds)
      BY <2>3, RunFinalConfigCases, Zenon
    <3> QED
      BY <2>3, <3>1, RunFinalConfigCases, ExitAfterSatRun
  <2>4. CASE RunOptConfig
    <3>1. /\ attributes.OPTIMAL /\ ~ContinuesNumbers /\ exitcode = "RUNNING"
          /\ UNCHANGED <<attributes, single_plan, plan_costs>>
          /\ pos \in 1..Len(configs)
      BY <2>4 DEF RunOptConfig, PortfolioInv, RunInv, ContinuesNumbers
    <3>2. configs[pos] \in PortfolioConfigs /\ configs[pos] \in Config
      BY <3>1, ElementOfSeq, PortfolioConfigsProperties DEF PortfolioInv, RunInv
    <3>3. PICK code \in SearchExitCodes : \E output \in Outputs(configs[pos], code) :
            /\ WriteBaseFile(configs[pos], output) /\ files' = Written(configs[pos], output)
            /\ exitcodes' = exitcodes \union {code}
            /\ Return \/ (exitcode' = exitcode /\ code \notin {"SUCCESS", "SEARCH_UNSOLVABLE"})
      BY <2>4, Zenon DEF RunOptConfig
    <3>4. PICK output \in Outputs(configs[pos], code) :
            /\ WriteBaseFile(configs[pos], output) /\ files' = Written(configs[pos], output)
            /\ exitcodes' = exitcodes \union {code}
            /\ Return \/ (exitcode' = exitcode /\ code \notin {"SUCCESS", "SEARCH_UNSOLVABLE"})
      BY <3>3
    <3>5. code = "SEARCH_UNSOLVABLE" => \A cost \in PlanCosts : ~InBound(cost)
      BY <3>2, OutputProperties
    <3>6. ASSUME code = "SUCCESS" PROVE CompletePlans' # {} \/ MayFindNone
      <4>0. SUFFICES ASSUME WritesPlans(configs[pos]) PROVE CompletePlans' # {}
        <5>1. IgnoresBound(configs[pos]) => IsCarefree(configs[pos])
          BY DEF IgnoresBound, IsCarefree, CanChangeCostType
        <5> QED
          BY <3>2, <5>1 DEF WritesPlans, MayFindNone
      <4>1. output \in Seq(FileContents) /\ output # <<>> /\ output[1] \in Nat
        <5>1. output \in Seq(FileContents) /\ output # <<>>
          BY <3>2, <3>6, <4>0, OutputProperties
        <5>2. 1 \in 1..Len(output)
          BY <5>1, EmptySeq
        <5> QED
          BY <3>2, <3>6, <5>1, <5>2, OutputProperties
      <4>2. CASE configs[pos].anytime
        <5>1. /\ files' \in Seq(FileContents)
              /\ 1 \in 1..Len(files') /\ files'[1] = output[1]
          BY <3>1, <3>2, <3>4, <4>1, <4>2, WrittenProperties
        <5>2. files'[1] \in Range(files')
          BY <5>1 DEF Range
        <5> QED
          BY <4>1, <5>1, <5>2, PortfolioAssumption DEF CompletePlans
      <4>3. CASE ~configs[pos].anytime
        <5>1. base_file' = output[1]
          BY <3>1, <3>4, <4>1, <4>3 DEF WriteBaseFile
        <5> QED
          BY <4>1, <5>1, PortfolioAssumption DEF CompletePlans
      <4> QED
        BY <4>2, <4>3
    <3> QED
      BY <3>1, <3>4, <3>5, <3>6, ExitAfterRun
  <2>5. CASE /\ UNCHANGED <<attributes, single_plan, diskvars, exitcodes>>
             /\ exitcode' = exitcode \/ (exitcode = "RUNNING" /\ Return)
    <3>1. CompletePlans' = CompletePlans
      BY <2>5 DEF CompletePlans, diskvars
    <3>2. \A cost \in PlanCosts : InBound(cost)' <=> InBound(cost)
      BY <2>5 DEF InBound, NextPortfolioCostBound, diskvars
    <3>3. CASE exitcode' = exitcode
      BY <2>5, <3>1, <3>2, <3>3, MayFindNoneUnchanged DEF ExitInv, Finished
    <3>4. CASE exitcode = "RUNNING" /\ Return
      <4>1. /\ exitcode' = "SUCCESS" <=> "SUCCESS" \in exitcodes'
            /\ exitcode' = "SEARCH_UNSOLVABLE" => "SEARCH_UNSOLVABLE" \in exitcodes'
            /\ exitcode' # "RUNNING"
        BY <3>4, GeneratedExitcode, Zenon DEF Return
      <4> QED
        BY <2>5, <3>1, <3>4, <4>1, MayFindNoneUnchanged DEF ExitInv, Finished
    <3> QED
      BY <2>5, <3>3, <3>4
  <2>6. NextRound => /\ UNCHANGED <<attributes, single_plan, diskvars, exitcodes>>
                     /\ exitcode' = exitcode \/ (exitcode = "RUNNING" /\ Return)
    BY DEF NextRound
  <2>7. SkipConfig \/ SkipRerun \/ SkipFinalConfig \/ EndOpt \/ Terminated \/ UNCHANGED vars
          => /\ UNCHANGED <<attributes, single_plan, diskvars, exitcodes>>
             /\ exitcode' = exitcode \/ (exitcode = "RUNNING" /\ Return)
    BY Zenon DEF SkipConfig, SkipRerun, SkipFinalConfig, EndOpt, Terminated, InRound, vars
  <2> QED
    BY <2>1, <2>2, <2>3, <2>4, <2>5, <2>6, <2>7 DEF Next, Step
<1> QED
  BY <1>1, <1>2, PortfolioInvHolds, PTL DEF Spec

\* Success is reported if and only if a run was successful, and with a complete
\* plan on disk if every successful run writes one; unsolvability only if no
\* plan is cheaper than those that were found.
THEOREM ExitcodeIsTrueHolds == Spec => []ExitcodeIsTrue
<1>1. ExitInv => ExitcodeIsTrue
  BY DEF ExitInv, ExitcodeIsTrue, Finished, MayFindNone
<1> QED
  BY <1>1, ExitInvHolds, PTL

-----------------------------------------------------------------------------
(***************************************************************************)
(* When the plan manager complains.                                        *)
(***************************************************************************)

\* A portfolio that ends otherwise returns a code of its runs.
LEMMA ReturnIsNoComplaint == Return => exitcode' # "DRIVER_CRITICAL_ERROR"
BY GeneratedExitcode, Zenon DEF Return

LEMMA ComplaintOf ==
  ASSUME PortfolioInv, ~attributes.OPTIMAL, exitcode = "RUNNING",
         NEW c \in Config, NEW code \in SearchExitCodes,
         NEW output \in Outputs(c, code), RunSatConfig(c, code, output),
         \/ Bogus(Written(c, output))
         \/ plan_costs = <<>> /\ ~WritesPlans(c)
  PROVE  IgnoresBound(c) /\ (plan_costs = <<>> <=> c.anytime)
<1>1. c.anytime \in BOOLEAN
  BY DEF Config
<1>2. CASE Bogus(Written(c, output))
  BY <1>1, <1>2, SatRun DEF KeepsBound
<1>3. CASE plan_costs = <<>> /\ ~WritesPlans(c)
  BY <1>1, <1>3 DEF WritesPlans
<1> QED
  BY <1>2, <1>3

\* Whatever was killed before, the driver gives up only after a run that may
\* ignore its bound: for a plan that is not cheaper than an earlier one, or for
\* an anytime run that is successful without a plan.
THEOREM BoundedRunsAreAcceptedHolds == Spec => BoundedRunsAreAccepted
<1> DEFINE Complaint == exitcode = "RUNNING" /\ exitcode' = "DRIVER_CRITICAL_ERROR"
           Excused(c) == IgnoresBound(c) /\ (plan_costs = <<>> <=> c.anytime)
<1>1. PortfolioInv /\ [Next]_vars => [Complaint => Excused(CurrentConfig)]_vars
  <2> SUFFICES ASSUME PortfolioInv, [Next]_vars, Complaint PROVE Excused(CurrentConfig)
    OBVIOUS
  <2>1. CASE RunConfig
    <3>1. /\ ~attributes.OPTIMAL /\ pc = "loop" /\ configs[pos] \in Config
          /\ CurrentConfig = configs[pos]
      BY <2>1, RunConfigCases DEF CurrentConfig
    <3>2. PICK code \in SearchExitCodes : \E output \in Outputs(configs[pos], code) :
            /\ RunSatConfig(configs[pos], code, output)
            /\ \/ Bogus(Written(configs[pos], output))
               \/ plan_costs = <<>> /\ ~WritesPlans(configs[pos])
               \/ RunEnds
               \/ exitcode' = exitcode
      BY <2>1, RunConfigCases, Zenon
    <3>3. ~RunEnds /\ exitcode' # exitcode
      BY ReturnIsNoComplaint DEF RunEnds
    <3>4. Excused(configs[pos])
      BY <3>1, <3>2, <3>3, ComplaintOf
    <3> QED
      BY <3>1, <3>4
  <2>2. CASE RerunConfig
    <3>1. /\ ~attributes.OPTIMAL /\ pc = "rerun" /\ configs[pos] \in Config
          /\ CurrentConfig = configs[pos]
      BY <2>2, RerunConfigCases DEF CurrentConfig
    <3>2. PICK code \in SearchExitCodes : \E output \in Outputs(configs[pos], code) :
            /\ RunSatConfig(configs[pos], code, output)
            /\ \/ Bogus(Written(configs[pos], output))
               \/ RunEnds
               \/ exitcode' = exitcode
      BY <2>2, RerunConfigCases, Zenon
    <3>3. ~RunEnds /\ exitcode' # exitcode
      BY ReturnIsNoComplaint DEF RunEnds
    <3>4. Excused(configs[pos])
      BY <3>1, <3>2, <3>3, ComplaintOf
    <3> QED
      BY <3>1, <3>4
  <2>3. CASE RunFinalConfig
    <3>1. ~attributes.OPTIMAL /\ final_config \in Config /\ CurrentConfig = final_config
      BY <2>3, RunFinalConfigCases DEF CurrentConfig
    <3>2. PICK code \in SearchExitCodes : \E output \in Outputs(final_config, code) :
            /\ RunSatConfig(final_config, code, output)
            /\ Bogus(Written(final_config, output)) \/ RunEnds
      BY <2>3, RunFinalConfigCases, Zenon
    <3>3. ~RunEnds
      BY ReturnIsNoComplaint DEF RunEnds
    <3>4. Excused(final_config)
      BY <3>1, <3>2, <3>3, ComplaintOf
    <3> QED
      BY <3>1, <3>4
  <2>4. RunOptConfig \/ SkipConfig \/ SkipRerun \/ SkipFinalConfig \/ NextRound \/ EndOpt
          \/ Terminated \/ UNCHANGED vars => Return \/ exitcode' = exitcode
    BY Zenon DEF RunOptConfig, SkipConfig, SkipRerun, SkipFinalConfig, NextRound, EndOpt,
                 Terminated, vars
  <2>5. ~Return /\ exitcode' # exitcode
    BY ReturnIsNoComplaint
  <2> QED
    BY <2>1, <2>2, <2>3, <2>4, <2>5 DEF Next, Step
<1> QED
  BY <1>1, PortfolioInvHolds, PTL DEF Spec, BoundedRunsAreAccepted

-----------------------------------------------------------------------------
(***************************************************************************)
(* The plans on disk.                                                      *)
(***************************************************************************)

\* The user's bound holds in every run that writes plans.
BoundIsKept == \A c \in PortfolioConfigs : IsCarefree(c) => c.anytime

CostInv == BoundIsKept => \A i \in 1..Len(plan_costs) : plan_costs[i] < PortfolioBound

LEMMA CostsAfterRun ==
  ASSUME BoundIsKept, PortfolioInv, CostInv, ~attributes.OPTIMAL, exitcode = "RUNNING",
         NEW c \in PortfolioConfigs, c \in Config,
         NEW code \in SearchExitCodes, NEW output \in Outputs(c, code),
         RunSatConfig(c, code, output)
  PROVE  \A i \in 1..Len(plan_costs') : plan_costs'[i] < PortfolioBound
<1> DEFINE k == Len(plan_costs)
<1>1. KeepsBound(c)
  <2>1. IgnoresBound(c) => IsCarefree(c)
    BY DEF IgnoresBound, IsCarefree, CanChangeCostType
  <2> QED
    BY <2>1 DEF BoundIsKept, KeepsBound
<1>2. /\ plan_costs \in Seq(Nat) /\ k \in Nat /\ PortfolioBound \in Nat
      /\ plan_costs' \in Seq(Nat) /\ Len(plan_costs') >= k
      /\ \A i \in 1..k : plan_costs'[i] = plan_costs[i] /\ plan_costs[i] < PortfolioBound
      /\ \A i \in k+1..Len(plan_costs') : InBound(plan_costs'[i])
  BY <1>1, SatRun, PortfolioAssumption DEF PortfolioInv, DiskInv, CostInv
<1>3. ASSUME NEW i \in k+1..Len(plan_costs') PROVE plan_costs'[i] < PortfolioBound
  <2>1. plan_costs'[i] < NextPortfolioCostBound /\ plan_costs'[i] \in Nat
    BY <1>2, ElementOfSeq DEF InBound
  <2>2. CASE plan_costs = <<>>
    BY <2>1, <2>2 DEF NextPortfolioCostBound
  <2>3. CASE plan_costs # <<>>
    <3>1. k \in 1..k /\ Last(plan_costs) = plan_costs[k] /\ plan_costs[k] \in Nat
      BY <1>2, <2>3, ElementOfSeq DEF Last
    <3>2. plan_costs'[i] < plan_costs[k] /\ plan_costs[k] < PortfolioBound
      BY <1>2, <2>1, <2>3, <3>1 DEF NextPortfolioCostBound
    <3> QED
      BY <1>2, <2>1, <3>1, <3>2
  <2> QED
    BY <2>2, <2>3
<1>4. ASSUME NEW i \in 1..k PROVE plan_costs'[i] < PortfolioBound
  <2>1. plan_costs'[i] = plan_costs[i] /\ plan_costs[i] < PortfolioBound
    BY <1>2
  <2> QED
    BY <2>1
<1>5. \A i \in 1..Len(plan_costs') : i \in 1..k \/ i \in k+1..Len(plan_costs')
  BY <1>2
<1> QED
  BY <1>3, <1>4, <1>5

LEMMA CostInvHolds == Spec => []CostInv
<1>1. Init => CostInv
  <2>1. Init => plan_costs = <<>>
    BY DEF Init
  <2> QED
    BY <2>1 DEF CostInv
<1>2. PortfolioInv /\ PortfolioInv' /\ CostInv /\ [Next]_vars => CostInv'
  <2> SUFFICES ASSUME PortfolioInv, PortfolioInv', CostInv, [Next]_vars, BoundIsKept'
               PROVE  \A i \in 1..Len(plan_costs') : plan_costs'[i] < PortfolioBound
    BY DEF CostInv
  <2>1. CASE attributes'.OPTIMAL
    <3>1. plan_costs' = <<>>
      BY <2>1 DEF PortfolioInv, DiskInv
    <3> QED
      BY <3>1
  <2>2. CASE ~attributes'.OPTIMAL
    <3>1. attributes' = attributes
      BY Zenon DEF Next, Step, Terminated, RunConfig, SkipConfig, RerunConfig, SkipRerun,
         NextRound, RunFinalConfig, SkipFinalConfig, RunOptConfig, EndOpt, vars
    <3>2. ~attributes.OPTIMAL
      BY <2>2, <3>1
    <3>3. BoundIsKept
      BY <3>1, PortfolioConfigsUnchanged DEF BoundIsKept, IsCarefree
    <3>4. CASE UNCHANGED diskvars
      BY <3>3, <3>4 DEF CostInv, diskvars
    <3>5. CASE /\ exitcode = "RUNNING"
               /\ \E c \in PortfolioConfigs \intersect Config :
                    \E code \in SearchExitCodes : \E output \in Outputs(c, code) :
                      RunSatConfig(c, code, output)
      BY <3>2, <3>3, <3>5, CostsAfterRun
    <3> QED
      BY <3>2, <3>4, <3>5, StepOnDisk
  <2> QED
    BY <2>1, <2>2
<1> QED
  BY <1>1, <1>2, PortfolioInvHolds, PTL DEF Spec

\* The plan files are those that the plan manager knows of: complete, numbered
\* without a gap and each cheaper than the one before.  They are below the
\* bound of the portfolio if all its runs that write plans keep it.
THEOREM PlansOnDiskHolds == Spec => []PlansOnDisk
<1>1. PortfolioInv /\ CostInv => PlansOnDisk
  <2> SUFFICES ASSUME PortfolioInv, CostInv, ContinuesNumbers PROVE PlansOnDisk
    BY DEF PlansOnDisk
  <2>1. /\ plan_costs \in Seq(Nat) /\ files \in Seq(FileContents) /\ base_file = NoFile
        /\ Len(plan_costs) <= Len(files)
        /\ exitcode # "DRIVER_CRITICAL_ERROR" => Len(files) = Len(plan_costs)
        /\ \A i \in 1..Len(plan_costs) :
             files[i] = plan_costs[i] /\ (i > 1 => plan_costs[i] < plan_costs[i-1])
    BY DEF PortfolioInv, DiskInv, ContinuesNumbers
  <2>2. exitcode # "DRIVER_CRITICAL_ERROR" => files = plan_costs
    <3>1. plan_costs \in Seq(FileContents)
      BY <2>1, SeqMonotonic DEF FileContents
    <3> QED
      BY <2>1, <3>1, SeqEqual
  <2> QED
    BY <2>1, <2>2 DEF PlansOnDisk, CostInv, BoundIsKept
<1> QED
  BY <1>1, PortfolioInvHolds, CostInvHolds, PTL

=============================================================================
