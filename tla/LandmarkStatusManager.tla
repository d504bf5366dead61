----------------------- MODULE LandmarkStatusManager -----------------------
(***************************************************************************)
(* The landmarks that the landmark-count heuristic counts.  For every      *)
(* state the manager keeps the landmarks that every path to it, among      *)
(* those the search has reported, has reached; the landmarks that are not  *)
(* reached, or are needed again, are counted.                              *)
(*                                                                         *)
(* The landmark graph is given, with orders that hold for every path:      *)
(* those the factories compute without reasonable orders, the only ones    *)
(* an admissible landmark-count heuristic accepts.                         *)
(***************************************************************************)
EXTENDS Integers, FiniteSets

CONSTANTS
  TaskStates,
  Edges,                 \* pairs <<parent state, state>> an operator leads along
  StartState,
  EndStates,             \* the goal states
  NumLandmarks,
  TrueIn,                \* of every landmark: the states it is true in
  Orders,                \* pairs <<parent, child>> of landmarks
  GreedyNecessary,       \* the orders of that type or a stronger one
  TrueInGoal,            \* the landmarks that are part of the goal
  Nothing                \* no state

Landmarks == 0..NumLandmarks-1

Parents(id) == {o[1] : o \in {p \in Orders : p[2] = id}}

-----------------------------------------------------------------------------
(* What the orders and the landmarks mean.  A state is in Avoiding[id] if  *)
(* some path leads to it on which id is never true, in CanAvoid[id] if     *)
(* some path leads from it to the goal on which id does not become true.   *)

AvoidsFrom(id, S) ==
  /\ StartState \in S \union TrueIn[id]
  /\ \A e \in Edges : e[1] \in S => e[2] \in S \union TrueIn[id]

Avoiding == [id \in Landmarks |->
  {s \in TaskStates \ TrueIn[id] : \A S \in SUBSET TaskStates : AvoidsFrom(id, S) => s \in S}]

\* The landmark has not been true before the last state of some path to s.
NotBefore(id, s) == s = StartState \/ \E e \in Edges : e[2] = s /\ e[1] \in Avoiding[id]

AvoidsTo(id, S) ==
  /\ EndStates \subseteq S
  /\ \A e \in Edges : e[2] \in S \ TrueIn[id] => e[1] \in S

CanAvoid == [id \in Landmarks |->
  {s \in TaskStates : \A S \in SUBSET TaskStates : AvoidsTo(id, S) => s \in S}]

ASSUME LandmarkTask ==
  /\ Edges \subseteq TaskStates \X TaskStates
  /\ StartState \in TaskStates /\ EndStates \subseteq TaskStates /\ Nothing \notin TaskStates
  /\ NumLandmarks \in Nat
  /\ TrueIn \in [Landmarks -> SUBSET TaskStates]
  /\ Orders \subseteq Landmarks \X Landmarks /\ GreedyNecessary \subseteq Orders
  /\ TrueInGoal \subseteq Landmarks

ASSUME LandmarkGraphSound ==
  /\ \A id \in Landmarks : Avoiding[id] \intersect CanAvoid[id] = {}
  /\ \A o \in Orders : \A s \in TrueIn[o[2]] : ~NotBefore(o[1], s)
  /\ \A o \in GreedyNecessary, e \in Edges :
       e[1] \in Avoiding[o[2]] /\ e[2] \in TrueIn[o[2]] => e[1] \in TrueIn[o[1]]
  /\ \A id \in TrueInGoal : EndStates \subseteq TrueIn[id]

-----------------------------------------------------------------------------

VARIABLES
  reached_lms,           \* of every state; at first all landmarks
  processed,             \* the states the search has reported
  marking,               \* the loop that marks the landmarks a state reaches
  lm_status,
  evaluated              \* the state that lm_status is about

lmvars == <<reached_lms, processed, marking, lm_status, evaluated>>

NotMarking == [state |-> Nothing, id |-> 0]

LandmarkTypeOK ==
  /\ reached_lms \in [TaskStates -> SUBSET Landmarks]
  /\ processed \subseteq TaskStates
  /\ \/ marking = NotMarking
     \/ marking.state \in processed /\ marking.id \in Landmarks
  /\ lm_status \in [Landmarks -> {"lm_reached", "lm_not_reached", "lm_needed_again"}]
  /\ evaluated \in TaskStates \union {Nothing}

LandmarkInit ==
  /\ reached_lms = [s \in TaskStates |-> Landmarks]
  /\ processed = {}
  /\ marking = NotMarking
  /\ lm_status = [id \in Landmarks |-> "lm_not_reached"]
  /\ evaluated = Nothing

\* Fault: the landmark is needed for every child, reached or not.
NeededAgainForAll(id, s, reached) ==
  s \notin TrueIn[id] /\ (id \in TrueInGoal \/ \E o \in GreedyNecessary : o[1] = id)

\* Of a landmark that s has reached.
NeededAgain(id, s, reached) ==
  /\ s \notin TrueIn[id]
  /\ \/ id \in TrueInGoal
     \/ \E o \in GreedyNecessary : o[1] = id /\ o[2] \notin reached

StatusOf(s, reached) == [id \in Landmarks |->
  IF id \notin reached THEN "lm_not_reached"
  ELSE IF NeededAgain(id, s, reached) THEN "lm_needed_again" ELSE "lm_reached"]

\* set_reached_landmarks_for_initial_state, followed by update_lm_status
InitiallyReached == {id \in Landmarks : Parents(id) = {} /\ StartState \in TrueIn[id]}

ProcessInitialState ==
  /\ processed = {}
  /\ processed' = {StartState}
  /\ reached_lms' = [reached_lms EXCEPT ![StartState] = InitiallyReached]
  /\ lm_status' = StatusOf(StartState, InitiallyReached)
  /\ evaluated' = StartState
  /\ UNCHANGED marking

\* process_state_transition; a transition from a state to itself is ignored.
ProcessTransition(parent, state) ==
  /\ marking = NotMarking
  /\ <<parent, state>> \in Edges /\ parent \in processed /\ parent # state
  /\ reached_lms' = [reached_lms EXCEPT ![state] =
       reached_lms[state] \intersect reached_lms[parent]]
  /\ processed' = processed \union {state}
  /\ marking' = IF NumLandmarks = 0 THEN NotMarking ELSE [state |-> state, id |-> 0]
  /\ UNCHANGED <<lm_status, evaluated>>

LandmarkIsLeaf(id, reached) == Parents(id) \subseteq reached

\* One landmark of the loop that ends process_state_transition.
MarkLandmark ==
  /\ marking # NotMarking
  /\ LET s == marking.state
         id == marking.id
     IN /\ reached_lms' =
             IF s \in TrueIn[id] /\ LandmarkIsLeaf(id, reached_lms[s])
             THEN [reached_lms EXCEPT ![s] = @ \union {id}] ELSE reached_lms
        /\ marking' = IF id + 1 = NumLandmarks THEN NotMarking
                      ELSE [state |-> s, id |-> id + 1]
  /\ UNCHANGED <<processed, lm_status, evaluated>>

\* update_lm_status, when the heuristic evaluates a state.
UpdateStatus(s) ==
  /\ marking = NotMarking /\ s \in processed
  /\ evaluated' = s
  /\ lm_status' = StatusOf(s, reached_lms[s])
  /\ UNCHANGED <<reached_lms, processed, marking>>

LandmarkStep ==
  \/ ProcessInitialState
  \/ \E e \in Edges : ProcessTransition(e[1], e[2])
  \/ MarkLandmark
  \/ \E s \in TaskStates : UpdateStatus(s)

LandmarkSpec == LandmarkInit /\ [][LandmarkStep]_lmvars

-----------------------------------------------------------------------------
(* Properties.                                                             *)

\* A landmark that a state has not reached was never true on some path to the
\* state, whatever paths were found in whatever order.
UnreachedIsAvoided ==
  marking = NotMarking =>
    \A s \in processed : \A id \in Landmarks \ reached_lms[s] : s \in Avoiding[id]

\* Every landmark the heuristic counts for a state becomes true on every path
\* from the state to the goal: counting it keeps the heuristic admissible.
CountedIsNeeded ==
  evaluated # Nothing =>
    \A id \in Landmarks : lm_status[id] # "lm_reached" => evaluated \notin CanAvoid[id]

=============================================================================
