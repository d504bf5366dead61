------------------------- MODULE MCDataStructures -------------------------
(***************************************************************************)
(* The open lists, the per-state information and the state registry on      *)
(* small instances.  A behaviour uses one of them; the variables of the     *)
(* others keep their initial values.                                       *)
(***************************************************************************)
EXTENDS OpenLists, PerStateInformation, StateRegistry

VARIABLE structure

structurevars == <<structure, openlistvars, perstatevars, vars>>

StructureInit ==
  /\ structure \in {"open_list", "per_state_information", "state_registry"}
  /\ OpenListsInit /\ PerStateInit /\ Init
  /\ structure # "open_list" => sublists = CHOOSE s \in AlternationLists : TRUE

UseOpenList ==
  structure = "open_list" /\ OpenListsStep /\ UNCHANGED <<structure, perstatevars, vars>>
UsePerState ==
  structure = "per_state_information" /\ PerStateStep
    /\ UNCHANGED <<structure, openlistvars, vars>>
UseRegistry ==
  structure = "state_registry" /\ Next /\ UNCHANGED <<structure, openlistvars, perstatevars>>

StructureNext == UseOpenList \/ UsePerState \/ UseRegistry

StructureSpec == StructureInit /\ [][StructureNext]_structurevars

-----------------------------------------------------------------------------

MCList(kind, evaluators, pref) ==
  [kind |-> kind, evaluators |-> evaluators, only_preferred |-> pref,
   allow_unsafe_pruning |-> FALSE]

MCContext(ff, lm, preferred) ==
  [value |-> [v \in Evaluators |-> IF v = "ff" THEN ff ELSE lm], preferred |-> preferred]

MCInsertions == {MCContext(0, 0, TRUE), MCContext(0, 1, TRUE), MCContext(1, 0, FALSE),
                 MCContext(1, 1, FALSE), MCContext(Infinity, 0, FALSE),
                 MCContext(1, Infinity, TRUE), MCContext(0, Infinity, FALSE)}

\* The last one has a list that prunes unsafely, so that its sublists do not hold
\* the same entries.
MCAlternationLists ==
  {<<MCList("pareto", <<"ff", "lm">>, FALSE)>>,
   <<MCList("type_based", <<"ff">>, FALSE), MCList("tiebreaking", <<"ff">>, TRUE)>>,
   <<MCList("epsilon_greedy", <<"lm">>, FALSE), MCList("tiebreaking", <<"lm", "ff">>, FALSE),
     MCList("pareto", <<"lm">>, TRUE)>>,
   <<[MCList("tiebreaking", <<"ff", "lm">>, FALSE) EXCEPT !.allow_unsafe_pruning = TRUE],
     MCList("type_based", <<"lm", "ff">>, FALSE)>>}

-----------------------------------------------------------------------------
(* The registry has two variables of two values and operators with         *)
(* conditional effects: swap exchanges the values, reset leads back to      *)
(* states that are registered already.                                     *)

MCVariables == {"u", "v"}
MCValues == {0, 1}
MCOperators == {"swap", "set", "reset"}
MCPrecondition == [o \in MCOperators |->
  CASE o = "swap" -> {} [] o = "set" -> {<<"u", 0>>} [] o = "reset" -> {<<"u", 1>>}]
If(x, n, y, m) == [condition |-> {<<x, n>>}, var |-> y, value |-> m]
MCEffects == [o \in MCOperators |->
  CASE o = "swap" -> <<If("u", 0, "v", 0), If("u", 1, "v", 1), If("v", 0, "u", 0), If("v", 1, "u", 1)>>
    [] o = "set"  -> <<[condition |-> {}, var |-> "u", value |-> 1]>>
    [] o = "reset" -> <<[condition |-> {}, var |-> "u", value |-> 0]>>]
MCInitialValues == [x \in MCVariables |-> 0]

NoAxioms(c) == c

=============================================================================
