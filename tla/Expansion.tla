----------------------------- MODULE Expansion -----------------------------
(***************************************************************************)
(* The loop over the applicable operators of a node under expansion, which *)
(* breadth-first search and iterated width search have in common.          *)
(***************************************************************************)
EXTENDS SearchEngine

VARIABLES
  node,               \* the node under expansion, NoState while there is none
  pending             \* its operators not yet looked at, with the successors

expansionvars == <<node, pending>>

ExpansionInit == node = NoState /\ pending = {}

StartExpansion(n) == node' = n /\ pending' = Successors(n)

NextOperator(x) ==
  /\ node # NoState
  /\ x \in pending
  /\ pending' = pending \ {x}
  /\ UNCHANGED node

EndExpansion ==
  /\ node # NoState
  /\ pending = {}
  /\ node' = NoState
  /\ UNCHANGED pending

=============================================================================
