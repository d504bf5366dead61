--------------------------- MODULE StateRegistry ---------------------------
(***************************************************************************)
(* StateRegistry: the pool of packed states, the set of the ids registered *)
(* in it, and the State objects ("handles") that clients hold.  A handle   *)
(* has the id of its state and a pointer to the slot of the pool that it   *)
(* reads its values from, unless it has been unpacked.                     *)
(*                                                                         *)
(* get_successor_state builds the successor in the slot behind the last    *)
(* state, finds out whether it is a duplicate, and then takes the slot     *)
(* back; but the handle it returns keeps pointing to that slot.  The next  *)
(* successor is written over it.  EngineClient says that clients use       *)
(* handles the way the search engines do.                                  *)
(***************************************************************************)
EXTENDS Integers, Sequences, FiniteSets

CONSTANTS
  Variables,
  Values,
  Operators,
  Precondition,          \* of every operator: a set of facts <<variable, value>>
  Effects,               \* of every operator: a sequence of effects
  InitialValues,
  HasAxioms,
  EvaluateAxioms(_),     \* AxiomEvaluator::evaluate
  EngineClient,          \* clients keep no handle of a duplicate
  MaxStates,             \* bound on the states that are registered
  MaxHandles,            \* bound on the handles that clients hold at a time
  Unused                 \* no values, no handle: what memory never written holds

Contents == [Variables -> Values]
Facts == Variables \X Values
Effect == [condition : SUBSET Facts, var : Variables, value : Values]
Handle == [id : 0..MaxStates-1, slot : 0..MaxStates,
           values : Contents \union {Unused}]

ASSUME RegistryAssumption ==
  /\ Precondition \in [Operators -> SUBSET Facts]
  /\ DOMAIN Effects = Operators /\ \A o \in Operators : Effects[o] \in Seq(Effect)
  /\ InitialValues \in Contents
  /\ {HasAxioms, EngineClient} \subseteq BOOLEAN
  /\ \A c \in Contents : EvaluateAxioms(c) \in Contents
  /\ MaxStates \in Nat \ {0} /\ MaxHandles \in Nat
  /\ Unused \notin Contents \union Handle

VARIABLES
  pool,                  \* the memory of state_data_pool, popped slots included
  size,                  \* state_data_pool.size()
  registered_states,     \* the ids in the hash set
  cached_initial_state,
  handles                \* the State objects that clients hold

vars == <<pool, size, registered_states, cached_initial_state, handles>>

Init ==
  /\ pool = [i \in 0..MaxStates |-> Unused]
  /\ size = 0
  /\ registered_states = {}
  /\ cached_initial_state = Unused
  /\ handles = {}

-----------------------------------------------------------------------------

\* StateRegistry::lookup_state.
Lookup(id) == [id |-> id, slot |-> id, values |-> Unused]

\* The values that State::operator[] reads, if the memory of the pool is m.
ReadFrom(h, m) == IF h.values = Unused THEN m[h.slot] ELSE h.values
Read(h) == ReadFrom(h, pool)

Holds(facts, values) == \A f \in facts : values[f[1]] = f[2]

Write(values, effect) == [values EXCEPT ![effect.var] = effect.value]

\* A fault: the duplicate is not removed from the pool.
InsertIdWithoutPop(m) ==
  LET same == {i \in registered_states : m[i] = m[size]}
  IN  /\ registered_states' = IF same = {} THEN registered_states \union {size}
                                           ELSE registered_states
      /\ size' = size + 1

\* insert_id_or_pop_state, when m is the memory of the pool and the state to
\* register is in slot size.  Popping leaves the memory as it is.
InsertIdOrPop(m) ==
  LET same == {i \in registered_states : m[i] = m[size]}
  IN  /\ registered_states' = IF same = {} THEN registered_states \union {size}
                                           ELSE registered_states
      /\ size' = IF same = {} THEN size + 1 ELSE size

\* The id that insert_id_or_pop_state returns.
IdOf(m) ==
  LET same == {i \in registered_states : m[i] = m[size]}
  IN  IF same = {} THEN size ELSE CHOOSE i \in same : TRUE

GetInitialState ==
  /\ cached_initial_state = Unused
  /\ pool' = [pool EXCEPT ![size] = InitialValues]
  /\ InsertIdOrPop(pool')
  /\ cached_initial_state' = Lookup(IdOf(pool'))
  /\ handles' = handles \union {cached_initial_state'}

-----------------------------------------------------------------------------

\* A fault: the slot is computed before the predecessor is pushed.
LastSlot == size - 1

\* The slot that push_back writes to.
NewSlot == size

\* What the new slot holds after the buffer of the predecessor h was pushed
\* and the effects were written to it.  Their conditions are read from h: if
\* h is the handle of a duplicate, its buffer may be the slot that is edited.
Edit(h, o) ==
  LET v[i \in 0..Len(Effects[o])] ==
        IF i = 0 THEN pool[h.slot]
        ELSE IF Holds(Effects[o][i].condition,
                      ReadFrom(h, [pool EXCEPT ![NewSlot] = v[i-1]]))
          THEN Write(v[i-1], Effects[o][i])
          ELSE v[i-1]
  IN  v[Len(Effects[o])]

\* The values of the successor of a state with these values.
Result(values, o) ==
  LET v[i \in 0..Len(Effects[o])] ==
        IF i = 0 THEN values
        ELSE IF Holds(Effects[o][i].condition, values)
          THEN Write(v[i-1], Effects[o][i])
          ELSE v[i-1]
      new == v[Len(Effects[o])]
  IN  IF HasAxioms THEN EvaluateAxioms(new) ELSE new

\* A fault: a client keeps the handle of a duplicate beyond the next push.
MayPushAlways(h) == TRUE

\* What the engines make sure of when they ask for a successor of h: they got
\* h from lookup_state, and the successors they asked for before are gone
\* (they are local to a loop body, or current_state, which is assigned).
MayPush(h) == EngineClient => \A k \in handles : k.slot = k.id

\* The handle for which get_successor_state asks the predecessor to unpack.
Unpacked(h) == [id |-> h.id, slot |-> h.slot, values |-> Read(h)]

\* The values that the handle returned by get_successor_state comes with.
NewValues(values) == IF HasAxioms THEN values ELSE Unused

GetSuccessorState(h, o) ==
  /\ Cardinality(handles) < MaxHandles
  /\ MayPush(h)
  /\ Holds(Precondition[o], Read(h))
  /\ pool' = [pool EXCEPT ![NewSlot] =
                IF HasAxioms THEN Result(Read(h), o) ELSE Edit(h, o)]
  /\ size < MaxStates \/ \E i \in registered_states : pool'[i] = pool'[size]
  /\ InsertIdOrPop(pool')
  /\ LET s == [id |-> IdOf(pool'), slot |-> size, values |-> NewValues(pool'[size])]
         kept == IF HasAxioms THEN (handles \ {h}) \union {Unpacked(h)} ELSE handles
     IN  handles' = kept \union {s}
  /\ UNCHANGED cached_initial_state

LookupState(id) ==
  /\ Cardinality(handles) < MaxHandles
  /\ handles' = handles \union {Lookup(id)}
  /\ UNCHANGED <<pool, size, registered_states, cached_initial_state>>

\* State::unpack, which clients call when they read many values.
Unpack(h) ==
  /\ handles' = (handles \ {h}) \union {Unpacked(h)}
  /\ UNCHANGED <<pool, size, registered_states, cached_initial_state>>

\* The client destroys its State object.
Forget(h) ==
  /\ handles' = handles \ {h}
  /\ UNCHANGED <<pool, size, registered_states, cached_initial_state>>

Next ==
  \/ GetInitialState
  \/ \E h \in handles, o \in Operators : GetSuccessorState(h, o)
  \/ \E id \in 0..size-1 : LookupState(id)
  \/ \E h \in handles : Unpack(h) \/ Forget(h)

Spec == Init /\ [][Next]_vars

-----------------------------------------------------------------------------
(***************************************************************************)
(* Properties.                                                             *)
(***************************************************************************)

\* The ids are 0..size-1, and no two registered states have the same values:
\* the engines compare states by comparing their ids.
NoDuplicates ==
  /\ registered_states = 0..size-1
  /\ \A i, j \in 0..size-1 : pool[i] = pool[j] => i = j

\* Every handle reads the values of the state that its id names, however many
\* states were registered or found to be duplicates since it was made.
HandlesReadTheirState == \A h \in handles : Read(h) = pool[h.id]

\* Once registered, a state keeps its id and its values for ever.
RegisteredForever ==
  [][size <= size' /\ \A i \in 0..size-1 : pool'[i] = pool[i]]_vars

=============================================================================
