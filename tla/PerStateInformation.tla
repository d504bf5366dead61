------------------------ MODULE PerStateInformation ------------------------
(***************************************************************************)
(* PerStateInformation objects: maps from registered states to entries.    *)
(* An object keeps one vector of entries for each registry, caches the     *)
(* registry and the vector it used last, and subscribes to the registries  *)
(* it stores entries for.  A registry that is destroyed tells its          *)
(* subscribers, since a later registry may get its address, and a later    *)
(* vector the memory of an old one.                                        *)
(*                                                                         *)
(* What a reader expects is the variable info: a map from states to        *)
(* entries in which everything has the default value at first.             *)
(***************************************************************************)
EXTENDS Naturals, FiniteSets

CONSTANTS
  Objects,               \* the PerStateInformation objects
  Addresses,             \* where registries may be allocated
  Blocks,                \* where vectors of entries may be allocated
  MaxIds,                \* bound on the states of a registry
  Entries,               \* the values of an entry
  Default,               \* the default value
  Null                   \* the null pointer, free memory, no entry

Ids == 0..MaxIds-1

Vector == [Ids -> Entries \union {Null}]

ASSUME PerStateAssumption ==
  /\ MaxIds \in Nat
  /\ Default \in Entries
  /\ Null \notin Entries \union Addresses \union Blocks \union Nat
  /\ Null \notin Vector

VARIABLES
  registry_size,         \* the size of the registry at each address, or Null
  subscribers,           \* of the registries
  alive,                 \* the objects that exist
  entries_by_registry,   \* of each object: from addresses to vectors
  cached_registry,       \* of each object
  cached_entries,        \* of each object
  memory,                \* of every block: an entry for each id it is resized to
  info                   \* of each object and registry: the map it stands for

perstatevars == <<registry_size, subscribers, alive, entries_by_registry,
                  cached_registry, cached_entries, memory, info>>

EmptyVector == [id \in Ids |-> Null]
Defaults == [id \in Ids |-> Default]

PerStateTypeOK ==
  /\ registry_size \in [Addresses -> (0..MaxIds) \union {Null}]
  /\ subscribers \in [Addresses -> SUBSET Objects]
  /\ alive \subseteq Objects
  /\ entries_by_registry \in [Objects -> [Addresses -> Blocks \union {Null}]]
  /\ cached_registry \in [Objects -> Addresses \union {Null}]
  /\ cached_entries \in [Objects -> Blocks \union {Null}]
  /\ memory \in [Blocks -> Vector \union {Null}]
  /\ info \in [Objects -> [Addresses -> [Ids -> Entries]]]

PerStateInit ==
  /\ registry_size = [a \in Addresses |-> Null]
  /\ subscribers = [a \in Addresses |-> {}]
  /\ alive = {}
  /\ entries_by_registry = [o \in Objects |-> [a \in Addresses |-> Null]]
  /\ cached_registry = [o \in Objects |-> Null]
  /\ cached_entries = [o \in Objects |-> Null]
  /\ memory = [b \in Blocks |-> Null]
  /\ info = [o \in Objects |-> [a \in Addresses |-> Defaults]]

-----------------------------------------------------------------------------
(* Registries.                                                             *)

CreateRegistry(a) ==
  /\ registry_size[a] = Null
  /\ registry_size' = [registry_size EXCEPT ![a] = 0]
  /\ subscribers' = [subscribers EXCEPT ![a] = {}]
  /\ UNCHANGED <<alive, entries_by_registry, cached_registry, cached_entries, memory, info>>

IsRegistry(a) == registry_size[a] # Null

RegisterState(a) ==
  /\ IsRegistry(a) /\ registry_size[a] < MaxIds
  /\ registry_size' = [registry_size EXCEPT ![a] = @ + 1]
  /\ UNCHANGED <<subscribers, alive, entries_by_registry, cached_registry,
                 cached_entries, memory, info>>

\* Fault: the cache outlives the registry.
ForgetCachedNever(o, a) == FALSE

\* What notify_service_destroyed does to the cache of its object.
ForgetCached(o, a) == cached_registry[o] = a

\* ~SubscriberService calls notify_service_destroyed of every subscriber.
DestroyRegistry(a) ==
  /\ IsRegistry(a)
  /\ registry_size' = [registry_size EXCEPT ![a] = Null]
  /\ memory' = [b \in Blocks |->
       IF \E o \in subscribers[a] : entries_by_registry[o][a] = b THEN Null ELSE memory[b]]
  /\ entries_by_registry' = [o \in Objects |->
       IF o \in subscribers[a] THEN [entries_by_registry[o] EXCEPT ![a] = Null]
       ELSE entries_by_registry[o]]
  /\ cached_registry' = [o \in Objects |->
       IF o \in subscribers[a] /\ ForgetCached(o, a) THEN Null ELSE cached_registry[o]]
  /\ cached_entries' = [o \in Objects |->
       IF o \in subscribers[a] /\ ForgetCached(o, a) THEN Null ELSE cached_entries[o]]
  /\ subscribers' = [subscribers EXCEPT ![a] = {}]
  /\ info' = [o \in Objects |-> [info[o] EXCEPT ![a] = Defaults]]
  /\ UNCHANGED alive

-----------------------------------------------------------------------------
(* Objects.                                                                *)

CreateObject(o) ==
  /\ o \notin alive
  /\ alive' = alive \union {o}
  /\ cached_registry' = [cached_registry EXCEPT ![o] = Null]
  /\ cached_entries' = [cached_entries EXCEPT ![o] = Null]
  /\ entries_by_registry' = [entries_by_registry EXCEPT ![o] = [a \in Addresses |-> Null]]
  /\ info' = [info EXCEPT ![o] = [a \in Addresses |-> Defaults]]
  /\ UNCHANGED <<registry_size, subscribers, memory>>

\* Fault: ~Subscriber leaves the registries as they are.
UnsubscribedNever(o) == subscribers

\* ~Subscriber unsubscribes from the services of o.
Unsubscribed(o) == [a \in Addresses |-> subscribers[a] \ {o}]

DestroyObject(o) ==
  /\ o \in alive
  /\ alive' = alive \ {o}
  /\ memory' = [b \in Blocks |->
       IF \E a \in Addresses : entries_by_registry[o][a] = b THEN Null ELSE memory[b]]
  /\ subscribers' = Unsubscribed(o)
  /\ UNCHANGED <<registry_size, entries_by_registry, cached_registry, cached_entries, info>>

\* The vector that is filled with defaults for the ids that the registry has now.
Resized(vector, a) ==
  [id \in Ids |-> IF id < registry_size[a] /\ vector[id] = Null THEN Default ELSE vector[id]]

\* Assignment to operator[], whose get_entries uses block b for the vector.
WriteTo(o, a, id, value, b, vector) ==
  /\ entries_by_registry' = [entries_by_registry EXCEPT ![o][a] = b]
  /\ cached_registry' = [cached_registry EXCEPT ![o] = a]
  /\ cached_entries' = [cached_entries EXCEPT ![o] = b]
  /\ memory' = [memory EXCEPT ![b] = [Resized(vector, a) EXCEPT ![id] = value]]
  /\ info' = [info EXCEPT ![o][a][id] = value]

\* A state that has no registry ends the planner, and is not modelled.
Accessible(o, a, id) == o \in alive /\ IsRegistry(a) /\ id < registry_size[a]

WriteCached(o, a, id, value) ==
  /\ Accessible(o, a, id)
  /\ cached_registry[o] = a /\ memory[cached_entries[o]] # Null
  /\ memory' = [memory EXCEPT ![cached_entries[o]] = [Resized(@, a) EXCEPT ![id] = value]]
  /\ info' = [info EXCEPT ![o][a][id] = value]
  /\ UNCHANGED <<registry_size, subscribers, alive, entries_by_registry, cached_registry,
                 cached_entries>>

WriteFound(o, a, id, value) ==
  /\ Accessible(o, a, id)
  /\ cached_registry[o] # a /\ entries_by_registry[o][a] # Null
  /\ WriteTo(o, a, id, value, entries_by_registry[o][a], memory[entries_by_registry[o][a]])
  /\ UNCHANGED <<registry_size, subscribers, alive>>

WriteNew(o, a, id, value) ==
  /\ Accessible(o, a, id)
  /\ cached_registry[o] # a /\ entries_by_registry[o][a] = Null
  /\ \E b \in Blocks : memory[b] = Null /\ WriteTo(o, a, id, value, b, EmptyVector)
  /\ subscribers' = [subscribers EXCEPT ![a] = @ \union {o}]
  /\ UNCHANGED <<registry_size, alive>>

\* The operator[] of a const object, which creates no vector.
ReadConst(o, a, id) ==
  /\ Accessible(o, a, id)
  /\ cached_registry[o] # a /\ entries_by_registry[o][a] # Null
  /\ cached_registry' = [cached_registry EXCEPT ![o] = a]
  /\ cached_entries' = [cached_entries EXCEPT ![o] = entries_by_registry[o][a]]
  /\ UNCHANGED <<registry_size, subscribers, alive, entries_by_registry, memory, info>>

PerStateStep ==
  \/ \E a \in Addresses : CreateRegistry(a) \/ RegisterState(a) \/ DestroyRegistry(a)
  \/ \E o \in Objects : CreateObject(o) \/ DestroyObject(o)
  \/ \E o \in Objects, a \in Addresses, id \in Ids :
       \/ ReadConst(o, a, id)
       \/ \E value \in Entries :
            WriteCached(o, a, id, value) \/ WriteFound(o, a, id, value)
              \/ WriteNew(o, a, id, value)

PerStateSpec == PerStateInit /\ [][PerStateStep]_perstatevars

-----------------------------------------------------------------------------
(* Properties.                                                             *)

\* The vector that get_entries finds, cached or not.
Found(o, a) == IF cached_registry[o] = a THEN cached_entries[o] ELSE entries_by_registry[o][a]

\* What the operator[] of a const object returns.
ReadValue(o, a, id) ==
  IF Found(o, a) = Null \/ memory[Found(o, a)][id] = Null THEN Default
  ELSE memory[Found(o, a)][id]

\* Every object answers like a map from the states of the existing registries
\* to the values stored last, or the default: no entry of a destroyed registry,
\* of another object or of another state is read (PerStateInformation).
ReadsAreLatest ==
  \A o \in alive, a \in Addresses, id \in Ids :
    IsRegistry(a) /\ id < registry_size[a] =>
      /\ Found(o, a) # Null => memory[Found(o, a)] # Null
      /\ ReadValue(o, a, id) = info[o][a][id]

\* The cache of an object leads to the vector of the registry, as get_entries
\* asserts, and exactly the existing objects that store entries for a registry
\* are told when it is destroyed, so that no freed object is called and no
\* vector outlives its registry.
PointersValid ==
  /\ \A o \in alive : cached_registry[o] # Null =>
       /\ cached_entries[o] = entries_by_registry[o][cached_registry[o]]
       /\ IsRegistry(cached_registry[o])
  /\ \A a \in Addresses :
       subscribers[a] = {o \in alive : entries_by_registry[o][a] # Null}

=============================================================================
