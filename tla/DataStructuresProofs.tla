------------------------ MODULE DataStructuresProofs ------------------------
(***************************************************************************)
(* Theorems about the data structures under the search engines, for all    *)
(* numbers of objects, registries, states and sublists and for every       *)
(* client: per-state information, the state registry, the open lists, and  *)
(* the landmark status manager with its sets of landmarks per state.       *)
(***************************************************************************)
EXTENDS PerStateInformation, StateRegistry, OpenLists, LandmarkStatusManager,
        SequenceTheorems, FiniteSetTheorems, FunctionTheorems, NaturalsInduction, TLAPS

-----------------------------------------------------------------------------
(***************************************************************************)
(* Per-state information answers like the map it stands for.               *)
(***************************************************************************)

Vec(o, a) == entries_by_registry[o][a]

\* The cache repeats what entries_by_registry says.
CacheInv ==
  \A o \in alive : cached_registry[o] # Null =>
    /\ cached_entries[o] = Vec(o, cached_registry[o])
    /\ cached_entries[o] # Null

SubscribersInv ==
  \A a \in Addresses : subscribers[a] = {o \in alive : Vec(o, a) # Null}

\* Vectors belong to existing registries, and no two share memory.
OwnersInv ==
  /\ \A o \in alive, a \in Addresses :
       Vec(o, a) # Null => IsRegistry(a) /\ memory[Vec(o, a)] # Null
  /\ \A o, p \in alive, a, b \in Addresses :
       Vec(o, a) # Null /\ Vec(o, a) = Vec(p, b) => o = p /\ a = b

Stored(o, a, id) ==
  IF Vec(o, a) = Null \/ memory[Vec(o, a)][id] = Null THEN Default ELSE memory[Vec(o, a)][id]

ContentsInv ==
  \A o \in alive, a \in Addresses, id \in Ids : Stored(o, a, id) = info[o][a][id]

PerStateInv == PerStateTypeOK /\ CacheInv /\ SubscribersInv /\ OwnersInv /\ ContentsInv

-----------------------------------------------------------------------------

LEMMA NullDistinct == Null \notin Addresses /\ Null \notin Blocks /\ Null \notin Entries
                        /\ Default \in Entries
BY PerStateAssumption

LEMMA PerStateInitially == PerStateInit => PerStateInv
BY NullDistinct, PerStateAssumption
   DEF PerStateInit, PerStateInv, PerStateTypeOK, CacheInv, SubscribersInv, OwnersInv,
       ContentsInv, Defaults, Vector, Ids

LEMMA CreateRegistryKeeps ==
  ASSUME PerStateInv, NEW a \in Addresses, CreateRegistry(a)
  PROVE  PerStateInv'
<1> USE NullDistinct DEF CreateRegistry, PerStateInv, Vec
<1>1. \A o \in alive : Vec(o, a) = Null
  BY DEF OwnersInv, IsRegistry
<1>2. 0 \in 0..MaxIds
  BY PerStateAssumption
<1>3. PerStateTypeOK'
  BY <1>2 DEF PerStateTypeOK
<1>4. CacheInv'
  BY DEF CacheInv
<1>5. SubscribersInv'
  BY <1>1 DEF SubscribersInv, PerStateTypeOK
<1>6. OwnersInv'
  BY <1>1, <1>2, PerStateAssumption DEF OwnersInv, PerStateTypeOK, IsRegistry
<1>7. ContentsInv'
  BY DEF ContentsInv, Stored
<1> QED
  BY <1>3, <1>4, <1>5, <1>6, <1>7

LEMMA RegisterStateKeeps ==
  ASSUME PerStateInv, NEW a \in Addresses, RegisterState(a)
  PROVE  PerStateInv'
<1> USE NullDistinct DEF RegisterState, PerStateInv, Vec
<1>1. registry_size[a] \in 0..MaxIds /\ registry_size[a] + 1 \in 0..MaxIds
  BY PerStateAssumption DEF PerStateTypeOK, IsRegistry
<1>2. registry_size[a] + 1 # Null
  BY <1>1, PerStateAssumption
<1>3. PerStateTypeOK'
  BY <1>1 DEF PerStateTypeOK
<1>4. CacheInv' /\ SubscribersInv'
  BY DEF CacheInv, SubscribersInv
<1>5. OwnersInv'
  BY <1>1, <1>2 DEF OwnersInv, PerStateTypeOK, IsRegistry
<1>6. ContentsInv'
  BY DEF ContentsInv, Stored
<1> QED
  BY <1>3, <1>4, <1>5, <1>6

LEMMA DestroyRegistryKeeps ==
  ASSUME PerStateInv, NEW a \in Addresses, DestroyRegistry(a)
  PROVE  PerStateInv'
<1> USE NullDistinct DEF PerStateInv
<1>1. PerStateTypeOK'
  BY DEF PerStateTypeOK, DestroyRegistry, Defaults
<1>2. /\ alive' = alive
      /\ \A b \in Addresses : subscribers'[b] = IF b = a THEN {} ELSE subscribers[b]
      /\ \A o \in Objects, b \in Addresses :
           info'[o][b] = IF b = a THEN Defaults ELSE info[o][b]
  BY DEF DestroyRegistry, PerStateTypeOK
<1>3. \A o \in alive : o \in Objects /\ (o \in subscribers[a] <=> Vec(o, a) # Null)
  BY DEF SubscribersInv, PerStateTypeOK
<1>4. \A o \in alive, b \in Addresses : Vec(o, b)' = IF b = a THEN Null ELSE Vec(o, b)
  BY <1>3 DEF DestroyRegistry, PerStateTypeOK, Vec
<1>5. \A o \in alive, b \in Addresses :
        b # a /\ Vec(o, b) # Null => memory'[Vec(o, b)] = memory[Vec(o, b)]
  <2> SUFFICES ASSUME NEW o \in alive, NEW b \in Addresses, b # a, Vec(o, b) # Null
               PROVE  memory'[Vec(o, b)] = memory[Vec(o, b)]
    OBVIOUS
  <2>1. Vec(o, b) \in Blocks
    BY <1>3 DEF PerStateTypeOK, Vec
  <2>2. \A p \in subscribers[a] : p \in alive
    BY DEF SubscribersInv
  <2>3. ~ \E p \in subscribers[a] : Vec(p, a) = Vec(o, b)
    BY <2>2 DEF OwnersInv
  <2> QED
    BY <2>1, <2>3 DEF DestroyRegistry, Vec
<1>6. \A o \in alive : /\ cached_registry[o] = a => cached_registry'[o] = Null
                       /\ cached_registry[o] # a =>
                            /\ cached_registry'[o] = cached_registry[o]
                            /\ cached_entries'[o] = cached_entries[o]
  <2> SUFFICES ASSUME NEW o \in alive
               PROVE  /\ cached_registry[o] = a => cached_registry'[o] = Null
                      /\ cached_registry[o] # a =>
                           /\ cached_registry'[o] = cached_registry[o]
                           /\ cached_entries'[o] = cached_entries[o]
    OBVIOUS
  <2>1. cached_registry[o] = a => o \in subscribers[a]
    BY <1>3 DEF CacheInv
  <2> QED
    BY <1>3, <2>1 DEF DestroyRegistry, ForgetCached
<1>7. CacheInv'
  BY <1>2, <1>3, <1>4, <1>6 DEF CacheInv, PerStateTypeOK
<1>8. SubscribersInv'
  BY <1>2, <1>4 DEF SubscribersInv
<1>9. \A b \in Addresses : b # a => (IsRegistry(b)' <=> IsRegistry(b))
  BY DEF DestroyRegistry, IsRegistry, PerStateTypeOK
<1>10. OwnersInv'
  BY <1>2, <1>4, <1>5, <1>9 DEF OwnersInv
<1>11. ContentsInv'
  BY <1>2, <1>3, <1>4, <1>5 DEF ContentsInv, Stored, Defaults
<1> QED
  BY <1>1, <1>7, <1>8, <1>10, <1>11

LEMMA CreateObjectKeeps ==
  ASSUME PerStateInv, NEW o \in Objects, CreateObject(o)
  PROVE  PerStateInv'
<1> USE NullDistinct DEF PerStateInv
<1>1. PerStateTypeOK'
  BY DEF PerStateTypeOK, CreateObject, Defaults
<1>2. \A p \in Objects : /\ p # o => /\ entries_by_registry'[p] = entries_by_registry[p]
                                     /\ cached_registry'[p] = cached_registry[p]
                                     /\ cached_entries'[p] = cached_entries[p]
                                     /\ info'[p] = info[p]
                         /\ p = o => /\ entries_by_registry'[p] = [a \in Addresses |-> Null]
                                     /\ cached_registry'[p] = Null
                                     /\ info'[p] = [a \in Addresses |-> Defaults]
  BY DEF CreateObject, PerStateTypeOK
<1>3. \A p \in alive' : p \in Objects /\ (p # o => p \in alive)
  BY DEF CreateObject, PerStateTypeOK
<1>4. \A a \in Addresses : Vec(o, a)' = Null /\ \A p \in alive : Vec(p, a)' = Vec(p, a)
  BY <1>2 DEF Vec, CreateObject, PerStateTypeOK
<1>5. alive' = alive \union {o} /\ o \notin alive /\ memory' = memory
        /\ subscribers' = subscribers /\ registry_size' = registry_size
  BY DEF CreateObject
<1>6. CacheInv'
  BY <1>2, <1>3 DEF CacheInv, Vec
<1>7. SubscribersInv'
  BY <1>4, <1>5 DEF SubscribersInv
<1>8. OwnersInv'
  BY <1>4, <1>5 DEF OwnersInv, IsRegistry
<1>9. ContentsInv'
  BY <1>2, <1>3, <1>4, <1>5 DEF ContentsInv, Stored, Defaults
<1> QED
  BY <1>1, <1>6, <1>7, <1>8, <1>9

LEMMA DestroyObjectKeeps ==
  ASSUME PerStateInv, NEW o \in Objects, DestroyObject(o)
  PROVE  PerStateInv'
<1> USE NullDistinct DEF PerStateInv
<1>1. PerStateTypeOK'
  BY DEF PerStateTypeOK, DestroyObject, Unsubscribed
<1>2. alive' = alive \ {o} /\ subscribers' = [a \in Addresses |-> subscribers[a] \ {o}]
        /\ registry_size' = registry_size /\ cached_registry' = cached_registry
        /\ cached_entries' = cached_entries /\ info' = info
        /\ entries_by_registry' = entries_by_registry
  BY DEF DestroyObject, Unsubscribed
<1>3. \A p \in alive \ {o}, a \in Addresses :
        Vec(p, a) # Null => memory'[Vec(p, a)] = memory[Vec(p, a)]
  <2> SUFFICES ASSUME NEW p \in alive \ {o}, NEW a \in Addresses, Vec(p, a) # Null
               PROVE  memory'[Vec(p, a)] = memory[Vec(p, a)]
    OBVIOUS
  <2>1. Vec(p, a) \in Blocks
    BY DEF PerStateTypeOK, Vec
  <2>2. ~ \E b \in Addresses : Vec(o, b) = Vec(p, a)
    BY DEF OwnersInv, DestroyObject
  <2> QED
    BY <2>1, <2>2 DEF DestroyObject, Vec
<1>4. CacheInv'
  BY <1>2 DEF CacheInv, Vec
<1>5. SubscribersInv'
  BY <1>2 DEF SubscribersInv, Vec
<1>6. OwnersInv'
  BY <1>2, <1>3 DEF OwnersInv, Vec, IsRegistry
<1>7. ContentsInv'
  BY <1>2, <1>3 DEF ContentsInv, Stored, Vec
<1> QED
  BY <1>1, <1>4, <1>5, <1>6, <1>7

LEMMA ResizedEntries ==
  ASSUME NEW a, NEW vector
  PROVE  \A i \in Ids : \/ Resized(vector, a)[i] = vector[i]
                        \/ Resized(vector, a)[i] = Default /\ vector[i] = Null
<1> TAKE i \in Ids
<1>1. CASE i < registry_size[a] /\ vector[i] = Null
  BY <1>1 DEF Resized
<1>2. CASE ~(i < registry_size[a] /\ vector[i] = Null)
  BY <1>2 DEF Resized
<1> QED
  BY <1>1, <1>2

\* The three ways to write end in the same state but for the subscription.
LEMMA WriteKeeps ==
  ASSUME PerStateInv, NEW o \in Objects, NEW a \in Addresses, NEW id \in Ids,
         NEW value \in Entries, NEW b \in Blocks, NEW vector \in Vector,
         Accessible(o, a, id), WriteTo(o, a, id, value, b, vector),
         \/ b = Vec(o, a) /\ vector = memory[b]
         \/ Vec(o, a) = Null /\ vector = EmptyVector /\ memory[b] = Null,
         UNCHANGED <<registry_size, alive>>,
         subscribers' = [subscribers EXCEPT ![a] = @ \union {o}]
  PROVE  PerStateInv'
<1> USE NullDistinct DEF PerStateInv
<1> DEFINE written == [Resized(vector, a) EXCEPT ![id] = value]
<1>1. /\ written \in Vector /\ written # Null
      /\ written[id] = value
      /\ \A i \in Ids \ {id} : \/ written[i] = vector[i]
                               \/ written[i] = Default /\ vector[i] = Null
  <2>1. Resized(vector, a) \in Vector
    BY DEF Resized, Vector
  <2>2. written \in Vector /\ written[id] = value
        /\ \A i \in Ids \ {id} : written[i] = Resized(vector, a)[i]
    BY <2>1 DEF Vector
  <2>3. written # Null
    BY <2>2, PerStateAssumption DEF Vector
  <2>4. \A i \in Ids : \/ Resized(vector, a)[i] = vector[i]
                       \/ Resized(vector, a)[i] = Default /\ vector[i] = Null
    BY ResizedEntries
  <2> HIDE DEF written
  <2> QED
    BY <2>2, <2>3, <2>4
<1>2. \A p \in alive, c \in Addresses : Vec(p, c)' = IF p = o /\ c = a THEN b ELSE Vec(p, c)
  BY DEF WriteTo, Vec, PerStateTypeOK
<1>3. \A p \in alive, c \in Addresses :
        ~(p = o /\ c = a) /\ Vec(p, c) # Null =>
          Vec(p, c) # b /\ memory'[Vec(p, c)] = memory[Vec(p, c)]
  <2> SUFFICES ASSUME NEW p \in alive, NEW c \in Addresses, ~(p = o /\ c = a), Vec(p, c) # Null
               PROVE  Vec(p, c) # b /\ memory'[Vec(p, c)] = memory[Vec(p, c)]
    OBVIOUS
  <2>1. Vec(p, c) # b
    BY DEF OwnersInv, Accessible
  <2> QED
    BY <2>1 DEF WriteTo
<1>4. memory'[b] = written
  BY DEF WriteTo, PerStateTypeOK
<1>5. \A p \in alive, c \in Addresses, i \in Ids :
        info'[p][c][i] = IF p = o /\ c = a /\ i = id THEN value ELSE info[p][c][i]
  BY DEF WriteTo, PerStateTypeOK
<1>6. PerStateTypeOK'
  BY <1>1 DEF PerStateTypeOK, WriteTo
<1>7. CacheInv'
  BY <1>2 DEF CacheInv, WriteTo, PerStateTypeOK
<1>8. SubscribersInv'
  BY <1>2 DEF SubscribersInv, PerStateTypeOK, Accessible
<1>9. OwnersInv'
  BY <1>1, <1>2, <1>3, <1>4 DEF OwnersInv, Accessible, IsRegistry
<1>10. ContentsInv'
  <2> SUFFICES ASSUME NEW p \in alive, NEW c \in Addresses, NEW i \in Ids
               PROVE  Stored(p, c, i)' = info'[p][c][i]
    BY DEF ContentsInv
  <2>1. Stored(p, c, i) = info[p][c][i]
    BY DEF ContentsInv
  <2>2. CASE ~(p = o /\ c = a)
    BY <1>2, <1>3, <1>5, <2>1, <2>2 DEF Stored
  <2>3. CASE p = o /\ c = a /\ i = id
    <3>1. written[id] = value /\ value # Null
      BY <1>1
    <3>2. Vec(p, c)' = b /\ b # Null /\ info'[p][c][i] = value
      BY <1>2, <1>5, <2>3
    <3> HIDE DEF written
    <3> QED
      BY <1>4, <2>3, <3>1, <3>2 DEF Stored
  <2>4. CASE p = o /\ c = a /\ i # id
    <3>1. Stored(p, c, i)' = IF written[i] = Null THEN Default ELSE written[i]
      BY <1>2, <1>4, <2>4 DEF Stored
    <3>2. info[p][c][i] = IF vector[i] = Null THEN Default ELSE vector[i]
      BY <2>1, <2>4 DEF Stored, EmptyVector
    <3>3. written[i] = vector[i] \/ (written[i] = Default /\ vector[i] = Null)
      <4>1. i \in Ids \ {id}
        BY <2>4
      <4> HIDE DEF written
      <4> QED
        BY <1>1, <4>1
    <3>4. info'[p][c][i] = info[p][c][i]
      BY <1>5, <2>4
    <3> HIDE DEF written
    <3> QED
      BY <3>1, <3>2, <3>3, <3>4
  <2> QED
    BY <2>2, <2>3, <2>4
<1> QED
  BY <1>6, <1>7, <1>8, <1>9, <1>10

LEMMA AccessKeeps ==
  ASSUME PerStateInv, NEW o \in Objects, NEW a \in Addresses, NEW id \in Ids,
         NEW value \in Entries,
         \/ WriteCached(o, a, id, value) \/ WriteFound(o, a, id, value)
         \/ WriteNew(o, a, id, value) \/ ReadConst(o, a, id)
  PROVE  PerStateInv'
<1> USE NullDistinct DEF PerStateInv
<1>1. CASE WriteCached(o, a, id, value)
  <2> DEFINE b == cached_entries[o]
  <2>1. b = Vec(o, a) /\ b \in Blocks /\ memory[b] \in Vector
    BY <1>1 DEF WriteCached, Accessible, CacheInv, PerStateTypeOK
  <2>2. o \in subscribers[a]
    BY <1>1, <2>1 DEF WriteCached, Accessible, SubscribersInv
  <2>3. subscribers' = [subscribers EXCEPT ![a] = @ \union {o}]
    BY <1>1, <2>2 DEF WriteCached, PerStateTypeOK
  <2>4. entries_by_registry' = [entries_by_registry EXCEPT ![o][a] = b]
    BY <1>1, <2>1 DEF WriteCached, PerStateTypeOK, Vec
  <2>5. cached_registry' = [cached_registry EXCEPT ![o] = a]
        /\ cached_entries' = [cached_entries EXCEPT ![o] = b]
    BY <1>1 DEF WriteCached, PerStateTypeOK
  <2>6. memory' = [memory EXCEPT ![b] = [Resized(memory[b], a) EXCEPT ![id] = value]]
        /\ info' = [info EXCEPT ![o][a][id] = value]
    BY <1>1 DEF WriteCached
  <2>7. WriteTo(o, a, id, value, b, memory[b])
    BY <2>4, <2>5, <2>6 DEF WriteTo
  <2>8. Accessible(o, a, id) /\ UNCHANGED <<registry_size, alive>>
    BY <1>1 DEF WriteCached
  <2> HIDE DEF b
  <2> QED
    BY <2>1, <2>3, <2>7, <2>8, WriteKeeps
<1>2. CASE WriteFound(o, a, id, value)
  <2> DEFINE b == entries_by_registry[o][a]
  <2>1. b = Vec(o, a) /\ b \in Blocks /\ memory[b] \in Vector
    BY <1>2 DEF WriteFound, Accessible, OwnersInv, PerStateTypeOK, Vec
  <2>2. o \in subscribers[a]
    BY <1>2, <2>1 DEF WriteFound, Accessible, SubscribersInv
  <2>3. subscribers' = [subscribers EXCEPT ![a] = @ \union {o}]
    BY <1>2, <2>2 DEF WriteFound, PerStateTypeOK
  <2>4. WriteTo(o, a, id, value, b, memory[b]) /\ Accessible(o, a, id)
        /\ UNCHANGED <<registry_size, alive>>
    BY <1>2 DEF WriteFound
  <2> HIDE DEF b
  <2> QED
    BY <2>1, <2>3, <2>4, WriteKeeps
<1>3. CASE WriteNew(o, a, id, value)
  <2>1. PICK b \in Blocks : memory[b] = Null /\ WriteTo(o, a, id, value, b, EmptyVector)
    BY <1>3 DEF WriteNew
  <2>2. EmptyVector \in Vector
    BY DEF EmptyVector, Vector
  <2>3. Vec(o, a) = Null /\ Accessible(o, a, id) /\ UNCHANGED <<registry_size, alive>>
        /\ subscribers' = [subscribers EXCEPT ![a] = @ \union {o}]
    BY <1>3 DEF WriteNew, Vec
  <2> QED
    BY <2>1, <2>2, <2>3, WriteKeeps
<1>4. CASE ReadConst(o, a, id)
  <2>1. PerStateTypeOK'
    BY <1>4 DEF ReadConst, PerStateTypeOK
  <2>2. CacheInv'
    BY <1>4 DEF ReadConst, CacheInv, PerStateTypeOK, Vec
  <2>3. SubscribersInv' /\ OwnersInv' /\ ContentsInv'
    BY <1>4 DEF ReadConst, SubscribersInv, OwnersInv, ContentsInv, Stored, Vec, IsRegistry
  <2> QED
    BY <2>1, <2>2, <2>3
<1> QED
  BY <1>1, <1>2, <1>3, <1>4

-----------------------------------------------------------------------------

\* The types, and the pointers between objects, vectors and registries.
THEOREM PerStateInvariant == PerStateSpec => []PerStateInv
<1>1. PerStateInv /\ [PerStateStep]_perstatevars => PerStateInv'
  <2> SUFFICES ASSUME PerStateInv, [PerStateStep]_perstatevars PROVE PerStateInv'
    OBVIOUS
  <2>1. CASE UNCHANGED perstatevars
    BY <2>1 DEF perstatevars, PerStateInv, PerStateTypeOK, CacheInv, SubscribersInv,
                OwnersInv, ContentsInv, Stored, Vec, IsRegistry
  <2>2. ASSUME NEW a \in Addresses,
               CreateRegistry(a) \/ RegisterState(a) \/ DestroyRegistry(a)
        PROVE  PerStateInv'
    BY <2>2, CreateRegistryKeeps, RegisterStateKeeps, DestroyRegistryKeeps
  <2>3. ASSUME NEW o \in Objects, CreateObject(o) \/ DestroyObject(o)
        PROVE  PerStateInv'
    BY <2>3, CreateObjectKeeps, DestroyObjectKeeps
  <2>4. ASSUME NEW o \in Objects, NEW a \in Addresses, NEW id \in Ids, ReadConst(o, a, id)
        PROVE  PerStateInv'
    BY <2>4, AccessKeeps, NullDistinct
  <2>5. ASSUME NEW o \in Objects, NEW a \in Addresses, NEW id \in Ids, NEW value \in Entries,
               \/ WriteCached(o, a, id, value) \/ WriteFound(o, a, id, value)
               \/ WriteNew(o, a, id, value)
        PROVE  PerStateInv'
    BY <2>5, AccessKeeps
  <2> QED
    BY <2>1, <2>2, <2>3, <2>4, <2>5 DEF PerStateStep
<1> QED
  BY <1>1, PerStateInitially, PTL DEF PerStateSpec

\* operator[] returns what was stored last for the state in its registry, or
\* the default: nothing survives the destruction of a registry.
THEOREM ReadsAreLatestTheorem == PerStateSpec => []ReadsAreLatest
<1>1. PerStateInv => ReadsAreLatest
  BY NullDistinct DEF PerStateInv, ReadsAreLatest, CacheInv, OwnersInv, ContentsInv, Stored,
                      ReadValue, Found, Vec, PerStateTypeOK
<1> QED
  BY <1>1, PerStateInvariant, PTL

\* The assertion of get_entries, and who is told of a registry's destruction.
THEOREM PointersValidTheorem == PerStateSpec => []PointersValid
<1>1. PerStateInv => PointersValid
  BY NullDistinct DEF PerStateInv, PointersValid, CacheInv, OwnersInv, SubscribersInv, Vec,
                      PerStateTypeOK
<1> QED
  BY <1>1, PerStateInvariant, PTL

-----------------------------------------------------------------------------
(***************************************************************************)
(* The state registry.  What Edit and Result compute is left to the model  *)
(* checker: the proofs only use that a successor is built in the slot      *)
(* behind the last state, and so hold whatever the operators' effects are. *)
(***************************************************************************)

\* The part of the state that clients cannot spoil.
PoolInv ==
  /\ size \in 0..MaxStates
  /\ pool = [i \in 0..MaxStates |-> pool[i]]
  /\ NoDuplicates

\* No client holds a state before the initial state is registered.
InitialInv == cached_initial_state = Unused => size = 0 /\ handles = {}

\* What a client that respects MayPush can rely on.
HandleInv ==
  \A h \in handles :
    /\ h.id \in 0..size-1
    /\ h.slot \in 0..MaxStates
    /\ Read(h) = pool[h.id]

\* One push followed by insert_id_or_pop_state: c is what the slot holds.
LEMMA PushInsert ==
  ASSUME PoolInv, MaxStates \in Nat, NEW c,
         pool' = [pool EXCEPT ![size] = c],
         size < MaxStates \/ \E i \in registered_states : pool'[i] = pool'[size],
         InsertIdOrPop(pool')
  PROVE  /\ PoolInv'
         /\ size <= size'
         /\ \A i \in 0..size-1 : pool'[i] = pool[i]
         /\ IdOf(pool') \in 0..size'-1
         /\ pool'[IdOf(pool')] = pool'[size]
<1> DEFINE same == {i \in registered_states : pool'[i] = pool'[size]}
<1>1. size \in Nat /\ size <= MaxStates /\ registered_states = 0..size-1
  BY DEF PoolInv, NoDuplicates
<1>2. pool' = [i \in 0..MaxStates |-> pool'[i]] /\ \A i \in 0..size-1 : pool'[i] = pool[i]
  <2>1. pool = [i \in 0..MaxStates |-> pool[i]]
    BY DEF PoolInv
  <2>2. DOMAIN pool = 0..MaxStates
    BY <2>1
  <2>3. pool' = [i \in 0..MaxStates |-> IF i = size THEN c ELSE pool[i]]
    BY <2>2
  <2>4. \A i \in 0..MaxStates : pool'[i] = IF i = size THEN c ELSE pool[i]
    BY <2>3
  <2>5. pool' = [i \in 0..MaxStates |-> pool'[i]]
    BY <2>3
  <2> QED
    BY <1>1, <2>4, <2>5
<1>3. \A i, j \in 0..size-1 : pool'[i] = pool'[j] => i = j
  BY <1>1, <1>2 DEF PoolInv, NoDuplicates
<1>4. CASE same = {}
  <2>1. /\ size' = size + 1
        /\ registered_states' = registered_states \union {size}
        /\ IdOf(pool') = size
    BY <1>4 DEF InsertIdOrPop, IdOf
  <2>2. size < MaxStates
    BY <1>4
  <2>3. registered_states' = 0..size'-1
    BY <1>1, <2>1
  <2>4. ASSUME NEW i \in 0..size'-1, NEW j \in 0..size'-1, pool'[i] = pool'[j]
        PROVE  i = j
    <3>1. \A k \in 0..size-1 : pool'[k] # pool'[size]
      BY <1>1, <1>4
    <3>2. (i \in 0..size-1 \/ i = size) /\ (j \in 0..size-1 \/ j = size)
      BY <1>1, <2>1
    <3> QED
      BY <1>3, <2>4, <3>1, <3>2
  <2>5. NoDuplicates'
    BY <2>3, <2>4 DEF NoDuplicates
  <2>6. size' \in 0..MaxStates /\ IdOf(pool') \in 0..size'-1 /\ size <= size'
    BY <1>1, <2>1, <2>2
  <2> QED
    BY <1>2, <2>1, <2>5, <2>6 DEF PoolInv
<1>5. CASE same # {}
  <2>1. size' = size /\ registered_states' = registered_states /\ IdOf(pool') \in same
    BY <1>5 DEF InsertIdOrPop, IdOf
  <2>2. NoDuplicates'
    BY <1>1, <1>3, <2>1 DEF NoDuplicates
  <2> QED
    BY <1>1, <1>2, <2>1, <2>2 DEF PoolInv
<1> QED
  BY <1>4, <1>5

LEMMA SuccessorStep ==
  ASSUME PoolInv, MaxStates \in Nat, NEW h \in handles, NEW o \in Operators,
         GetSuccessorState(h, o)
  PROVE  /\ PoolInv'
         /\ size <= size'
         /\ \A i \in 0..size-1 : pool'[i] = pool[i]
         /\ IdOf(pool') \in 0..size'-1
         /\ pool'[IdOf(pool')] = pool'[size]
<1> DEFINE c == IF HasAxioms THEN Result(Read(h), o) ELSE Edit(h, o)
<1>1. /\ pool' = [pool EXCEPT ![size] = c]
      /\ size < MaxStates \/ \E i \in registered_states : pool'[i] = pool'[size]
      /\ InsertIdOrPop(pool')
  BY DEF GetSuccessorState, NewSlot
<1> HIDE DEF c
<1> QED
  BY <1>1, PushInsert

LEMMA InitialStep ==
  ASSUME PoolInv, InitialInv, GetInitialState
  PROVE  /\ PoolInv'
         /\ size = 0
         /\ IdOf(pool') \in 0..size'-1
<1>1. size = 0 /\ 0 < MaxStates /\ MaxStates \in Nat
  BY RegistryAssumption DEF GetInitialState, InitialInv
<1>2. pool' = [pool EXCEPT ![size] = InitialValues] /\ InsertIdOrPop(pool')
  BY DEF GetInitialState
<1> QED
  BY <1>1, <1>2, PushInsert

\* A handle is a record, so the cached initial state is not Unused.
LEMMA LookupUsed ==
  ASSUME NEW id \in 0..MaxStates-1
  PROVE  Lookup(id) # Unused
<1>1. Lookup(id) \in Handle
  BY RegistryAssumption DEF Lookup, Handle
<1> QED
  BY <1>1, RegistryAssumption

LEMMA PoolInvariant == Spec => [](PoolInv /\ InitialInv)
<1>1. Init => PoolInv /\ InitialInv
  BY RegistryAssumption DEF Init, PoolInv, InitialInv, NoDuplicates
<1>2. PoolInv /\ InitialInv /\ [Next]_vars => (PoolInv /\ InitialInv)'
  <2> SUFFICES ASSUME PoolInv, InitialInv, [Next]_vars
               PROVE  (PoolInv /\ InitialInv)'
    OBVIOUS
  <2>0. MaxStates \in Nat
    BY RegistryAssumption
  <2>1. CASE GetInitialState
    <3>1. PoolInv' /\ IdOf(pool') \in 0..size'-1
      BY <2>1, InitialStep
    <3>2. IdOf(pool') \in 0..MaxStates-1 /\ cached_initial_state' = Lookup(IdOf(pool'))
      BY <2>0, <2>1, <3>1 DEF GetInitialState, PoolInv
    <3> QED
      BY <3>1, <3>2, LookupUsed DEF InitialInv
  <2>2. ASSUME NEW h \in handles, NEW o \in Operators, GetSuccessorState(h, o)
        PROVE  (PoolInv /\ InitialInv)'
    <3>1. cached_initial_state' = cached_initial_state
      BY <2>2 DEF GetSuccessorState
    <3>2. PoolInv'
      BY <2>0, <2>2, SuccessorStep
    <3> QED
      BY <3>1, <3>2 DEF InitialInv
  <2>3. ASSUME NEW id \in 0..size-1, LookupState(id)
        PROVE  (PoolInv /\ InitialInv)'
    BY <2>3 DEF LookupState, PoolInv, InitialInv, NoDuplicates
  <2>4. ASSUME NEW h \in handles, Unpack(h) \/ Forget(h)
        PROVE  (PoolInv /\ InitialInv)'
    BY <2>4 DEF Unpack, Forget, PoolInv, InitialInv, NoDuplicates
  <2>5. CASE UNCHANGED vars
    BY <2>5 DEF vars, PoolInv, InitialInv, NoDuplicates
  <2> QED
    BY <2>1, <2>2, <2>3, <2>4, <2>5 DEF Next
<1> QED
  BY <1>1, <1>2, PTL DEF Spec

\* Registering never leaves two states with the same values in the registry,
\* and the ids in the hash set are those of the states in the pool, whatever
\* clients do with their handles.
THEOREM NoDuplicatesTheorem == Spec => []NoDuplicates
<1>1. PoolInv => NoDuplicates
  BY DEF PoolInv
<1> QED
  BY <1>1, PoolInvariant, PTL

\* A registered state keeps its id and its values, whatever clients do.
THEOREM RegisteredTheorem == Spec => RegisteredForever
<1> DEFINE Keep == size <= size' /\ \A i \in 0..size-1 : pool'[i] = pool[i]
<1>1. PoolInv /\ InitialInv /\ [Next]_vars => [Keep]_vars
  <2> SUFFICES ASSUME PoolInv, InitialInv, Next PROVE Keep
    BY DEF vars
  <2>1. size \in Nat /\ MaxStates \in Nat
    BY RegistryAssumption DEF PoolInv
  <2>2. CASE GetInitialState
    <3>1. size = 0 /\ size' \in Nat
      BY <2>2, InitialStep DEF PoolInv
    <3> QED
      BY <3>1
  <2>3. ASSUME NEW h \in handles, NEW o \in Operators, GetSuccessorState(h, o)
        PROVE  Keep
    BY <2>1, <2>3, SuccessorStep
  <2>4. ASSUME NEW id \in 0..size-1, LookupState(id)  PROVE Keep
    BY <2>1, <2>4 DEF LookupState
  <2>5. ASSUME NEW h \in handles, Unpack(h) \/ Forget(h)  PROVE Keep
    BY <2>1, <2>5 DEF Unpack, Forget
  <2> QED
    BY <2>2, <2>3, <2>4, <2>5 DEF Next
<1> QED
  BY <1>1, PoolInvariant, PTL DEF Spec, RegisteredForever

\* As long as no client asks for a successor while it holds the handle of a
\* duplicate, every handle reads the values of the state that its id names.
THEOREM HandlesTheorem ==
  ASSUME EngineClient
  PROVE  Spec => []HandlesReadTheirState
<1>1. Init => HandleInv
  BY DEF Init, HandleInv
<1>2. PoolInv /\ InitialInv /\ HandleInv /\ [Next]_vars => HandleInv'
  <2> SUFFICES ASSUME PoolInv, InitialInv, HandleInv, [Next]_vars
               PROVE  HandleInv'
    OBVIOUS
  <2>0. size \in Nat /\ size <= MaxStates /\ MaxStates \in Nat
    BY RegistryAssumption DEF PoolInv
  <2>1. CASE GetInitialState
    <3>1. /\ handles = {}
          /\ handles' = handles \union {Lookup(IdOf(pool'))}
      BY <2>1 DEF InitialInv, GetInitialState
    <3>2. IdOf(pool') \in 0..size'-1 /\ size' \in 0..MaxStates
      BY <2>1, InitialStep DEF PoolInv
    <3> QED
      BY <2>0, <3>1, <3>2 DEF HandleInv, Lookup, Read, ReadFrom
  <2>2. ASSUME NEW h \in handles, NEW o \in Operators, GetSuccessorState(h, o)
        PROVE  HandleInv'
    <3> DEFINE s == [id |-> IdOf(pool'), slot |-> size, values |-> NewValues(pool'[size])]
    <3>1. /\ size <= size' /\ size' \in 0..MaxStates
          /\ \A i \in 0..size-1 : pool'[i] = pool[i]
          /\ IdOf(pool') \in 0..size'-1
          /\ pool'[IdOf(pool')] = pool'[size]
      BY <2>0, <2>2, SuccessorStep DEF PoolInv
    <3>2. \A k \in handles : k.id \in 0..size-1 /\ k.slot = k.id /\ Read(k) = pool[k.id]
      BY <2>2 DEF HandleInv, GetSuccessorState, MayPush
    <3>3. \A k \in handles : k.id \in 0..size'-1 /\ k.slot \in 0..MaxStates
                               /\ ReadFrom(k, pool') = pool'[k.id]
      BY <2>0, <3>1, <3>2 DEF Read, ReadFrom
    <3>4. /\ Unpacked(h).id \in 0..size'-1 /\ Unpacked(h).slot \in 0..MaxStates
          /\ ReadFrom(Unpacked(h), pool') = pool'[Unpacked(h).id]
      BY <2>0, <3>1, <3>2, <3>3 DEF Unpacked, Read, ReadFrom
    <3>5. /\ s.id \in 0..size'-1 /\ s.slot \in 0..MaxStates
          /\ ReadFrom(s, pool') = pool'[s.id]
      <4>1. CASE HasAxioms
        BY <2>0, <3>1, <4>1 DEF NewValues, Read, ReadFrom
      <4>2. CASE ~HasAxioms
        BY <2>0, <3>1, <4>2 DEF NewValues, Read, ReadFrom
      <4> QED
        BY <4>1, <4>2
    <3>6. handles' = (IF HasAxioms THEN (handles \ {h}) \union {Unpacked(h)} ELSE handles)
                       \union {s}
      BY <2>2, Zenon DEF GetSuccessorState
    <3> HIDE DEF s
    <3>7. ASSUME NEW k \in handles'
          PROVE  k.id \in 0..size'-1 /\ k.slot \in 0..MaxStates /\ ReadFrom(k, pool') = pool'[k.id]
      <4>1. k \in handles \/ k = Unpacked(h) \/ k = s
        BY <3>6
      <4> QED
        BY <3>3, <3>4, <3>5, <4>1 DEF Read, ReadFrom
    <3> QED
      BY <3>7 DEF HandleInv, Read
  <2>3. ASSUME NEW id \in 0..size-1, LookupState(id)  PROVE HandleInv'
    BY <2>0, <2>3 DEF LookupState, Lookup, HandleInv, Read, ReadFrom
  <2>4. ASSUME NEW h \in handles, Unpack(h) \/ Forget(h)  PROVE HandleInv'
    BY <2>4 DEF Unpack, Unpacked, Forget, HandleInv, Read, ReadFrom
  <2>5. CASE UNCHANGED vars
    BY <2>5 DEF vars, HandleInv, Read, ReadFrom
  <2> QED
    BY <2>1, <2>2, <2>3, <2>4, <2>5 DEF Next
<1>3. HandleInv => HandlesReadTheirState
  BY DEF HandleInv, HandlesReadTheirState
<1> QED
  BY <1>1, <1>2, <1>3, PoolInvariant, PTL DEF Spec

-----------------------------------------------------------------------------
(***************************************************************************)
(* The open lists keep every entry, and their redundant indexes agree with *)
(* their buckets.                                                          *)
(***************************************************************************)

LEMMA LeastElement ==
  ASSUME NEW T, T \subseteq Nat, T # {}
  PROVE  \E x \in T : \A y \in T : x <= y
<1>1. IsWellFoundedOn(OpToRel(<, Nat), Nat)
  BY NatLessThanWellFounded
<1>2. PICK x \in T : \A y \in T : ~(<<y, x>> \in OpToRel(<, Nat))
  BY <1>1, WFMin
<1>3. \A y \in T : ~(y < x)
  BY <1>2 DEF OpToRel
<1> QED
  BY <1>3

\* Every nonempty finite set has a minimal element with respect to a strict order
\* on it, given as the set of its pairs.
LEMMA MinimalElement ==
  ASSUME NEW S, IsFiniteSet(S), S # {}, NEW R,
         \A x \in S : <<x, x>> \notin R,
         \A x, y, z \in S : <<x, y>> \in R /\ <<y, z>> \in R => <<x, z>> \in R
  PROVE  \E x \in S : \A y \in S : <<y, x>> \notin R
<1> DEFINE below(x) == {y \in S : <<y, x>> \in R}
           T == {Cardinality(below(x)) : x \in S}
<1>1. \A x \in S : IsFiniteSet(below(x)) /\ Cardinality(below(x)) \in Nat
  BY FS_Subset, FS_CardinalityType
<1>2. T \subseteq Nat /\ T # {}
  <2> HIDE DEF below
  <2> QED
    BY <1>1
<1>3. PICK n \in T : \A m \in T : n <= m
  <2> HIDE DEF T
  <2> QED
    BY <1>2, LeastElement
<1>4. PICK x \in S : n = Cardinality(below(x))
  BY <1>3
<1>5. ASSUME NEW y \in S, <<y, x>> \in R
      PROVE  FALSE
  <2>1. below(y) \subseteq below(x) \ {y}
    BY <1>5, <1>4
  <2>2. y \in below(x)
    BY <1>5
  <2> HIDE DEF below
  <2>3. IsFiniteSet(below(x) \ {y}) /\ Cardinality(below(x) \ {y}) = Cardinality(below(x)) - 1
    BY <1>1, <1>4, <2>2, FS_RemoveElement
  <2>4. Cardinality(below(y)) <= Cardinality(below(x) \ {y})
    BY <2>1, <2>3, FS_Subset
  <2>5. n <= Cardinality(below(y))
    BY <1>3
  <2> QED
    BY <1>1, <1>4, <2>3, <2>4, <2>5
<1> QED
  BY <1>4, <1>5

-----------------------------------------------------------------------------
Entry == [id : Nat, value : [Evaluators -> 0..Infinity], preferred : BOOLEAN]

Keys(c) == [DOMAIN c.evaluators -> 0..Infinity]

LEMMA KeyType ==
  ASSUME NEW c \in Sublist, NEW e \in Entry
  PROVE  Key(c, e) \in Keys(c)
<1>1. c.evaluators \in Seq(Evaluators)
  BY DEF Sublist
<1>2. \A i \in DOMAIN c.evaluators : c.evaluators[i] \in Evaluators
  BY <1>1
<1>3. e.value \in [Evaluators -> 0..Infinity]
  BY DEF Entry
<1> QED
  BY <1>2, <1>3 DEF Key, Keys

LEMMA DominatesStrict ==
  ASSUME NEW c \in Sublist
  PROVE  /\ \A k \in Keys(c) : ~Dominates(k, k)
         /\ \A k1, k2, k3 \in Keys(c) :
              Dominates(k1, k2) /\ Dominates(k2, k3) => Dominates(k1, k3)
<1>1. Infinity \in Nat
  BY OpenListsAssumption
<1>2. ASSUME NEW k1 \in Keys(c), NEW k2 \in Keys(c), NEW k3 \in Keys(c),
             Dominates(k1, k2), Dominates(k2, k3)
      PROVE  Dominates(k1, k3)
  <2>1. \A i \in DOMAIN c.evaluators :
          /\ k1[i] \in Nat /\ k2[i] \in Nat /\ k3[i] \in Nat
          /\ k1[i] <= k2[i] /\ k2[i] <= k3[i]
    BY <1>1, <1>2 DEF Keys, Dominates
  <2>2. DOMAIN k1 = DOMAIN c.evaluators
    BY DEF Keys
  <2>3. k1 # k3
    <3>1. SUFFICES ASSUME k1 = k3 PROVE FALSE
      OBVIOUS
    <3>2. \A i \in DOMAIN c.evaluators : k1[i] = k2[i]
      BY <2>1, <3>1
    <3>3. k1 = k2
      BY <3>2 DEF Keys
    <3> QED
      BY <1>2, <3>3 DEF Dominates
  <2>4. \A i \in DOMAIN c.evaluators : k1[i] <= k3[i]
    BY <2>1
  <2> QED
    BY <2>2, <2>3, <2>4 DEF Dominates
<1>3. \A k \in Keys(c) : ~Dominates(k, k)
  BY DEF Dominates
<1> QED
  BY <1>2, <1>3

\* In a finite set of keys a key is nondominated or some nondominated key dominates
\* it.
LEMMA SomeNondominated ==
  ASSUME NEW c \in Sublist, NEW keys, keys \subseteq Keys(c), IsFiniteSet(keys),
         NEW k \in keys
  PROVE  \E m \in keys : IsNondominated(m, keys) /\ (m = k \/ Dominates(m, k))
<1> DEFINE S == {m \in keys : m = k \/ Dominates(m, k)}
           R == {p \in keys \X keys : Dominates(p[1], p[2])}
<1>1. IsFiniteSet(S) /\ S # {}
  BY FS_Subset
<1>2. \A x, y \in S : <<x, y>> \in R <=> Dominates(x, y)
  OBVIOUS
<1>3. \A x \in S : <<x, x>> \notin R
  BY <1>2, DominatesStrict
<1>4. \A x, y, z \in S : <<x, y>> \in R /\ <<y, z>> \in R => <<x, z>> \in R
  BY <1>2, DominatesStrict
<1>5. PICK m \in S : \A y \in S : <<y, m>> \notin R
  <2> HIDE DEF S, R
  <2> QED
    BY <1>1, <1>3, <1>4, MinimalElement
<1>6. ASSUME NEW y \in keys, Dominates(y, m)
      PROVE  FALSE
  <2>1. y = k \/ Dominates(y, k)
    BY <1>6, DominatesStrict
  <2> QED
    BY <1>2, <1>5, <1>6, <2>1
<1> QED
  BY <1>6 DEF IsNondominated

PrecedesHere(i, k1, k2) == k1[i] < k2[i] /\ \A j \in 1..i-1 : k1[j] = k2[j]

LEMMA LeastKeyExists ==
  ASSUME NEW c \in Sublist, NEW keys, keys \subseteq Keys(c), IsFiniteSet(keys), keys # {}
  PROVE  LeastKey(keys) \in keys
<1> DEFINE D == DOMAIN c.evaluators
           R == {p \in keys \X keys : Precedes(p[1], p[2])}
<1>1. D \subseteq Nat /\ \A i \in D : i \in Nat \ {0} /\ \A j \in 1..i-1 : j \in D
  <2>1. c.evaluators \in Seq(Evaluators)
    BY DEF Sublist
  <2> QED
    BY <2>1
<1>2. \A k \in keys : DOMAIN k = D /\ \A i \in D : k[i] \in Int
  BY OpenListsAssumption DEF Keys
<1>3. \A x, y \in keys : <<x, y>> \in R <=> \E i \in D : PrecedesHere(i, x, y)
  BY <1>2 DEF Precedes, PrecedesHere
<1>4. ASSUME NEW x \in keys PROVE <<x, x>> \notin R
  BY <1>2, <1>3 DEF PrecedesHere
<1>5. ASSUME NEW x \in keys, NEW y \in keys, NEW z \in keys, <<x, y>> \in R, <<y, z>> \in R
      PROVE  <<x, z>> \in R
  <2>1. PICK i \in D : PrecedesHere(i, x, y)
    BY <1>3, <1>5
  <2>2. PICK j \in D : PrecedesHere(j, y, z)
    BY <1>3, <1>5
  <2>3. CASE i <= j
    <3>1. x[i] < z[i]
      BY <1>1, <1>2, <2>1, <2>2, <2>3 DEF PrecedesHere
    <3>2. \A m \in 1..i-1 : x[m] = z[m]
      BY <1>1, <2>1, <2>2, <2>3 DEF PrecedesHere
    <3> QED
      BY <1>3, <3>1, <3>2 DEF PrecedesHere
  <2>4. CASE j < i
    <3>1. x[j] < z[j]
      BY <1>1, <1>2, <2>1, <2>2, <2>4 DEF PrecedesHere
    <3>2. \A m \in 1..j-1 : x[m] = z[m]
      BY <1>1, <2>1, <2>2, <2>4 DEF PrecedesHere
    <3> QED
      BY <1>3, <3>1, <3>2 DEF PrecedesHere
  <2> QED
    BY <1>1, <2>3, <2>4
<1>6. ASSUME NEW x \in keys, NEW y \in keys, x # y
      PROVE  <<x, y>> \in R \/ <<y, x>> \in R
  <2> DEFINE T == {i \in D : x[i] # y[i]}
  <2>1. T # {}
    BY <1>6 DEF Keys
  <2>2. T \subseteq Nat
    BY <1>1
  <2>3. PICK i \in T : \A j \in T : i <= j
    <3> HIDE DEF T
    <3> QED
      BY <2>1, <2>2, LeastElement
  <2>4. \A j \in 1..i-1 : x[j] = y[j]
    BY <1>1, <2>3
  <2>5. x[i] < y[i] \/ y[i] < x[i]
    BY <1>2, <2>3
  <2> QED
    BY <1>3, <2>3, <2>4, <2>5 DEF PrecedesHere
<1>7. PICK k \in keys : \A other \in keys : <<other, k>> \notin R
  <2> HIDE DEF R
  <2> QED
    BY <1>4, <1>5, MinimalElement
<1>8. \A other \in keys \ {k} : Precedes(k, other)
  BY <1>6, <1>7
<1> QED
  BY <1>8 DEF LeastKey

\* The buckets of a sublist: nonempty queues without repetitions, under the key of
\* their entries.
BucketsOK(c, b) ==
  /\ DOMAIN b \subseteq Keys(c) /\ IsFiniteSet(DOMAIN b)
  /\ \A k \in DOMAIN b :
       /\ b[k] \in Seq(Entry) /\ b[k] # << >>
       /\ \A i, j \in 1..Len(b[k]) : b[k][i] = b[k][j] => i = j
       /\ \A i \in 1..Len(b[k]) : Key(c, b[k][i]) = k

InBuckets(b) == UNION {Range(b[k]) : k \in DOMAIN b}

LEMMA InBucketsMember ==
  ASSUME NEW c, NEW b, BucketsOK(c, b), NEW e
  PROVE  e \in InBuckets(b) <=> \E k \in DOMAIN b : \E i \in 1..Len(b[k]) : e = b[k][i]
<1>1. ASSUME NEW k \in DOMAIN b PROVE Range(b[k]) = {b[k][i] : i \in 1..Len(b[k])}
  BY RangeEquality DEF BucketsOK
<1> QED
  BY <1>1 DEF InBuckets

LEMMA EmptyBucketsOK ==
  ASSUME NEW c
  PROVE  BucketsOK(c, NoBuckets) /\ InBuckets(NoBuckets) = {}
<1>1. DOMAIN NoBuckets = {}
  BY DEF NoBuckets
<1>2. IsFiniteSet({})
  BY FS_EmptySet
<1> QED
  BY <1>1, <1>2 DEF BucketsOK, InBuckets

LEMMA PutInBucketOK ==
  ASSUME NEW c \in Sublist, NEW b, BucketsOK(c, b), NEW e \in Entry, e \notin InBuckets(b)
  PROVE  /\ BucketsOK(c, PutInBucket(b, Key(c, e), e))
         /\ InBuckets(PutInBucket(b, Key(c, e), e)) = InBuckets(b) \union {e}
         /\ DOMAIN PutInBucket(b, Key(c, e), e) = DOMAIN b \union {Key(c, e)}
<1> PICK k : k = Key(c, e)
  OBVIOUS
<1> DEFINE n == PutInBucket(b, k, e)
           q == Bucket(b, k)
<1>1. DOMAIN n = DOMAIN b \union {k} /\ n[k] = Append(q, e) /\ \A x \in DOMAIN b \ {k} : n[x] = b[x]
  BY DEF PutInBucket
<1>2. /\ q \in Seq(Entry) /\ Len(q) \in Nat
      /\ \A i \in 1..Len(q) : Key(c, q[i]) = k /\ q[i] # e /\ q[i] \in InBuckets(b)
      /\ \A i, j \in 1..Len(q) : q[i] = q[j] => i = j
  <2>1. CASE k \in DOMAIN b
    <3>1. q = b[k]
      BY <2>1 DEF Bucket
    <3>2. \A i \in 1..Len(q) : q[i] \in InBuckets(b)
      BY <2>1, <3>1, InBucketsMember
    <3>3. \A i \in 1..Len(q) : q[i] # e
      BY <3>2
    <3>4. /\ q \in Seq(Entry)
          /\ \A i \in 1..Len(q) : Key(c, q[i]) = k
          /\ \A i, j \in 1..Len(q) : q[i] = q[j] => i = j
      BY <2>1, <3>1 DEF BucketsOK
    <3>5. Len(q) \in Nat
      BY <3>4, LenProperties
    <3> HIDE DEF q
    <3> QED
      BY <3>2, <3>3, <3>4, <3>5
  <2>2. CASE k \notin DOMAIN b
    <3>1. q = << >>
      BY <2>2 DEF Bucket
    <3>2. << >> \in Seq(Entry) /\ Len(<< >>) = 0
      OBVIOUS
    <3> QED
      BY <3>1, <3>2
  <2> QED
    BY <2>1, <2>2
<1> HIDE DEF q
<1>3. /\ Append(q, e) \in Seq(Entry) /\ Append(q, e) # << >>
      /\ Len(Append(q, e)) = Len(q) + 1
      /\ \A i \in 1..Len(q) : Append(q, e)[i] = q[i]
      /\ Append(q, e)[Len(q) + 1] = e
  BY <1>2, AppendProperties
<1>4. \A i, j \in 1..Len(q) + 1 : Append(q, e)[i] = Append(q, e)[j] => i = j
  <2>1. \A i \in 1..Len(q) + 1 : i \in 1..Len(q) \/ i = Len(q) + 1
    BY <1>2
  <2> QED
    BY <2>1, <1>2, <1>3
<1>5. \A i \in 1..Len(q) + 1 : Key(c, Append(q, e)[i]) = k
  <2>1. \A i \in 1..Len(q) + 1 : i \in 1..Len(q) \/ i = Len(q) + 1
    BY <1>2
  <2> QED
    BY <2>1, <1>2, <1>3
<1> HIDE DEF n
<1>6. BucketsOK(c, n)
  <2>1. DOMAIN n \subseteq Keys(c)
    BY <1>1, KeyType DEF BucketsOK
  <2>2. IsFiniteSet(DOMAIN n)
    BY <1>1, FS_AddElement DEF BucketsOK
  <2>3. ASSUME NEW x \in DOMAIN n
        PROVE  /\ n[x] \in Seq(Entry) /\ n[x] # << >>
               /\ \A i, j \in 1..Len(n[x]) : n[x][i] = n[x][j] => i = j
               /\ \A i \in 1..Len(n[x]) : Key(c, n[x][i]) = x
    <3>1. CASE x = k
      BY <3>1, <1>1, <1>3, <1>4, <1>5
    <3>2. CASE x # k
      <4>1. x \in DOMAIN b /\ n[x] = b[x]
        BY <1>1, <3>2
      <4> QED
        BY <4>1 DEF BucketsOK
    <3> QED
      BY <3>1, <3>2
  <2> QED
    BY <2>1, <2>2, <2>3 DEF BucketsOK
<1>7. ASSUME NEW f PROVE f \in InBuckets(n) <=> f \in InBuckets(b) \union {e}
  <2>1. ASSUME f \in InBuckets(n) PROVE f \in InBuckets(b) \union {e}
    <3>1. PICK x \in DOMAIN n : \E i \in 1..Len(n[x]) : f = n[x][i]
      BY <1>6, <2>1, InBucketsMember
    <3>2. CASE x = k
      <4>1. PICK i \in 1..Len(q) + 1 : f = Append(q, e)[i]
        BY <3>1, <3>2, <1>1, <1>3
      <4>2. i \in 1..Len(q) \/ i = Len(q) + 1
        BY <1>2
      <4> QED
        BY <4>1, <4>2, <1>2, <1>3
    <3>3. CASE x # k
      <4>1. x \in DOMAIN b /\ n[x] = b[x]
        BY <1>1, <3>3
      <4> QED
        BY <4>1, <3>1, InBucketsMember
    <3> QED
      BY <3>2, <3>3
  <2>2. ASSUME f \in InBuckets(b) PROVE f \in InBuckets(n)
    <3>1. PICK x \in DOMAIN b : \E i \in 1..Len(b[x]) : f = b[x][i]
      BY <2>2, InBucketsMember
    <3>2. CASE x = k
      <4>1. b[x] = q
        BY <3>1, <3>2 DEF q, Bucket
      <4>2. PICK i \in 1..Len(q) : f = q[i]
        BY <3>1, <4>1
      <4>3. i \in 1..Len(n[k]) /\ f = n[k][i]
        BY <4>2, <1>1, <1>2, <1>3
      <4> QED
        BY <4>3, <1>1, <1>6, InBucketsMember
    <3>3. CASE x # k
      <4>1. x \in DOMAIN n /\ n[x] = b[x]
        BY <1>1, <3>3
      <4> QED
        BY <4>1, <3>1, <1>6, InBucketsMember
    <3> QED
      BY <3>2, <3>3
  <2>3. e \in InBuckets(n)
    <3>1. Len(q) + 1 \in 1..Len(n[k]) /\ e = n[k][Len(q) + 1]
      BY <1>1, <1>2, <1>3
    <3> QED
      BY <3>1, <1>1, <1>6, InBucketsMember
  <2> QED
    BY <2>1, <2>2, <2>3
<1>8. InBuckets(n) = InBuckets(b) \union {e}
  BY <1>7
<1> QED
  BY <1>1, <1>6, <1>8 DEF n

LEMMA TakeFromBucketOK ==
  ASSUME NEW c \in Sublist, NEW b, BucketsOK(c, b), NEW k \in DOMAIN b
  PROVE  /\ BucketsOK(c, TakeFromBucket(b, k))
         /\ Head(b[k]) \in InBuckets(b)
         /\ InBuckets(TakeFromBucket(b, k)) = InBuckets(b) \ {Head(b[k])}
         /\ DOMAIN TakeFromBucket(b, k) \in {DOMAIN b, DOMAIN b \ {k}}
<1> DEFINE n == TakeFromBucket(b, k)
           q == b[k]
           h == Head(q)
<1>1. /\ q \in Seq(Entry) /\ q # << >> /\ Len(q) \in Nat \ {0}
      /\ \A i, j \in 1..Len(q) : q[i] = q[j] => i = j
      /\ \A i \in 1..Len(q) : Key(c, q[i]) = k
  <2>1. q \in Seq(Entry) /\ q # << >>
    BY DEF BucketsOK
  <2> QED
    BY <2>1, EmptySeq DEF BucketsOK
<1>2. h = q[1]
  BY <1>1
<1>3. /\ Tail(q) \in Seq(Entry)
      /\ Len(Tail(q)) = Len(q) - 1
      /\ \A i \in 1..Len(q) - 1 : Tail(q)[i] = q[i+1]
  BY <1>1, HeadTailProperties
<1>4. \A x \in DOMAIN n : x \in DOMAIN b /\ (x # k => n[x] = b[x])
  BY DEF TakeFromBucket, Without
<1>5. \A x \in DOMAIN b : x # k => x \in DOMAIN n
  BY DEF TakeFromBucket, Without
<1>6. k \in DOMAIN n <=> Len(q) # 1
  BY DEF TakeFromBucket, Without
<1>7. k \in DOMAIN n => n[k] = Tail(q)
  BY DEF TakeFromBucket, Without
<1>8. DOMAIN n \in {DOMAIN b, DOMAIN b \ {k}}
  BY <1>4, <1>5
<1> HIDE DEF n, q, h
<1>9. BucketsOK(c, n)
  <2>1. DOMAIN n \subseteq DOMAIN b
    BY <1>4
  <2>2. IsFiniteSet(DOMAIN n) /\ DOMAIN n \subseteq Keys(c)
    BY <2>1, FS_Subset DEF BucketsOK
  <2>3. ASSUME NEW x \in DOMAIN n
        PROVE  /\ n[x] \in Seq(Entry) /\ n[x] # << >>
               /\ \A i, j \in 1..Len(n[x]) : n[x][i] = n[x][j] => i = j
               /\ \A i \in 1..Len(n[x]) : Key(c, n[x][i]) = x
    <3>1. CASE x = k
      <4>5. n[x] = Tail(q)
        BY <3>1, <1>7
      <4>6. Len(q) # 1
        BY <3>1, <1>6
      <4>7. Len(q) > 1
        <5>1. Len(q) \in Nat \ {0}
          BY <1>1
        <5>2. \A m \in Nat \ {0} : m # 1 => m > 1
          OBVIOUS
        <5> QED
          BY <5>1, <5>2, <4>6, Zenon
      <4>1. n[x] = Tail(q) /\ Len(q) > 1
        BY <4>5, <4>7
      <4>2. Tail(q) # << >>
        <5> DEFINE t == Tail(q)
        <5>1. Len(t) # 0
          BY <1>1, <1>3, <4>1
        <5> HIDE DEF t
        <5>2. t # << >>
          BY <5>1
        <5> QED
          BY <5>2 DEF t
      <4>3. \A i, j \in 1..Len(Tail(q)) : Tail(q)[i] = Tail(q)[j] => i = j
        <5>1. \A i \in 1..Len(q) - 1 : i + 1 \in 1..Len(q)
          BY <1>1
        <5>2. ASSUME NEW i \in 1..Len(q) - 1, NEW j \in 1..Len(q) - 1, Tail(q)[i] = Tail(q)[j]
              PROVE  i = j
          <6>1. q[i+1] = q[j+1]
            BY <5>2, <1>3
          <6>2. i + 1 = j + 1
            BY <6>1, <5>1, <1>1
          <6> QED
            BY <6>2, <1>1
        <5> QED
          BY <5>2, <1>3
      <4>4. \A i \in 1..Len(Tail(q)) : Key(c, Tail(q)[i]) = k
        <5>1. \A i \in 1..Len(q) - 1 : i + 1 \in 1..Len(q)
          BY <1>1
        <5> QED
          BY <5>1, <1>1, <1>3
      <4> QED
        BY <3>1, <4>1, <4>2, <4>3, <4>4, <1>3
    <3>2. CASE x # k
      <4>1. x \in DOMAIN b /\ n[x] = b[x]
        BY <1>4, <3>2
      <4> QED
        BY <4>1 DEF BucketsOK
    <3> QED
      BY <3>1, <3>2
  <2> QED
    BY <2>2, <2>3 DEF BucketsOK
<1>10. h \in InBuckets(b)
  <2>1. 1 \in 1..Len(b[k]) /\ h = b[k][1]
    BY <1>1, <1>2 DEF q
  <2> QED
    BY <2>1, InBucketsMember
<1>11. ASSUME NEW f PROVE f \in InBuckets(n) <=> f \in InBuckets(b) /\ f # h
  <2>1. ASSUME f \in InBuckets(n) PROVE f \in InBuckets(b) /\ f # h
    <3>1. PICK x \in DOMAIN n : \E i \in 1..Len(n[x]) : f = n[x][i]
      BY <1>9, <2>1, InBucketsMember
    <3>2. CASE x = k
      <4>1. n[x] = Tail(q)
        BY <3>1, <3>2, <1>7
      <4>2. PICK i \in 1..Len(q) - 1 : f = Tail(q)[i]
        BY <3>1, <4>1, <1>3
      <4>3. i + 1 \in 1..Len(q) /\ f = q[i + 1] /\ i + 1 # 1
        BY <4>2, <1>1, <1>3
      <4>4. f # h
        BY <4>3, <1>1, <1>2
      <4>5. f \in InBuckets(b)
        BY <4>3, InBucketsMember DEF q
      <4> QED
        BY <4>4, <4>5
    <3>3. CASE x # k
      <4>1. x \in DOMAIN b /\ n[x] = b[x]
        BY <1>4, <3>3
      <4>2. PICK i \in 1..Len(b[x]) : f = b[x][i]
        BY <3>1, <4>1
      <4>3. Key(c, f) = x
        BY <4>1, <4>2 DEF BucketsOK
      <4>4. Key(c, h) = k
        BY <1>1, <1>2
      <4> QED
        BY <4>1, <4>2, <4>3, <4>4, <3>3, InBucketsMember
    <3> QED
      BY <3>2, <3>3
  <2>2. ASSUME f \in InBuckets(b), f # h PROVE f \in InBuckets(n)
    <3>1. PICK x \in DOMAIN b : \E i \in 1..Len(b[x]) : f = b[x][i]
      BY <2>2, InBucketsMember
    <3>2. CASE x = k
      <4>1. PICK i \in 1..Len(q) : f = q[i]
        BY <3>1, <3>2 DEF q
      <4>2. i # 1
        BY <4>1, <2>2, <1>2
      <4>3. Len(q) # 1
        BY <4>1, <4>2, <1>1
      <4>4. i - 1 \in 1..Len(q) - 1 /\ (i - 1) + 1 = i
        BY <4>2, <1>1
      <4>5. f = Tail(q)[i - 1]
        BY <4>1, <4>4, <1>3
      <4>6. k \in DOMAIN n /\ n[k] = Tail(q) /\ i - 1 \in 1..Len(n[k])
        BY <4>3, <4>4, <1>3, <1>6, <1>7
      <4> QED
        BY <4>5, <4>6, <1>9, InBucketsMember
    <3>3. CASE x # k
      <4>1. x \in DOMAIN n /\ n[x] = b[x]
        BY <1>4, <1>5, <3>3
      <4> QED
        BY <4>1, <3>1, <1>9, InBucketsMember
    <3> QED
      BY <3>2, <3>3
  <2> QED
    BY <2>1, <2>2
<1>12. InBuckets(n) = InBuckets(b) \ {h}
  BY <1>11
<1> QED
  BY <1>8, <1>9, <1>10, <1>12 DEF n, h, q

(* Pareto lists.                                                           *)

Nondominated(keys) == {k \in keys : IsNondominated(k, keys)}

LEMMA ParetoInsertionExact ==
  ASSUME NEW c \in Sublist, NEW keys, keys \subseteq Keys(c), IsFiniteSet(keys),
         NEW k \in Keys(c), k \notin keys
  PROVE  Nondominated(keys \union {k}) =
           IF IsNondominated(k, Nondominated(keys))
           THEN {x \in Nondominated(keys) : ~Dominates(k, x)} \union {k}
           ELSE Nondominated(keys)
<1>1. ASSUME NEW d \in keys, Dominates(d, k)
      PROVE  \E m \in Nondominated(keys) : Dominates(m, k)
  <2>1. PICK m \in keys : IsNondominated(m, keys) /\ (m = d \/ Dominates(m, d))
    BY SomeNondominated
  <2>2. Dominates(m, k)
    BY <1>1, <2>1, DominatesStrict
  <2> QED
    BY <2>1, <2>2 DEF Nondominated
<1>2. ~Dominates(k, k)
  BY DominatesStrict
<1>3. CASE IsNondominated(k, Nondominated(keys))
  <2>1. IsNondominated(k, keys \union {k})
    BY <1>1, <1>2, <1>3 DEF IsNondominated
  <2>2. \A x \in keys : IsNondominated(x, keys \union {k}) <=>
                          IsNondominated(x, keys) /\ ~Dominates(k, x)
    BY DEF IsNondominated
  <2> QED
    BY <1>3, <2>1, <2>2 DEF Nondominated
<1>4. CASE ~IsNondominated(k, Nondominated(keys))
  <2>1. PICK m \in Nondominated(keys) : Dominates(m, k)
    BY <1>4 DEF IsNondominated
  <2>2. m \in keys
    BY DEF Nondominated
  <2>3. ~IsNondominated(k, keys \union {k})
    BY <2>1, <2>2 DEF IsNondominated
  <2>4. ASSUME NEW x \in keys, IsNondominated(x, keys), Dominates(k, x)
        PROVE  FALSE
    <3>1. Dominates(m, x)
      BY <2>1, <2>2, <2>4, DominatesStrict
    <3> QED
      BY <2>2, <2>4, <3>1 DEF IsNondominated
  <2>5. \A x \in keys : IsNondominated(x, keys \union {k}) <=> IsNondominated(x, keys)
    BY <2>4 DEF IsNondominated
  <2> QED
    BY <1>4, <2>3, <2>5 DEF Nondominated
<1> QED
  BY <1>3, <1>4

LEMMA RemoveKeyExact ==
  ASSUME NEW c \in Sublist, NEW keys, keys \subseteq Keys(c), IsFiniteSet(keys),
         NEW k \in Nondominated(keys), NEW b, DOMAIN b = keys \ {k}
  PROVE  RemoveKey(k, b, Nondominated(keys) \ {k}) = Nondominated(keys \ {k})
<1> DEFINE rest == keys \ {k}
           N == Nondominated(keys) \ {k}
           C == {x \in rest \ N : Dominates(k, x) /\ IsNondominated(x, N)}
<1>1. k \in keys /\ N \subseteq rest /\ C \subseteq rest /\ IsFiniteSet(rest) /\ rest \subseteq Keys(c)
  BY FS_RemoveElement DEF Nondominated
<1>2. \A x \in N : IsNondominated(x, rest)
  BY DEF Nondominated, IsNondominated
\* What is nondominated in the rest and was dominated before is a candidate.
<1>3. ASSUME NEW x \in rest, IsNondominated(x, rest), x \notin N
      PROVE  x \in C
  <2>1. ~IsNondominated(x, keys)
    BY <1>3 DEF Nondominated
  <2>2. Dominates(k, x)
    BY <1>3, <2>1 DEF IsNondominated
  <2>3. IsNondominated(x, N)
    BY <1>1, <1>3 DEF IsNondominated
  <2> QED
    BY <1>3, <2>2, <2>3
<1>4. ASSUME NEW x \in C, IsNondominated(x, C)
      PROVE  IsNondominated(x, rest)
  <2>1. ASSUME NEW d \in rest, Dominates(d, x)
        PROVE  FALSE
    <3>1. PICK m \in rest : IsNondominated(m, rest) /\ (m = d \/ Dominates(m, d))
      <4> HIDE DEF rest
      <4> QED
        BY <1>1, SomeNondominated
    <3>2. Dominates(m, x)
      BY <1>1, <2>1, <3>1, DominatesStrict
    <3>3. m \notin N
      BY <3>2 DEF IsNondominated
    <3>4. m \in C
      BY <1>3, <3>1, <3>3
    <3> QED
      BY <1>4, <3>2, <3>4 DEF IsNondominated
  <2> QED
    BY <2>1 DEF IsNondominated
<1>5. \A x \in C : IsNondominated(x, rest) => IsNondominated(x, C)
  BY <1>1 DEF IsNondominated
<1>6. Nondominated(rest) = N \union {x \in C : IsNondominated(x, C)}
  <2> HIDE DEF rest, N, C
  <2> QED
    BY <1>1, <1>2, <1>3, <1>4, <1>5 DEF Nondominated
<1> QED
  BY <1>6 DEF RemoveKey

LEMMA NondominatedEmpty ==
  ASSUME NEW c \in Sublist, NEW keys, keys \subseteq Keys(c), IsFiniteSet(keys), keys # {}
  PROVE  Nondominated(keys) # {}
BY SomeNondominated DEF Nondominated

-----------------------------------------------------------------------------
(* Type-based lists.                                                       *)

LEMMA SwapAndPopOK ==
  ASSUME NEW S, NEW s \in Seq(S), NEW i \in 1..Len(s)
  PROVE  /\ SwapAndPop(s, i) \in Seq(S)
         /\ Len(SwapAndPop(s, i)) = Len(s) - 1
         /\ \A m \in 1..Len(s)-1 : SwapAndPop(s, i)[m] = IF m = i THEN s[Len(s)] ELSE s[m]
<1> DEFINE n == Len(s)
           t == [s EXCEPT ![i] = s[n]]
<1>1. n \in Nat /\ n >= 1 /\ s[n] \in S
  <2>1. n \in Nat
    BY LenProperties
  <2>2. n >= 1
    BY <2>1
  <2> QED
    BY <2>1, <2>2
<1>2. /\ t \in Seq(S) /\ Len(t) = n
      /\ \A j \in 1..n : t[j] = IF j = i THEN s[n] ELSE s[j]
  BY <1>1, ExceptSeq
<1>3. SwapAndPop(s, i) = SubSeq(t, 1, n - 1)
  BY <1>2 DEF SwapAndPop, Front, Last
<1> HIDE DEF t, n
<1>4. \A j \in 1..n-1 : j \in 1..n /\ t[j] \in S
  <2>1. \A j \in 1..n-1 : j \in 1..n
    BY <1>1
  <2> QED
    BY <1>2, <2>1, ElementOfSeq
<1>5. /\ SubSeq(t, 1, n-1) \in Seq(S)
      /\ Len(SubSeq(t, 1, n-1)) = n - 1
      /\ \A j \in 1..n-1 : SubSeq(t, 1, n-1)[j] = t[j]
  <2>1. /\ SubSeq(t, 1, n-1) \in Seq(S)
        /\ Len(SubSeq(t, 1, n-1)) = IF 1 <= n-1 THEN (n-1)-1+1 ELSE 0
        /\ \A j \in 1..(n-1)-1+1 : SubSeq(t, 1, n-1)[j] = t[1+j-1]
    BY <1>1, <1>4, SubSeqProperties
  <2>2. (n-1)-1+1 = n - 1
    BY <1>1
  <2>3. Len(SubSeq(t, 1, n-1)) = n - 1
    BY <1>1, <2>1
  <2>4. \A j \in 1..n-1 : 1+j-1 = j
    BY <1>1
  <2> QED
    BY <2>1, <2>2, <2>3, <2>4
<1> QED
  BY <1>2, <1>3, <1>4, <1>5 DEF n

KeyedBucket(c) == [key : Keys(c), bucket : Seq(Entry)]

\* The vector of buckets and its index.
IndexOK(c, s, index) ==
  /\ s \in Seq(KeyedBucket(c))
  /\ DOMAIN index = {s[i].key : i \in 1..Len(s)}
  /\ \A i \in 1..Len(s) : s[i].bucket # << >> /\ index[s[i].key] = i

InVector(s) == UNION {Range(s[i].bucket) : i \in 1..Len(s)}

TypeBasedOK(c, l) ==
  /\ l = [keys_and_buckets |-> l.keys_and_buckets, key_to_bucket_index |-> l.key_to_bucket_index]
  /\ IndexOK(c, l.keys_and_buckets, l.key_to_bucket_index)

LEMMA InVectorMember ==
  ASSUME NEW c, NEW s \in Seq(KeyedBucket(c)), NEW e
  PROVE  e \in InVector(s) <=> \E i \in 1..Len(s) : \E j \in 1..Len(s[i].bucket) : e = s[i].bucket[j]
<1>1. ASSUME NEW i \in 1..Len(s) PROVE Range(s[i].bucket) = {s[i].bucket[j] : j \in 1..Len(s[i].bucket)}
  <2>1. s[i] \in KeyedBucket(c)
    BY ElementOfSeq
  <2>2. s[i].bucket \in Seq(Entry)
    BY <2>1 DEF KeyedBucket
  <2> QED
    BY <2>2, RangeEquality
<1> QED
  BY <1>1 DEF InVector

\* Another queue for the i-th key.
LEMMA BucketReplaced ==
  ASSUME NEW c \in Sublist, NEW s, NEW index, IndexOK(c, s, index), NEW i \in 1..Len(s),
         NEW q \in Seq(Entry), q # << >>
  PROVE  LET t == [s EXCEPT ![i].bucket = q]
         IN  /\ IndexOK(c, t, index)
             /\ Len(t) = Len(s) /\ t[i].bucket = q
             /\ \A m \in 1..Len(s) : m # i => t[m] = s[m]
<1> DEFINE r == [s[i] EXCEPT !.bucket = q]
           t == [s EXCEPT ![i] = r]
<1>1. s \in Seq(KeyedBucket(c)) /\ s[i] \in KeyedBucket(c)
  BY ElementOfSeq DEF IndexOK
<1>2. r \in KeyedBucket(c) /\ r.bucket = q /\ r.key = s[i].key
  BY <1>1 DEF KeyedBucket
<1>3. [s EXCEPT ![i].bucket = q] = t
  OBVIOUS
<1> HIDE DEF r
<1>4. t \in Seq(KeyedBucket(c)) /\ Len(t) = Len(s)
      /\ \A j \in 1..Len(s) : t[j] = IF j = i THEN r ELSE s[j]
  BY <1>1, <1>2, ExceptSeq
<1> HIDE DEF t
<1>5. \A j \in 1..Len(s) : t[j].key = s[j].key
  BY <1>2, <1>4
<1>6. \A j \in 1..Len(s) : t[j].bucket # << >>
  BY <1>2, <1>4 DEF IndexOK
<1>7. DOMAIN index = {t[j].key : j \in 1..Len(t)}
  <2>1. DOMAIN index = {s[j].key : j \in 1..Len(s)}
    BY DEF IndexOK
  <2> QED
    BY <2>1, <1>4, <1>5
<1>8. \A j \in 1..Len(t) : index[t[j].key] = j
  BY <1>4, <1>5 DEF IndexOK
<1>9. IndexOK(c, t, index)
  BY <1>4, <1>6, <1>7, <1>8 DEF IndexOK
<1> QED
  BY <1>2, <1>3, <1>4, <1>9

\* t and new are s and index after a bucket was appended that holds e under k.
IsAppended(c, s, index, k, e, t, new) ==
  /\ t \in Seq(KeyedBucket(c)) /\ Len(t) = Len(s) + 1
  /\ \A i \in 1..Len(s) : t[i] = s[i]
  /\ t[Len(s) + 1] = [key |-> k, bucket |-> <<e>>]
  /\ DOMAIN new = DOMAIN index \union {k} /\ new[k] = Len(s) + 1
  /\ \A x \in DOMAIN index : new[x] = index[x]

LEMMA BucketAppended ==
  ASSUME NEW c, NEW s, NEW index, IndexOK(c, s, index),
         NEW k, k \notin DOMAIN index, NEW e, NEW t, NEW new,
         IsAppended(c, s, index, k, e, t, new)
  PROVE  IndexOK(c, t, new) /\ InVector(t) = InVector(s) \union {e}
<1> DEFINE n == Len(s)
           r == t[n+1]
<1>1. s \in Seq(KeyedBucket(c)) /\ n \in Nat
  BY LenProperties DEF IndexOK
<1>2. r.key = k /\ r.bucket = <<e>>
  BY DEF IsAppended
<1>3. <<e>> # << >> /\ Len(<<e>>) = 1 /\ <<e>>[1] = e
  OBVIOUS
<1>4. /\ t \in Seq(KeyedBucket(c)) /\ Len(t) = n + 1
      /\ \A i \in 1..n : t[i] = s[i]
      /\ t[n+1] = r
  BY DEF IsAppended
<1>5. \A i \in 1..n+1 : i \in 1..n \/ i = n + 1
  BY <1>1
<1>6. /\ DOMAIN index = {s[i].key : i \in 1..n}
      /\ \A i \in 1..n : s[i].bucket # << >> /\ index[s[i].key] = i
  BY DEF IndexOK
<1>7. DOMAIN new = DOMAIN index \union {k} /\ new[k] = n + 1
      /\ \A x \in DOMAIN index : new[x] = index[x]
  BY DEF IsAppended
<1> HIDE DEF n, r
<1>8. n + 1 \in 1..n+1 /\ \A i \in 1..n : i \in 1..n+1
  BY <1>1
<1>9. DOMAIN new = {t[i].key : i \in 1..n+1}
  <2>1. ASSUME NEW x \in DOMAIN new PROVE \E i \in 1..n+1 : x = t[i].key
    <3>1. CASE x = k
      BY <3>1, <1>2, <1>4, <1>8
    <3>2. CASE x # k
      <4>1. PICK i \in 1..n : x = s[i].key
        BY <3>2, <1>6, <1>7
      <4> QED
        BY <4>1, <1>4, <1>8
    <3> QED
      BY <3>1, <3>2
  <2>2. ASSUME NEW i \in 1..n+1 PROVE t[i].key \in DOMAIN new
    <3>1. CASE i \in 1..n
      BY <3>1, <1>4, <1>6, <1>7
    <3>2. CASE i = n + 1
      BY <3>2, <1>2, <1>4, <1>7
    <3> QED
      BY <3>1, <3>2, <1>5
  <2> QED
    BY <2>1, <2>2
<1>10. ASSUME NEW i \in 1..n+1 PROVE t[i].bucket # << >> /\ new[t[i].key] = i
  <2>1. CASE i \in 1..n
    BY <2>1, <1>4, <1>6, <1>7
  <2>2. CASE i = n + 1
    BY <2>2, <1>2, <1>3, <1>4, <1>7
  <2> QED
    BY <2>1, <2>2, <1>5
<1>11. IndexOK(c, t, new)
  BY <1>4, <1>9, <1>10 DEF IndexOK
<1>12. ASSUME NEW f PROVE f \in InVector(t) <=> f \in InVector(s) \/ f = e
  <2>1. f \in InVector(t) <=> \E i \in 1..n+1 : \E j \in 1..Len(t[i].bucket) : f = t[i].bucket[j]
    BY <1>4, InVectorMember
  <2>2. f \in InVector(s) <=> \E i \in 1..n : \E j \in 1..Len(s[i].bucket) : f = s[i].bucket[j]
    BY <1>1, InVectorMember DEF n
  <2>3. (\E j \in 1..Len(r.bucket) : f = r.bucket[j]) <=> f = e
    BY <1>2, <1>3
  <2> QED
    BY <2>1, <2>2, <2>3, <1>4, <1>5, <1>8
<1> QED
  BY <1>11, <1>12

\* The i-th bucket removed.
LEMMA BucketRemoved ==
  ASSUME NEW c \in Sublist, NEW s, NEW index, IndexOK(c, s, index), NEW i \in 1..Len(s)
  PROVE  IndexOK(c, SwapAndPop(s, i), Without([index EXCEPT ![Last(s).key] = i], s[i].key))
<1> DEFINE n == Len(s)
           t == SwapAndPop(s, i)
           moved == [index EXCEPT ![s[n].key] = i]
           new == Without(moved, s[i].key)
<1>1. s \in Seq(KeyedBucket(c)) /\ n \in Nat /\ n >= 1 /\ i \in 1..n /\ n \in 1..n
  <2>1. s \in Seq(KeyedBucket(c))
    BY DEF IndexOK
  <2>2. n \in Nat
    BY <2>1, LenProperties
  <2> QED
    BY <2>1, <2>2
<1>2. /\ t \in Seq(KeyedBucket(c)) /\ Len(t) = n - 1
      /\ \A m \in 1..n-1 : t[m] = IF m = i THEN s[n] ELSE s[m]
  BY <1>1, SwapAndPopOK
<1>3. /\ DOMAIN index = {s[m].key : m \in 1..n}
      /\ \A m \in 1..n : s[m].bucket # << >> /\ index[s[m].key] = m
  BY DEF IndexOK
<1>4. Last(s) = s[n]
  BY DEF Last
<1> HIDE DEF n, t
<1>5. /\ DOMAIN new = DOMAIN index \ {s[i].key}
      /\ \A x \in DOMAIN new : new[x] = IF x = s[n].key THEN i ELSE index[x]
  BY DEF Without
<1> HIDE DEF new
<1>6. \A m \in 1..n-1 : m \in 1..n
  BY <1>1
<1>7. \A m1, m2 \in 1..n : s[m1].key = s[m2].key => m1 = m2
  BY <1>3
<1>8. ASSUME NEW m \in 1..n-1
      PROVE  t[m].bucket # << >> /\ t[m].key \in DOMAIN new /\ new[t[m].key] = m
  <2>1. CASE m = i
    <3>1. t[m] = s[n] /\ n # i
      BY <2>1, <1>1, <1>2
    <3>2. s[n].key # s[i].key
      BY <3>1, <1>1, <1>7
    <3> QED
      BY <2>1, <3>1, <3>2, <1>1, <1>3, <1>5
  <2>2. CASE m # i
    <3>1. t[m] = s[m] /\ m # n /\ m \in 1..n
      BY <2>2, <1>1, <1>2, <1>6
    <3>2. s[m].key # s[i].key /\ s[m].key # s[n].key
      BY <2>2, <3>1, <1>1, <1>7
    <3> QED
      BY <3>1, <3>2, <1>3, <1>5
  <2> QED
    BY <2>1, <2>2
<1>9. ASSUME NEW x \in DOMAIN new PROVE \E m \in 1..n-1 : x = t[m].key
  <2>1. PICK m \in 1..n : x = s[m].key
    BY <1>3, <1>5
  <2>2. m # i
    BY <2>1, <1>5
  <2>3. CASE m = n
    <3>1. i \in 1..n-1 /\ t[i] = s[n]
      BY <2>2, <2>3, <1>1, <1>2
    <3> QED
      BY <2>1, <2>3, <3>1
  <2>4. CASE m # n
    <3>1. m \in 1..n-1 /\ t[m] = s[m]
      BY <2>2, <2>4, <1>1, <1>2
    <3> QED
      BY <2>1, <3>1
  <2> QED
    BY <2>3, <2>4
<1>10. IndexOK(c, t, new)
  <2>1. DOMAIN new = {t[m].key : m \in 1..n-1}
    BY <1>8, <1>9
  <2> QED
    BY <2>1, <1>2, <1>8 DEF IndexOK
<1> QED
  BY <1>4, <1>10 DEF t, new, n

\* Every bucket is in the vector under the index of its key.
LEMMA IndexLeads ==
  ASSUME NEW c, NEW s, NEW index, IndexOK(c, s, index), NEW k \in DOMAIN index
  PROVE  index[k] \in 1..Len(s) /\ s[index[k]].key = k
<1>1. PICK i \in 1..Len(s) : k = s[i].key
  BY DEF IndexOK
<1> QED
  BY <1>1 DEF IndexOK

LEMMA TypeBasedInsertionOK ==
  ASSUME NEW c \in Sublist, NEW l, TypeBasedOK(c, l), NEW k \in Keys(c), NEW e \in Entry
  PROVE  /\ TypeBasedOK(c, TypeBasedInsertion(l, k, e))
         /\ InVector(TypeBasedInsertion(l, k, e).keys_and_buckets)
              = InVector(l.keys_and_buckets) \union {e}
<1> DEFINE s == l.keys_and_buckets
           index == l.key_to_bucket_index
           new == TypeBasedInsertion(l, k, e)
<1>1. IndexOK(c, s, index) /\ l = [keys_and_buckets |-> s, key_to_bucket_index |-> index]
  BY DEF TypeBasedOK
<1>2. s \in Seq(KeyedBucket(c))
  BY <1>1 DEF IndexOK
<1>3. CASE k \in DOMAIN index
  <2> DEFINE i == index[k]
             q == Append(s[i].bucket, e)
             t == [s EXCEPT ![i].bucket = q]
  <2>1. i \in 1..Len(s)
    BY <1>1, <1>3, IndexLeads
  <2>2. new = [keys_and_buckets |-> t, key_to_bucket_index |-> index]
    <3>1. new = [l EXCEPT !.keys_and_buckets[i].bucket = Append(@, e)]
      BY <1>3 DEF TypeBasedInsertion
    <3>2. [l EXCEPT !.keys_and_buckets[i].bucket = Append(@, e)]
            = [l EXCEPT !.keys_and_buckets = t]
      OBVIOUS
    <3> HIDE DEF t, new, i
    <3>3. [l EXCEPT !.keys_and_buckets = t] = [keys_and_buckets |-> t, key_to_bucket_index |-> index]
      <4> HIDE DEF s, index
      <4> QED
        BY <1>1
    <3> QED
      BY <3>1, <3>2, <3>3
  <2>3. s[i].bucket \in Seq(Entry)
    <3> HIDE DEF i, s
    <3>1. s[i] \in KeyedBucket(c)
      BY <1>2, <2>1, ElementOfSeq
    <3> QED
      BY <3>1 DEF KeyedBucket
  <2>4. /\ q \in Seq(Entry) /\ q # << >> /\ Len(q) = Len(s[i].bucket) + 1
        /\ \A j \in 1..Len(s[i].bucket) : q[j] = s[i].bucket[j]
        /\ q[Len(s[i].bucket) + 1] = e
        /\ Len(s[i].bucket) \in Nat
    <3> DEFINE o == s[i].bucket
    <3>1. o \in Seq(Entry)
      BY <2>3
    <3> HIDE DEF o
    <3>2. Len(o) \in Nat
      BY <3>1, LenProperties
    <3>3. /\ Append(o, e) \in Seq(Entry) /\ Append(o, e) # << >> /\ Len(Append(o, e)) = Len(o) + 1
          /\ \A j \in 1..Len(o) : Append(o, e)[j] = o[j]
          /\ Append(o, e)[Len(o) + 1] = e
      BY <3>1, AppendProperties
    <3> QED
      BY <3>2, <3>3 DEF o
  <2> HIDE DEF q
  <2>5. /\ IndexOK(c, t, index)
        /\ Len(t) = Len(s) /\ t[i].bucket = q
        /\ \A m \in 1..Len(s) : m # i => t[m] = s[m]
    <3> HIDE DEF i, s, index
    <3> QED
      BY <1>1, <2>1, <2>4, BucketReplaced
  <2>6. t \in Seq(KeyedBucket(c))
    BY <2>5 DEF IndexOK
  <2> HIDE DEF t, i, s, index
  <2>7. ASSUME NEW f PROVE f \in InVector(t) <=> f \in InVector(s) \/ f = e
    <3>1. f \in InVector(t) <=> \E m \in 1..Len(t) : \E j \in 1..Len(t[m].bucket) : f = t[m].bucket[j]
      BY <2>6, InVectorMember
    <3>2. f \in InVector(s) <=> \E m \in 1..Len(s) : \E j \in 1..Len(s[m].bucket) : f = s[m].bucket[j]
      BY <1>2, InVectorMember
    <3>3. (\E j \in 1..Len(q) : f = q[j]) <=> f = e \/ \E j \in 1..Len(s[i].bucket) : f = s[i].bucket[j]
      <4>1. \A j \in 1..Len(q) : j \in 1..Len(s[i].bucket) \/ j = Len(s[i].bucket) + 1
        BY <2>4
      <4>2. Len(s[i].bucket) + 1 \in 1..Len(q) /\ \A j \in 1..Len(s[i].bucket) : j \in 1..Len(q)
        BY <2>4
      <4> QED
        BY <2>4, <4>1, <4>2
    <3> QED
      BY <2>1, <2>5, <3>1, <3>2, <3>3
  <2>8. new.keys_and_buckets = t /\ new.key_to_bucket_index = index
        /\ new = [keys_and_buckets |-> new.keys_and_buckets, key_to_bucket_index |-> new.key_to_bucket_index]
    BY <2>2
  <2>9. InVector(t) = InVector(s) \union {e}
    BY <2>7
  <2> QED
    BY <2>5, <2>8, <2>9 DEF TypeBasedOK, s, index
<1>4. CASE k \notin DOMAIN index
  <2> DEFINE t == Append(s, [key |-> k, bucket |-> <<e>>])
             x == [y \in DOMAIN index \union {k} |-> IF y = k THEN Len(s) + 1 ELSE index[y]]
  <2>1. new = [keys_and_buckets |-> t, key_to_bucket_index |-> x]
    BY <1>4 DEF TypeBasedInsertion
  <2>2. IndexOK(c, t, x) /\ InVector(t) = InVector(s) \union {e}
    <3> HIDE DEF s, index
    <3>1. <<e>> \in Seq(Entry) /\ [key |-> k, bucket |-> <<e>>] \in KeyedBucket(c)
      BY DEF KeyedBucket
    <3>2. /\ t \in Seq(KeyedBucket(c)) /\ Len(t) = Len(s) + 1
          /\ \A i \in 1..Len(s) : t[i] = s[i]
          /\ t[Len(s) + 1] = [key |-> k, bucket |-> <<e>>]
      <4> DEFINE r == [key |-> k, bucket |-> <<e>>]
      <4>1. r \in KeyedBucket(c)
        BY <3>1
      <4> HIDE DEF r, s
      <4>2. /\ Append(s, r) \in Seq(KeyedBucket(c)) /\ Len(Append(s, r)) = Len(s) + 1
            /\ \A i \in 1..Len(s) : Append(s, r)[i] = s[i]
            /\ Append(s, r)[Len(s) + 1] = r
        BY <1>2, <4>1, AppendProperties
      <4> QED
        BY <4>2 DEF r
    <3>3. /\ DOMAIN x = DOMAIN index \union {k} /\ x[k] = Len(s) + 1
          /\ \A y \in DOMAIN index : x[y] = index[y]
      BY <1>4
    <3> HIDE DEF s, index, t, x
    <3>4. IsAppended(c, s, index, k, e, t, x)
      BY <3>2, <3>3 DEF IsAppended
    <3> QED
      BY <1>1, <1>4, <3>4, BucketAppended
  <2> HIDE DEF t, x
  <2>3. new.keys_and_buckets = t /\ new.key_to_bucket_index = x
        /\ new = [keys_and_buckets |-> new.keys_and_buckets, key_to_bucket_index |-> new.key_to_bucket_index]
    BY <2>1
  <2> QED
    BY <2>2, <2>3 DEF TypeBasedOK, s, index
<1> QED
  BY <1>3, <1>4

LEMMA TypeBasedRemovalOK ==
  ASSUME NEW c \in Sublist, NEW l, TypeBasedOK(c, l),
         NEW i \in 1..Len(l.keys_and_buckets),
         NEW j \in 1..Len(l.keys_and_buckets[i].bucket)
  PROVE  LET new == TypeBasedRemoval(l, i, j)
             s == l.keys_and_buckets
         IN  /\ TypeBasedOK(c, new)
             /\ InVector(new.keys_and_buckets) \subseteq InVector(s)
             /\ InVector(s) \ {s[i].bucket[j]} \subseteq InVector(new.keys_and_buckets)
<1> DEFINE s == l.keys_and_buckets
           index == l.key_to_bucket_index
           new == TypeBasedRemoval(l, i, j)
           old == s[i].bucket
           q == SwapAndPop(old, j)
<1>1. IndexOK(c, s, index) /\ l = [keys_and_buckets |-> s, key_to_bucket_index |-> index]
  BY DEF TypeBasedOK
<1>2. s \in Seq(KeyedBucket(c)) /\ Len(s) \in Nat /\ i \in 1..Len(s)
  <2>1. s \in Seq(KeyedBucket(c))
    BY <1>1 DEF IndexOK
  <2> QED
    BY <2>1, LenProperties
<1>3. old \in Seq(Entry) /\ Len(old) \in Nat /\ j \in 1..Len(old)
  <2> HIDE DEF s
  <2>1. s[i] \in KeyedBucket(c)
    BY <1>2, ElementOfSeq
  <2>2. old \in Seq(Entry)
    BY <2>1 DEF KeyedBucket
  <2> QED
    BY <2>2, LenProperties DEF s
<1>4. /\ q \in Seq(Entry) /\ Len(q) = Len(old) - 1
      /\ \A m \in 1..Len(old)-1 : q[m] = IF m = j THEN old[Len(old)] ELSE old[m]
  <2> HIDE DEF old
  <2> QED
    BY <1>3, SwapAndPopOK
\* What is left of the bucket.
<1>5. ASSUME NEW m \in 1..Len(q) PROVE \E n \in 1..Len(old) : q[m] = old[n]
  <2> HIDE DEF old, q
  <2>1. m \in 1..Len(old) /\ Len(old) \in 1..Len(old) /\ m \in 1..Len(old)-1
    BY <1>3, <1>4
  <2> QED
    BY <1>4, <2>1
<1>6. ASSUME NEW n \in 1..Len(old), old[n] # old[j] PROVE \E m \in 1..Len(q) : old[n] = q[m]
  <2> HIDE DEF old, q
  <2>1. CASE n = Len(old)
    <3>1. j \in 1..Len(old)-1
      BY <1>3, <1>6, <2>1
    <3> QED
      BY <1>4, <2>1, <3>1
  <2>2. CASE n # Len(old)
    <3>1. n \in 1..Len(old)-1 /\ n # j
      BY <1>3, <1>6, <2>2
    <3> QED
      BY <1>4, <3>1
  <2> QED
    BY <2>1, <2>2
<1>7. \A f : f \in InVector(s) <=> \E m \in 1..Len(s) : \E n \in 1..Len(s[m].bucket) : f = s[m].bucket[n]
  <2> HIDE DEF s
  <2> QED
    BY <1>2, InVectorMember
<1>8. CASE q # << >>
  <2> DEFINE t == [s EXCEPT ![i].bucket = q]
  <2>1. new = [keys_and_buckets |-> t, key_to_bucket_index |-> index]
    <3>1. new = [l EXCEPT !.keys_and_buckets[i].bucket = q]
      BY <1>8 DEF TypeBasedRemoval
    <3>2. [l EXCEPT !.keys_and_buckets[i].bucket = q] = [l EXCEPT !.keys_and_buckets = t]
      OBVIOUS
    <3> HIDE DEF t, new, q, old
    <3>3. [l EXCEPT !.keys_and_buckets = t] = [keys_and_buckets |-> t, key_to_bucket_index |-> index]
      <4> HIDE DEF s, index
      <4> QED
        BY <1>1
    <3> QED
      BY <3>1, <3>2, <3>3
  <2>2. /\ IndexOK(c, t, index)
        /\ Len(t) = Len(s) /\ t[i].bucket = q
        /\ \A m \in 1..Len(s) : m # i => t[m] = s[m]
    <3> HIDE DEF s, index, q, old
    <3> QED
      BY <1>1, <1>2, <1>4, <1>8, BucketReplaced
  <2>3. t \in Seq(KeyedBucket(c))
    BY <2>2 DEF IndexOK
  <2>4. new.keys_and_buckets = t /\ new.key_to_bucket_index = index
        /\ new = [keys_and_buckets |-> new.keys_and_buckets, key_to_bucket_index |-> new.key_to_bucket_index]
    BY <2>1
  <2> HIDE DEF t, new, q
  <2>5. \A f : f \in InVector(t) <=> \E m \in 1..Len(t) : \E n \in 1..Len(t[m].bucket) : f = t[m].bucket[n]
    BY <2>3, InVectorMember
  <2>6. ASSUME NEW f \in InVector(t) PROVE f \in InVector(s)
    <3>1. PICK m \in 1..Len(s) : \E n \in 1..Len(t[m].bucket) : f = t[m].bucket[n]
      BY <2>2, <2>5
    <3>2. \E n \in 1..Len(s[m].bucket) : f = s[m].bucket[n]
      <4>1. CASE m = i
        BY <3>1, <4>1, <2>2, <1>5
      <4>2. CASE m # i
        BY <3>1, <4>2, <2>2
      <4> QED
        BY <4>1, <4>2
    <3> QED
      BY <1>7, <3>1, <3>2
  <2>7. ASSUME NEW f \in InVector(s), f # old[j] PROVE f \in InVector(t)
    <3>1. PICK m \in 1..Len(s) : \E n \in 1..Len(s[m].bucket) : f = s[m].bucket[n]
      BY <1>7
    <3>2. \E n \in 1..Len(t[m].bucket) : f = t[m].bucket[n]
      <4>1. CASE m = i
        BY <2>7, <3>1, <4>1, <2>2, <1>6
      <4>2. CASE m # i
        BY <3>1, <4>2, <2>2
      <4> QED
        BY <4>1, <4>2
    <3> QED
      BY <2>2, <2>5, <3>1, <3>2
  <2>8. TypeBasedOK(c, new)
    BY <2>2, <2>4 DEF TypeBasedOK
  <2>9. InVector(t) \subseteq InVector(s) /\ InVector(s) \ {old[j]} \subseteq InVector(t)
    BY <2>6, <2>7
  <2> QED
    BY <2>4, <2>8, <2>9 DEF new
<1>9. CASE q = << >>
  <2> DEFINE t == SwapAndPop(s, i)
             x == Without([index EXCEPT ![Last(s).key] = i], s[i].key)
  <2>1. new = [keys_and_buckets |-> t, key_to_bucket_index |-> x]
    BY <1>9 DEF TypeBasedRemoval
  <2>2. IndexOK(c, t, x)
    <3> HIDE DEF s, index
    <3> QED
      BY <1>1, <1>2, BucketRemoved
  <2>3. /\ t \in Seq(KeyedBucket(c)) /\ Len(t) = Len(s) - 1
        /\ \A m \in 1..Len(s)-1 : t[m] = IF m = i THEN s[Len(s)] ELSE s[m]
    <3> HIDE DEF s
    <3> QED
      BY <1>2, SwapAndPopOK
  <2>4. new.keys_and_buckets = t /\ new.key_to_bucket_index = x
        /\ new = [keys_and_buckets |-> new.keys_and_buckets, key_to_bucket_index |-> new.key_to_bucket_index]
    BY <2>1
  <2>5. Len(old) = 1
    <3> DEFINE z == Len(q)
    <3>1. z = 0
      BY <1>9
    <3>2. z = Len(old) - 1
      BY <1>4
    <3> HIDE DEF z, old
    <3>3. PICK n \in Nat : n = Len(old)
      BY <1>3
    <3>4. 0 = n - 1
      BY <3>1, <3>2, <3>3
    <3>5. n = 1
      BY <3>4
    <3> QED
      BY <3>3, <3>5
  <2> HIDE DEF t, x, new, q
  <2>6. \A f : f \in InVector(t) <=> \E m \in 1..Len(t) : \E n \in 1..Len(t[m].bucket) : f = t[m].bucket[n]
    <3>1. t \in Seq(KeyedBucket(c))
      BY <2>3
    <3> QED
      BY <3>1, InVectorMember
  <2>7. ASSUME NEW f \in InVector(t) PROVE f \in InVector(s)
    <3>1. PICK m \in 1..Len(t) : \E n \in 1..Len(t[m].bucket) : f = t[m].bucket[n]
      BY <2>6
    <3>2. \E y \in 1..Len(s) : t[m] = s[y]
      <4> HIDE DEF s
      <4>1. m \in 1..Len(s)-1 /\ m \in 1..Len(s) /\ Len(s) \in 1..Len(s)
        BY <1>2, <2>3, <3>1
      <4> QED
        BY <2>3, <4>1
    <3> QED
      BY <1>7, <3>1, <3>2
  <2>8. ASSUME NEW f \in InVector(s), f # old[j] PROVE f \in InVector(t)
    <3>1. PICK m \in 1..Len(s) : \E n \in 1..Len(s[m].bucket) : f = s[m].bucket[n]
      BY <1>7
    <3>2. m # i
      BY <2>5, <2>8, <3>1, <1>3
    <3>3. \E y \in 1..Len(t) : t[y] = s[m]
      <4> HIDE DEF s
      <4>1. CASE m = Len(s)
        <5>1. i \in 1..Len(s)-1
          BY <1>2, <3>2, <4>1
        <5> QED
          BY <2>3, <4>1, <5>1
      <4>2. CASE m # Len(s)
        <5>1. m \in 1..Len(s)-1
          BY <1>2, <3>1, <4>2
        <5> QED
          BY <2>3, <3>2, <5>1
      <4> QED
        BY <4>1, <4>2
    <3> QED
      BY <2>6, <3>1, <3>3
  <2>9. TypeBasedOK(c, new)
    BY <2>2, <2>4 DEF TypeBasedOK
  <2>10. InVector(t) \subseteq InVector(s) /\ InVector(s) \ {old[j]} \subseteq InVector(t)
    BY <2>7, <2>8
  <2> QED
    BY <2>4, <2>9, <2>10 DEF new
<1> QED
  BY <1>8, <1>9

(* The sublists by kind.                                                   *)

ListOK(c, l) ==
  /\ c.kind = "tiebreaking" =>
       /\ BucketsOK(c, l.buckets) /\ IsFiniteSet(InBuckets(l.buckets))
       /\ l.size = Cardinality(InBuckets(l.buckets))
  /\ c.kind = "pareto" =>
       BucketsOK(c, l.buckets) /\ l.nondominated = Nondominated(DOMAIN l.buckets)
  /\ c.kind = "type_based" => TypeBasedOK(c, l)
  /\ c.kind = "epsilon_greedy" => IsFiniteSet(l.heap) /\ l.size = Cardinality(l.heap)

LEMMA KindCases ==
  ASSUME NEW c \in Sublist
  PROVE  /\ c.kind \in {"tiebreaking", "pareto", "type_based", "epsilon_greedy"}
         /\ "tiebreaking" # "pareto" /\ "tiebreaking" # "type_based"
         /\ "tiebreaking" # "epsilon_greedy" /\ "pareto" # "type_based"
         /\ "pareto" # "epsilon_greedy" /\ "type_based" # "epsilon_greedy"
BY DEF Sublist

LEMMA EntriesByKind ==
  ASSUME NEW c \in Sublist, NEW l, ListOK(c, l)
  PROVE  /\ c.kind \in {"tiebreaking", "pareto"} => EntriesOf(c, l) = InBuckets(l.buckets)
         /\ c.kind = "type_based" => EntriesOf(c, l) = InVector(l.keys_and_buckets)
         /\ c.kind = "epsilon_greedy" => EntriesOf(c, l) = l.heap
<1>1. CASE c.kind \in {"tiebreaking", "pareto"}
  BY <1>1, KindCases DEF EntriesOf, Buckets, InBuckets
<1>2. CASE c.kind = "epsilon_greedy"
  BY <1>2, KindCases DEF EntriesOf
<1>3. CASE c.kind = "type_based"
  <2> DEFINE s == l.keys_and_buckets
             index == l.key_to_bucket_index
  <2>1. IndexOK(c, s, index)
    BY <1>3 DEF ListOK, TypeBasedOK
  <2>2. EntriesOf(c, l) = UNION {Range(s[index[k]].bucket) : k \in DOMAIN index}
    BY <1>3, KindCases DEF EntriesOf, Buckets
  <2> HIDE DEF s, index
  <2>3. \A k \in DOMAIN index : index[k] \in 1..Len(s)
    BY <2>1, IndexLeads
  <2>4. \A i \in 1..Len(s) : s[i].key \in DOMAIN index /\ index[s[i].key] = i
    BY <2>1 DEF IndexOK
  <2>5. ASSUME NEW e
        PROVE  (\E k \in DOMAIN index : e \in Range(s[index[k]].bucket))
                 <=> (\E i \in 1..Len(s) : e \in Range(s[i].bucket))
    BY <2>3, <2>4, Zenon
  <2>6. EntriesOf(c, l) = InVector(s)
    BY <2>2, <2>5 DEF InVector
  <2> QED
    BY <1>3, <2>6, KindCases DEF s
<1> QED
  BY <1>1, <1>2, <1>3, KindCases

LEMMA EmptyListOK ==
  ASSUME NEW c \in Sublist
  PROVE  ListOK(c, EmptyList(c)) /\ EntriesOf(c, EmptyList(c)) = {}
<1> DEFINE l == EmptyList(c)
<1>1. IsFiniteSet({}) /\ Cardinality({}) = 0
  BY FS_EmptySet
<1>2. BucketsOK(c, NoBuckets) /\ InBuckets(NoBuckets) = {} /\ DOMAIN NoBuckets = {}
  BY EmptyBucketsOK DEF NoBuckets
<1>3. CASE c.kind = "tiebreaking"
  <2>1. l.buckets = NoBuckets /\ l.size = 0
    BY <1>3, KindCases DEF EmptyList
  <2> HIDE DEF l
  <2>2. ListOK(c, l)
    BY <1>1, <1>2, <1>3, <2>1, KindCases DEF ListOK
  <2>3. EntriesOf(c, l) = {}
    BY <1>2, <1>3, <2>1, <2>2, EntriesByKind
  <2> QED
    BY <2>2, <2>3 DEF l
<1>4. CASE c.kind = "pareto"
  <2>1. l.buckets = NoBuckets /\ l.nondominated = {}
    BY <1>4, KindCases DEF EmptyList
  <2> HIDE DEF l
  <2>2. Nondominated({}) = {}
    BY DEF Nondominated
  <2>3. ListOK(c, l)
    BY <1>2, <1>4, <2>1, <2>2, KindCases DEF ListOK
  <2>4. EntriesOf(c, l) = {}
    BY <1>2, <1>4, <2>1, <2>3, EntriesByKind
  <2> QED
    BY <2>3, <2>4 DEF l
<1>5. CASE c.kind = "type_based"
  <2>1. l = [keys_and_buckets |-> << >>, key_to_bucket_index |-> NoBuckets]
    BY <1>5, KindCases DEF EmptyList
  <2>2. /\ l.keys_and_buckets = << >> /\ l.key_to_bucket_index = NoBuckets
        /\ l = [keys_and_buckets |-> l.keys_and_buckets,
                key_to_bucket_index |-> l.key_to_bucket_index]
    BY <2>1
  <2>3. << >> \in Seq(KeyedBucket(c)) /\ Len(<< >>) = 0 /\ 1..0 = {}
    OBVIOUS
  <2>4. IndexOK(c, << >>, NoBuckets)
    BY <2>3, <1>2 DEF IndexOK
  <2>5. InVector(<< >>) = {}
    BY <2>3 DEF InVector
  <2> HIDE DEF l
  <2>6. ListOK(c, l)
    BY <1>5, <2>2, <2>4, KindCases DEF ListOK, TypeBasedOK
  <2>7. EntriesOf(c, l) = {}
    BY <1>5, <2>2, <2>5, <2>6, EntriesByKind
  <2> QED
    BY <2>6, <2>7 DEF l
<1>6. CASE c.kind = "epsilon_greedy"
  <2>1. l.heap = {} /\ l.size = 0
    BY <1>6, KindCases DEF EmptyList
  <2> HIDE DEF l
  <2>2. ListOK(c, l)
    BY <1>1, <1>6, <2>1, KindCases DEF ListOK
  <2>3. EntriesOf(c, l) = {}
    BY <1>6, <2>1, <2>2, EntriesByKind
  <2> QED
    BY <2>2, <2>3 DEF l
<1> QED
  BY <1>3, <1>4, <1>5, <1>6, KindCases

LEMMA InsertionOK ==
  ASSUME NEW c \in Sublist, NEW l, ListOK(c, l), NEW e \in Entry, e \notin EntriesOf(c, l)
  PROVE  /\ ListOK(c, DoInsertion(c, l, e))
         /\ EntriesOf(c, DoInsertion(c, l, e)) = EntriesOf(c, l) \union {e}
<1> DEFINE n == DoInsertion(c, l, e)
<1>1. PICK k : k = Key(c, e) /\ k \in Keys(c)
  BY KeyType
<1>2. CASE c.kind = "tiebreaking"
  <2>1. n.buckets = PutInBucket(l.buckets, k, e) /\ n.size = l.size + 1
    BY <1>1, <1>2, KindCases DEF DoInsertion, TieBreakingInsertion
  <2>2. /\ BucketsOK(c, l.buckets) /\ IsFiniteSet(InBuckets(l.buckets))
        /\ l.size = Cardinality(InBuckets(l.buckets))
    BY <1>2 DEF ListOK
  <2>3. EntriesOf(c, l) = InBuckets(l.buckets)
    BY <1>2, EntriesByKind
  <2>4. BucketsOK(c, n.buckets) /\ InBuckets(n.buckets) = InBuckets(l.buckets) \union {e}
    <3>1. /\ BucketsOK(c, PutInBucket(l.buckets, k, e))
          /\ InBuckets(PutInBucket(l.buckets, k, e)) = InBuckets(l.buckets) \union {e}
      <4>1. PICK b : b = l.buckets
        OBVIOUS
      <4>2. BucketsOK(c, b) /\ e \notin InBuckets(b) 
        BY <1>1, <2>2, <2>3, <4>1
      <4>3. /\ BucketsOK(c, PutInBucket(b, k, e))
            /\ InBuckets(PutInBucket(b, k, e)) = InBuckets(b) \union {e}
            /\ DOMAIN PutInBucket(b, k, e) = DOMAIN b \union {k}
        BY <4>2, <1>1, PutInBucketOK
      <4> QED
        BY <4>1, <4>3
    <3>2. n.buckets = PutInBucket(l.buckets, k, e)
      BY <2>1
    <3> QED
      BY <3>1, <3>2
  <2>5. IsFiniteSet(InBuckets(n.buckets)) /\ n.size = Cardinality(InBuckets(n.buckets))
    BY <2>1, <2>2, <2>3, <2>4, FS_AddElement
  <2> HIDE DEF n
  <2>6. ListOK(c, n)
    BY <1>2, <2>4, <2>5, KindCases DEF ListOK
  <2>7. EntriesOf(c, n) = InBuckets(n.buckets)
    BY <1>2, <2>6, EntriesByKind
  <2> QED
    BY <2>3, <2>4, <2>6, <2>7 DEF n
<1>3. CASE c.kind = "pareto"
  <2> DEFINE keys == DOMAIN l.buckets
  <2>1. BucketsOK(c, l.buckets) /\ l.nondominated = Nondominated(keys)
    BY <1>3 DEF ListOK
  <2>2. EntriesOf(c, l) = InBuckets(l.buckets)
    BY <1>3, EntriesByKind
  <2>3. n = ParetoInsertion(l, k, e)
    BY <1>1, <1>3, KindCases DEF DoInsertion
  <2>4. n.buckets = PutInBucket(l.buckets, k, e)
    BY <2>3 DEF ParetoInsertion
  <2>5. /\ BucketsOK(c, n.buckets) /\ InBuckets(n.buckets) = InBuckets(l.buckets) \union {e}
        /\ DOMAIN n.buckets = keys \union {k}
    BY <1>1, <2>1, <2>2, <2>4, PutInBucketOK
  <2>6. keys \subseteq Keys(c) /\ IsFiniteSet(keys)
    BY <2>1 DEF BucketsOK
  <2>7. n.nondominated = Nondominated(DOMAIN n.buckets)
    <3>1. CASE k \in keys
      <4>1. Bucket(l.buckets, k) # << >>
        BY <2>1, <3>1 DEF Bucket, BucketsOK
      <4>2. n.nondominated = l.nondominated
        BY <2>3, <4>1 DEF ParetoInsertion
      <4>3. keys \union {k} = keys
        BY <3>1
      <4> QED
        BY <2>1, <2>5, <4>2, <4>3
    <3>2. CASE k \notin keys
      <4>1. Bucket(l.buckets, k) = << >>
        BY <3>2 DEF Bucket
      <4>2. n.nondominated = IF IsNondominated(k, l.nondominated)
                             THEN {x \in l.nondominated : ~Dominates(k, x)} \union {k}
                             ELSE l.nondominated
        BY <2>3, <4>1 DEF ParetoInsertion
      <4> HIDE DEF keys, n
      <4>3. Nondominated(keys \union {k}) =
              IF IsNondominated(k, Nondominated(keys))
              THEN {x \in Nondominated(keys) : ~Dominates(k, x)} \union {k}
              ELSE Nondominated(keys)
        BY <1>1, <2>6, <3>2, ParetoInsertionExact
      <4> QED
        BY <2>1, <2>5, <4>2, <4>3
    <3> QED
      BY <3>1, <3>2
  <2> HIDE DEF n
  <2>8. ListOK(c, n)
    BY <1>3, <2>5, <2>7, KindCases DEF ListOK
  <2>9. EntriesOf(c, n) = InBuckets(n.buckets)
    BY <1>3, <2>8, EntriesByKind
  <2> QED
    BY <2>2, <2>5, <2>8, <2>9 DEF n
<1>4. CASE c.kind = "type_based"
  <2>1. n = TypeBasedInsertion(l, k, e)
    BY <1>1, <1>4, KindCases DEF DoInsertion
  <2>2. TypeBasedOK(c, l) /\ EntriesOf(c, l) = InVector(l.keys_and_buckets)
    BY <1>4, EntriesByKind DEF ListOK
  <2> HIDE DEF n
  <2>3. /\ TypeBasedOK(c, n)
        /\ InVector(n.keys_and_buckets) = InVector(l.keys_and_buckets) \union {e}
    BY <1>1, <2>1, <2>2, TypeBasedInsertionOK
  <2>4. ListOK(c, n)
    BY <1>4, <2>3, KindCases DEF ListOK
  <2>5. EntriesOf(c, n) = InVector(n.keys_and_buckets)
    BY <1>4, <2>4, EntriesByKind
  <2> QED
    BY <2>2, <2>3, <2>4, <2>5 DEF n
<1>5. CASE c.kind = "epsilon_greedy"
  <2>1. n.heap = l.heap \union {e} /\ n.size = l.size + 1
    BY <1>5, KindCases DEF DoInsertion, HeapInsertion
  <2>2. IsFiniteSet(l.heap) /\ l.size = Cardinality(l.heap) /\ EntriesOf(c, l) = l.heap
    BY <1>5, EntriesByKind DEF ListOK
  <2> HIDE DEF n
  <2>3. IsFiniteSet(n.heap) /\ n.size = Cardinality(n.heap)
    BY <2>1, <2>2, FS_AddElement
  <2>4. ListOK(c, n)
    BY <1>5, <2>3, KindCases DEF ListOK
  <2>5. EntriesOf(c, n) = n.heap
    BY <1>5, <2>4, EntriesByKind
  <2> QED
    BY <2>1, <2>2, <2>4, <2>5 DEF n
<1> QED
  BY <1>2, <1>3, <1>4, <1>5, KindCases

LEMMA NonemptyOK ==
  ASSUME NEW c \in Sublist, NEW l, ListOK(c, l), NEW e \in EntriesOf(c, l)
  PROVE  ~IsEmpty(c, l)
<1>1. CASE c.kind = "tiebreaking"
  <2>1. e \in InBuckets(l.buckets) /\ IsFiniteSet(InBuckets(l.buckets))
        /\ l.size = Cardinality(InBuckets(l.buckets))
    BY <1>1, EntriesByKind DEF ListOK
  <2>2. l.size # 0
    BY <2>1, FS_EmptySet
  <2> QED
    BY <1>1, <2>2, KindCases DEF IsEmpty
<1>2. CASE c.kind = "pareto"
  <2>1. /\ e \in InBuckets(l.buckets) /\ BucketsOK(c, l.buckets)
        /\ l.nondominated = Nondominated(DOMAIN l.buckets)
    BY <1>2, EntriesByKind DEF ListOK
  <2>2. DOMAIN l.buckets # {}
    BY <2>1 DEF InBuckets
  <2>3. l.nondominated # {}
    BY <2>1, <2>2, NondominatedEmpty DEF BucketsOK
  <2> QED
    BY <1>2, <2>3, KindCases DEF IsEmpty
<1>3. CASE c.kind = "type_based"
  <2>1. e \in InVector(l.keys_and_buckets)
    BY <1>3, EntriesByKind
  <2>2. PICK i \in 1..Len(l.keys_and_buckets) : TRUE
    BY <2>1 DEF InVector
  <2>3. Len(<< >>) = 0 /\ 1..0 = {}
    OBVIOUS
  <2>4. l.keys_and_buckets # << >>
    BY <2>2, <2>3
  <2> QED
    BY <1>3, <2>4, KindCases DEF IsEmpty
<1>4. CASE c.kind = "epsilon_greedy"
  <2>1. e \in l.heap /\ IsFiniteSet(l.heap) /\ l.size = Cardinality(l.heap)
    BY <1>4, EntriesByKind DEF ListOK
  <2>2. l.size # 0
    BY <2>1, FS_EmptySet
  <2> QED
    BY <1>4, <2>2, KindCases DEF IsEmpty
<1> QED
  BY <1>1, <1>2, <1>3, <1>4, KindCases

LEMMA RemovalOK ==
  ASSUME NEW c \in Sublist, NEW l, ListOK(c, l), ~IsEmpty(c, l), NEW r \in Removals(c, l)
  PROVE  /\ ListOK(c, r.list)
         /\ EntriesOf(c, r.list) \subseteq EntriesOf(c, l)
         /\ EntriesOf(c, l) \ {r.entry} \subseteq EntriesOf(c, r.list)
<1> DEFINE n == r.list
<1>1. CASE c.kind = "tiebreaking"
  <2> DEFINE k == LeastKey(DOMAIN l.buckets)
  <2>1. /\ r.entry = Head(l.buckets[k])
        /\ n.buckets = TakeFromBucket(l.buckets, k) /\ n.size = l.size - 1
    BY <1>1, KindCases DEF Removals, TieBreakingRemovals
  <2>2. /\ BucketsOK(c, l.buckets) /\ IsFiniteSet(InBuckets(l.buckets))
        /\ l.size = Cardinality(InBuckets(l.buckets))
    BY <1>1 DEF ListOK
  <2>3. DOMAIN l.buckets # {}
    <3>1. l.size # 0
      BY <1>1, KindCases DEF IsEmpty
    <3>2. InBuckets(l.buckets) # {}
      BY <2>2, <3>1, FS_EmptySet
    <3> QED
      BY <3>2 DEF InBuckets
  <2>4. k \in DOMAIN l.buckets
    BY <2>2, <2>3, LeastKeyExists DEF BucketsOK
  <2> HIDE DEF k, n
  <2>5. /\ BucketsOK(c, n.buckets) /\ r.entry \in InBuckets(l.buckets)
        /\ InBuckets(n.buckets) = InBuckets(l.buckets) \ {r.entry}
    <3>1. /\ BucketsOK(c, TakeFromBucket(l.buckets, k))
          /\ Head(l.buckets[k]) \in InBuckets(l.buckets)
          /\ InBuckets(TakeFromBucket(l.buckets, k)) = InBuckets(l.buckets) \ {Head(l.buckets[k])}
      <4>1. PICK b1 : b1 = l.buckets
        OBVIOUS
      <4>2. BucketsOK(c, b1) /\ k \in DOMAIN b1
        BY <2>2, <2>4, <4>1
      <4>3. /\ BucketsOK(c, TakeFromBucket(b1, k))
            /\ Head(b1[k]) \in InBuckets(b1)
            /\ InBuckets(TakeFromBucket(b1, k)) = InBuckets(b1) \ {Head(b1[k])}
            /\ DOMAIN TakeFromBucket(b1, k) \in {DOMAIN b1, DOMAIN b1 \ {k}}
        BY <4>2, TakeFromBucketOK
      <4> QED
        BY <4>1, <4>3
    <3>2. r.entry = Head(l.buckets[k]) /\ n.buckets = TakeFromBucket(l.buckets, k)
      BY <2>1
    <3> QED
      BY <3>1, <3>2
  <2>6. IsFiniteSet(InBuckets(n.buckets)) /\ n.size = Cardinality(InBuckets(n.buckets))
    BY <2>1, <2>2, <2>5, FS_RemoveElement
  <2>7. ListOK(c, n)
    BY <1>1, <2>5, <2>6, KindCases DEF ListOK
  <2>8. EntriesOf(c, n) = InBuckets(n.buckets) /\ EntriesOf(c, l) = InBuckets(l.buckets)
    BY <1>1, <2>7, EntriesByKind
  <2> QED
    BY <2>5, <2>7, <2>8 DEF n
<1>2. CASE c.kind = "pareto"
  <2>1. PICK k \in l.nondominated :
          r = [entry |-> Head(l.buckets[k]),
               list |-> [buckets |-> TakeFromBucket(l.buckets, k),
                         nondominated |->
                           IF k \in DOMAIN TakeFromBucket(l.buckets, k) THEN l.nondominated
                           ELSE RemoveKey(k, TakeFromBucket(l.buckets, k), l.nondominated \ {k})]]
    BY <1>2, KindCases DEF Removals, ParetoRemovals
  <2> DEFINE b == TakeFromBucket(l.buckets, k)
             keys == DOMAIN l.buckets
  <2>2. /\ r.entry = Head(l.buckets[k]) /\ n.buckets = b
        /\ n.nondominated = IF k \in DOMAIN b THEN l.nondominated
                            ELSE RemoveKey(k, b, l.nondominated \ {k})
    BY <2>1
  <2>3. BucketsOK(c, l.buckets) /\ l.nondominated = Nondominated(keys)
    BY <1>2 DEF ListOK
  <2>4. k \in keys /\ keys \subseteq Keys(c) /\ IsFiniteSet(keys)
    BY <2>3 DEF Nondominated, BucketsOK
  <2> HIDE DEF n
  <2>5. /\ BucketsOK(c, b)
        /\ InBuckets(b) = InBuckets(l.buckets) \ {r.entry}
        /\ DOMAIN b \in {keys, keys \ {k}}
    <3>1. /\ BucketsOK(c, TakeFromBucket(l.buckets, k))
          /\ InBuckets(TakeFromBucket(l.buckets, k)) = InBuckets(l.buckets) \ {Head(l.buckets[k])}
          /\ DOMAIN TakeFromBucket(l.buckets, k) \in {DOMAIN l.buckets, DOMAIN l.buckets \ {k}}
      <4>1. PICK b1 : b1 = l.buckets
        OBVIOUS
      <4>2. BucketsOK(c, b1) /\ k \in DOMAIN b1
        BY <2>3, <2>4, <4>1
      <4>3. /\ BucketsOK(c, TakeFromBucket(b1, k))
            /\ Head(b1[k]) \in InBuckets(b1)
            /\ InBuckets(TakeFromBucket(b1, k)) = InBuckets(b1) \ {Head(b1[k])}
            /\ DOMAIN TakeFromBucket(b1, k) \in {DOMAIN b1, DOMAIN b1 \ {k}}
        BY <4>2, TakeFromBucketOK
      <4> QED
        BY <4>1, <4>3
    <3>2. r.entry = Head(l.buckets[k])
      BY <2>2
    <3> QED
      BY <3>1, <3>2
  <2>6. n.nondominated = Nondominated(DOMAIN b)
    <3> HIDE DEF b, keys
    <3>1. CASE DOMAIN b = keys
      BY <2>2, <2>3, <2>4, <3>1
    <3>2. CASE DOMAIN b = keys \ {k}
      <4>1. k \in Nondominated(keys)
        BY <2>3
      <4>2. RemoveKey(k, b, Nondominated(keys) \ {k}) = Nondominated(keys \ {k})
        BY <2>4, <3>2, <4>1, RemoveKeyExact
      <4> QED
        BY <2>2, <2>3, <3>2, <4>2
    <3> QED
      BY <2>5, <3>1, <3>2
  <2>7. ListOK(c, n)
    BY <1>2, <2>2, <2>5, <2>6, KindCases DEF ListOK
  <2>8. EntriesOf(c, n) = InBuckets(b) /\ EntriesOf(c, l) = InBuckets(l.buckets)
    BY <1>2, <2>2, <2>7, EntriesByKind
  <2> QED
    BY <2>5, <2>7, <2>8 DEF n
<1>3. CASE c.kind = "type_based"
  <2> DEFINE s == l.keys_and_buckets
  <2>1. TypeBasedOK(c, l) /\ EntriesOf(c, l) = InVector(s)
    BY <1>3, EntriesByKind DEF ListOK
  <2>2. PICK i \in DOMAIN s : \E j \in DOMAIN s[i].bucket :
          r = [entry |-> s[i].bucket[j], list |-> TypeBasedRemoval(l, i, j)]
    BY <1>3, KindCases DEF Removals, TypeBasedRemovals
  <2>3. PICK j \in DOMAIN s[i].bucket :
          r = [entry |-> s[i].bucket[j], list |-> TypeBasedRemoval(l, i, j)]
    BY <2>2
  <2>4. s \in Seq(KeyedBucket(c))
    BY <2>1 DEF TypeBasedOK, IndexOK
  <2>5. i \in 1..Len(s)
    BY <2>4, LenProperties
  <2>6. s[i].bucket \in Seq(Entry)
    <3> HIDE DEF s
    <3>1. s[i] \in KeyedBucket(c)
      BY <2>4, <2>5, ElementOfSeq
    <3> QED
      BY <3>1 DEF KeyedBucket
  <2>7. j \in 1..Len(s[i].bucket)
    BY <2>6, LenProperties
  <2>8. r.entry = s[i].bucket[j] /\ n = TypeBasedRemoval(l, i, j)
    BY <2>3
  <2> HIDE DEF n
  <2>9. /\ TypeBasedOK(c, n)
        /\ InVector(n.keys_and_buckets) \subseteq InVector(s)
        /\ InVector(s) \ {r.entry} \subseteq InVector(n.keys_and_buckets)
    BY <2>1, <2>5, <2>7, <2>8, TypeBasedRemovalOK
  <2>10. ListOK(c, n)
    BY <1>3, <2>9, KindCases DEF ListOK
  <2>11. EntriesOf(c, n) = InVector(n.keys_and_buckets)
    BY <1>3, <2>10, EntriesByKind
  <2> QED
    BY <2>1, <2>9, <2>10, <2>11 DEF n
<1>4. CASE c.kind = "epsilon_greedy"
  <2>1. r.entry \in l.heap /\ n.heap = l.heap \ {r.entry} /\ n.size = l.size - 1
    BY <1>4, KindCases DEF Removals, HeapRemovals
  <2>2. IsFiniteSet(l.heap) /\ l.size = Cardinality(l.heap) /\ EntriesOf(c, l) = l.heap
    BY <1>4, EntriesByKind DEF ListOK
  <2> HIDE DEF n
  <2>3. IsFiniteSet(n.heap) /\ n.size = Cardinality(n.heap)
    <3>1. /\ IsFiniteSet(l.heap \ {r.entry})
          /\ Cardinality(l.heap \ {r.entry}) = Cardinality(l.heap) - 1
      BY <2>1, <2>2, FS_RemoveElement
    <3> QED
      BY <2>1, <2>2, <3>1
  <2>4. ListOK(c, n)
    BY <1>4, <2>3, KindCases DEF ListOK
  <2>5. EntriesOf(c, n) = n.heap
    BY <1>4, <2>4, EntriesByKind
  <2> QED
    BY <2>1, <2>2, <2>4, <2>5 DEF n
<1> QED
  BY <1>1, <1>2, <1>3, <1>4, KindCases

(* The alternation list.                                                   *)

OpenListsTypes ==
  /\ sublists \in Seq(Sublist)
  /\ inserted \in Nat
  /\ DOMAIN lists = DOMAIN sublists
  /\ priorities \in [DOMAIN sublists -> Int]

ListsOK ==
  \A i \in DOMAIN sublists :
    /\ ListOK(sublists[i], lists[i])
    /\ \A e \in EntriesOf(sublists[i], lists[i]) : e.id \in 1..inserted

\* An entry that waits is in some sublist.
WaitingInLists ==
  Paired => \A e \in waiting : \E i \in DOMAIN sublists : e \in EntriesOf(sublists[i], lists[i])

OpenListsInv == OpenListsTypes /\ ListsOK /\ WaitingInLists

LEMMA BestIsNonempty ==
  ASSUME OpenListsTypes, Nonempty # {}
  PROVE  Best \in Nonempty
<1> DEFINE before(i, j) == priorities[i] < priorities[j] \/ (priorities[i] = priorities[j] /\ i < j)
           R == {p \in Nonempty \X Nonempty : before(p[1], p[2])}
<1>1. DOMAIN sublists = 1..Len(sublists) /\ Len(sublists) \in Nat
  BY LenProperties DEF OpenListsTypes
<1>2. IsFiniteSet(Nonempty)
  <2>1. IsFiniteSet(1..Len(sublists))
    BY <1>1, FS_Interval
  <2>2. Nonempty \subseteq 1..Len(sublists)
    BY <1>1 DEF Nonempty
  <2> QED
    BY <2>1, <2>2, FS_Subset
<1>3. \A i \in Nonempty : i \in Int /\ priorities[i] \in Int
  BY <1>1 DEF Nonempty, OpenListsTypes
<1>4. \A i, j \in Nonempty : <<i, j>> \in R <=> before(i, j)
  OBVIOUS
<1>5. \A i \in Nonempty : ~before(i, i)
  BY <1>3
<1>6. \A i, j, k \in Nonempty : before(i, j) /\ before(j, k) => before(i, k)
  BY <1>3
<1>7. \A i, j \in Nonempty : i # j => before(i, j) \/ before(j, i)
  BY <1>3
<1>8. PICK i \in Nonempty : \A j \in Nonempty : <<j, i>> \notin R
  <2>1. \A x \in Nonempty : <<x, x>> \notin R
    BY <1>4, <1>5
  <2>2. \A x, y, z \in Nonempty : <<x, y>> \in R /\ <<y, z>> \in R => <<x, z>> \in R
    BY <1>4, <1>6
  <2> HIDE DEF R
  <2> QED
    BY <1>2, <2>1, <2>2, MinimalElement
<1>9. \A j \in Nonempty \ {i} : before(i, j)
  BY <1>4, <1>7, <1>8
<1> QED
  BY <1>9 DEF Best

\* An entry that the alternation list does not refuse is accepted by a sublist.
LEMMA SomeListAccepts ==
  ASSUME OpenListsTypes, Paired, NEW e \in Entry, ~AlternationIsDeadEnd(e)
  PROVE  \E j \in DOMAIN sublists : Accepts(sublists[j], e)
<1>1. PICK i \in DOMAIN sublists : ~IsDeadEnd(sublists[i], e)
  BY DEF AlternationIsDeadEnd
<1>2. PICK j \in DOMAIN sublists :
        ~sublists[j].only_preferred /\ sublists[j].evaluators = sublists[i].evaluators
  BY <1>1 DEF Paired
<1>3. ~sublists[j].allow_unsafe_pruning
  BY DEF Paired
<1>4. ~IsDeadEnd(sublists[j], e)
  BY <1>1, <1>2, <1>3 DEF IsDeadEnd, IsReliableDeadEnd
<1> QED
  BY <1>2, <1>4 DEF Accepts

LEMMA OpenListsInitInv ==
  ASSUME OpenListsInit
  PROVE  OpenListsInv
<1>1. OpenListsTypes
  BY OpenListsAssumption DEF OpenListsInit, OpenListsTypes
<1>2. \A i \in DOMAIN sublists : sublists[i] \in Sublist
  BY <1>1, ElementOfSeq, LenProperties DEF OpenListsTypes
<1>3. \A i \in DOMAIN sublists : lists[i] = EmptyList(sublists[i])
  BY DEF OpenListsInit
<1>4. ListsOK
  BY <1>2, <1>3, EmptyListOK DEF ListsOK
<1>5. WaitingInLists
  BY DEF WaitingInLists, OpenListsInit
<1> QED
  BY <1>1, <1>4, <1>5 DEF OpenListsInv

LEMMA SublistType ==
  ASSUME OpenListsTypes
  PROVE  /\ \A i \in DOMAIN sublists : sublists[i] \in Sublist
         /\ DOMAIN lists = DOMAIN sublists
BY ElementOfSeq, LenProperties DEF OpenListsTypes

LEMMA InsertInv ==
  ASSUME OpenListsInv, NEW context \in Insertions, Insert(context)
  PROVE  OpenListsInv'
<1> PICK e : e = [id |-> inserted + 1, value |-> context.value, preferred |-> context.preferred]
  OBVIOUS
<1>1. OpenListsTypes /\ ListsOK /\ WaitingInLists
  BY DEF OpenListsInv
<1>2. e \in Entry /\ e.id = inserted + 1
  BY <1>1, OpenListsAssumption DEF Context, Entry, OpenListsTypes
<1>3. inserted' = inserted + 1 /\ sublists' = sublists /\ priorities' = priorities
  BY DEF Insert
<1>4. inserted \in Nat /\ \A i \in DOMAIN sublists : sublists[i] \in Sublist
  BY <1>1, SublistType DEF OpenListsTypes
<1>5. Paired' <=> Paired
  BY <1>3 DEF Paired
<1>6. CASE AlternationIsDeadEnd(e)
  <2>1. lists' = lists /\ waiting' = waiting
    BY <1>6 DEF Insert
  <2>2. OpenListsTypes'
    BY <1>1, <1>3, <2>1 DEF OpenListsTypes
  <2>3. ASSUME NEW i \in DOMAIN sublists
        PROVE  /\ ListOK(sublists[i], lists[i])
               /\ \A f \in EntriesOf(sublists[i], lists[i]) : f.id \in 1..inserted + 1
    <3>1. \A f \in EntriesOf(sublists[i], lists[i]) : f.id \in 1..inserted
      BY <1>1 DEF ListsOK
    <3>2. ListOK(sublists[i], lists[i])
      BY <1>1 DEF ListsOK
    <3>3. \A f : f.id \in 1..inserted => f.id \in 1..inserted + 1
      BY <1>4
    <3> QED
      BY <3>1, <3>2, <3>3
  <2>4. ListsOK'
    BY <1>3, <2>1, <2>3 DEF ListsOK
  <2>5. WaitingInLists'
    BY <1>1, <1>3, <1>5, <2>1 DEF WaitingInLists
  <2> QED
    BY <2>2, <2>4, <2>5 DEF OpenListsInv
<1>7. CASE ~AlternationIsDeadEnd(e)
  <2>1. /\ lists' = [i \in DOMAIN sublists |->
                       IF Accepts(sublists[i], e)
                       THEN DoInsertion(sublists[i], lists[i], e) ELSE lists[i]]
        /\ waiting' = waiting \union {e}
    BY <1>7 DEF Insert
  <2>2. OpenListsTypes'
    BY <1>1, <1>3, <2>1 DEF OpenListsTypes
  <2>3. ASSUME NEW i \in DOMAIN sublists
        PROVE  /\ ListOK(sublists[i], lists'[i])
               /\ EntriesOf(sublists[i], lists'[i]) =
                    IF Accepts(sublists[i], e) THEN EntriesOf(sublists[i], lists[i]) \union {e}
                    ELSE EntriesOf(sublists[i], lists[i])
               /\ \A f \in EntriesOf(sublists[i], lists'[i]) : f.id \in 1..inserted + 1
    <3>1. /\ ListOK(sublists[i], lists[i])
          /\ \A f \in EntriesOf(sublists[i], lists[i]) : f.id \in 1..inserted
      BY <1>1 DEF ListsOK
    <3>2. e \notin EntriesOf(sublists[i], lists[i])
      BY <1>2, <1>4, <3>1
    <3>3. /\ ListOK(sublists[i], DoInsertion(sublists[i], lists[i], e))
          /\ EntriesOf(sublists[i], DoInsertion(sublists[i], lists[i], e)) =
               EntriesOf(sublists[i], lists[i]) \union {e}
      BY <1>2, <1>4, <3>1, <3>2, InsertionOK
    <3>4. lists'[i] = IF Accepts(sublists[i], e)
                      THEN DoInsertion(sublists[i], lists[i], e) ELSE lists[i]
      BY <2>1
    <3>5. /\ ListOK(sublists[i], lists'[i])
          /\ EntriesOf(sublists[i], lists'[i]) =
               IF Accepts(sublists[i], e) THEN EntriesOf(sublists[i], lists[i]) \union {e}
               ELSE EntriesOf(sublists[i], lists[i])
      BY <3>1, <3>3, <3>4
    <3>6. ASSUME NEW f \in EntriesOf(sublists[i], lists'[i])
          PROVE  f.id \in 1..inserted + 1
      <4>1. f \in EntriesOf(sublists[i], lists[i]) \/ f = e
        BY <3>5
      <4>2. f.id \in 1..inserted => f.id \in 1..inserted + 1
        BY <1>4
      <4> QED
        BY <1>2, <1>4, <3>1, <4>1, <4>2
    <3> QED
      BY <3>5, <3>6
  <2>4. ListsOK'
    BY <1>3, <2>3 DEF ListsOK
  <2>5. ASSUME Paired, NEW f \in waiting \union {e}
        PROVE  \E i \in DOMAIN sublists : f \in EntriesOf(sublists[i], lists'[i])
    <3>1. CASE f \in waiting
      <4>1. PICK i \in DOMAIN sublists : f \in EntriesOf(sublists[i], lists[i])
        BY <1>1, <2>5, <3>1 DEF WaitingInLists
      <4> QED
        BY <2>3, <4>1
    <3>2. CASE f = e
      <4>1. PICK i \in DOMAIN sublists : Accepts(sublists[i], e)
        BY <1>1, <1>2, <1>7, <2>5, SomeListAccepts
      <4> QED
        BY <2>3, <3>2, <4>1
    <3> QED
      BY <2>5, <3>1, <3>2
  <2>6. WaitingInLists'
    BY <1>3, <1>5, <2>1, <2>5 DEF WaitingInLists
  <2> QED
    BY <2>2, <2>4, <2>6 DEF OpenListsInv
<1> QED
  BY <1>6, <1>7

LEMMA RemoveMinInv ==
  ASSUME OpenListsInv, RemoveMin
  PROVE  OpenListsInv'
<1>1. OpenListsTypes /\ ListsOK /\ WaitingInLists
  BY DEF OpenListsInv
<1>2. PICK best : best = Best
  OBVIOUS
<1>3. best \in DOMAIN sublists /\ ~IsEmpty(sublists[best], lists[best])
  <2>1. Nonempty # {}
    BY DEF RemoveMin
  <2>2. best \in Nonempty
    BY <1>1, <1>2, <2>1, BestIsNonempty
  <2> QED
    BY <2>2 DEF Nonempty
<1>4. /\ priorities' = [priorities EXCEPT ![best] = @ + 1]
      /\ sublists' = sublists /\ inserted' = inserted
  BY <1>2 DEF RemoveMin
<1>5. PICK r \in Removals(sublists[best], lists[best]) :
        /\ lists' = [lists EXCEPT ![best] = r.list]
        /\ waiting' = waiting \ {r.entry}
  BY <1>2, Zenon DEF RemoveMin
<1>6. /\ DOMAIN lists = DOMAIN sublists
      /\ \A i \in DOMAIN sublists : sublists[i] \in Sublist /\ ListOK(sublists[i], lists[i])
  BY <1>1, SublistType DEF ListsOK
<1>7. /\ ListOK(sublists[best], r.list)
      /\ EntriesOf(sublists[best], r.list) \subseteq EntriesOf(sublists[best], lists[best])
      /\ EntriesOf(sublists[best], lists[best]) \ {r.entry}
           \subseteq EntriesOf(sublists[best], r.list)
  BY <1>3, <1>5, <1>6, RemovalOK
<1>8. \A i \in DOMAIN sublists : lists'[i] = IF i = best THEN r.list ELSE lists[i]
  BY <1>5, <1>6
<1>9. OpenListsTypes'
  <2>1. /\ sublists \in Seq(Sublist) /\ inserted \in Nat
        /\ priorities \in [DOMAIN sublists -> Int]
    BY <1>1 DEF OpenListsTypes
  <2>2. priorities' \in [DOMAIN sublists -> Int]
    BY <1>3, <1>4, <2>1
  <2>3. DOMAIN lists' = DOMAIN sublists
    BY <1>5, <1>6
  <2> QED
    BY <1>4, <2>1, <2>2, <2>3 DEF OpenListsTypes
<1>10. ListsOK'
  <2>1. ASSUME NEW i \in DOMAIN sublists
        PROVE  /\ ListOK(sublists[i], lists'[i])
               /\ \A e \in EntriesOf(sublists[i], lists'[i]) : e.id \in 1..inserted
    <3>1. \A e \in EntriesOf(sublists[i], lists[i]) : e.id \in 1..inserted
      BY <1>1 DEF ListsOK
    <3>2. CASE i = best
      BY <1>7, <1>8, <3>1, <3>2
    <3>3. CASE i # best
      BY <1>6, <1>8, <3>1, <3>3
    <3> QED
      BY <3>2, <3>3
  <2> QED
    BY <1>4, <2>1 DEF ListsOK
<1>11. WaitingInLists'
  <2>1. ASSUME Paired, NEW e \in waiting \ {r.entry}
        PROVE  \E i \in DOMAIN sublists : e \in EntriesOf(sublists[i], lists'[i])
    <3>1. PICK i \in DOMAIN sublists : e \in EntriesOf(sublists[i], lists[i])
      BY <1>1, <2>1 DEF WaitingInLists
    <3>2. e \in EntriesOf(sublists[i], lists'[i])
      <4>1. CASE i = best
        BY <1>7, <1>8, <3>1, <4>1
      <4>2. CASE i # best
        BY <1>8, <3>1, <4>2
      <4> QED
        BY <4>1, <4>2
    <3> QED
      BY <3>2
  <2>2. Paired' <=> Paired
    BY <1>4 DEF Paired
  <2> QED
    BY <1>4, <1>5, <2>1, <2>2 DEF WaitingInLists
<1> QED
  BY <1>9, <1>10, <1>11 DEF OpenListsInv

LEMMA BoostPreferredInv ==
  ASSUME OpenListsInv, BoostPreferred
  PROVE  OpenListsInv'
<1>1. OpenListsTypes /\ ListsOK /\ WaitingInLists
  BY DEF OpenListsInv
<1>2. /\ sublists' = sublists /\ lists' = lists /\ inserted' = inserted /\ waiting' = waiting
      /\ priorities' = [i \in DOMAIN sublists |->
           IF sublists[i].only_preferred THEN priorities[i] - BoostAmount ELSE priorities[i]]
  BY DEF BoostPreferred
<1>3. priorities' \in [DOMAIN sublists -> Int]
  BY <1>1, <1>2, OpenListsAssumption DEF OpenListsTypes
<1>4. OpenListsTypes'
  BY <1>1, <1>2, <1>3 DEF OpenListsTypes
<1>5. ListsOK'
  BY <1>1, <1>2 DEF ListsOK
<1>6. WaitingInLists'
  BY <1>1, <1>2 DEF WaitingInLists, Paired
<1> QED
  BY <1>4, <1>5, <1>6 DEF OpenListsInv

LEMMA ClearInv ==
  ASSUME OpenListsInv, Clear
  PROVE  OpenListsInv'
<1>1. OpenListsTypes
  BY DEF OpenListsInv
<1>2. /\ sublists' = sublists /\ inserted' = inserted /\ waiting' = {}
      /\ priorities' = priorities
      /\ lists' = [i \in DOMAIN sublists |-> EmptyList(sublists[i])]
  BY DEF Clear
<1>3. OpenListsTypes'
  BY <1>1, <1>2 DEF OpenListsTypes
<1>4. ListsOK'
  <2>1. ASSUME NEW i \in DOMAIN sublists
        PROVE  /\ ListOK(sublists[i], lists'[i])
               /\ \A e \in EntriesOf(sublists[i], lists'[i]) : e.id \in 1..inserted
    <3>1. sublists[i] \in Sublist
      BY <1>1, SublistType
    <3>2. lists'[i] = EmptyList(sublists[i])
      BY <1>2
    <3> QED
      BY <3>1, <3>2, EmptyListOK
  <2> QED
    BY <1>2, <2>1 DEF ListsOK
<1>5. WaitingInLists'
  BY <1>2 DEF WaitingInLists
<1> QED
  BY <1>3, <1>4, <1>5 DEF OpenListsInv

LEMMA OpenListsStepInv ==
  ASSUME OpenListsInv, [OpenListsStep]_openlistvars
  PROVE  OpenListsInv'
<1>1. ASSUME NEW context \in Insertions, Insert(context) PROVE OpenListsInv'
  BY <1>1, InsertInv
<1>2. CASE RemoveMin
  BY <1>2, RemoveMinInv
<1>3. CASE BoostPreferred
  BY <1>3, BoostPreferredInv
<1>4. CASE Clear
  BY <1>4, ClearInv
<1>5. CASE UNCHANGED openlistvars
  <2>1. /\ sublists' = sublists /\ lists' = lists /\ inserted' = inserted
        /\ waiting' = waiting /\ priorities' = priorities
    BY <1>5 DEF openlistvars
  <2> QED
    BY <2>1 DEF OpenListsInv, OpenListsTypes, ListsOK, WaitingInLists, Paired
<1> QED
  BY <1>1, <1>2, <1>3, <1>4, <1>5 DEF OpenListsStep

\* A vector of buckets and its index have the same size.
LEMMA IndexSize ==
  ASSUME NEW c, NEW s, NEW index, IndexOK(c, s, index)
  PROVE  Cardinality(DOMAIN index) = Len(s)
<1> DEFINE f == [i \in 1..Len(s) |-> s[i].key]
<1>1. Len(s) \in Nat
  BY LenProperties DEF IndexOK
<1>2. DOMAIN index = {s[i].key : i \in 1..Len(s)} /\ \A i \in 1..Len(s) : index[s[i].key] = i
  BY DEF IndexOK
<1>3. f \in Bijection(1..Len(s), DOMAIN index)
  <2>1. f \in [1..Len(s) -> DOMAIN index]
    BY <1>2
  <2>2. \A i, j \in 1..Len(s) : f[i] = f[j] => i = j
    BY <1>2
  <2>3. \A k \in DOMAIN index : \E i \in 1..Len(s) : f[i] = k
    BY <1>2
  <2> QED
    BY <2>1, <2>2, <2>3, Fun_IsBij
<1>4. IsFiniteSet(1..Len(s)) /\ Cardinality(1..Len(s)) = Len(s)
  <2>1. PICK n \in Nat : n = Len(s)
    BY <1>1
  <2>2. IsFiniteSet(1..n) /\ Cardinality(1..n) = IF 1 > n THEN 0 ELSE n-1+1
    BY FS_Interval
  <2>3. Cardinality(1..n) = n
    BY <2>2
  <2> QED
    BY <2>1, <2>2, <2>3
<1>5. ExistsBijection(1..Len(s), DOMAIN index)
  BY <1>3 DEF ExistsBijection
<1> QED
  BY <1>4, <1>5, FS_Bijection

LEMMA InvGivesBuckets ==
  ASSUME OpenListsInv
  PROVE  BucketsConsistent
<1>1. \A i \in DOMAIN sublists : sublists[i] \in Sublist /\ ListOK(sublists[i], lists[i])
  BY SublistType DEF OpenListsInv, ListsOK
<1>2. NondominatedExact
  BY <1>1, KindCases DEF NondominatedExact, ListOK, Nondominated
<1>3. ASSUME NEW i \in DOMAIN sublists, sublists[i].kind = "type_based"
      PROVE  LET l == lists[i]
             IN /\ \A k \in DOMAIN l.key_to_bucket_index :
                     /\ l.key_to_bucket_index[k] \in DOMAIN l.keys_and_buckets
                     /\ l.keys_and_buckets[l.key_to_bucket_index[k]].key = k
                /\ Cardinality(DOMAIN l.key_to_bucket_index) = Len(l.keys_and_buckets)
  <2> DEFINE s == lists[i].keys_and_buckets
             index == lists[i].key_to_bucket_index
  <2>1. IndexOK(sublists[i], s, index)
    BY <1>1, <1>3 DEF ListOK, TypeBasedOK
  <2> HIDE DEF s, index
  <2>2. \A k \in DOMAIN index : index[k] \in 1..Len(s) /\ s[index[k]].key = k
    BY <2>1, IndexLeads
  <2>3. DOMAIN s = 1..Len(s)
    BY <2>1, LenProperties DEF IndexOK
  <2>4. Cardinality(DOMAIN index) = Len(s)
    BY <2>1, IndexSize
  <2> QED
    BY <2>2, <2>3, <2>4 DEF s, index
<1>4. BucketsIndexed
  BY <1>3 DEF BucketsIndexed
<1> QED
  BY <1>2, <1>4 DEF BucketsConsistent

LEMMA InvLosesNoEntry ==
  ASSUME OpenListsInv
  PROVE  NoEntryLost
<1>1. \A i \in DOMAIN sublists : sublists[i] \in Sublist /\ ListOK(sublists[i], lists[i])
  BY SublistType DEF OpenListsInv, ListsOK
<1>2. ASSUME Paired, NEW e \in waiting
      PROVE  \E i \in Nonempty : e \in EntriesOf(sublists[i], lists[i])
  <2>1. PICK i \in DOMAIN sublists : e \in EntriesOf(sublists[i], lists[i])
    BY <1>2 DEF OpenListsInv, WaitingInLists
  <2>2. ~IsEmpty(sublists[i], lists[i])
    BY <1>1, <2>1, NonemptyOK
  <2> QED
    BY <2>1, <2>2 DEF Nonempty
<1> QED
  BY <1>2 DEF NoEntryLost

LEMMA OpenListsInvHolds == OpenListsSpec => []OpenListsInv
<1>1. OpenListsInit => OpenListsInv
  BY OpenListsInitInv
<1>2. OpenListsInv /\ [OpenListsStep]_openlistvars => OpenListsInv'
  BY OpenListsStepInv
<1> QED
  BY <1>1, <1>2, PTL DEF OpenListsSpec

\* However entries come and go, the nondominated keys of a Pareto list are exactly
\* those of its buckets that no other bucket dominates, although the code only
\* compares the keys near an insertion or a removal, and the index of a type-based
\* list leads every key to its own bucket.
THEOREM BucketsConsistentTheorem == OpenListsSpec => []BucketsConsistent
<1>1. OpenListsInv => BucketsConsistent
  BY InvGivesBuckets
<1> QED
  BY <1>1, OpenListsInvHolds, PTL

\* An entry that the alternation list did not refuse stays in a sublist that
\* remove_min may choose until it is returned: the list runs empty only when
\* every such entry was returned.
THEOREM NoEntryLostTheorem == OpenListsSpec => []NoEntryLost
<1>1. OpenListsInv => NoEntryLost
  BY InvLosesNoEntry
<1> QED
  BY <1>1, OpenListsInvHolds, PTL

-----------------------------------------------------------------------------
(***************************************************************************)
(* The landmarks that are counted are still needed, for every task, every  *)
(* sound landmark graph and every order in which the search reports its    *)
(* transitions.                                                            *)
(***************************************************************************)

\* Of a state that is reported: the landmarks it has not reached were not true
\* before it, and those the loop is done with are not true in it either.
UnreachedInv ==
  \A s \in processed : \A id \in Landmarks \ reached_lms[s] :
    /\ NotBefore(id, s)
    /\ marking.state # s \/ id < marking.id => s \notin TrueIn[id]

UnprocessedInv == \A s \in TaskStates \ processed : reached_lms[s] = Landmarks

LandmarkInv == LandmarkTypeOK /\ UnreachedInv /\ UnprocessedInv /\ CountedIsNeeded

-----------------------------------------------------------------------------
(* Avoiding[id] is closed under the edges that keep id false, CanAvoid[id] *)
(* is the least set that AvoidsTo describes.                               *)

LEMMA AvoidingClosed ==
  ASSUME NEW id \in Landmarks, NEW s \in TaskStates, NotBefore(id, s), s \notin TrueIn[id]
  PROVE  s \in Avoiding[id]
<1> SUFFICES ASSUME NEW S \in SUBSET TaskStates, AvoidsFrom(id, S)
             PROVE  s \in S
  BY DEF Avoiding
<1>1. CASE s = StartState
  BY <1>1 DEF AvoidsFrom
<1>2. CASE \E e \in Edges : e[2] = s /\ e[1] \in Avoiding[id]
  <2>1. PICK e \in Edges : e[2] = s /\ e[1] \in Avoiding[id]
    BY <1>2
  <2>2. e[1] \in S
    BY <2>1 DEF Avoiding
  <2> QED
    BY <2>1, <2>2 DEF AvoidsFrom
<1> QED
  BY <1>1, <1>2 DEF NotBefore

LEMMA CanAvoidLeast ==
  ASSUME NEW id \in Landmarks, NEW S \in SUBSET TaskStates, AvoidsTo(id, S)
  PROVE  CanAvoid[id] \subseteq S
BY DEF CanAvoid

LEMMA EndCanAvoid == \A id \in Landmarks : EndStates \subseteq CanAvoid[id]
BY LandmarkTask DEF CanAvoid, AvoidsTo

\* A goal landmark that is false is needed.
LEMMA GoalLandmarkNeeded ==
  ASSUME NEW id \in TrueInGoal, NEW s \in TaskStates, s \notin TrueIn[id]
  PROVE  s \notin CanAvoid[id]
<1>1. id \in Landmarks /\ EndStates \subseteq TrueIn[id] /\ EndStates \subseteq TaskStates
  BY LandmarkTask, LandmarkGraphSound
<1>2. AvoidsTo(id, EndStates)
  BY <1>1 DEF AvoidsTo
<1> QED
  BY <1>1, <1>2, CanAvoidLeast

\* So is one that is false and must hold just before another is first reached.
LEMMA ParentNeeded ==
  ASSUME NEW o \in GreedyNecessary, NEW s \in TaskStates,
         s \in Avoiding[o[2]], s \notin TrueIn[o[1]]
  PROVE  s \notin CanAvoid[o[1]]
<1> DEFINE S == TaskStates \ (Avoiding[o[2]] \ TrueIn[o[1]])
<1>1. o[1] \in Landmarks /\ o[2] \in Landmarks
  BY LandmarkTask
<1>2. EndStates \subseteq S
  BY <1>1, LandmarkTask, LandmarkGraphSound, EndCanAvoid
<1>3. ASSUME NEW e \in Edges, e[2] \in S \ TrueIn[o[1]]
      PROVE  e[1] \in S
  <2>1. e[1] \in TaskStates /\ e[2] \in TaskStates /\ e[2] \notin Avoiding[o[2]]
    BY <1>3, LandmarkTask
  <2>2. CASE e[1] \notin Avoiding[o[2]]
    BY <2>1, <2>2
  <2>3. CASE e[1] \in Avoiding[o[2]]
    <3>1. NotBefore(o[2], e[2])
      BY <2>3 DEF NotBefore
    <3>2. e[2] \in TrueIn[o[2]]
      BY <1>1, <2>1, <3>1, AvoidingClosed
    <3>3. e[1] \in TrueIn[o[1]]
      BY <2>3, <3>2, LandmarkGraphSound
    <3> QED
      BY <2>1, <3>3
  <2> QED
    BY <2>2, <2>3
<1>4. AvoidsTo(o[1], S)
  BY <1>2, <1>3 DEF AvoidsTo
<1> QED
  BY <1>1, <1>4, CanAvoidLeast

\* What a state that is not being marked tells.
LEMMA UnreachedAvoiding ==
  ASSUME LandmarkInv, NEW s \in processed, marking.state # s,
         NEW id \in Landmarks \ reached_lms[s]
  PROVE  s \in Avoiding[id]
<1>1. s \in TaskStates
  BY DEF LandmarkInv, LandmarkTypeOK
<1>2. NotBefore(id, s) /\ s \notin TrueIn[id]
  BY DEF LandmarkInv, UnreachedInv
<1> QED
  BY <1>1, <1>2, AvoidingClosed

\* What is counted by a state whose unreached landmarks are avoided on some path.
LEMMA StatusNeeded ==
  ASSUME NEW s \in TaskStates, NEW reached,
         \A i \in Landmarks \ reached : s \in Avoiding[i],
         NEW id \in Landmarks, StatusOf(s, reached)[id] # "lm_reached"
  PROVE  s \notin CanAvoid[id]
<1>1. CASE id \notin reached
  BY <1>1, LandmarkGraphSound
<1>2. CASE id \in reached /\ NeededAgain(id, s, reached)
  <2>1. s \notin TrueIn[id]
    BY <1>2 DEF NeededAgain
  <2>2. CASE id \in TrueInGoal
    BY <2>1, <2>2, GoalLandmarkNeeded
  <2>3. ASSUME NEW o \in GreedyNecessary, o[1] = id, o[2] \notin reached
        PROVE  s \notin CanAvoid[id]
    <3>1. s \in Avoiding[o[2]]
      BY <2>3, LandmarkTask
    <3> QED
      BY <2>1, <2>3, <3>1, ParentNeeded
  <2> QED
    BY <1>2, <2>2, <2>3 DEF NeededAgain
<1> QED
  BY <1>1, <1>2 DEF StatusOf

LEMMA StatusType ==
  ASSUME NEW s, NEW reached
  PROVE  StatusOf(s, reached) \in
           [Landmarks -> {"lm_reached", "lm_not_reached", "lm_needed_again"}]
BY DEF StatusOf

-----------------------------------------------------------------------------

LEMMA LandmarkInitially == LandmarkInit => LandmarkInv
BY DEF LandmarkInit, LandmarkInv, LandmarkTypeOK, UnreachedInv, UnprocessedInv,
       CountedIsNeeded

LEMMA ProcessInitialStateKeeps ==
  ASSUME LandmarkInv, ProcessInitialState
  PROVE  LandmarkInv'
<1> USE DEF LandmarkInv, ProcessInitialState
<1> DEFINE R == InitiallyReached
<1>1. StartState \in TaskStates /\ marking = NotMarking
  BY LandmarkTask DEF LandmarkTypeOK
<1>2. LandmarkTypeOK'
  <2>1. InitiallyReached \in SUBSET Landmarks
    BY DEF InitiallyReached
  <2> QED
    BY <1>1, <2>1, StatusType DEF LandmarkTypeOK
<1>3. reached_lms'[StartState] = R
        /\ \A s \in TaskStates \ {StartState} : reached_lms'[s] = reached_lms[s]
  BY <1>1 DEF LandmarkTypeOK
<1>4. ASSUME NEW id \in Landmarks \ R
      PROVE  NotBefore(id, StartState) /\ StartState \notin TrueIn[id]
  <2>1. \A i \in Landmarks : NotBefore(i, StartState)
    BY DEF NotBefore
  <2>2. ASSUME StartState \in TrueIn[id] PROVE FALSE
    <3>1. Parents(id) # {}
      BY <1>4, <2>2 DEF InitiallyReached
    <3>2. PICK o \in Orders : o[2] = id
      BY <3>1 DEF Parents
    <3>3. ~NotBefore(o[1], StartState) /\ o[1] \in Landmarks
      BY <2>2, <3>2, LandmarkTask, LandmarkGraphSound
    <3> QED
      BY <2>1, <3>3
  <2> QED
    BY <2>1, <2>2
<1> HIDE DEF R
<1>5. UnreachedInv'
  BY <1>3, <1>4 DEF UnreachedInv, NotBefore
<1>6. UnprocessedInv'
  BY <1>3 DEF UnprocessedInv
<1>7. CountedIsNeeded'
  <2>1. ASSUME NEW id \in Landmarks \ InitiallyReached
        PROVE  StartState \in Avoiding[id]
    BY <1>1, <1>4, <2>1, AvoidingClosed DEF R
  <2> QED
    BY <1>1, <2>1, StatusNeeded DEF CountedIsNeeded
<1> QED
  BY <1>2, <1>5, <1>6, <1>7

LEMMA ProcessTransitionKeeps ==
  ASSUME LandmarkInv, NEW parent, NEW state, ProcessTransition(parent, state)
  PROVE  LandmarkInv'
<1> USE DEF LandmarkInv, ProcessTransition
<1>1. /\ parent \in TaskStates /\ state \in TaskStates /\ parent \in processed
      /\ marking = NotMarking /\ marking.state = Nothing /\ marking.state \notin TaskStates
      /\ processed \subseteq TaskStates
  BY LandmarkTask DEF LandmarkTypeOK, NotMarking
<1>2. /\ reached_lms'[state] = reached_lms[state] \intersect reached_lms[parent]
      /\ \A s \in TaskStates \ {state} : reached_lms'[s] = reached_lms[s]
      /\ reached_lms' \in [TaskStates -> SUBSET Landmarks]
  BY <1>1 DEF LandmarkTypeOK
<1>3. NumLandmarks # 0 => 0 \in Landmarks
  BY LandmarkTask DEF Landmarks
<1>4. LandmarkTypeOK'
  BY <1>1, <1>2, <1>3 DEF LandmarkTypeOK
<1>5. ASSUME NEW s \in processed', NEW id \in Landmarks \ reached_lms'[s]
      PROVE  /\ NotBefore(id, s)
             /\ marking'.state # s \/ id < marking'.id => s \notin TrueIn[id]
  <2>1. CASE s # state
    <3>1. s \in processed /\ id \in Landmarks \ reached_lms[s] /\ marking.state # s
      BY <1>1, <1>2, <1>5, <2>1
    <3> QED
      BY <3>1 DEF UnreachedInv
  <2>2. CASE s = state
    <3>1. NumLandmarks # 0
      BY <1>5, LandmarkTask DEF Landmarks
    <3>2. marking'.state = s /\ marking'.id = 0
      BY <2>2, <3>1
    <3>3. ~(id < 0)
      BY DEF Landmarks
    <3>4. CASE id \notin reached_lms[state]
      <4>1. state \in processed
        BY <1>1, <3>4 DEF UnprocessedInv
      <4> QED
        BY <2>2, <3>2, <3>3, <3>4, <4>1 DEF UnreachedInv
    <3>5. CASE id \notin reached_lms[parent]
      <4>1. parent \in Avoiding[id]
        BY <1>1, <3>5, UnreachedAvoiding
      <4>2. NotBefore(id, s)
        <5>1. <<parent, state>>[1] = parent /\ <<parent, state>>[2] = state
          OBVIOUS
        <5> QED
          BY <2>2, <4>1, <5>1 DEF NotBefore
      <4> QED
        BY <3>2, <3>3, <4>2
    <3> QED
      BY <1>2, <1>5, <2>2, <3>4, <3>5
  <2> QED
    BY <2>1, <2>2
<1>6. UnreachedInv'
  BY <1>5 DEF UnreachedInv, NotBefore
<1>7. UnprocessedInv'
  BY <1>2 DEF UnprocessedInv
<1>8. CountedIsNeeded'
  BY DEF CountedIsNeeded
<1> QED
  BY <1>4, <1>6, <1>7, <1>8

LEMMA MarkLandmarkKeeps ==
  ASSUME LandmarkInv, MarkLandmark
  PROVE  LandmarkInv'
<1> USE DEF LandmarkInv, MarkLandmark
<1> DEFINE s == marking.state
           i == marking.id
<1>1. s \in processed /\ s \in TaskStates /\ i \in Landmarks /\ processed' = processed
  BY DEF LandmarkTypeOK
<1>2. \A t \in TaskStates : t # s => reached_lms'[t] = reached_lms[t]
  BY DEF LandmarkTypeOK
<1>3. reached_lms'[s] = IF s \in TrueIn[i] /\ LandmarkIsLeaf(i, reached_lms[s])
                        THEN reached_lms[s] \union {i} ELSE reached_lms[s]
  BY <1>1 DEF LandmarkTypeOK
<1>4. i \notin reached_lms'[s] => s \notin TrueIn[i]
  <2> SUFFICES ASSUME i \notin reached_lms'[s], s \in TrueIn[i]
               PROVE  FALSE
    OBVIOUS
  <2>1. ~LandmarkIsLeaf(i, reached_lms[s])
    BY <1>3
  <2>2. PICK o \in Orders : o[2] = i /\ o[1] \notin reached_lms[s]
    BY <2>1 DEF LandmarkIsLeaf, Parents
  <2>3. o[1] \in Landmarks /\ ~NotBefore(o[1], s)
    BY <2>2, LandmarkTask, LandmarkGraphSound
  <2> QED
    BY <1>1, <2>2, <2>3 DEF UnreachedInv
<1>5. LandmarkTypeOK'
  <2>1. marking' # NotMarking => marking'.state \in processed /\ marking'.id \in Landmarks
    BY <1>1, LandmarkTask DEF Landmarks
  <2>2. reached_lms' \in [TaskStates -> SUBSET Landmarks]
    BY <1>1 DEF LandmarkTypeOK
  <2> QED
    BY <2>1, <2>2 DEF LandmarkTypeOK
<1>6. ASSUME NEW t \in processed, NEW id \in Landmarks \ reached_lms'[t]
      PROVE  /\ NotBefore(id, t)
             /\ marking'.state # t \/ id < marking'.id => t \notin TrueIn[id]
  <2>1. t \in TaskStates
    BY DEF LandmarkTypeOK
  <2>2. CASE t # s
    BY <1>2, <1>6, <2>1, <2>2 DEF UnreachedInv
  <2>3. CASE t = s
    <3>1. id \notin reached_lms[s]
      BY <1>3, <1>6, <2>3
    <3>2. NotBefore(id, t) /\ (id < i => t \notin TrueIn[id])
      BY <1>1, <2>3, <3>1 DEF UnreachedInv
    <3>3. id = i => t \notin TrueIn[id]
      BY <1>4, <1>6, <2>3
    <3>4. marking'.state # t \/ id < marking'.id => id < i \/ id = i
      <4>1. CASE i + 1 = NumLandmarks
        BY <1>1, <4>1, LandmarkTask DEF Landmarks
      <4>2. CASE i + 1 # NumLandmarks
        <5>1. marking'.state = s /\ marking'.id = i + 1
          BY <4>2
        <5> QED
          BY <1>1, <2>3, <5>1 DEF Landmarks
      <4> QED
        BY <4>1, <4>2
    <3> QED
      BY <3>2, <3>3, <3>4
  <2> QED
    BY <2>2, <2>3
<1>7. UnreachedInv'
  BY <1>1, <1>6 DEF UnreachedInv, NotBefore
<1>8. UnprocessedInv'
  BY <1>1, <1>2 DEF UnprocessedInv
<1>9. CountedIsNeeded'
  BY DEF CountedIsNeeded
<1> QED
  BY <1>5, <1>7, <1>8, <1>9

LEMMA UpdateStatusKeeps ==
  ASSUME LandmarkInv, NEW s \in TaskStates, UpdateStatus(s)
  PROVE  LandmarkInv'
<1> USE DEF LandmarkInv, UpdateStatus
<1>1. LandmarkTypeOK'
  BY StatusType DEF LandmarkTypeOK
<1>2. UnreachedInv' /\ UnprocessedInv'
  BY DEF UnreachedInv, UnprocessedInv, NotBefore
<1>3. marking.state # s /\ s \in processed
  BY LandmarkTask DEF NotMarking
<1>4. \A id \in Landmarks \ reached_lms[s] : s \in Avoiding[id]
  BY <1>3, UnreachedAvoiding
<1>5. CountedIsNeeded'
  BY <1>4, StatusNeeded DEF CountedIsNeeded
<1> QED
  BY <1>1, <1>2, <1>5

-----------------------------------------------------------------------------

\* The types, and what is known of the landmarks that are not reached.
THEOREM LandmarkInvariant == LandmarkSpec => []LandmarkInv
<1>1. LandmarkInv /\ [LandmarkStep]_lmvars => LandmarkInv'
  <2> SUFFICES ASSUME LandmarkInv, [LandmarkStep]_lmvars PROVE LandmarkInv'
    OBVIOUS
  <2>1. CASE UNCHANGED lmvars
    BY <2>1 DEF lmvars, LandmarkInv, LandmarkTypeOK, UnreachedInv, UnprocessedInv,
                CountedIsNeeded, NotBefore
  <2>2. CASE LandmarkStep
    BY <2>2, ProcessInitialStateKeeps, ProcessTransitionKeeps, MarkLandmarkKeeps,
       UpdateStatusKeeps DEF LandmarkStep
  <2> QED
    BY <2>1, <2>2
<1> QED
  BY <1>1, LandmarkInitially, PTL DEF LandmarkSpec

\* Intersecting what the paths to a state have reached loses no path.
THEOREM UnreachedIsAvoidedTheorem == LandmarkSpec => []UnreachedIsAvoided
<1>1. LandmarkInv => UnreachedIsAvoided
  <2> SUFFICES ASSUME LandmarkInv, marking = NotMarking, NEW s \in processed,
                      NEW id \in Landmarks \ reached_lms[s]
               PROVE  s \in Avoiding[id]
    BY DEF UnreachedIsAvoided
  <2>1. marking.state # s
    BY LandmarkTask DEF LandmarkInv, LandmarkTypeOK, NotMarking
  <2> QED
    BY <2>1, UnreachedAvoiding
<1> QED
  BY <1>1, LandmarkInvariant, PTL

\* Every landmark that is counted for a state lies ahead on every path to the goal.
THEOREM CountedIsNeededTheorem == LandmarkSpec => []CountedIsNeeded
<1>1. LandmarkInv => CountedIsNeeded
  BY DEF LandmarkInv
<1> QED
  BY <1>1, LandmarkInvariant, PTL

=============================================================================
