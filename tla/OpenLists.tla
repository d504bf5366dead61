----------------------------- MODULE OpenLists -----------------------------
(***************************************************************************)
(* The alternation open list over tie-breaking, Pareto, type-based and     *)
(* epsilon-greedy sublists.  An entry carries the values of the evaluators *)
(* and whether a preferred operator led to it, which is what its           *)
(* evaluation context answers.  A random choice of the code is a choice    *)
(* among all the outcomes it has.                                          *)
(***************************************************************************)
EXTENDS Integers, Sequences, SequencesExt, FiniteSets

CONSTANTS
  Evaluators,
  Insertions,            \* what evaluation contexts answer about entries
  Infinity,              \* EvaluationResult::INFTY
  Reliable,              \* the evaluators whose dead ends are reliable
  AlternationLists,      \* the options of alternation lists: sequences of Sublist
  BoostAmount,           \* the option boost
  MaxEntries,            \* bound on the entries that are inserted
  MaxBoosts              \* bound on the calls of boost_preferred

Context == [value : [Evaluators -> 0..Infinity], preferred : BOOLEAN]
Sublist == [kind : {"tiebreaking", "pareto", "type_based", "epsilon_greedy"},
            evaluators : Seq(Evaluators), only_preferred : BOOLEAN,
            allow_unsafe_pruning : BOOLEAN]

ASSUME OpenListsAssumption ==
  /\ Infinity \in Nat
  /\ Insertions \subseteq Context
  /\ Reliable \subseteq Evaluators
  /\ AlternationLists \subseteq Seq(Sublist)
  /\ {BoostAmount, MaxEntries, MaxBoosts} \subseteq Nat

VARIABLES
  sublists,              \* the options of the alternation list at hand
  lists,                 \* open_lists: the contents of every sublist
  priorities,
  inserted,              \* how many entries were inserted so far
  boosts,                \* how often preferred sublists were boosted so far
  waiting                \* the entries that were neither returned nor refused

openlistvars == <<sublists, lists, priorities, inserted, boosts, waiting>>

-----------------------------------------------------------------------------
(* Dead ends.                                                              *)

IsInfinite(e, evaluator) == e.value[evaluator] = Infinity

IsReliableDeadEnd(c, e) == \E v \in Range(c.evaluators) \intersect Reliable : IsInfinite(e, v)

IsDeadEnd(c, e) ==
  \/ IsReliableDeadEnd(c, e)
  \/ c.allow_unsafe_pruning /\ IsInfinite(e, c.evaluators[1])
  \/ \A v \in Range(c.evaluators) : IsInfinite(e, v)

AlternationIsDeadEnd(e) ==
  \/ \E i \in DOMAIN sublists : IsReliableDeadEnd(sublists[i], e)
  \/ \A i \in DOMAIN sublists : IsDeadEnd(sublists[i], e)

\* OpenList::insert hands the entry on to do_insertion.
Accepts(c, e) == (c.only_preferred => e.preferred) /\ ~IsDeadEnd(c, e)

Key(c, e) == [i \in DOMAIN c.evaluators |-> e.value[c.evaluators[i]]]

-----------------------------------------------------------------------------
(* Buckets: from the keys in use to the queues of their entries.           *)

NoBuckets == [k \in {} |-> << >>]

Bucket(buckets, k) == IF k \in DOMAIN buckets THEN buckets[k] ELSE << >>

PutInBucket(buckets, k, e) ==
  [x \in DOMAIN buckets \union {k} |->
     IF x = k THEN Append(Bucket(buckets, k), e) ELSE buckets[x]]

Without(f, k) == [x \in DOMAIN f \ {k} |-> f[x]]

\* Remove the oldest entry of k, and the bucket with its last entry.
TakeFromBucket(buckets, k) ==
  IF Len(buckets[k]) = 1 THEN Without(buckets, k)
  ELSE [buckets EXCEPT ![k] = Tail(@)]

(* Tie-breaking: the buckets in lexicographic order. *)

Precedes(k1, k2) == \E i \in DOMAIN k1 : k1[i] < k2[i] /\ \A j \in 1..i-1 : k1[j] = k2[j]

LeastKey(keys) == CHOOSE k \in keys : \A other \in keys \ {k} : Precedes(k, other)

TieBreakingInsertion(l, k, e) ==
  [buckets |-> PutInBucket(l.buckets, k, e), size |-> l.size + 1]

TieBreakingRemovals(l) ==
  LET k == LeastKey(DOMAIN l.buckets)
  IN {[entry |-> Head(l.buckets[k]),
       list |-> [buckets |-> TakeFromBucket(l.buckets, k), size |-> l.size - 1]]}

(* Pareto: any bucket whose key no other key dominates. *)

Dominates(k1, k2) == k1 # k2 /\ \A i \in DOMAIN k1 : k1[i] <= k2[i]

IsNondominated(k, candidates) == \A c \in candidates : ~Dominates(c, k)

ParetoInsertion(l, k, e) ==
  LET new == Bucket(l.buckets, k) = << >> /\ IsNondominated(k, l.nondominated)
  IN [buckets |-> PutInBucket(l.buckets, k, e),
      nondominated |-> IF new THEN {x \in l.nondominated : ~Dominates(k, x)} \union {k}
                       ELSE l.nondominated]

\* Fault: the candidates are not compared with one another.
RemoveKeyAllCandidates(k, buckets, nondominated) ==
  nondominated \union {c \in DOMAIN buckets : Dominates(k, c) /\ IsNondominated(c, nondominated)}

\* Fault: only keys that no longer exist are removed.
RemoveKeyNoCandidates(k, buckets, nondominated) == nondominated

\* The nondominated keys after the bucket of k is gone.
RemoveKey(k, buckets, nondominated) ==
  LET candidates == {c \in DOMAIN buckets \ nondominated :
                       Dominates(k, c) /\ IsNondominated(c, nondominated)}
  IN nondominated \union {c \in candidates : IsNondominated(c, candidates)}

ParetoRemovals(l) ==
  {LET buckets == TakeFromBucket(l.buckets, k)
   IN [entry |-> Head(l.buckets[k]),
       list |-> [buckets |-> buckets,
                 nondominated |-> IF k \in DOMAIN buckets THEN l.nondominated
                                  ELSE RemoveKey(k, buckets, l.nondominated \ {k})]]
   : k \in l.nondominated}

(* Type-based: any entry of any bucket. *)

TypeBasedInsertion(l, k, e) ==
  IF k \in DOMAIN l.key_to_bucket_index
  THEN [l EXCEPT !.keys_and_buckets[l.key_to_bucket_index[k]].bucket = Append(@, e)]
  ELSE [keys_and_buckets |-> Append(l.keys_and_buckets, [key |-> k, bucket |-> <<e>>]),
        key_to_bucket_index |->
          [x \in DOMAIN l.key_to_bucket_index \union {k} |->
             IF x = k THEN Len(l.keys_and_buckets) + 1 ELSE l.key_to_bucket_index[x]]]

SwapAndPop(s, i) == Front([s EXCEPT ![i] = Last(s)])

\* Remove the j-th entry of the i-th bucket.
TypeBasedRemoval(l, i, j) ==
  LET bucket == SwapAndPop(l.keys_and_buckets[i].bucket, j)
  IN IF bucket # << >>
     THEN [l EXCEPT !.keys_and_buckets[i].bucket = bucket]
     ELSE [keys_and_buckets |-> SwapAndPop(l.keys_and_buckets, i),
           key_to_bucket_index |->
             Without([l.key_to_bucket_index EXCEPT ![Last(l.keys_and_buckets).key] = i],
                     l.keys_and_buckets[i].key)]

TypeBasedRemovals(l) ==
  UNION {{[entry |-> l.keys_and_buckets[i].bucket[j], list |-> TypeBasedRemoval(l, i, j)]
          : j \in DOMAIN l.keys_and_buckets[i].bucket} : i \in DOMAIN l.keys_and_buckets}

(* Epsilon-greedy: the least entry, or with probability epsilon any other.  *)

HeapInsertion(l, e) == [heap |-> l.heap \union {e}, size |-> l.size + 1]

HeapRemovals(l) == {[entry |-> e, list |-> [heap |-> l.heap \ {e}, size |-> l.size - 1]]
                    : e \in l.heap}

-----------------------------------------------------------------------------
(* The sublists by kind.                                                   *)

EmptyList(c) ==
  CASE c.kind = "tiebreaking" -> [buckets |-> NoBuckets, size |-> 0]
    [] c.kind = "pareto" -> [buckets |-> NoBuckets, nondominated |-> {}]
    [] c.kind = "type_based" -> [keys_and_buckets |-> << >>, key_to_bucket_index |-> NoBuckets]
    [] c.kind = "epsilon_greedy" -> [heap |-> {}, size |-> 0]

DoInsertion(c, l, e) ==
  CASE c.kind = "tiebreaking" -> TieBreakingInsertion(l, Key(c, e), e)
    [] c.kind = "pareto" -> ParetoInsertion(l, Key(c, e), e)
    [] c.kind = "type_based" -> TypeBasedInsertion(l, Key(c, e), e)
    [] c.kind = "epsilon_greedy" -> HeapInsertion(l, e)

\* What remove_min may return, and the list it leaves.
Removals(c, l) ==
  CASE c.kind = "tiebreaking" -> TieBreakingRemovals(l)
    [] c.kind = "pareto" -> ParetoRemovals(l)
    [] c.kind = "type_based" -> TypeBasedRemovals(l)
    [] c.kind = "epsilon_greedy" -> HeapRemovals(l)

IsEmpty(c, l) ==
  CASE c.kind = "pareto" -> l.nondominated = {}
    [] c.kind = "type_based" -> l.keys_and_buckets = << >>
    [] OTHER -> l.size = 0

-----------------------------------------------------------------------------
(* The alternation list.                                                   *)

OpenListsInit ==
  /\ sublists \in AlternationLists
  /\ lists = [i \in DOMAIN sublists |-> EmptyList(sublists[i])]
  /\ priorities = [i \in DOMAIN sublists |-> 0]
  /\ inserted = 0 /\ boosts = 0 /\ waiting = {}

Insert(context) ==
  LET e == [id |-> inserted + 1, value |-> context.value, preferred |-> context.preferred]
  IN /\ inserted < MaxEntries
     /\ inserted' = inserted + 1
     /\ IF AlternationIsDeadEnd(e)
        THEN UNCHANGED <<lists, waiting>>
        ELSE /\ lists' = [i \in DOMAIN sublists |->
                            IF Accepts(sublists[i], e)
                            THEN DoInsertion(sublists[i], lists[i], e) ELSE lists[i]]
             /\ waiting' = waiting \union {e}
     /\ UNCHANGED <<sublists, priorities, boosts>>

Nonempty == {i \in DOMAIN sublists : ~IsEmpty(sublists[i], lists[i])}

Best == CHOOSE i \in Nonempty :
          \A j \in Nonempty \ {i} :
            \/ priorities[i] < priorities[j]
            \/ priorities[i] = priorities[j] /\ i < j

RemoveMin ==
  /\ Nonempty # {}
  /\ priorities' = [priorities EXCEPT ![Best] = @ + 1]
  /\ \E r \in Removals(sublists[Best], lists[Best]) :
       /\ lists' = [lists EXCEPT ![Best] = r.list]
       /\ waiting' = waiting \ {r.entry}
  /\ UNCHANGED <<sublists, inserted, boosts>>

BoostPreferred ==
  /\ boosts < MaxBoosts
  /\ boosts' = boosts + 1
  /\ priorities' = [i \in DOMAIN sublists |->
       IF sublists[i].only_preferred THEN priorities[i] - BoostAmount ELSE priorities[i]]
  /\ UNCHANGED <<sublists, lists, inserted, waiting>>

\* clear() leaves the priorities.
Clear ==
  /\ Nonempty # {}
  /\ lists' = [i \in DOMAIN sublists |-> EmptyList(sublists[i])]
  /\ waiting' = {}
  /\ UNCHANGED <<sublists, priorities, inserted, boosts>>

OpenListsStep ==
  \/ \E context \in Insertions : Insert(context)
  \/ RemoveMin
  \/ BoostPreferred
  \/ Clear

OpenListsSpec == OpenListsInit /\ [][OpenListsStep]_openlistvars

-----------------------------------------------------------------------------
(* Properties.                                                             *)

Buckets(c, l) ==
  IF c.kind = "type_based"
  THEN [k \in DOMAIN l.key_to_bucket_index |->
          l.keys_and_buckets[l.key_to_bucket_index[k]].bucket]
  ELSE l.buckets

EntriesOf(c, l) ==
  IF c.kind = "epsilon_greedy" THEN l.heap
  ELSE UNION {Range(Buckets(c, l)[k]) : k \in DOMAIN Buckets(c, l)}

\* The keys that ParetoOpenList keeps as nondominated are those of its buckets
\* that no other bucket dominates, so that every bucket gets its turn.
NondominatedExact ==
  \A i \in DOMAIN sublists : sublists[i].kind = "pareto" =>
    LET keys == DOMAIN lists[i].buckets
    IN lists[i].nondominated = {k \in keys : IsNondominated(k, keys)}

\* The index of TypeBasedOpenList leads from every key to its own bucket, after
\* any number of buckets were swapped to another place.
BucketsIndexed ==
  \A i \in DOMAIN sublists : sublists[i].kind = "type_based" =>
    LET l == lists[i]
    IN /\ \A k \in DOMAIN l.key_to_bucket_index :
            /\ l.key_to_bucket_index[k] \in DOMAIN l.keys_and_buckets
            /\ l.keys_and_buckets[l.key_to_bucket_index[k]].key = k
       /\ Cardinality(DOMAIN l.key_to_bucket_index) = Len(l.keys_and_buckets)

\* However entries come and go, the redundant indexes of the open lists agree with
\* their buckets: a bucket that an index has lost would never be taken from.
BucketsConsistent == NondominatedExact /\ BucketsIndexed

\* Every sublist for preferred entries has a sibling without that restriction
\* and with the same evaluators, and none prunes unsafely: what the aliases of
\* the planner construct.
Paired ==
  \A i \in DOMAIN sublists :
    /\ ~sublists[i].allow_unsafe_pruning
    /\ \E j \in DOMAIN sublists : /\ ~sublists[j].only_preferred
                                  /\ sublists[j].evaluators = sublists[i].evaluators

\* An entry that the alternation list did not refuse as a dead end is in some
\* sublist until remove_min returns it: the list is empty, and the search
\* gives up, only when every such entry was returned.
NoEntryLost ==
  Paired => \A e \in waiting : \E i \in Nonempty : e \in EntriesOf(sublists[i], lists[i])

=============================================================================
