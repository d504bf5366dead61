-------------------------- MODULE CartesianProofs --------------------------
(***************************************************************************)
(* Cartesian abstractions, for every task with finitely many variables and *)
(* values.  Splitting a state and rewiring only its own transitions leaves *)
(* the transitions that the concrete ones induce; a flaw can be split; the *)
(* incremental update leaves exact distances; and the abstractions of the  *)
(* subtasks take no more of an operator's cost than there is, so that the  *)
(* sum of their distances is admissible.                                   *)
(***************************************************************************)
EXTENDS CostSaturation, SequenceTheorems, FiniteSetTheorems, FunctionTheorems,
        NaturalsInduction, TLAPS

-----------------------------------------------------------------------------
(***************************************************************************)
(* The refinement hierarchy.                                               *)
(***************************************************************************)

LEMMA LeastElement ==
  ASSUME NEW T, T \subseteq Nat, T # {}
  PROVE  \E x \in T : \A y \in T : x <= y
<1>1. IsWellFoundedOn(OpToRel(<, Nat), Nat)
  BY NatLessThanWellFounded
<1>2. PICK x \in T : \A y \in T : <<y, x>> \notin OpToRel(<, Nat)
  BY <1>1, WFMin
<1>3. \A y \in T : ~(y < x)
  BY <1>2 DEF OpToRel
<1> QED
  BY <1>3

\* The recursion of NodeOf.
IsBelow(nds, s, f) ==
  f = [n \in DOMAIN nds |->
         IF nds[n].left = Undefined THEN n
         ELSE f[IF s[nds[n].var] = nds[n].value THEN nds[n].right ELSE nds[n].left]]

NodeIn(nds, s) == (CHOOSE f : IsBelow(nds, s, f))[1]

\* Children have a smaller rank than their parent.
Ranked(nds, rank) ==
  /\ rank \in [DOMAIN nds -> Nat]
  /\ \A n \in DOMAIN nds : nds[n].left # Undefined =>
       /\ nds[n].left \in DOMAIN nds /\ nds[n].right \in DOMAIN nds
       /\ rank[nds[n].left] < rank[n] /\ rank[nds[n].right] < rank[n]

\* The nodes form a hierarchy that leads every state to a leaf.
HierarchyOK(nds) ==
  /\ DOMAIN nds = 1..Len(nds) /\ Len(nds) \in Nat \ {0}
  /\ \E rank : Ranked(nds, rank)
  /\ \A s \in CStates : \E f :
       /\ IsBelow(nds, s, f)
       /\ \A n \in DOMAIN nds : f[n] \in DOMAIN nds /\ nds[f[n]].left = Undefined

LEMMA NodeOfIn == \A s : NodeOf(s) = NodeIn(nodes, s)
BY DEF NodeOf, NodeIn, IsBelow

LEMMA BelowUnique ==
  ASSUME NEW nds, NEW rank, Ranked(nds, rank), NEW s, NEW f, NEW h,
         IsBelow(nds, s, f), IsBelow(nds, s, h)
  PROVE  f = h
<1> DEFINE T == {rank[n] : n \in {n \in DOMAIN nds : f[n] # h[n]}}
<1>1. ASSUME T # {} PROVE FALSE
  <2>1. T \subseteq Nat
    BY DEF Ranked
  <2>2. PICK x \in T : \A y \in T : x <= y
    BY <1>1, <2>1, LeastElement
  <2>3. PICK n \in DOMAIN nds : f[n] # h[n] /\ x = rank[n]
    BY <2>2
  <2> DEFINE c == IF s[nds[n].var] = nds[n].value THEN nds[n].right ELSE nds[n].left
  <2>4. f[n] = IF nds[n].left = Undefined THEN n ELSE f[c]
    BY DEF IsBelow
  <2>5. h[n] = IF nds[n].left = Undefined THEN n ELSE h[c]
    BY DEF IsBelow
  <2>6. nds[n].left # Undefined /\ f[c] # h[c]
    BY <2>3, <2>4, <2>5
  <2>7. c \in DOMAIN nds /\ rank[c] < rank[n]
    BY <2>6 DEF Ranked
  <2>8. rank[c] \in T /\ rank[c] \in Nat /\ rank[n] \in Nat
    BY <2>6, <2>7 DEF Ranked
  <2> QED
    BY <2>2, <2>3, <2>7, <2>8
<1>2. \A n \in DOMAIN nds : f[n] = h[n]
  BY <1>1
<1> QED
  BY <1>2 DEF IsBelow

LEMMA NodeInLeaf ==
  ASSUME NEW nds, HierarchyOK(nds), NEW s \in CStates
  PROVE  NodeIn(nds, s) \in DOMAIN nds /\ nds[NodeIn(nds, s)].left = Undefined
<1>1. PICK rank : Ranked(nds, rank)
  BY DEF HierarchyOK
<1>2. PICK f : /\ IsBelow(nds, s, f)
               /\ \A n \in DOMAIN nds : f[n] \in DOMAIN nds /\ nds[f[n]].left = Undefined
  BY DEF HierarchyOK
<1>3. IsBelow(nds, s, CHOOSE h : IsBelow(nds, s, h))
  BY <1>2
<1>4. f = CHOOSE h : IsBelow(nds, s, h)
  BY <1>1, <1>2, <1>3, BelowUnique
<1>5. 1 \in DOMAIN nds
  BY DEF HierarchyOK
<1> QED
  BY <1>2, <1>4, <1>5 DEF NodeIn


\* The nodes new are nds with the leaf node replaced by a chain of m nodes for the
\* values, behind the right leaf at rest.
IsSplit(nds, new, node, var, values, left, right, rest, m) ==
  /\ rest \in Nat /\ m \in Nat /\ m > 0 /\ node \in Nat /\ 0 < node /\ node < rest
  /\ DOMAIN nds = 1..rest - 1 /\ DOMAIN new = 1..rest + m /\ DOMAIN values = 1..m
  /\ \A n \in Nat : 0 < n /\ n < rest /\ n # node => new[n] = nds[n]
  /\ new[rest].left = Undefined /\ new[rest].value = right
  /\ new[rest + m].left = Undefined /\ new[rest + m].value = left
  /\ \A n \in Nat : rest < n /\ n < rest + m =>
       /\ new[n].left = n + 1 /\ new[n].right = rest
       /\ new[n].var = var /\ new[n].value = values[n - rest + 1]
  /\ new[node].left = rest + 1 /\ new[node].right = rest
  /\ new[node].var = var /\ new[node].value = values[1]

LEMMA SplitNodeSplits ==
  ASSUME NEW len \in Nat, DOMAIN nodes = 1..len, len = Len(nodes), NEW node \in 1..len, NEW var,
         NEW m \in Nat, m > 0, NEW values, DOMAIN values = 1..m, m = Len(values), NEW left, NEW right
  PROVE  IsSplit(nodes, SplitNode(node, var, values, left, right), node, var, values,
                 left, right, len + 1, m)
<1> DEFINE rest == len + 1
           new == SplitNode(node, var, values, left, right)
           helper(i) == IF i = 0 THEN node ELSE rest + i
           inner(i) == [var |-> var, value |-> values[i+1], left |-> helper(i+1), right |-> rest]
<1>1. new = [n \in 1..rest + m |->
               IF n = node THEN inner(0)
               ELSE IF n < rest THEN nodes[n]
               ELSE IF n = rest THEN Leaf(right)
               ELSE IF n - rest = m THEN Leaf(left)
               ELSE inner(n - rest)]
  BY DEF SplitNode
<1>2. rest \in Nat /\ node \in Nat /\ 0 < node /\ node < rest /\ rest - 1 = len
  OBVIOUS
<1> HIDE DEF new, rest
<1>3. DOMAIN new = 1..rest + m
  BY <1>1
<1>4. ASSUME NEW n \in Nat, 0 < n, n < rest, n # node PROVE new[n] = nodes[n]
  <2>1. n \in 1..rest + m
    BY <1>2, <1>4
  <2> HIDE DEF inner
  <2> QED
    BY <1>1, <1>4, <2>1
<1>5. new[rest] = Leaf(right)
  <2>1. rest \in 1..rest + m /\ rest # node /\ ~(rest < rest)
    BY <1>2
  <2> HIDE DEF inner
  <2> QED
    BY <1>1, <2>1
<1>6. new[rest + m] = Leaf(left)
  <2>1. PICK k : k = rest + m
    OBVIOUS
  <2>2. k \in 1..k /\ k # node /\ ~(k < rest) /\ k # rest /\ k - rest = m
    BY <1>2, <2>1
  <2> HIDE DEF inner
  <2> QED
    BY <1>1, <2>1, <2>2
<1>7. ASSUME NEW n \in Nat, rest < n, n < rest + m
      PROVE  /\ new[n].left = n + 1 /\ new[n].right = rest
             /\ new[n].var = var /\ new[n].value = values[n - rest + 1]
  <2>1. PICK i \in Nat : i = n - rest
    <3>1. n - rest \in Nat
      BY <1>2, <1>7
    <3> QED
      BY <3>1
  <2>2. n \in 1..rest + m /\ n # node /\ ~(n < rest) /\ n # rest /\ i # m /\ i # 0
    BY <1>2, <1>7, <2>1
  <2>3. new[n] = inner(i)
    <3> HIDE DEF inner
    <3> QED
      BY <1>1, <2>1, <2>2
  <2>4. helper(i + 1) = n + 1
    BY <1>2, <2>1
  <2>5. i + 1 = n - rest + 1
    BY <2>1
  <2> QED
    BY <2>3, <2>4, <2>5
<1>8. /\ new[node].left = rest + 1 /\ new[node].right = rest
      /\ new[node].var = var /\ new[node].value = values[1]
  <2>1. node \in 1..rest + m
    BY <1>2
  <2>2. new[node] = inner(0)
    <3> HIDE DEF inner
    <3> QED
      BY <1>1, <2>1
  <2>3. helper(0 + 1) = rest + 1 /\ 0 + 1 = 1
    BY <1>2
  <2> QED
    BY <2>2, <2>3
<1>9. \A x : Leaf(x).left = Undefined /\ Leaf(x).value = x
  BY DEF Leaf
<1> QED
  BY <1>2, <1>3, <1>4, <1>5, <1>6, <1>7, <1>8, <1>9 DEF IsSplit, new, rest

LEMMA SplitRanked ==
  ASSUME NEW nds, NEW rank, Ranked(nds, rank), NEW new, NEW node, NEW var, NEW values,
         NEW left, NEW right, NEW rest, NEW m,
         IsSplit(nds, new, node, var, values, left, right, rest, m)
  PROVE  \E new_rank : Ranked(new, new_rank)
<1> DEFINE new_rank == [n \in 1..rest + m |->
             IF n < rest THEN rank[n] + m + 1
             ELSE IF n = rest THEN rank[node] ELSE rank[node] + m - (n - rest)]
<1>1. /\ rest \in Nat /\ m \in Nat /\ m > 0 /\ node \in Nat /\ 0 < node /\ node < rest
      /\ DOMAIN nds = 1..rest - 1 /\ DOMAIN new = 1..rest + m
      /\ rank \in [DOMAIN nds -> Nat] /\ rank[node] \in Nat
      /\ \A n \in Nat : 0 < n /\ n < rest => n \in DOMAIN nds
  BY DEF IsSplit, Ranked
<1>2. \A n \in Nat : 0 < n /\ n < rest => rank[n] \in Nat /\ new_rank[n] = rank[n] + m + 1
  BY <1>1
<1>3. new_rank[rest] = rank[node]
  BY <1>1
<1>4. \A n \in Nat : rest < n /\ n <= rest + m =>
        new_rank[n] = rank[node] + m - (n - rest) /\ rank[node] + m - (n - rest) \in Nat
  BY <1>1
<1>5. new_rank \in [DOMAIN new -> Nat]
  <2>1. ASSUME NEW n \in DOMAIN new PROVE new_rank[n] \in Nat
    <3> HIDE DEF new_rank
    <3>1. n \in Nat /\ 0 < n /\ n <= rest + m
      BY <1>1
    <3>2. CASE n < rest
      <4>1. PICK k \in Nat : k = rank[n]
        BY <1>2, <3>1, <3>2
      <4>2. new_rank[n] = k + m + 1
        BY <1>2, <3>1, <3>2, <4>1
      <4> QED
        BY <1>1, <4>2
    <3>3. CASE n = rest
      BY <1>1, <1>3, <3>3
    <3>4. CASE rest < n
      BY <1>4, <3>1, <3>4
    <3> QED
      BY <1>1, <3>1, <3>2, <3>3, <3>4
  <2> QED
    BY <1>1, <2>1
<1> HIDE DEF new_rank
<1>6. ASSUME NEW n \in DOMAIN new, new[n].left # Undefined
      PROVE  /\ new[n].left \in DOMAIN new /\ new[n].right \in DOMAIN new
             /\ new_rank[new[n].left] < new_rank[n] /\ new_rank[new[n].right] < new_rank[n]
  <2>0. n \in Nat /\ 0 < n /\ n <= rest + m
    BY <1>1
  <2>1. CASE n < rest /\ n # node
    <3>1. n \in DOMAIN nds /\ new[n] = nds[n]
      BY <1>1, <2>0, <2>1 DEF IsSplit
    <3>2. PICK l, r \in DOMAIN nds : /\ l = new[n].left /\ r = new[n].right
                                     /\ rank[l] < rank[n] /\ rank[r] < rank[n]
      BY <1>6, <3>1 DEF Ranked
    <3>3. /\ l \in Nat /\ 0 < l /\ l < rest /\ r \in Nat /\ 0 < r /\ r < rest
      BY <1>1, <3>2
    <3>4. /\ new_rank[l] = rank[l] + m + 1 /\ new_rank[r] = rank[r] + m + 1
          /\ new_rank[n] = rank[n] + m + 1
          /\ rank[l] \in Nat /\ rank[r] \in Nat /\ rank[n] \in Nat
      BY <1>2, <2>0, <2>1, <3>3
    <3>5. l \in DOMAIN new /\ r \in DOMAIN new
      BY <1>1, <3>3
    <3>6. new_rank[l] < new_rank[n] /\ new_rank[r] < new_rank[n]
      <4>1. PICK a \in Nat, b \in Nat, c \in Nat : a = rank[l] /\ b = rank[r] /\ c = rank[n]
        BY <3>4
      <4>2. a < c /\ b < c
        BY <3>2, <4>1
      <4>3. a + m + 1 < c + m + 1 /\ b + m + 1 < c + m + 1
        BY <1>1, <4>2
      <4> QED
        BY <3>4, <4>1, <4>3
    <3> QED
      BY <3>2, <3>5, <3>6
  <2>2. CASE n = node
    <3>1. new[n].left = rest + 1 /\ new[n].right = rest
      BY <2>2 DEF IsSplit
    <3>2. new_rank[n] = rank[node] + m + 1 /\ new_rank[rest + 1] = rank[node] + m - 1
      BY <1>1, <1>2, <1>4, <2>2
    <3> QED
      BY <1>1, <1>3, <3>1, <3>2
  <2>3. CASE n = rest \/ n = rest + m
    BY <1>6, <2>3 DEF IsSplit
  <2>4. CASE rest < n /\ n < rest + m
    <3>1. new[n].left = n + 1 /\ new[n].right = rest
      BY <2>0, <2>4 DEF IsSplit
    <3>2. new_rank[n] = rank[node] + m - (n - rest)
          /\ new_rank[n + 1] = rank[node] + m - (n + 1 - rest)
      <4>1. n + 1 \in Nat /\ rest < n + 1 /\ n + 1 <= rest + m /\ n <= rest + m
        BY <1>1, <2>0, <2>4
      <4>2. PICK k \in Nat : k = n + 1
        BY <4>1
      <4>3. new_rank[k] = rank[node] + m - (k - rest)
        BY <1>4, <4>1, <4>2
      <4>4. new_rank[n] = rank[node] + m - (n - rest)
        BY <1>4, <2>0, <2>4, <4>1
      <4> QED
        BY <1>1, <2>0, <4>2, <4>3, <4>4
    <3>3. n + 1 \in DOMAIN new /\ rest \in DOMAIN new
      BY <1>1, <2>0, <2>4
    <3> QED
      BY <1>1, <1>3, <2>0, <2>4, <3>1, <3>2, <3>3
  <2>5. (n < rest /\ n # node) \/ n = node \/ n = rest \/ n = rest + m \/ (rest < n /\ n < rest + m)
    BY <1>1, <2>0
  <2> QED
    BY <2>1, <2>2, <2>3, <2>4, <2>5
<1> QED
  BY <1>5, <1>6 DEF Ranked

\* The value is one of those behind the first k.
Later(value, values, k, m) == \E j \in 1..m : k < j /\ value = values[j]

LEMMA LaterFacts ==
  ASSUME NEW m \in Nat, NEW value, NEW values
  PROVE  /\ ~Later(value, values, m, m)
         /\ \A k \in Nat : k < m =>
              (Later(value, values, k, m) <=> value = values[k+1] \/ Later(value, values, k + 1, m))
<1>1. ~Later(value, values, m, m)
  BY DEF Later
<1>2. ASSUME NEW k \in Nat, k < m
      PROVE  Later(value, values, k, m) <=> value = values[k+1] \/ Later(value, values, k + 1, m)
  <2>1. \A j \in 1..m : k < j <=> j = k + 1 \/ k + 1 < j
    BY <1>2
  <2>2. k + 1 \in 1..m /\ k < k + 1
    BY <1>2
  <2> QED
    BY <2>1, <2>2 DEF Later
<1> QED
  BY <1>1, <1>2

\* Where a state ends that comes to the node that is split.
EndOf(s, var, values, rest, m) ==
  IF Later(s[var], values, 0, m) THEN rest ELSE rest + m

\* Where the nodes of the chain lead.
IsChain(c, m, s, var, values, rest) ==
  /\ c \in [0..m -> {rest, rest + m}] /\ c[m] = rest + m
  /\ \A k \in Nat : k < m => c[k] = IF s[var] = values[k+1] THEN rest ELSE c[k+1]
  /\ c[0] = EndOf(s, var, values, rest, m)

LEMMA ChainEnds ==
  ASSUME NEW m \in Nat, NEW s, NEW var, NEW values, NEW rest
  PROVE  \E c : IsChain(c, m, s, var, values, rest)
<1> DEFINE L(k) == Later(s[var], values, k, m)
           c == [k \in 0..m |-> IF L(k) THEN rest ELSE rest + m]
<1>1. \A k \in 0..m : (L(k) => c[k] = rest) /\ (~L(k) => c[k] = rest + m)
  OBVIOUS
<1>2. c \in [0..m -> {rest, rest + m}]
  OBVIOUS
<1>3. /\ ~L(m)
      /\ \A k \in Nat : k < m => (L(k) <=> s[var] = values[k+1] \/ L(k+1))
  BY LaterFacts
<1>4. /\ L(0) => EndOf(s, var, values, rest, m) = rest
      /\ ~L(0) => EndOf(s, var, values, rest, m) = rest + m
  BY DEF EndOf
<1> HIDE DEF L, c
<1>5. ASSUME NEW k \in Nat, k < m PROVE c[k] = IF s[var] = values[k+1] THEN rest ELSE c[k+1]
  <2>1. k \in 0..m /\ k + 1 \in 0..m
    BY <1>5
  <2>2. L(k) <=> s[var] = values[k+1] \/ L(k+1)
    BY <1>3, <1>5
  <2>3. CASE L(k)
    BY <1>1, <2>1, <2>2, <2>3
  <2>4. CASE ~L(k)
    BY <1>1, <2>1, <2>2, <2>4
  <2> QED
    BY <2>3, <2>4
<1>6. c[m] = rest + m /\ c[0] = EndOf(s, var, values, rest, m)
  <2>1. m \in 0..m /\ 0 \in 0..m
    OBVIOUS
  <2> QED
    BY <1>1, <1>3, <1>4, <2>1
<1>7. IsChain(c, m, s, var, values, rest)
  BY <1>2, <1>5, <1>6 DEF IsChain
<1> QED
  BY <1>7

LEMMA SplitBelow ==
  ASSUME NEW nds, NEW s, NEW f, IsBelow(nds, s, f), NEW rank, Ranked(nds, rank),
         NEW new, NEW node, NEW var, NEW values,
         NEW left, NEW right, NEW rest, NEW m,
         IsSplit(nds, new, node, var, values, left, right, rest, m), nds[node].left = Undefined
  PROVE  \E h : /\ IsBelow(new, s, h)
                /\ \A n \in DOMAIN nds : h[n] =
                     IF f[n] = node THEN EndOf(s, var, values, rest, m) ELSE f[n]
                /\ \A n \in DOMAIN new \ DOMAIN nds : h[n] \in {rest, rest + m}
<1> DEFINE end == EndOf(s, var, values, rest, m)
<1>1. /\ rest \in Nat /\ m \in Nat /\ m > 0 /\ node \in Nat /\ 0 < node /\ node < rest
      /\ DOMAIN nds = 1..rest - 1 /\ DOMAIN new = 1..rest + m
      /\ \A n \in Nat : 0 < n /\ n < rest => n \in DOMAIN nds
  BY DEF IsSplit
<1>a. \E c : IsChain(c, m, s, var, values, rest)
  BY <1>1, ChainEnds
<1>b. PICK c : IsChain(c, m, s, var, values, rest)
  BY <1>a, Zenon
<1>0. /\ c \in [0..m -> {rest, rest + m}] /\ c[m] = rest + m
      /\ \A k \in Nat : k < m => c[k] = IF s[var] = values[k+1] THEN rest ELSE c[k+1]
      /\ c[0] = end
  BY <1>b DEF IsChain
<1> DEFINE h == [n \in 1..rest + m |->
                   IF n < rest THEN IF f[n] = node THEN end ELSE f[n]
                   ELSE IF n = rest THEN rest ELSE c[n - rest]]
           to(g, n) == IF new[n].left = Undefined THEN n
                       ELSE g[IF s[new[n].var] = new[n].value THEN new[n].right ELSE new[n].left]
<1>2. \A n \in Nat : 0 < n /\ n < rest => h[n] = IF f[n] = node THEN end ELSE f[n]
  <2> HIDE DEF end
  <2> QED
    BY <1>1
<1>3. h[rest] = rest
  <2> HIDE DEF end
  <2> QED
    BY <1>1
<1>4. \A n \in Nat : rest < n /\ n <= rest + m => h[n] = c[n - rest]
  <2> HIDE DEF end
  <2> QED
    BY <1>1
<1>5. h = [n \in DOMAIN new |-> h[n]]
  BY <1>1
<1>6. f[node] = node
  <2>1. node \in DOMAIN nds
    BY <1>1
  <2> QED
    BY <2>1 DEF IsBelow
<1> HIDE DEF h
<1>7. ASSUME NEW n \in DOMAIN new PROVE h[n] = to(h, n)
  <2>0. n \in Nat /\ 0 < n /\ n <= rest + m
    BY <1>1
  <2>1. CASE n < rest /\ n # node
    <3>1. n \in DOMAIN nds /\ new[n] = nds[n]
      BY <1>1, <2>0, <2>1 DEF IsSplit
    <3>2. CASE new[n].left = Undefined
      <4>1. f[n] = n
        BY <3>1, <3>2 DEF IsBelow
      <4> QED
        BY <1>2, <2>0, <2>1, <3>2, <4>1
    <3>3. CASE new[n].left # Undefined
      <4>1. PICK d : d = IF s[new[n].var] = new[n].value THEN new[n].right ELSE new[n].left
        OBVIOUS
      <4>2. f[n] = f[d] /\ d \in DOMAIN nds
        BY <3>1, <3>3, <4>1 DEF IsBelow, Ranked
      <4>3. d \in Nat /\ 0 < d /\ d < rest
        BY <1>1, <4>2
      <4>4. h[n] = h[d]
        BY <1>2, <2>0, <2>1, <4>2, <4>3
      <4> QED
        BY <3>3, <4>1, <4>4
    <3> QED
      BY <3>2, <3>3
  <2>2. CASE n = node
    <3>1. /\ new[n].left = rest + 1 /\ new[n].right = rest
          /\ new[n].var = var /\ new[n].value = values[1]
      BY <2>2 DEF IsSplit
    <3>2. h[n] = end
      BY <1>1, <1>2, <1>6, <2>2
    <3>3. h[rest + 1] = c[1]
      <4>1. rest + 1 - rest = 1 /\ rest < rest + 1 /\ rest + 1 <= rest + m /\ rest + 1 \in Nat
        BY <1>1
      <4>2. PICK n1 \in Nat : n1 = rest + 1
        BY <4>1
      <4>3. h[n1] = c[n1 - rest]
        BY <1>4, <4>1, <4>2
      <4>4. n1 - rest = 1
        BY <1>1, <4>2
      <4> QED
        BY <4>2, <4>3, <4>4
    <3>4. rest + 1 # Undefined
      BY <1>1, UndefinedAssumption
    <3>5. end = IF s[var] = values[1] THEN rest ELSE c[1]
      <4>1. 0 \in Nat /\ 0 < m /\ 0 + 1 = 1
        BY <1>1
      <4> QED
        BY <1>0, <4>1
    <3> HIDE DEF end
    <3> QED
      BY <1>3, <3>1, <3>2, <3>3, <3>4, <3>5
  <2>3. CASE n = rest
    BY <1>3, <2>3 DEF IsSplit
  <2>4. CASE n = rest + m
    <3>1. n - rest = m
      BY <1>1, <2>4
    <3>2. new[n].left = Undefined
      BY <2>4 DEF IsSplit
    <3>3. h[n] = c[m]
      BY <1>1, <1>4, <2>4, <3>1
    <3> QED
      BY <1>0, <2>4, <3>2, <3>3
  <2>5. CASE rest < n /\ n < rest + m
    <3>1. /\ new[n].left = n + 1 /\ new[n].right = rest
          /\ new[n].var = var /\ new[n].value = values[n - rest + 1]
      BY <2>0, <2>5 DEF IsSplit
    <3>2. /\ n + 1 \in Nat /\ rest < n + 1 /\ n + 1 <= rest + m /\ n <= rest + m
          /\ n - rest \in Nat /\ n - rest < m /\ n + 1 - rest = n - rest + 1
      BY <1>1, <2>0, <2>5
    <3>3. PICK k \in Nat : k = n - rest
      BY <3>2
    <3>4. h[n] = c[k] /\ h[n + 1] = c[k + 1]
      <4>1. h[n] = c[n - rest]
        BY <1>4, <2>0, <3>2, <2>5
      <4>2. PICK n1 \in Nat : n1 = n + 1
        BY <3>2
      <4>3. h[n1] = c[n1 - rest]
        BY <1>4, <3>2, <4>2
      <4>4. n1 - rest = k + 1
        BY <1>1, <2>0, <3>2, <3>3, <4>2
      <4> QED
        BY <3>3, <4>1, <4>2, <4>3, <4>4
    <3>5. n + 1 # Undefined
      BY <2>0, UndefinedAssumption
    <3>6. c[k] = IF s[var] = values[k+1] THEN rest ELSE c[k+1]
      BY <1>0, <3>2, <3>3
    <3> QED
      BY <1>3, <3>1, <3>3, <3>4, <3>5, <3>6
  <2>6. (n < rest /\ n # node) \/ n = node \/ n = rest \/ n = rest + m \/ (rest < n /\ n < rest + m)
    BY <1>1, <2>0
  <2> QED
    BY <2>1, <2>2, <2>3, <2>4, <2>5, <2>6
<1>8. IsBelow(new, s, h)
  <2>1. h = [n \in DOMAIN new |-> to(h, n)]
    <3> HIDE DEF to
    <3> QED
      BY <1>5, <1>7
  <2> QED
    BY <2>1 DEF IsBelow
<1>9. ASSUME NEW n \in DOMAIN new \ DOMAIN nds PROVE h[n] \in {rest, rest + m}
  <2>1. n \in Nat /\ rest <= n /\ n <= rest + m
    BY <1>1
  <2>2. CASE n = rest
    BY <1>3, <2>2
  <2>3. CASE rest < n
    <3>1. n - rest \in 0..m /\ h[n] = c[n - rest]
      BY <1>1, <1>4, <2>1, <2>3
    <3> QED
      BY <1>0, <3>1
  <2> QED
    BY <1>1, <2>1, <2>2, <2>3
<1>10. \A n \in DOMAIN nds : h[n] = IF f[n] = node THEN end ELSE f[n]
  BY <1>1, <1>2
<1> QED
  BY <1>8, <1>9, <1>10

LEMMA LenIs ==
  ASSUME NEW f, NEW k \in Nat, f = [i \in 1..k |-> f[i]]
  PROVE  Len(f) = k
<1> DEFINE S == {f[i] : i \in 1..k}
<1>1. f \in [1..k -> S]
  OBVIOUS
<1> HIDE DEF S
<1>2. f \in Seq(S)
  BY <1>1, SeqDef
<1>3. DOMAIN f = 1..Len(f) /\ Len(f) \in Nat /\ DOMAIN f = 1..k
  BY <1>1, <1>2
<1> QED
  BY <1>3

\* An enumeration of a finite set names each of its values.
LEMMA EnumerationFacts ==
  ASSUME NEW S, IsFiniteSet(S)
  PROVE  LET e == Enumeration(S)
             m == Cardinality(S)
         IN /\ m \in Nat /\ DOMAIN e = 1..m /\ Len(e) = m
            /\ e \in [1..m -> S]
            /\ \A x \in S : \E j \in 1..m : x = e[j]
            /\ \A i, j \in 1..m : e[i] = e[j] => i = j
<1> DEFINE m == Cardinality(S)
           IsEnum(s) == s \in [1..m -> S] /\ IsInjective(s)
           e == Enumeration(S)
<1>1. m \in Nat /\ ExistsBijection(1..m, S)
  BY FS_CardinalityType
<1>2. PICK f : f \in Bijection(1..m, S)
  BY <1>1 DEF ExistsBijection
<1>3. IsEnum(f)
  BY <1>2 DEF Bijection, Injection, IsInjective
<1>4. e = CHOOSE s \in [1..m -> S] : IsInjective(s)
  BY DEF Enumeration
<1>5. IsEnum(e)
  <2>1. \E s \in [1..m -> S] : IsInjective(s)
    BY <1>3, Zenon
  <2> QED
    BY <1>4, <2>1
<1> HIDE DEF e, m
<1>6. e \in Injection(1..m, S)
  BY <1>5 DEF Injection, IsInjective
<1>7. IsFiniteSet(1..m) /\ Cardinality(1..m) = m
  <2>1. 1 \in Int /\ m \in Int /\ (1 > m => m = 0) /\ m - 1 + 1 = m
    BY <1>1
  <2> QED
    BY <2>1, FS_Interval
<1>8. e \in Surjection(1..m, S)
  BY <1>6, <1>7, FS_Injection DEF m
<1>9. \A x \in S : \E j \in 1..m : x = e[j]
  BY <1>8 DEF Surjection
<1>10. Len(e) = m
  BY <1>1, <1>5, LenIs
<1> QED
  BY <1>1, <1>5, <1>9, <1>10 DEF e, m, IsInjective

\* The split replaces the leaf in the hierarchy, and a state that ended there ends
\* at one of the two new leaves.
LEMMA SplitHierarchy ==
  ASSUME NEW nds, HierarchyOK(nds), NEW new, NEW node, NEW var, NEW values,
         NEW left, NEW right, NEW rest, NEW m,
         IsSplit(nds, new, node, var, values, left, right, rest, m), nds[node].left = Undefined,
         Len(new) = rest + m
  PROVE  /\ HierarchyOK(new)
         /\ \A s \in CStates : NodeIn(new, s) =
              IF NodeIn(nds, s) = node THEN EndOf(s, var, values, rest, m) ELSE NodeIn(nds, s)
<1>1. PICK rank : Ranked(nds, rank)
  BY DEF HierarchyOK
<1>2. PICK new_rank : Ranked(new, new_rank)
  BY <1>1, SplitRanked
<1>3. /\ rest \in Nat /\ m \in Nat /\ m > 0 /\ node \in Nat /\ 0 < node /\ node < rest
      /\ DOMAIN nds = 1..rest - 1 /\ DOMAIN new = 1..rest + m
      /\ \A n \in Nat : 0 < n /\ n < rest /\ n # node => new[n] = nds[n]
      /\ new[rest].left = Undefined /\ new[rest + m].left = Undefined
  BY DEF IsSplit
<1>4. ASSUME NEW s \in CStates
      PROVE  /\ \E h : /\ IsBelow(new, s, h)
                       /\ \A n \in DOMAIN new : h[n] \in DOMAIN new /\ new[h[n]].left = Undefined
             /\ NodeIn(new, s) =
                  IF NodeIn(nds, s) = node THEN EndOf(s, var, values, rest, m) ELSE NodeIn(nds, s)
  <2> DEFINE end == EndOf(s, var, values, rest, m)
  <2>1. PICK f : /\ IsBelow(nds, s, f)
                 /\ \A n \in DOMAIN nds : f[n] \in DOMAIN nds /\ nds[f[n]].left = Undefined
    BY DEF HierarchyOK
  <2>2. PICK h : /\ IsBelow(new, s, h)
                 /\ \A n \in DOMAIN nds : h[n] = IF f[n] = node THEN end ELSE f[n]
                 /\ \A n \in DOMAIN new \ DOMAIN nds : h[n] \in {rest, rest + m}
    <3>1. \E h : /\ IsBelow(new, s, h)
                 /\ \A n \in DOMAIN nds : h[n] = IF f[n] = node THEN end ELSE f[n]
                 /\ \A n \in DOMAIN new \ DOMAIN nds : h[n] \in {rest, rest + m}
      BY <1>1, <2>1, SplitBelow
    <3> QED
      BY <3>1, Zenon
  <2>3. end \in {rest, rest + m}
    BY DEF EndOf
  <2> HIDE DEF end
  <2>4. rest \in DOMAIN new /\ rest + m \in DOMAIN new
    BY <1>3
  <2>5. ASSUME NEW n \in DOMAIN new PROVE h[n] \in DOMAIN new /\ new[h[n]].left = Undefined
    <3>1. CASE n \in DOMAIN nds
      <4>1. CASE f[n] = node
        BY <1>3, <2>2, <2>3, <2>4, <3>1, <4>1
      <4>2. CASE f[n] # node
        <5>1. PICK k \in DOMAIN nds : k = f[n] /\ nds[k].left = Undefined
          BY <2>1, <3>1
        <5>2. k \in Nat /\ 0 < k /\ k < rest
          BY <1>3, <5>1
        <5>3. new[k] = nds[k] /\ k \in DOMAIN new
          BY <1>3, <4>2, <5>1, <5>2
        <5> QED
          BY <2>2, <3>1, <4>2, <5>1, <5>3
      <4> QED
        BY <4>1, <4>2
    <3>2. CASE n \notin DOMAIN nds
      BY <1>3, <2>2, <2>4, <3>2
    <3> QED
      BY <3>1, <3>2
  <2>6. NodeIn(nds, s) = f[1]
    <3>1. IsBelow(nds, s, CHOOSE g : IsBelow(nds, s, g))
      BY <2>1
    <3> QED
      BY <1>1, <2>1, <3>1, BelowUnique DEF NodeIn
  <2>7. NodeIn(new, s) = h[1]
    <3>1. IsBelow(new, s, CHOOSE g : IsBelow(new, s, g))
      BY <2>2
    <3> QED
      BY <1>2, <2>2, <3>1, BelowUnique DEF NodeIn
  <2>8. 1 \in DOMAIN nds
    BY <1>3
  <2> QED
    BY <2>2, <2>5, <2>6, <2>7, <2>8 DEF end
<1>5. DOMAIN new = 1..Len(new) /\ Len(new) \in Nat \ {0}
  BY <1>3
<1> QED
  BY <1>2, <1>4, <1>5 DEF HierarchyOK

-----------------------------------------------------------------------------
(***************************************************************************)
(* Splitting an abstract state.                                            *)
(***************************************************************************)

\* Some state of the set a is led by o into the set b, seen from one variable.
Fits(o, v, a, b) ==
  LET post == PostconditionValue(o, v)
      pre == PreconditionValue(o, v)
  IN IF post = Undefined THEN a \intersect b # {}
     ELSE post \in b /\ (pre = Undefined \/ pre \in a)

LeadsTo(a, o, b) == \A v \in CVars : Fits(o, v, a[v], b[v])

SetOK(set) ==
  /\ DOMAIN set = CVars /\ set = [v \in CVars |-> set[v]]
  /\ \A v \in CVars : set[v] \subseteq CDomain[v] /\ set[v] # {}

\* n abstract states, numbered from 0.
StatesOK(sts, n) ==
  /\ n \in Nat /\ n > 0 /\ DOMAIN sts = 0..n-1
  /\ \A id \in DOMAIN sts : SetOK(sts[id].set)

\* The hierarchy leads every state to the only abstract state that includes it,
\* the initial state to the state 0.
PartitionOK(sts, nds) ==
  /\ \A s \in CStates :
       LET id == nds[NodeIn(nds, s)].value
       IN /\ id \in DOMAIN sts /\ sts[id].node = NodeIn(nds, s)
          /\ \A b \in DOMAIN sts : Includes(sts[b].set, s) <=> b = id
  /\ nds[NodeIn(nds, CInit)].value = InitId

\* The transitions are those that fit.
TransitionsOK(sts, trs, lps) ==
  /\ \A t \in trs : /\ t[1] \in DOMAIN sts /\ t[2] \in COperators /\ t[3] \in DOMAIN sts
                    /\ t = <<t[1], t[2], t[3]>> /\ t[1] # t[3]
  /\ \A l \in lps : l[1] \in DOMAIN sts /\ l[2] \in COperators /\ l = <<l[1], l[2]>>
  /\ \A a, b \in DOMAIN sts : \A o \in COperators :
       a # b => (<<a, o, b>> \in trs <=> LeadsTo(sts[a].set, o, sts[b].set))
  /\ \A a \in DOMAIN sts : \A o \in COperators :
       <<a, o>> \in lps <=> LeadsTo(sts[a].set, o, sts[a].set)

\* What the splits keep.
AbstractionOK ==
  /\ \E n : StatesOK(states, n)
  /\ HierarchyOK(nodes)
  /\ PartitionOK(states, nodes)
  /\ TransitionsOK(states, transitions, loops)
  /\ num_non_loops = Cardinality(transitions)

LEMMA NumStatesIs ==
  ASSUME NEW n, StatesOK(states, n)
  PROVE  NumStates = n
<1>1. n \in Nat /\ n > 0 /\ DOMAIN states = 0..n-1
  BY DEF StatesOK
<1>2. 0 \in Int /\ n - 1 \in Int /\ ~(0 > n - 1) /\ n - 1 - 0 + 1 = n
  BY <1>1
<1>3. Cardinality(0..n-1) = n
  BY <1>2, FS_Interval
<1> QED
  BY <1>1, <1>3 DEF NumStates

LEMMA IncludesIs ==
  \A set : \A s \in CStates : Includes(set, s) <=> \A v \in CVars : s[v] \in set[v]
BY DEF Includes, CStates

\* A set of states that is not empty has a state, with any value of the set.
LEMMA StateIn ==
  ASSUME NEW set, SetOK(set), NEW var \in CVars, NEW x \in set[var]
  PROVE  \E s \in CStates : Includes(set, s) /\ s[var] = x
<1> DEFINE s == [v \in CVars |-> IF v = var THEN x ELSE CHOOSE d \in set[v] : TRUE]
<1>1. \A v \in CVars : s[v] \in set[v] /\ s[v] \in CDomain[v]
  BY DEF SetOK
<1>2. s[var] = x
  OBVIOUS
<1>3. s \in [CVars -> UNION Range(CDomain)]
  <2>1. \A v \in CVars : CDomain[v] \in Range(CDomain)
    BY CartesianTask DEF Range
  <2>2. \A v \in CVars : s[v] \in UNION Range(CDomain)
    BY <1>1, <2>1
  <2>3. s = [v \in CVars |-> s[v]]
    OBVIOUS
  <2> HIDE DEF s
  <2> QED
    BY <2>2, <2>3
<1> HIDE DEF s
<1>4. s \in CStates
  BY <1>1, <1>3 DEF CStates
<1> QED
  BY <1>1, <1>2, <1>4, IncludesIs

LEMMA SetHasState ==
  ASSUME NEW set, SetOK(set)
  PROVE  \E s \in CStates : Includes(set, s)
<1> DEFINE s == [v \in CVars |-> CHOOSE d \in set[v] : TRUE]
<1>1. \A v \in CVars : s[v] \in set[v] /\ s[v] \in CDomain[v]
  BY DEF SetOK
<1>3. s \in [CVars -> UNION Range(CDomain)]
  <2>1. \A v \in CVars : CDomain[v] \in Range(CDomain)
    BY CartesianTask DEF Range
  <2>2. \A v \in CVars : s[v] \in UNION Range(CDomain)
    BY <1>1, <2>1
  <2>3. s = [v \in CVars |-> s[v]]
    OBVIOUS
  <2> HIDE DEF s
  <2> QED
    BY <2>2, <2>3
<1> HIDE DEF s
<1>4. s \in CStates
  BY <1>1, <1>3 DEF CStates
<1> QED
  BY <1>1, <1>4, IncludesIs

\* The node of an abstract state is a leaf that names it.
LEMMA NodeIsLeaf ==
  ASSUME NEW n, StatesOK(states, n), HierarchyOK(nodes), PartitionOK(states, nodes),
         NEW id \in DOMAIN states
  PROVE  /\ states[id].node \in DOMAIN nodes
         /\ nodes[states[id].node].left = Undefined /\ nodes[states[id].node].value = id
<1>1. PICK s \in CStates : Includes(states[id].set, s)
  BY SetHasState DEF StatesOK
<1>2. id = nodes[NodeIn(nodes, s)].value /\ states[id].node = NodeIn(nodes, s)
  BY <1>1 DEF PartitionOK
<1> QED
  BY <1>2, NodeInLeaf

\* What may be split off: some but not all values, and the initial state stays in
\* the state 0.
MaySplit(v, var, wanted) ==
  /\ v \in DOMAIN states /\ var \in CVars
  /\ wanted \subseteq states[v].set[var] /\ wanted # {} /\ wanted # states[v].set[var]
  /\ v = InitId => CInit[var] \notin wanted \/ Cardinality(wanted) = 1

\* The parts of a split: states'[id1] has values1 left, and states'[id2] values2.
IsRefined(v, var, wanted, goal_ids, id1, id2, values1, values2, m) ==
  LET all == states[v].set[var]
      n == NumStates
      rest == Len(nodes) + 1
      e == Enumeration(values2)
      set1 == [states[v].set EXCEPT ![var] = values1]
      set2 == [states[v].set EXCEPT ![var] = values2]
  IN /\ (id1 = v /\ id2 = n) \/ (id1 = n /\ id2 = v)
     /\ (values1 = wanted /\ values2 = all \ wanted) \/ (values2 = wanted /\ values1 = all \ wanted)
     /\ v = InitId => CInit[var] \in IF id1 = v THEN values1 ELSE values2
     /\ Cardinality(wanted) = 1 =>
          values2 = wanted /\ id2 = IF KeepInitial(v, wanted, var) THEN v ELSE n
     /\ m = Cardinality(values2)
     /\ Len(nodes') = rest + m
     /\ IsSplit(nodes, nodes', states[v].node, var, e, id1, id2, rest, m)
     /\ states' = [id \in DOMAIN states \union {n} |->
          IF id = id1 THEN [set |-> set1, node |-> rest + m]
          ELSE IF id = id2 THEN [set |-> set2, node |-> rest]
          ELSE states[id]]
     /\ goals' = (goal_ids \ {v}) \union
          (IF v \in goal_ids
           THEN {w \in {id1, id2} : Includes(IF w = id1 THEN set1 ELSE set2, subgoal)}
           ELSE {})
     /\ Rewire(v, [id |-> id1, values |-> values1], [id |-> id2, values |-> values2], var)
     /\ subgoal' = subgoal

LEMMA DomainFinite ==
  ASSUME NEW v \in CVars, NEW S, S \subseteq CDomain[v]
  PROVE  IsFiniteSet(S) /\ Cardinality(S) \in Nat /\ (S = {} <=> Cardinality(S) = 0)
<1>1. IsFiniteSet(CDomain[v])
  BY CartesianTask
<1>2. IsFiniteSet(S)
  BY <1>1, FS_Subset
<1> QED
  BY <1>2, FS_CardinalityType, FS_EmptySet

LEMMA RefineSplits ==
  ASSUME AbstractionOK, NEW v, NEW var, NEW wanted, NEW goal_ids, MaySplit(v, var, wanted),
         Refine(v, var, wanted, goal_ids)
  PROVE  \E id1, id2, values1, values2, m :
           IsRefined(v, var, wanted, goal_ids, id1, id2, values1, values2, m)
<1> DEFINE all == states[v].set[var]
           rest == all \ wanted
           swapped == Cardinality(wanted) > 1 /\ Cardinality(wanted) > Cardinality(rest)
           values2 == IF swapped THEN rest ELSE wanted
           values1 == IF swapped THEN wanted ELSE rest
           keeps == ~swapped /\ KeepInitial(v, values2, var)
           id1 == IF swapped \/ keeps THEN NumStates ELSE v
           id2 == IF swapped \/ keeps THEN v ELSE NumStates
           set1 == [states[v].set EXCEPT ![var] = values1]
           set2 == [states[v].set EXCEPT ![var] = values2]
           new_nodes == SplitNode(states[v].node, var, Enumeration(values2), id1, id2)
           m == Cardinality(values2)
<1>1. /\ nodes' = new_nodes
      /\ states' = [id \in DOMAIN states \union {NumStates} |->
           IF id = id1 THEN [set |-> set1, node |-> Len(new_nodes)]
           ELSE IF id = id2 THEN [set |-> set2, node |-> Len(nodes) + 1]
           ELSE states[id]]
      /\ goals' = (goal_ids \ {v}) \union
           (IF v \in goal_ids
            THEN {w \in {id1, id2} : Includes(IF w = id1 THEN set1 ELSE set2, subgoal)}
            ELSE {})
      /\ Rewire(v, [id |-> id1, values |-> values1], [id |-> id2, values |-> values2], var)
      /\ subgoal' = subgoal
  BY DEF Refine
<1>2. PICK n : StatesOK(states, n)
  BY DEF AbstractionOK
<1>3. NumStates = n /\ n \in Nat /\ n > 0 /\ DOMAIN states = 0..n-1 /\ v \in Nat /\ v # n
  BY <1>2, NumStatesIs DEF StatesOK, MaySplit
<1>4. /\ var \in CVars /\ all \subseteq CDomain[var]
      /\ wanted \subseteq all /\ wanted # {} /\ wanted # all
  BY <1>2 DEF StatesOK, SetOK, MaySplit
<1>5. /\ Cardinality(wanted) \in Nat /\ Cardinality(wanted) > 0 /\ IsFiniteSet(wanted)
      /\ Cardinality(rest) \in Nat /\ Cardinality(rest) > 0 /\ IsFiniteSet(rest)
  <2>1. wanted \subseteq CDomain[var] /\ rest \subseteq CDomain[var] /\ rest # {}
    BY <1>4
  <2> QED
    BY <1>4, <2>1, DomainFinite
<1>6. v = InitId => CInit[var] \in all
  <2> SUFFICES ASSUME v = InitId PROVE CInit[var] \in all
    OBVIOUS
  <2>1. Includes(states[v].set, CInit)
    BY CartesianTask DEF AbstractionOK, PartitionOK, MaySplit
  <2> QED
    BY <1>4, <2>1, CartesianTask, IncludesIs
<1>7. v = InitId => CInit[var] \notin wanted \/ Cardinality(wanted) = 1
  BY DEF MaySplit
<1> DEFINE nd == states[v].node
           e == Enumeration(values2)
<1>8. /\ IsFiniteSet(values2) /\ m \in Nat /\ m > 0
  BY <1>5
<1>9. /\ DOMAIN e = 1..m /\ Len(e) = m
  BY <1>8, EnumerationFacts
<1>10. /\ Len(nodes) \in Nat /\ DOMAIN nodes = 1..Len(nodes) /\ nd \in DOMAIN nodes
  BY <1>2, NodeIsLeaf DEF AbstractionOK, HierarchyOK, MaySplit
<1>11. IsSplit(nodes, new_nodes, nd, var, e, id1, id2, Len(nodes) + 1, m)
  <2> HIDE DEF m, e, nd, id1, id2, values2
  <2>1. PICK len \in Nat : len = Len(nodes)
    BY <1>10
  <2>2. nd \in 1..len /\ DOMAIN nodes = 1..len
    BY <1>10, <2>1
  <2>3. IsSplit(nodes, SplitNode(nd, var, e, id1, id2), nd, var, e, id1, id2, len + 1, m)
    BY <1>8, <1>9, <2>1, <2>2, SplitNodeSplits
  <2> QED
    BY <2>1, <2>3 DEF nd, e
<1>12. Len(new_nodes) = Len(nodes) + 1 + m
  <2>1. new_nodes = [i \in DOMAIN new_nodes |-> new_nodes[i]]
    BY DEF SplitNode
  <2> HIDE DEF new_nodes, m, e, nd, id1, id2, values2
  <2>2. DOMAIN new_nodes = 1..(Len(nodes) + 1) + m
    BY <1>11 DEF IsSplit
  <2>3. PICK k \in Nat : k = Len(nodes) + 1 + m
    BY <1>8, <1>10
  <2>4. new_nodes = [i \in 1..k |-> new_nodes[i]]
    BY <2>1, <2>2, <2>3
  <2> QED
    BY <2>3, <2>4, LenIs
<1>13. v = InitId => CInit[var] \in IF id1 = v THEN values1 ELSE values2
  BY <1>3, <1>5, <1>6, <1>7 DEF KeepInitial
<1>14. Cardinality(wanted) = 1 =>
          values2 = wanted /\ id2 = IF KeepInitial(v, wanted, var) THEN v ELSE NumStates
  BY <1>5
<1>15. (id1 = v /\ id2 = NumStates) \/ (id1 = NumStates /\ id2 = v)
  OBVIOUS
<1>16. (values1 = wanted /\ values2 = all \ wanted) \/ (values2 = wanted /\ values1 = all \ wanted)
  OBVIOUS
<1>17. IsRefined(v, var, wanted, goal_ids, id1, id2, values1, values2, m)
  <2> HIDE DEF new_nodes, id1, id2, values1, values2, m
  <2>1. nodes' = new_nodes /\ Len(nodes') = Len(nodes) + 1 + m
    BY <1>1, <1>12
  <2>2. IsSplit(nodes, nodes', states[v].node, var, Enumeration(values2), id1, id2, Len(nodes) + 1, m)
    BY <1>11, <2>1
  <2>3. m = Cardinality(values2)
    BY DEF m
  <2>4. states' = [id \in DOMAIN states \union {NumStates} |->
           IF id = id1 THEN [set |-> set1, node |-> Len(nodes) + 1 + m]
           ELSE IF id = id2 THEN [set |-> set2, node |-> Len(nodes) + 1]
           ELSE states[id]]
    BY <1>1, <1>12
  <2> QED
    BY <1>1, <1>13, <1>14, <1>15, <1>16, <2>1, <2>2, <2>3, <2>4 DEF IsRefined
<1> HIDE DEF id1, id2, values1, values2, m
<1> QED
  BY <1>17

\* The two parts of v: the values of var are divided, the sets are otherwise the
\* old one.
IsDivided(v, var, n, id1, id2, values1, values2) ==
  LET all == states[v].set[var]
  IN /\ n \in Nat /\ n > 0 /\ DOMAIN states = 0..n-1 /\ DOMAIN states' = 0..n
     /\ v \in DOMAIN states /\ var \in CVars
     /\ (id1 = v /\ id2 = n) \/ (id1 = n /\ id2 = v)
     /\ values1 \subseteq all /\ values2 \subseteq all /\ values1 \union values2 = all
     /\ values1 \intersect values2 = {} /\ values1 # {} /\ values2 # {}
     /\ \A x \in CVars : /\ states'[id1].set[x] = IF x = var THEN values1 ELSE states[v].set[x]
                         /\ states'[id2].set[x] = IF x = var THEN values2 ELSE states[v].set[x]
     /\ \A id \in DOMAIN states : id # v => states'[id] = states[id]

LEMMA RefinedDivides ==
  ASSUME AbstractionOK, NEW v, NEW var, NEW wanted, NEW goal_ids, MaySplit(v, var, wanted),
         NEW id1, NEW id2, NEW values1, NEW values2, NEW m,
         IsRefined(v, var, wanted, goal_ids, id1, id2, values1, values2, m)
  PROVE  /\ IsDivided(v, var, NumStates, id1, id2, values1, values2)
         /\ StatesOK(states', NumStates + 1)
         /\ states'[id1].node = Len(nodes) + 1 + m /\ states'[id2].node = Len(nodes) + 1
<1>1. PICK n : StatesOK(states, n) /\ n = NumStates
  BY NumStatesIs DEF AbstractionOK
<1>2. n \in Nat /\ n > 0 /\ DOMAIN states = 0..n-1 /\ v \in Nat /\ v # n
      /\ v \in DOMAIN states /\ var \in CVars /\ n \notin DOMAIN states
      /\ (DOMAIN states) \union {n} = 0..n
  BY <1>1 DEF StatesOK, MaySplit
<1> DEFINE set1 == [states[v].set EXCEPT ![var] = values1]
           set2 == [states[v].set EXCEPT ![var] = values2]
           rest == Len(nodes) + 1
<1>3. /\ (id1 = v /\ id2 = n) \/ (id1 = n /\ id2 = v)
      /\ states' = [id \in DOMAIN states \union {n} |->
           IF id = id1 THEN [set |-> set1, node |-> rest + m]
           ELSE IF id = id2 THEN [set |-> set2, node |-> rest]
           ELSE states[id]]
  BY <1>1 DEF IsRefined
<1>4. id1 # id2 /\ id1 \in 0..n /\ id2 \in 0..n
  BY <1>2, <1>3
<1> DEFINE all == states[v].set[var]
<1>5. /\ (values1 = wanted /\ values2 = all \ wanted) \/ (values2 = wanted /\ values1 = all \ wanted)
      /\ wanted \subseteq all /\ wanted # {} /\ wanted # all
  BY DEF IsRefined, MaySplit
<1>6. /\ values1 \subseteq all /\ values2 \subseteq all /\ values1 \union values2 = all
      /\ values1 \intersect values2 = {} /\ values1 # {} /\ values2 # {}
  BY <1>5
<1>7. SetOK(states[v].set)
  BY <1>1, <1>2 DEF StatesOK
<1>8. /\ SetOK(set1) /\ \A x \in CVars : set1[x] = IF x = var THEN values1 ELSE states[v].set[x]
      /\ SetOK(set2) /\ \A x \in CVars : set2[x] = IF x = var THEN values2 ELSE states[v].set[x]
  BY <1>2, <1>6, <1>7 DEF SetOK
<1> HIDE DEF set1, set2, rest
<1>9. /\ DOMAIN states' = 0..n
      /\ states'[id1].set = set1 /\ states'[id1].node = rest + m
      /\ states'[id2].set = set2 /\ states'[id2].node = rest
  BY <1>2, <1>3, <1>4
<1>10. \A id \in DOMAIN states : id # v => states'[id] = states[id]
  <2>1. \A id \in DOMAIN states : id # v => id # id1 /\ id # id2
    BY <1>2, <1>3
  <2> QED
    BY <1>3, <2>1
<1>11. IsDivided(v, var, n, id1, id2, values1, values2)
  BY <1>2, <1>3, <1>6, <1>8, <1>9, <1>10 DEF IsDivided
<1>12. StatesOK(states', n + 1)
  <2>1. \A id \in DOMAIN states' : SetOK(states'[id].set)
    <3>1. \A id \in DOMAIN states' : id = id1 \/ id = id2 \/ (id \in DOMAIN states /\ id # v)
      BY <1>2, <1>3, <1>9
    <3> QED
      BY <1>1, <1>8, <1>9, <1>10, <3>1 DEF StatesOK
  <2>2. PICK k : k = n + 1
    OBVIOUS
  <2>3. k \in Nat /\ k > 0 /\ k - 1 = n
    BY <1>2, <2>2
  <2>4. StatesOK(states', k)
    BY <1>9, <2>1, <2>3 DEF StatesOK
  <2> QED
    BY <2>2, <2>4
<1> QED
  BY <1>1, <1>9, <1>11, <1>12 DEF rest

LEMMA RefinePartition ==
  ASSUME AbstractionOK, NEW v, NEW var, NEW wanted, NEW goal_ids, MaySplit(v, var, wanted),
         NEW id1, NEW id2, NEW values1, NEW values2, NEW m,
         IsRefined(v, var, wanted, goal_ids, id1, id2, values1, values2, m)
  PROVE  HierarchyOK(nodes') /\ PartitionOK(states', nodes')
<1> DEFINE rest == Len(nodes) + 1
           nd == states[v].node
           e == Enumeration(values2)
           n == NumStates
<1>1. /\ IsDivided(v, var, n, id1, id2, values1, values2)
      /\ states'[id1].node = rest + m /\ states'[id2].node = rest
  BY RefinedDivides
<1>2. /\ IsSplit(nodes, nodes', nd, var, e, id1, id2, rest, m)
      /\ Len(nodes') = rest + m /\ m = Cardinality(values2)
      /\ v = InitId => CInit[var] \in IF id1 = v THEN values1 ELSE values2
  BY DEF IsRefined
<1>3. /\ n \in Nat /\ n > 0 /\ DOMAIN states = 0..n-1 /\ DOMAIN states' = 0..n
      /\ v \in DOMAIN states /\ var \in CVars
      /\ (id1 = v /\ id2 = n) \/ (id1 = n /\ id2 = v)
      /\ values1 \union values2 = states[v].set[var] /\ values1 \intersect values2 = {}
      /\ \A x \in CVars : /\ states'[id1].set[x] = IF x = var THEN values1 ELSE states[v].set[x]
                          /\ states'[id2].set[x] = IF x = var THEN values2 ELSE states[v].set[x]
      /\ \A id \in DOMAIN states : id # v => states'[id] = states[id]
  BY <1>1 DEF IsDivided
<1>4. PICK k : StatesOK(states, k)
  BY DEF AbstractionOK
<1>5. \A id \in DOMAIN states : /\ states[id].node \in DOMAIN nodes
         /\ nodes[states[id].node].left = Undefined /\ nodes[states[id].node].value = id
  BY <1>4, NodeIsLeaf DEF AbstractionOK
<1>6. HierarchyOK(nodes) /\ PartitionOK(states, nodes)
  BY DEF AbstractionOK
<1> HIDE DEF nd, e, n, rest
<1>7. /\ HierarchyOK(nodes')
      /\ \A s \in CStates : NodeIn(nodes', s) =
           IF NodeIn(nodes, s) = nd THEN EndOf(s, var, e, rest, m) ELSE NodeIn(nodes, s)
  <2>1. nodes[nd].left = Undefined
    BY <1>3, <1>5 DEF nd
  <2> QED
    BY <1>2, <1>6, <2>1, SplitHierarchy
<1>8. \A s : EndOf(s, var, e, rest, m) = IF s[var] \in values2 THEN rest ELSE rest + m
  <2>1. IsFiniteSet(values2)
    BY <1>1, <1>4, DomainFinite DEF IsDivided, StatesOK, SetOK
  <2>2. /\ m \in Nat /\ e \in [1..m -> values2] /\ \A x \in values2 : \E j \in 1..m : x = e[j]
    BY <1>2, <2>1, EnumerationFacts DEF e
  <2>3. \A x : Later(x, e, 0, m) <=> x \in values2
    <3>1. \A j \in 1..m : 0 < j
      BY <2>2
    <3> QED
      BY <2>2, <3>1 DEF Later
  <2> QED
    BY <2>3 DEF EndOf
<1>9. /\ nodes'[rest].value = id2 /\ nodes'[rest + m].value = id1
      /\ \A i \in DOMAIN nodes : i # nd => nodes'[i] = nodes[i]
  <2>1. /\ rest \in Nat /\ DOMAIN nodes = 1..rest - 1
        /\ \A i \in Nat : 0 < i /\ i < rest /\ i # nd => nodes'[i] = nodes[i]
        /\ nodes'[rest].value = id2 /\ nodes'[rest + m].value = id1
    BY <1>2 DEF IsSplit
  <2>2. \A i \in DOMAIN nodes : i \in Nat /\ 0 < i /\ i < rest
    BY <2>1
  <2> QED
    BY <2>1, <2>2
<1>10. id1 # id2 /\ id1 \in 0..n /\ id2 \in 0..n
  BY <1>3
<1>11. \A b \in DOMAIN states' : b = id1 \/ b = id2 \/ (b \in DOMAIN states /\ b # v)
  BY <1>3
<1>12. \A id \in DOMAIN states : id # v => id # id1 /\ id # id2 /\ id \in DOMAIN states'
  BY <1>3
<1>13. ASSUME NEW s \in CStates
       PROVE  LET id == nodes'[NodeIn(nodes', s)].value
                  part == IF s[var] \in values2 THEN id2 ELSE id1
                  old == nodes[NodeIn(nodes, s)].value
              IN /\ id \in DOMAIN states' /\ states'[id].node = NodeIn(nodes', s)
                 /\ \A b \in DOMAIN states' : Includes(states'[b].set, s) <=> b = id
                 /\ id = IF old = v THEN part ELSE old
  <2> DEFINE id == nodes'[NodeIn(nodes', s)].value
             old == nodes[NodeIn(nodes, s)].value
  <2>1. /\ old \in DOMAIN states /\ states[old].node = NodeIn(nodes, s)
        /\ \A b \in DOMAIN states : Includes(states[b].set, s) <=> b = old
    BY <1>6 DEF PartitionOK
  <2>2. /\ \A x \in CVars : (s[x] \in states[v].set[x]) <=>
             IF x = var THEN s[x] \in values1 \/ s[x] \in values2 ELSE s[x] \in states'[id1].set[x]
        /\ Includes(states[v].set, s) <=> \A x \in CVars : s[x] \in states[v].set[x]
        /\ \A b \in {id1, id2} : Includes(states'[b].set, s) <=> \A x \in CVars : s[x] \in states'[b].set[x]
    BY <1>3, IncludesIs
  <2>3. /\ Includes(states'[id1].set, s) <=> Includes(states[v].set, s) /\ s[var] \in values1
        /\ Includes(states'[id2].set, s) <=> Includes(states[v].set, s) /\ s[var] \in values2
    <3>1. ASSUME Includes(states[v].set, s), s[var] \in values1 PROVE Includes(states'[id1].set, s)
      BY <1>3, <2>2, <3>1
    <3>2. ASSUME Includes(states[v].set, s), s[var] \in values2 PROVE Includes(states'[id2].set, s)
      BY <1>3, <2>2, <3>2
    <3>3. ASSUME Includes(states'[id1].set, s) PROVE Includes(states[v].set, s) /\ s[var] \in values1
      BY <1>3, <2>2, <3>3
    <3>4. ASSUME Includes(states'[id2].set, s) PROVE Includes(states[v].set, s) /\ s[var] \in values2
      BY <1>3, <2>2, <3>4
    <3> QED
      BY <3>1, <3>2, <3>3, <3>4
  <2>4. CASE old # v
    <3>1. NodeIn(nodes, s) # nd
      BY <1>3, <1>5, <2>1, <2>4 DEF nd
    <3>2. NodeIn(nodes', s) = NodeIn(nodes, s) /\ id = old
      <4>1. NodeIn(nodes', s) = NodeIn(nodes, s)
        BY <1>7, <3>1
      <4>2. NodeIn(nodes, s) \in DOMAIN nodes
        BY <1>6, NodeInLeaf
      <4> QED
        BY <1>9, <3>1, <4>1, <4>2
    <3>3. states'[old] = states[old] /\ old \in DOMAIN states' /\ old # id1 /\ old # id2
      BY <1>3, <1>12, <2>1, <2>4
    <3>4. ASSUME NEW b \in DOMAIN states' PROVE Includes(states'[b].set, s) <=> b = old
      <4>1. CASE b \in {id1, id2}
        BY <1>3, <2>1, <2>3, <2>4, <3>3, <4>1
      <4>2. CASE b \in DOMAIN states /\ b # v
        BY <1>3, <2>1, <4>2
      <4> QED
        BY <1>11, <4>1, <4>2
    <3> HIDE DEF id, old
    <3> QED
      BY <2>1, <2>4, <3>2, <3>3, <3>4 DEF id, old
  <2>5. CASE old = v
    <3>1. NodeIn(nodes, s) = nd
      BY <2>1, <2>5 DEF nd
    <3>2. Includes(states[v].set, s) /\ (s[var] \in values1 \/ s[var] \in values2)
      <4>1. Includes(states[v].set, s)
        BY <1>3, <2>1, <2>5
      <4> QED
        BY <1>3, <2>2, <4>1
    <3>3. NodeIn(nodes', s) = IF s[var] \in values2 THEN rest ELSE rest + m
      BY <1>7, <1>8, <3>1
    <3>4. id = IF s[var] \in values2 THEN id2 ELSE id1
      BY <1>9, <3>3
    <3>5. id \in DOMAIN states' /\ states'[id].node = NodeIn(nodes', s)
      BY <1>1, <1>3, <1>10, <3>3, <3>4
    <3>6. ASSUME NEW b \in DOMAIN states' PROVE Includes(states'[b].set, s) <=> b = id
      <4>1. CASE b \in {id1, id2}
        BY <1>3, <1>10, <2>3, <3>2, <3>4, <4>1
      <4>2. CASE b \in DOMAIN states /\ b # v
        BY <1>3, <1>12, <2>1, <2>5, <3>4, <4>2
      <4> QED
        BY <1>11, <4>1, <4>2
    <3> HIDE DEF id, old
    <3> QED
      BY <2>5, <3>4, <3>5, <3>6 DEF id, old
  <2> QED
    BY <2>4, <2>5
<1>14. nodes'[NodeIn(nodes', CInit)].value = InitId
  <2>1. CInit \in CStates
    BY CartesianTask
  <2>2. nodes[NodeIn(nodes, CInit)].value = InitId
    BY <1>6 DEF PartitionOK
  <2>3. nodes'[NodeIn(nodes', CInit)].value =
          IF InitId = v THEN IF CInit[var] \in values2 THEN id2 ELSE id1 ELSE InitId
    BY <1>13, <2>1, <2>2
  <2> QED
    BY <1>2, <1>3, <2>3
<1>15. PartitionOK(states', nodes')
  BY <1>13, <1>14 DEF PartitionOK
<1> QED
  BY <1>7, <1>15

LEMMA PostconditionFacts ==
  ASSUME NEW o \in COperators, NEW var \in CVars
  PROVE  PostconditionValue(o, var) = Undefined => PreconditionValue(o, var) = Undefined
BY CartesianTask, UndefinedAssumption DEF PostconditionValue, PreconditionValue

\* From or to part of a set.
LEMMA FitsPart ==
  ASSUME NEW o \in COperators, NEW var \in CVars, NEW a, NEW b, NEW c, NEW d,
         c \subseteq a, d \subseteq b, Fits(o, var, c, d)
  PROVE  Fits(o, var, a, b)
BY DEF Fits

LEMMA WithPart ==
  ASSUME NEW value, NEW v1, NEW v2, value \in v1.values \/ value \in v2.values,
         v1.values \intersect v2.values = {}, v1.id # v2.id
  PROVE  /\ With(value, v1, v2) = v1.id <=> value \in v1.values
         /\ With(value, v1, v2) = v2.id <=> value \in v2.values
BY DEF With

\* The values of the parts, by id.
IsPart(w, x, v1, v2) ==
  (w = v1.id /\ x = v1.values) \/ (w = v2.id /\ x = v2.values)

PartsOK(v1, v2, all) ==
  /\ v1.values \intersect v2.values = {} /\ v1.id # v2.id
  /\ v1.values \union v2.values = all /\ v1.values # {} /\ v2.values # {}

TargetsOf(o, u, v1, v2, var) ==
  IF PostconditionValue(o, var) = Undefined THEN Overlapping(u, v1, v2)
  ELSE {With(PostconditionValue(o, var), v1, v2)}

SourcesOf(o, u, v1, v2, var) ==
  IF PostconditionValue(o, var) = Undefined THEN Overlapping(u, v1, v2)
  ELSE IF PreconditionValue(o, var) = Undefined THEN {v1.id, v2.id}
  ELSE {With(PreconditionValue(o, var), v1, v2)}

LEMMA OverlappingIs ==
  ASSUME NEW u, NEW v1, NEW v2, v1.id # v2.id, NEW w, NEW x, IsPart(w, x, v1, v2)
  PROVE  w \in Overlapping(u, v1, v2) <=> u \intersect x # {}
BY DEF Overlapping, IsPart

LEMMA TargetFits ==
  ASSUME NEW o \in COperators, NEW var \in CVars, NEW u, NEW v1, NEW v2, NEW all, PartsOK(v1, v2, all),
         NEW w, NEW x, IsPart(w, x, v1, v2), Fits(o, var, u, all)
  PROVE  w \in TargetsOf(o, u, v1, v2, var) <=> Fits(o, var, u, x)
<1>1. CASE PostconditionValue(o, var) = Undefined
  BY <1>1, OverlappingIs DEF Fits, TargetsOf, PartsOK
<1>2. CASE PostconditionValue(o, var) # Undefined
  <2> DEFINE post == PostconditionValue(o, var)
  <2>1. post \in all /\ (PreconditionValue(o, var) = Undefined \/ PreconditionValue(o, var) \in u)
    BY <1>2 DEF Fits
  <2>2. w = With(post, v1, v2) <=> post \in x
    BY <2>1, WithPart DEF IsPart, PartsOK
  <2> QED
    BY <1>2, <2>1, <2>2 DEF Fits, TargetsOf
<1> QED
  BY <1>1, <1>2

LEMMA SourceFits ==
  ASSUME NEW o \in COperators, NEW var \in CVars, NEW u, NEW v1, NEW v2, NEW all, PartsOK(v1, v2, all),
         NEW w, NEW x, IsPart(w, x, v1, v2), Fits(o, var, all, u)
  PROVE  w \in SourcesOf(o, u, v1, v2, var) <=> Fits(o, var, x, u)
<1>1. CASE PostconditionValue(o, var) = Undefined
  BY <1>1, OverlappingIs DEF Fits, SourcesOf, PartsOK
<1>2. CASE PostconditionValue(o, var) # Undefined /\ PreconditionValue(o, var) = Undefined
  BY <1>2 DEF Fits, SourcesOf, IsPart
<1>3. CASE PostconditionValue(o, var) # Undefined /\ PreconditionValue(o, var) # Undefined
  <2> DEFINE pre == PreconditionValue(o, var)
  <2>1. pre \in all /\ PostconditionValue(o, var) \in u
    BY <1>3 DEF Fits
  <2>2. w = With(pre, v1, v2) <=> pre \in x
    BY <2>1, WithPart DEF IsPart, PartsOK
  <2> QED
    BY <1>3, <2>1, <2>2 DEF Fits, SourcesOf
<1> QED
  BY <1>1, <1>2, <1>3

LoopSources(o, v1, v2, var) ==
  IF PreconditionValue(o, var) = Undefined THEN {v1.id, v2.id}
  ELSE {With(PreconditionValue(o, var), v1, v2)}

LoopTarget(o, w, v1, v2, var) ==
  IF PostconditionValue(o, var) = Undefined THEN w
  ELSE With(PostconditionValue(o, var), v1, v2)

LEMMA LoopFits ==
  ASSUME NEW o \in COperators, NEW var \in CVars, NEW v1, NEW v2, NEW all, PartsOK(v1, v2, all),
         NEW w1, NEW x1, IsPart(w1, x1, v1, v2), NEW w2, NEW x2, IsPart(w2, x2, v1, v2),
         Fits(o, var, all, all)
  PROVE  w1 \in LoopSources(o, v1, v2, var) /\ w2 = LoopTarget(o, w1, v1, v2, var)
           <=> Fits(o, var, x1, x2)
<1> DEFINE pre == PreconditionValue(o, var)
           post == PostconditionValue(o, var)
<1>0. x1 # {} /\ x2 # {} /\ w1 \in {v1.id, v2.id}
  BY DEF IsPart, PartsOK
<1>1. CASE post = Undefined
  <2>1. pre = Undefined
    BY <1>1, PostconditionFacts
  <2>2. w1 = w2 <=> x1 \intersect x2 # {}
    BY <1>0 DEF IsPart, PartsOK
  <2> QED
    BY <1>0, <1>1, <2>1, <2>2 DEF Fits, LoopSources, LoopTarget
<1>2. CASE post # Undefined
  <2>1. post \in all /\ (pre = Undefined \/ pre \in all)
    BY <1>2 DEF Fits
  <2>2. w2 = With(post, v1, v2) <=> post \in x2
    BY <2>1, WithPart DEF IsPart, PartsOK
  <2>3. pre # Undefined => (w1 = With(pre, v1, v2) <=> pre \in x1)
    BY <2>1, WithPart DEF IsPart, PartsOK
  <2> QED
    BY <1>0, <1>2, <2>1, <2>2, <2>3 DEF Fits, LoopSources, LoopTarget
<1> QED
  BY <1>1, <1>2

\* The rewired transitions, one by one.
IsIncoming(x, v, v1, v2, var) ==
  \E t \in transitions : /\ t[3] = v
    /\ \E w \in TargetsOf(t[2], states[t[1]].set[var], v1, v2, var) : x = <<t[1], t[2], w>>

IsOutgoing(x, v, v1, v2, var) ==
  \E t \in transitions : /\ t[1] = v
    /\ \E w \in SourcesOf(t[2], states[t[3]].set[var], v1, v2, var) : x = <<w, t[2], t[3]>>

IsFromLoop(x, v, v1, v2, var) ==
  \E o \in COperators : /\ <<v, o>> \in loops
    /\ \E w \in LoopSources(o, v1, v2, var) : x = <<w, o, LoopTarget(o, w, v1, v2, var)>>

LEMMA RewiredIs ==
  ASSUME NEW v, NEW v1, NEW v2, NEW var, NEW x
  PROVE  /\ x \in RewiredIncoming(v, v1, v2, var) <=> IsIncoming(x, v, v1, v2, var)
         /\ x \in RewiredOutgoing(v, v1, v2, var) <=> IsOutgoing(x, v, v1, v2, var)
         /\ x \in RewiredLoops(v, v1, v2, var) <=> IsFromLoop(x, v, v1, v2, var)
<1>1. x \in RewiredIncoming(v, v1, v2, var) <=> IsIncoming(x, v, v1, v2, var)
  <2> DEFINE F(t) == {<<t[1], t[2], w>> : w \in TargetsOf(t[2], states[t[1]].set[var], v1, v2, var)}
  <2>1. RewiredIncoming(v, v1, v2, var) = UNION {F(t) : t \in {t \in transitions : t[3] = v}}
    BY DEF RewiredIncoming, TargetsOf
  <2>2. \A t : x \in F(t) <=>
          \E w \in TargetsOf(t[2], states[t[1]].set[var], v1, v2, var) : x = <<t[1], t[2], w>>
    OBVIOUS
  <2> HIDE DEF F
  <2> QED
    BY <2>1, <2>2 DEF IsIncoming
<1>2. x \in RewiredOutgoing(v, v1, v2, var) <=> IsOutgoing(x, v, v1, v2, var)
  <2> DEFINE F(t) == {<<w, t[2], t[3]>> : w \in SourcesOf(t[2], states[t[3]].set[var], v1, v2, var)}
  <2>1. RewiredOutgoing(v, v1, v2, var) = UNION {F(t) : t \in {t \in transitions : t[1] = v}}
    BY DEF RewiredOutgoing, SourcesOf
  <2>2. \A t : x \in F(t) <=>
          \E w \in SourcesOf(t[2], states[t[3]].set[var], v1, v2, var) : x = <<w, t[2], t[3]>>
    OBVIOUS
  <2> HIDE DEF F
  <2> QED
    BY <2>1, <2>2 DEF IsOutgoing
<1>3. x \in RewiredLoops(v, v1, v2, var) <=> IsFromLoop(x, v, v1, v2, var)
  <2> DEFINE F(o) == {<<w, o, LoopTarget(o, w, v1, v2, var)>> : w \in LoopSources(o, v1, v2, var)}
  <2>1. RewiredLoops(v, v1, v2, var) = UNION {F(o) : o \in {o \in COperators : <<v, o>> \in loops}}
    BY DEF RewiredLoops, LoopSources, LoopTarget
  <2>2. \A o : x \in F(o) <=>
          \E w \in LoopSources(o, v1, v2, var) : x = <<w, o, LoopTarget(o, w, v1, v2, var)>>
    OBVIOUS
  <2> HIDE DEF F
  <2> QED
    BY <2>1, <2>2 DEF IsFromLoop
<1> QED
  BY <1>1, <1>2, <1>3

LEMMA OnlyParts ==
  ASSUME NEW o, NEW u, NEW v1, NEW v2, NEW var
  PROVE  /\ TargetsOf(o, u, v1, v2, var) \subseteq {v1.id, v2.id}
         /\ SourcesOf(o, u, v1, v2, var) \subseteq {v1.id, v2.id}
         /\ LoopSources(o, v1, v2, var) \subseteq {v1.id, v2.id}
         /\ \A w \in {v1.id, v2.id} : LoopTarget(o, w, v1, v2, var) \in {v1.id, v2.id}
<1>1. \A x : With(x, v1, v2) \in {v1.id, v2.id}
  BY DEF With
<1>2. Overlapping(u, v1, v2) \subseteq {v1.id, v2.id}
  BY DEF Overlapping
<1> QED
  BY <1>1, <1>2 DEF TargetsOf, SourcesOf, LoopSources, LoopTarget

LEMMA RewiredLoopMembers ==
  ASSUME TransitionsOK(states, transitions, loops),
         NEW v, NEW v1, NEW v2, NEW var, NEW a, NEW o, NEW b
  PROVE  <<a, o, b>> \in RewiredLoops(v, v1, v2, var) <=>
              <<v, o>> \in loops /\ a \in LoopSources(o, v1, v2, var) /\ b = LoopTarget(o, a, v1, v2, var)
<1>1. ASSUME <<a, o, b>> \in RewiredLoops(v, v1, v2, var)
      PROVE  /\ <<v, o>> \in loops /\ a \in LoopSources(o, v1, v2, var)
             /\ b = LoopTarget(o, a, v1, v2, var)
  <2>0. IsFromLoop(<<a, o, b>>, v, v1, v2, var)
    BY <1>1, RewiredIs
  <2>1. PICK p \in COperators : /\ <<v, p>> \in loops
           /\ \E w \in LoopSources(p, v1, v2, var) : <<a, o, b>> = <<w, p, LoopTarget(p, w, v1, v2, var)>>
    BY <2>0, Zenon DEF IsFromLoop
  <2> QED
    BY <2>1
<1>2. ASSUME <<v, o>> \in loops, a \in LoopSources(o, v1, v2, var),
             b = LoopTarget(o, a, v1, v2, var)
      PROVE  <<a, o, b>> \in RewiredLoops(v, v1, v2, var)
  <2>1. o \in COperators
    <3>1. <<v, o>>[2] = o
      OBVIOUS
    <3> QED
      BY <1>2, <3>1 DEF TransitionsOK
  <2>2. \E w \in LoopSources(o, v1, v2, var) : <<a, o, b>> = <<w, o, LoopTarget(o, w, v1, v2, var)>>
    BY <1>2
  <2>3. IsFromLoop(<<a, o, b>>, v, v1, v2, var)
    BY <1>2, <2>1, <2>2, Zenon DEF IsFromLoop
  <2> QED
    BY <2>3, RewiredIs
<1> QED
  BY <1>1, <1>2

LEMMA RewiredMembers ==
  ASSUME TransitionsOK(states, transitions, loops),
         NEW v, NEW v1, NEW v2, NEW var, NEW a, NEW o, NEW b
  PROVE  /\ <<a, o, b>> \in RewiredIncoming(v, v1, v2, var) <=>
              <<a, o, v>> \in transitions /\ b \in TargetsOf(o, states[a].set[var], v1, v2, var)
         /\ <<a, o, b>> \in RewiredOutgoing(v, v1, v2, var) <=>
              <<v, o, b>> \in transitions /\ a \in SourcesOf(o, states[b].set[var], v1, v2, var)
<1>1. \A t \in transitions : t = <<t[1], t[2], t[3]>>
  BY DEF TransitionsOK
<1>2. <<a, o, b>> \in RewiredIncoming(v, v1, v2, var) <=>
        <<a, o, v>> \in transitions /\ b \in TargetsOf(o, states[a].set[var], v1, v2, var)
  <2>1. ASSUME <<a, o, b>> \in RewiredIncoming(v, v1, v2, var)
        PROVE  <<a, o, v>> \in transitions /\ b \in TargetsOf(o, states[a].set[var], v1, v2, var)
    <3>0. IsIncoming(<<a, o, b>>, v, v1, v2, var)
      BY <2>1, RewiredIs
    <3>1. PICK t \in transitions : /\ t[3] = v
             /\ \E w \in TargetsOf(t[2], states[t[1]].set[var], v1, v2, var) : <<a, o, b>> = <<t[1], t[2], w>>
      BY <3>0, Zenon DEF IsIncoming
    <3>2. t[1] = a /\ t[2] = o /\ b \in TargetsOf(t[2], states[t[1]].set[var], v1, v2, var)
      BY <3>1
    <3> QED
      BY <1>1, <3>1, <3>2
  <2>2. ASSUME <<a, o, v>> \in transitions, b \in TargetsOf(o, states[a].set[var], v1, v2, var)
        PROVE  <<a, o, b>> \in RewiredIncoming(v, v1, v2, var)
    <3>1. PICK t \in transitions : t = <<a, o, v>> /\ t[1] = a /\ t[2] = o /\ t[3] = v
      BY <2>2
    <3>2. \E w \in TargetsOf(t[2], states[t[1]].set[var], v1, v2, var) : <<a, o, b>> = <<t[1], t[2], w>>
      BY <2>2, <3>1
    <3>3. IsIncoming(<<a, o, b>>, v, v1, v2, var)
      BY <3>1, <3>2, Zenon DEF IsIncoming
    <3> QED
      BY <3>3, RewiredIs
  <2> QED
    BY <2>1, <2>2
<1>3. <<a, o, b>> \in RewiredOutgoing(v, v1, v2, var) <=>
        <<v, o, b>> \in transitions /\ a \in SourcesOf(o, states[b].set[var], v1, v2, var)
  <2>1. ASSUME <<a, o, b>> \in RewiredOutgoing(v, v1, v2, var)
        PROVE  <<v, o, b>> \in transitions /\ a \in SourcesOf(o, states[b].set[var], v1, v2, var)
    <3>0. IsOutgoing(<<a, o, b>>, v, v1, v2, var)
      BY <2>1, RewiredIs
    <3>1. PICK t \in transitions : /\ t[1] = v
             /\ \E w \in SourcesOf(t[2], states[t[3]].set[var], v1, v2, var) : <<a, o, b>> = <<w, t[2], t[3]>>
      BY <3>0, Zenon DEF IsOutgoing
    <3>2. t[3] = b /\ t[2] = o /\ a \in SourcesOf(t[2], states[t[3]].set[var], v1, v2, var)
      BY <3>1
    <3> QED
      BY <1>1, <3>1, <3>2
  <2>2. ASSUME <<v, o, b>> \in transitions, a \in SourcesOf(o, states[b].set[var], v1, v2, var)
        PROVE  <<a, o, b>> \in RewiredOutgoing(v, v1, v2, var)
    <3>1. PICK t \in transitions : t = <<v, o, b>> /\ t[1] = v /\ t[2] = o /\ t[3] = b
      BY <2>2
    <3>2. \E w \in SourcesOf(t[2], states[t[3]].set[var], v1, v2, var) : <<a, o, b>> = <<w, t[2], t[3]>>
      BY <2>2, <3>1
    <3>3. IsOutgoing(<<a, o, b>>, v, v1, v2, var)
      BY <3>1, <3>2, Zenon DEF IsOutgoing
    <3> QED
      BY <3>3, RewiredIs
  <2> QED
    BY <2>1, <2>2
<1> QED
  BY <1>2, <1>3

\* The rewired transitions run between states of the new abstraction, and from or
\* to a part.
IsNewTriple(t, id1, id2, n) ==
  /\ t = <<t[1], t[2], t[3]>> /\ t[1] \in 0..n /\ t[2] \in COperators /\ t[3] \in 0..n
  /\ t[1] \in {id1, id2} \/ t[3] \in {id1, id2}

LEMMA RewiredTriples ==
  ASSUME TransitionsOK(states, transitions, loops), NEW n \in Nat, DOMAIN states = 0..n-1,
         NEW v, NEW v1, NEW v2, NEW var, v1.id \in 0..n, v2.id \in 0..n
  PROVE  /\ \A t \in RewiredIncoming(v, v1, v2, var) :
              IsNewTriple(t, v1.id, v2.id, n) /\ t[3] \in {v1.id, v2.id} /\ <<t[1], t[2], v>> \in transitions
         /\ \A t \in RewiredOutgoing(v, v1, v2, var) :
              IsNewTriple(t, v1.id, v2.id, n) /\ t[1] \in {v1.id, v2.id} /\ <<v, t[2], t[3]>> \in transitions
         /\ \A t \in RewiredLoops(v, v1, v2, var) :
              IsNewTriple(t, v1.id, v2.id, n) /\ t[1] \in {v1.id, v2.id} /\ t[3] \in {v1.id, v2.id}
<1>0. DOMAIN states \subseteq 0..n
  OBVIOUS
<1>1. ASSUME NEW x \in RewiredIncoming(v, v1, v2, var)
      PROVE  IsNewTriple(x, v1.id, v2.id, n) /\ x[3] \in {v1.id, v2.id} /\ <<x[1], x[2], v>> \in transitions
  <2>0. IsIncoming(x, v, v1, v2, var)
    BY RewiredIs
  <2>1. PICK t \in transitions : /\ t[3] = v
             /\ \E w \in TargetsOf(t[2], states[t[1]].set[var], v1, v2, var) : x = <<t[1], t[2], w>>
    BY <2>0, Zenon DEF IsIncoming
  <2>2. PICK w \in {v1.id, v2.id} : x = <<t[1], t[2], w>>
    <3>1. TargetsOf(t[2], states[t[1]].set[var], v1, v2, var) \subseteq {v1.id, v2.id}
      BY OnlyParts
    <3> QED
      BY <2>1, <3>1, Zenon
  <2>3. t[1] \in DOMAIN states /\ t[2] \in COperators /\ t = <<t[1], t[2], t[3]>>
    BY DEF TransitionsOK
  <2>4. x[1] = t[1] /\ x[2] = t[2] /\ x[3] = w
    BY <2>2
  <2> QED
    BY <1>0, <2>1, <2>2, <2>3, <2>4 DEF IsNewTriple
<1>2. ASSUME NEW x \in RewiredOutgoing(v, v1, v2, var)
      PROVE  IsNewTriple(x, v1.id, v2.id, n) /\ x[1] \in {v1.id, v2.id} /\ <<v, x[2], x[3]>> \in transitions
  <2>0. IsOutgoing(x, v, v1, v2, var)
    BY RewiredIs
  <2>1. PICK t \in transitions : /\ t[1] = v
             /\ \E w \in SourcesOf(t[2], states[t[3]].set[var], v1, v2, var) : x = <<w, t[2], t[3]>>
    BY <2>0, Zenon DEF IsOutgoing
  <2>2. PICK w \in {v1.id, v2.id} : x = <<w, t[2], t[3]>>
    <3>1. SourcesOf(t[2], states[t[3]].set[var], v1, v2, var) \subseteq {v1.id, v2.id}
      BY OnlyParts
    <3> QED
      BY <2>1, <3>1, Zenon
  <2>3. t[3] \in DOMAIN states /\ t[2] \in COperators /\ t = <<t[1], t[2], t[3]>>
    BY DEF TransitionsOK
  <2>4. x[1] = w /\ x[2] = t[2] /\ x[3] = t[3]
    BY <2>2
  <2> QED
    BY <1>0, <2>1, <2>2, <2>3, <2>4 DEF IsNewTriple
<1>3. ASSUME NEW x \in RewiredLoops(v, v1, v2, var)
      PROVE  IsNewTriple(x, v1.id, v2.id, n) /\ x[1] \in {v1.id, v2.id} /\ x[3] \in {v1.id, v2.id}
  <2>0. IsFromLoop(x, v, v1, v2, var)
    BY RewiredIs
  <2>1. PICK o \in COperators :
          \E w \in LoopSources(o, v1, v2, var) : x = <<w, o, LoopTarget(o, w, v1, v2, var)>>
    BY <2>0, Zenon DEF IsFromLoop
  <2>2. PICK w \in {v1.id, v2.id} : x = <<w, o, LoopTarget(o, w, v1, v2, var)>>
    <3>1. LoopSources(o, v1, v2, var) \subseteq {v1.id, v2.id}
      BY OnlyParts
    <3> QED
      BY <2>1, <3>1, Zenon
  <2>3. LoopTarget(o, w, v1, v2, var) \in {v1.id, v2.id}
    BY OnlyParts
  <2>4. x[1] = w /\ x[2] = o /\ x[3] = LoopTarget(o, w, v1, v2, var)
    BY <2>2
  <2> QED
    BY <2>2, <2>3, <2>4 DEF IsNewTriple
<1> QED
  BY <1>1, <1>2, <1>3

LEMMA DividedParts ==
  ASSUME NEW v, NEW var, NEW n, NEW id1, NEW id2, NEW values1, NEW values2,
         IsDivided(v, var, n, id1, id2, values1, values2)
  PROVE  LET v1 == [id |-> id1, values |-> values1]
             v2 == [id |-> id2, values |-> values2]
         IN /\ PartsOK(v1, v2, states[v].set[var])
            /\ \A w \in {id1, id2} : IsPart(w, states'[w].set[var], v1, v2)
BY DEF IsDivided, PartsOK, IsPart

\* An operator leads to a part, from a part, or from a part to a part, if it did
\* so with the whole state and the split variable fits.
LEMMA LeadsToPart ==
  ASSUME NEW v, NEW var, NEW n, NEW id1, NEW id2, NEW values1, NEW values2,
         IsDivided(v, var, n, id1, id2, values1, values2), NEW o \in COperators
  PROVE  /\ \A a : \A w \in {id1, id2} : LeadsTo(a, o, states'[w].set) <=>
              LeadsTo(a, o, states[v].set) /\ Fits(o, var, a[var], states'[w].set[var])
         /\ \A b : \A w \in {id1, id2} : LeadsTo(states'[w].set, o, b) <=>
              LeadsTo(states[v].set, o, b) /\ Fits(o, var, states'[w].set[var], b[var])
         /\ \A w, u \in {id1, id2} : LeadsTo(states'[w].set, o, states'[u].set) <=>
              LeadsTo(states[v].set, o, states[v].set) /\ Fits(o, var, states'[w].set[var], states'[u].set[var])
<1>1. \A w \in {id1, id2} :
        /\ states'[w].set[var] \subseteq states[v].set[var]
        /\ \A x \in CVars : x # var => states'[w].set[x] = states[v].set[x]
  BY DEF IsDivided
<1>2. var \in CVars
  BY DEF IsDivided
<1>3. ASSUME NEW a, NEW w \in {id1, id2}
      PROVE  LeadsTo(a, o, states'[w].set) <=>
              LeadsTo(a, o, states[v].set) /\ Fits(o, var, a[var], states'[w].set[var])
  <2>1. Fits(o, var, a[var], states'[w].set[var]) => Fits(o, var, a[var], states[v].set[var])
    BY <1>1, <1>2, FitsPart
  <2> QED
    BY <1>1, <1>2, <2>1 DEF LeadsTo
<1>4. ASSUME NEW b, NEW w \in {id1, id2}
      PROVE  LeadsTo(states'[w].set, o, b) <=>
              LeadsTo(states[v].set, o, b) /\ Fits(o, var, states'[w].set[var], b[var])
  <2>1. Fits(o, var, states'[w].set[var], b[var]) => Fits(o, var, states[v].set[var], b[var])
    BY <1>1, <1>2, FitsPart
  <2> QED
    BY <1>1, <1>2, <2>1 DEF LeadsTo
<1>5. ASSUME NEW w \in {id1, id2}, NEW u \in {id1, id2}
      PROVE  LeadsTo(states'[w].set, o, states'[u].set) <=>
              LeadsTo(states[v].set, o, states[v].set) /\ Fits(o, var, states'[w].set[var], states'[u].set[var])
  <2>1. Fits(o, var, states'[w].set[var], states'[u].set[var]) => Fits(o, var, states[v].set[var], states[v].set[var])
    BY <1>1, <1>2, FitsPart
  <2> QED
    BY <1>1, <1>2, <2>1 DEF LeadsTo
<1> QED
  BY <1>3, <1>4, <1>5

LEMMA RefineTransitions ==
  ASSUME TransitionsOK(states, transitions, loops),
         NEW v, NEW var, NEW n, NEW id1, NEW id2, NEW values1, NEW values2,
         IsDivided(v, var, n, id1, id2, values1, values2),
         Rewire(v, [id |-> id1, values |-> values1], [id |-> id2, values |-> values2], var)
  PROVE  TransitionsOK(states', transitions', loops')
<1> DEFINE v1 == [id |-> id1, values |-> values1]
           v2 == [id |-> id2, values |-> values2]
           all == states[v].set[var]
           RI == RewiredIncoming(v, v1, v2, var)
           RO == RewiredOutgoing(v, v1, v2, var)
           RL == RewiredLoops(v, v1, v2, var)
           old == {t \in transitions : v \in {t[1], t[3]}}
           new == RI \union RO \union {t \in RL : t[1] # t[3]}
<1>1. /\ transitions' = (transitions \ old) \union new
      /\ loops' = {l \in loops : l[1] # v} \union {<<t[1], t[2]>> : t \in {t \in RL : t[1] = t[3]}}
  BY DEF Rewire
<1>2. /\ n \in Nat /\ n > 0 /\ DOMAIN states = 0..n-1 /\ DOMAIN states' = 0..n
      /\ v \in DOMAIN states /\ var \in CVars
      /\ (id1 = v /\ id2 = n) \/ (id1 = n /\ id2 = v)
      /\ \A id \in DOMAIN states : id # v => states'[id] = states[id]
  BY DEF IsDivided
<1>3. /\ v1.id = id1 /\ v1.values = values1 /\ v2.id = id2 /\ v2.values = values2
      /\ id1 \in 0..n /\ id2 \in 0..n /\ id1 # id2
      /\ \A a \in 0..n : a \notin {id1, id2} <=> a \in DOMAIN states /\ a # v
  BY <1>2
<1>4. /\ PartsOK(v1, v2, all)
      /\ \A w \in {id1, id2} : IsPart(w, states'[w].set[var], v1, v2)
  BY DividedParts
<1> HIDE DEF v1, v2, RI, RO, RL, all
<1>5. /\ \A t \in RI : IsNewTriple(t, id1, id2, n) /\ t[3] \in {id1, id2} /\ <<t[1], t[2], v>> \in transitions
      /\ \A t \in RO : IsNewTriple(t, id1, id2, n) /\ t[1] \in {id1, id2} /\ <<v, t[2], t[3]>> \in transitions
      /\ \A t \in RL : IsNewTriple(t, id1, id2, n) /\ t[1] \in {id1, id2} /\ t[3] \in {id1, id2}
  BY <1>2, <1>3, RewiredTriples DEF RI, RO, RL
<1>6. ASSUME NEW a, NEW o, NEW b
      PROVE
        /\ <<a, o, b>> \in RI <=>
             <<a, o, v>> \in transitions /\ b \in TargetsOf(o, states[a].set[var], v1, v2, var)
        /\ <<a, o, b>> \in RO <=>
             <<v, o, b>> \in transitions /\ a \in SourcesOf(o, states[b].set[var], v1, v2, var)
        /\ <<a, o, b>> \in RL <=>
             /\ <<v, o>> \in loops /\ a \in LoopSources(o, v1, v2, var)
             /\ b = LoopTarget(o, a, v1, v2, var)
  <2>1. <<a, o, b>> \in RI <=>
          <<a, o, v>> \in transitions /\ b \in TargetsOf(o, states[a].set[var], v1, v2, var)
    BY RewiredMembers DEF RI
  <2>2. <<a, o, b>> \in RO <=>
          <<v, o, b>> \in transitions /\ a \in SourcesOf(o, states[b].set[var], v1, v2, var)
    BY RewiredMembers DEF RO
  <2>3. <<a, o, b>> \in RL <=>
          <<v, o>> \in loops /\ a \in LoopSources(o, v1, v2, var) /\ b = LoopTarget(o, a, v1, v2, var)
    BY RewiredLoopMembers DEF RL
  <2> QED
    BY <2>1, <2>2, <2>3
<1>7. \A t \in transitions : /\ t[1] \in DOMAIN states /\ t[2] \in COperators /\ t[3] \in DOMAIN states
                             /\ t = <<t[1], t[2], t[3]>> /\ t[1] # t[3]
  BY DEF TransitionsOK
<1>8. \A a, o, b : <<a, o, b>>[1] = a /\ <<a, o, b>>[2] = o /\ <<a, o, b>>[3] = b
  OBVIOUS
<1>9. DOMAIN states \subseteq DOMAIN states'
  BY <1>2
<1>10. ASSUME NEW t \in transitions'
       PROVE  /\ t[1] \in DOMAIN states' /\ t[2] \in COperators /\ t[3] \in DOMAIN states'
              /\ t = <<t[1], t[2], t[3]>> /\ t[1] # t[3]
  <2>1. CASE t \in transitions
    BY <1>7, <1>9, <2>1
  <2>2. CASE t \in RI
    <3>1. IsNewTriple(t, id1, id2, n) /\ t[3] \in {id1, id2} /\ <<t[1], t[2], v>> \in transitions
      BY <1>5, <2>2
    <3>2. t[1] \in DOMAIN states /\ t[1] # v
      BY <1>7, <1>8, <3>1
    <3>3. t[1] \notin {id1, id2}
      BY <1>2, <1>3, <1>9, <3>2
    <3> QED
      BY <1>2, <3>1, <3>3 DEF IsNewTriple
  <2>3. CASE t \in RO
    <3>1. IsNewTriple(t, id1, id2, n) /\ t[1] \in {id1, id2} /\ <<v, t[2], t[3]>> \in transitions
      BY <1>5, <2>3
    <3>2. t[3] \in DOMAIN states /\ t[3] # v
      BY <1>7, <1>8, <3>1
    <3>3. t[3] \notin {id1, id2}
      BY <1>2, <1>3, <1>9, <3>2
    <3> QED
      BY <1>2, <3>1, <3>3 DEF IsNewTriple
  <2>4. CASE t \in RL /\ t[1] # t[3]
    BY <1>2, <1>5, <2>4 DEF IsNewTriple
  <2> QED
    BY <1>1, <2>1, <2>2, <2>3, <2>4
<1>11. ASSUME NEW l \in loops'
       PROVE  l[1] \in DOMAIN states' /\ l[2] \in COperators /\ l = <<l[1], l[2]>>
  <2>1. CASE l \in loops
    BY <1>9, <2>1 DEF TransitionsOK
  <2>2. CASE l \in {<<t[1], t[2]>> : t \in {t \in RL : t[1] = t[3]}}
    <3>1. PICK t \in RL : l = <<t[1], t[2]>>
      BY <2>2
    <3> QED
      BY <1>2, <1>5, <3>1 DEF IsNewTriple
  <2> QED
    BY <1>1, <2>1, <2>2
<1>12. ASSUME NEW a \in DOMAIN states', NEW b \in DOMAIN states', NEW o \in COperators, a # b
       PROVE  <<a, o, b>> \in transitions' <=> LeadsTo(states'[a].set, o, states'[b].set)
  <2>0. <<a, o, b>> \in transitions' <=>
          \/ <<a, o, b>> \in transitions /\ a # v /\ b # v
          \/ <<a, o, b>> \in RI \/ <<a, o, b>> \in RO \/ <<a, o, b>> \in RL
    BY <1>1, <1>8, <1>12
  <2>1. CASE a \notin {id1, id2} /\ b \notin {id1, id2}
    <3>1. <<a, o, b>> \notin RI /\ <<a, o, b>> \notin RO /\ <<a, o, b>> \notin RL
      BY <1>5, <1>8, <2>1
    <3>2. a \in DOMAIN states /\ b \in DOMAIN states /\ a # v /\ b # v
      BY <1>2, <1>3, <2>1
    <3>3. <<a, o, b>> \in transitions <=> LeadsTo(states[a].set, o, states[b].set)
      BY <1>12, <3>2 DEF TransitionsOK
    <3> QED
      BY <1>2, <2>0, <3>1, <3>2, <3>3
  <2>2. CASE a \notin {id1, id2} /\ b \in {id1, id2}
    <3>1. <<a, o, b>> \notin RO /\ <<a, o, b>> \notin RL
      BY <1>5, <1>8, <2>2
    <3>2. a \in DOMAIN states /\ a # v /\ states'[a] = states[a]
      BY <1>2, <1>3, <2>2
    <3>3. ~(<<a, o, b>> \in transitions /\ b # v)
      BY <1>2, <1>7, <1>8, <2>2
    <3>4. <<a, o, v>> \in transitions <=> LeadsTo(states[a].set, o, states[v].set)
      BY <1>2, <3>2 DEF TransitionsOK
    <3>5. LeadsTo(states[a].set, o, states[v].set) => Fits(o, var, states[a].set[var], all)
      BY <1>2 DEF LeadsTo, all
    <3>6. Fits(o, var, states[a].set[var], all) =>
            (b \in TargetsOf(o, states[a].set[var], v1, v2, var)
               <=> Fits(o, var, states[a].set[var], states'[b].set[var]))
      BY <1>2, <1>4, <2>2, TargetFits
    <3>7. LeadsTo(states[a].set, o, states'[b].set) <=>
            LeadsTo(states[a].set, o, states[v].set) /\ Fits(o, var, states[a].set[var], states'[b].set[var])
      BY <2>2, LeadsToPart
    <3> QED
      BY <1>6, <2>0, <3>1, <3>2, <3>3, <3>4, <3>5, <3>6, <3>7
  <2>3. CASE a \in {id1, id2} /\ b \notin {id1, id2}
    <3>1. <<a, o, b>> \notin RI /\ <<a, o, b>> \notin RL
      BY <1>5, <1>8, <2>3
    <3>2. b \in DOMAIN states /\ b # v /\ states'[b] = states[b]
      BY <1>2, <1>3, <2>3
    <3>3. ~(<<a, o, b>> \in transitions /\ a # v)
      BY <1>2, <1>7, <1>8, <2>3
    <3>4. <<v, o, b>> \in transitions <=> LeadsTo(states[v].set, o, states[b].set)
      BY <1>2, <3>2 DEF TransitionsOK
    <3>5. LeadsTo(states[v].set, o, states[b].set) => Fits(o, var, all, states[b].set[var])
      BY <1>2 DEF LeadsTo, all
    <3>6. Fits(o, var, all, states[b].set[var]) =>
            (a \in SourcesOf(o, states[b].set[var], v1, v2, var)
               <=> Fits(o, var, states'[a].set[var], states[b].set[var]))
      BY <1>2, <1>4, <2>3, SourceFits
    <3>7. LeadsTo(states'[a].set, o, states[b].set) <=>
            LeadsTo(states[v].set, o, states[b].set) /\ Fits(o, var, states'[a].set[var], states[b].set[var])
      BY <2>3, LeadsToPart
    <3> QED
      BY <1>6, <2>0, <3>1, <3>2, <3>3, <3>4, <3>5, <3>6, <3>7
  <2>4. CASE a \in {id1, id2} /\ b \in {id1, id2}
    <3>1. <<a, o, b>> \notin RI /\ <<a, o, b>> \notin RO
      <4>1. <<a, o, v>> \notin transitions
        BY <1>2, <1>7, <1>8, <2>4
      <4>2. <<v, o, b>> \notin transitions
        BY <1>2, <1>7, <1>8, <2>4
      <4> QED
        BY <1>6, <4>1, <4>2
    <3>2. ~(<<a, o, b>> \in transitions /\ a # v /\ b # v)
      BY <1>2, <1>7, <1>8, <2>4
    <3>4. <<v, o>> \in loops <=> LeadsTo(states[v].set, o, states[v].set)
      BY <1>2 DEF TransitionsOK
    <3>5. LeadsTo(states[v].set, o, states[v].set) => Fits(o, var, all, all)
      BY <1>2 DEF LeadsTo, all
    <3>6. Fits(o, var, all, all) =>
            (a \in LoopSources(o, v1, v2, var) /\ b = LoopTarget(o, a, v1, v2, var)
               <=> Fits(o, var, states'[a].set[var], states'[b].set[var]))
      BY <1>2, <1>4, <2>4, LoopFits
    <3>7. LeadsTo(states'[a].set, o, states'[b].set) <=>
            LeadsTo(states[v].set, o, states[v].set) /\ Fits(o, var, states'[a].set[var], states'[b].set[var])
      BY <2>4, LeadsToPart
    <3> QED
      BY <1>6, <2>0, <3>1, <3>2, <3>4, <3>5, <3>6, <3>7
  <2> QED
    BY <2>1, <2>2, <2>3, <2>4
<1>13. ASSUME NEW a \in DOMAIN states', NEW o \in COperators
       PROVE  <<a, o>> \in loops' <=> LeadsTo(states'[a].set, o, states'[a].set)
  <2>0. <<a, o>> \in loops' <=> (<<a, o>> \in loops /\ a # v) \/ <<a, o, a>> \in RL
    <3>1. <<a, o>> \in {<<t[1], t[2]>> : t \in {t \in RL : t[1] = t[3]}} <=> <<a, o, a>> \in RL
      <4>1. ASSUME <<a, o>> \in {<<t[1], t[2]>> : t \in {t \in RL : t[1] = t[3]}}
            PROVE  <<a, o, a>> \in RL
        <5>1. PICK t \in RL : t[1] = t[3] /\ <<a, o>> = <<t[1], t[2]>>
          BY <4>1
        <5>2. t = <<t[1], t[2], t[3]>> /\ t[1] = a /\ t[2] = o
          BY <1>5, <5>1 DEF IsNewTriple
        <5> QED
          BY <5>1, <5>2
      <4>2. ASSUME <<a, o, a>> \in RL
            PROVE  <<a, o>> \in {<<t[1], t[2]>> : t \in {t \in RL : t[1] = t[3]}}
        <5>1. PICK t \in RL : t[1] = a /\ t[2] = o /\ t[3] = a
          BY <1>8, <4>2
        <5> QED
          BY <5>1
      <4> QED
        BY <4>1, <4>2
    <3>2. <<a, o>>[1] = a
      OBVIOUS
    <3> QED
      BY <1>1, <3>1, <3>2
  <2>1. CASE a \notin {id1, id2}
    <3>1. <<a, o, a>> \notin RL
      BY <1>5, <1>8, <2>1
    <3>2. a \in DOMAIN states /\ a # v /\ states'[a] = states[a]
      BY <1>2, <1>3, <2>1
    <3> QED
      BY <2>0, <3>1, <3>2 DEF TransitionsOK
  <2>2. CASE a \in {id1, id2}
    <3>2. ~(<<a, o>> \in loops /\ a # v)
      <4>1. \A l \in loops : l[1] \in DOMAIN states
        BY DEF TransitionsOK
      <4>2. <<a, o>>[1] = a
        OBVIOUS
      <4>3. a # v => a \notin DOMAIN states
        BY <1>2, <2>2
      <4> QED
        BY <4>1, <4>2, <4>3
    <3>4. <<v, o>> \in loops <=> LeadsTo(states[v].set, o, states[v].set)
      BY <1>2 DEF TransitionsOK
    <3>5. LeadsTo(states[v].set, o, states[v].set) => Fits(o, var, all, all)
      BY <1>2 DEF LeadsTo, all
    <3>6. Fits(o, var, all, all) =>
            (a \in LoopSources(o, v1, v2, var) /\ a = LoopTarget(o, a, v1, v2, var)
               <=> Fits(o, var, states'[a].set[var], states'[a].set[var]))
      BY <1>2, <1>4, <2>2, LoopFits
    <3>7. LeadsTo(states'[a].set, o, states'[a].set) <=>
            LeadsTo(states[v].set, o, states[v].set) /\ Fits(o, var, states'[a].set[var], states'[a].set[var])
      BY <2>2, LeadsToPart
    <3> QED
      BY <1>6, <2>0, <3>2, <3>4, <3>5, <3>6, <3>7
  <2> QED
    BY <2>1, <2>2
<1> QED
  BY <1>10, <1>11, <1>12, <1>13 DEF TransitionsOK

\* The counter of transitions counts.
LEMMA TransitionsFinite ==
  ASSUME NEW trs, NEW n \in Nat,
         \A t \in trs : /\ t[1] \in 0..n /\ t[2] \in COperators /\ t[3] \in 0..n
                        /\ t = <<t[1], t[2], t[3]>>
  PROVE  IsFiniteSet(trs) /\ Cardinality(trs) \in Nat
<1> DEFINE pairs == (0..n) \X COperators
           triples == pairs \X (0..n)
           f == [t \in trs |-> <<<<t[1], t[2]>>, t[3]>>]
<1>1. IsFiniteSet(0..n)
  <2>1. 0 \in Int /\ n \in Int
    OBVIOUS
  <2> QED
    BY <2>1, FS_Interval
<1>2. IsFiniteSet(pairs)
  BY <1>1, CartesianTask, FS_Product
<1>3. IsFiniteSet(triples)
  BY <1>1, <1>2, FS_Product
<1>4. f \in Injection(trs, triples)
  <2>1. f \in [trs -> triples]
    OBVIOUS
  <2>2. \A a, b \in trs : f[a] = f[b] => a = b
    OBVIOUS
  <2> QED
    BY <2>1, <2>2 DEF Injection, IsInjective
<1>5. IsFiniteSet(trs)
  BY <1>3, <1>4, FS_Injection
<1> QED
  BY <1>5, FS_CardinalityType

LEMMA RefineCounts ==
  ASSUME TransitionsOK(states, transitions, loops), num_non_loops = Cardinality(transitions),
         NEW v, NEW var, NEW n, NEW id1, NEW id2, NEW values1, NEW values2,
         IsDivided(v, var, n, id1, id2, values1, values2),
         Rewire(v, [id |-> id1, values |-> values1], [id |-> id2, values |-> values2], var)
  PROVE  num_non_loops' = Cardinality(transitions')
<1> DEFINE v1 == [id |-> id1, values |-> values1]
           v2 == [id |-> id2, values |-> values2]
           RI == RewiredIncoming(v, v1, v2, var)
           RO == RewiredOutgoing(v, v1, v2, var)
           RL == RewiredLoops(v, v1, v2, var)
           old == {t \in transitions : v \in {t[1], t[3]}}
           new == RI \union RO \union {t \in RL : t[1] # t[3]}
<1>1. /\ transitions' = (transitions \ old) \union new
      /\ num_non_loops' = num_non_loops - Cardinality(old) + Cardinality(new)
  BY DEF Rewire
<1>2. /\ n \in Nat /\ n > 0 /\ DOMAIN states = 0..n-1 /\ DOMAIN states' = 0..n
      /\ v \in DOMAIN states
      /\ (id1 = v /\ id2 = n) \/ (id1 = n /\ id2 = v)
  BY DEF IsDivided
<1>3. /\ v1.id = id1 /\ v2.id = id2 /\ id1 \in 0..n /\ id2 \in 0..n
  BY <1>2
<1>4. /\ \A t \in RI : IsNewTriple(t, id1, id2, n)
      /\ \A t \in RO : IsNewTriple(t, id1, id2, n)
      /\ \A t \in RL : IsNewTriple(t, id1, id2, n)
  <2> HIDE DEF v1, v2
  <2> QED
    BY <1>2, <1>3, RewiredTriples
<1>5. \A t \in transitions : /\ t[1] \in 0..n-1 /\ t[2] \in COperators /\ t[3] \in 0..n-1
                             /\ t = <<t[1], t[2], t[3]>>
  BY <1>2 DEF TransitionsOK
<1>6. IsFiniteSet(transitions) /\ Cardinality(transitions) \in Nat
  <2>1. \A i \in 0..n-1 : i \in 0..n
    BY <1>2
  <2> QED
    BY <1>2, <1>5, <2>1, TransitionsFinite
<1> HIDE DEF RI, RO, RL, v1, v2
<1>7. \A t \in new : IsNewTriple(t, id1, id2, n)
  BY <1>4
<1> HIDE DEF new
<1>8. IsFiniteSet(new) /\ Cardinality(new) \in Nat
  BY <1>2, <1>7, TransitionsFinite DEF IsNewTriple
<1>9. (transitions \ old) \intersect new = {}
  <2>1. ASSUME NEW t \in new, t \in transitions PROVE t \in old
    <3>1. t[1] \in {id1, id2} \/ t[3] \in {id1, id2}
      BY <1>7, <2>1 DEF IsNewTriple
    <3>2. t[1] # n /\ t[3] # n
      BY <1>2, <1>5, <2>1
    <3>3. v \in {t[1], t[3]}
      BY <1>2, <3>1, <3>2
    <3> QED
      BY <2>1, <3>3
  <2> QED
    BY <2>1
<1>10. old \subseteq transitions
  OBVIOUS
<1> HIDE DEF old
<1>11. /\ IsFiniteSet(transitions \ old) /\ Cardinality(old) \in Nat
       /\ Cardinality(transitions \ old) = Cardinality(transitions) - Cardinality(old)
  <2>1. IsFiniteSet(old)
    BY <1>6, <1>10, FS_Subset
  <2>2. transitions \intersect old = old
    BY <1>10
  <2>3. Cardinality(transitions \ old) = Cardinality(transitions) - Cardinality(transitions \intersect old)
    BY <1>6, FS_Difference
  <2> QED
    BY <1>6, <2>1, <2>2, <2>3, FS_CardinalityType, FS_Difference
<1>12. Cardinality((transitions \ old) \union new) =
         Cardinality(transitions \ old) + Cardinality(new) - Cardinality((transitions \ old) \intersect new)
  BY <1>8, <1>11, FS_Union
<1>13. Cardinality((transitions \ old) \intersect new) = 0
  BY <1>9, FS_EmptySet
<1> QED
  BY <1>1, <1>6, <1>8, <1>11, <1>12, <1>13

\* What a split does, seen from outside: idw has the wanted values, idr the rest.
SplitInto(v, var, wanted, goal_ids, idw, idr) ==
  LET all == states[v].set[var]
      n == NumStates
  IN /\ n \in Nat /\ n > 0 /\ DOMAIN states = 0..n-1 /\ DOMAIN states' = 0..n
     /\ (idw = v /\ idr = n) \/ (idw = n /\ idr = v)
     /\ \A x \in CVars :
          /\ states'[idw].set[x] = IF x = var THEN wanted ELSE states[v].set[x]
          /\ states'[idr].set[x] = IF x = var THEN all \ wanted ELSE states[v].set[x]
     /\ \A id \in DOMAIN states : id # v => states'[id] = states[id]
     /\ goals' = (goal_ids \ {v}) \union
          (IF v \in goal_ids THEN {w \in {idw, idr} : Includes(states'[w].set, subgoal)} ELSE {})
     /\ subgoal' = subgoal
     /\ Cardinality(wanted) = 1 => idw = IF KeepInitial(v, wanted, var) THEN v ELSE n

LEMMA RefineKeeps ==
  ASSUME AbstractionOK, NEW v, NEW var, NEW wanted, NEW goal_ids, MaySplit(v, var, wanted),
         Refine(v, var, wanted, goal_ids)
  PROVE  /\ AbstractionOK'
         /\ \E idw, idr : SplitInto(v, var, wanted, goal_ids, idw, idr)
<1>1. PICK id1, id2, values1, values2, m :
           IsRefined(v, var, wanted, goal_ids, id1, id2, values1, values2, m)
  <2>1. \E id1, id2, values1, values2, m :
           IsRefined(v, var, wanted, goal_ids, id1, id2, values1, values2, m)
    BY RefineSplits
  <2> QED
    BY <2>1, Zenon
<1>2. /\ IsDivided(v, var, NumStates, id1, id2, values1, values2)
      /\ StatesOK(states', NumStates + 1)
  BY <1>1, RefinedDivides
<1>3. HierarchyOK(nodes') /\ PartitionOK(states', nodes')
  BY <1>1, RefinePartition
<1>4. Rewire(v, [id |-> id1, values |-> values1], [id |-> id2, values |-> values2], var)
  BY <1>1 DEF IsRefined
<1>5. TransitionsOK(states, transitions, loops) /\ num_non_loops = Cardinality(transitions)
  BY DEF AbstractionOK
<1>6. TransitionsOK(states', transitions', loops')
  BY <1>2, <1>4, <1>5, RefineTransitions
<1>7. num_non_loops' = Cardinality(transitions')
  BY <1>2, <1>4, <1>5, RefineCounts
<1>8. AbstractionOK'
  <2>1. \E n : StatesOK(states', n)
    BY <1>2
  <2> QED
    BY <1>3, <1>6, <1>7, <2>1 DEF AbstractionOK
<1> DEFINE n == NumStates
           all == states[v].set[var]
<1>9. /\ n \in Nat /\ n > 0 /\ DOMAIN states = 0..n-1 /\ DOMAIN states' = 0..n
      /\ v \in DOMAIN states /\ var \in CVars
      /\ (id1 = v /\ id2 = n) \/ (id1 = n /\ id2 = v)
      /\ \A x \in CVars : /\ states'[id1].set[x] = IF x = var THEN values1 ELSE states[v].set[x]
                          /\ states'[id2].set[x] = IF x = var THEN values2 ELSE states[v].set[x]
      /\ \A id \in DOMAIN states : id # v => states'[id] = states[id]
  BY <1>2 DEF IsDivided
<1>10. id1 # id2
  BY <1>9
<1> DEFINE set1 == [states[v].set EXCEPT ![var] = values1]
           set2 == [states[v].set EXCEPT ![var] = values2]
<1>11. states'[id1].set = set1 /\ states'[id2].set = set2
  <2>1. states' = [id \in DOMAIN states \union {n} |->
          IF id = id1 THEN [set |-> set1, node |-> (Len(nodes) + 1) + m]
          ELSE IF id = id2 THEN [set |-> set2, node |-> Len(nodes) + 1]
          ELSE states[id]]
    BY <1>1 DEF IsRefined
  <2>2. id1 \in DOMAIN states \union {n} /\ id2 \in DOMAIN states \union {n}
    BY <1>9
  <2> HIDE DEF set1, set2, n
  <2> QED
    BY <1>10, <2>1, <2>2
<1>12. /\ goals' = (goal_ids \ {v}) \union
           (IF v \in goal_ids
            THEN {w \in {id1, id2} : Includes(IF w = id1 THEN set1 ELSE set2, subgoal)}
            ELSE {})
       /\ subgoal' = subgoal
       /\ Cardinality(wanted) = 1 =>
            values2 = wanted /\ id2 = IF KeepInitial(v, wanted, var) THEN v ELSE n
  BY <1>1 DEF IsRefined
<1>13. (values1 = wanted /\ values2 = all \ wanted) \/ (values2 = wanted /\ values1 = all \ wanted)
  BY <1>1 DEF IsRefined
<1> HIDE DEF set1, set2, n, all
<1>14. goals' = (goal_ids \ {v}) \union
          (IF v \in goal_ids THEN {w \in {id1, id2} : Includes(states'[w].set, subgoal)} ELSE {})
  <2>1. {w \in {id1, id2} : Includes(IF w = id1 THEN set1 ELSE set2, subgoal)} =
          {w \in {id1, id2} : Includes(states'[w].set, subgoal)}
    <3>1. \A w \in {id1, id2} : states'[w].set = IF w = id1 THEN set1 ELSE set2
      BY <1>10, <1>11
    <3> QED
      BY <3>1
  <2> QED
    BY <1>12, <2>1
<1>15. {id1, id2} = {id2, id1}
  OBVIOUS
<1>16. MaySplit(v, var, wanted)
  OBVIOUS
<1>17. CASE values1 = wanted /\ values2 = all \ wanted
  <2>1. Cardinality(wanted) # 1
    BY <1>12, <1>16, <1>17 DEF MaySplit, all
  <2>2. SplitInto(v, var, wanted, goal_ids, id1, id2)
    BY <1>9, <1>12, <1>14, <1>17, <2>1 DEF SplitInto, n, all
  <2> QED
    BY <1>8, <2>2
<1>18. CASE values2 = wanted /\ values1 = all \ wanted
  <2>2. SplitInto(v, var, wanted, goal_ids, id2, id1)
    BY <1>9, <1>12, <1>14, <1>15, <1>18 DEF SplitInto, n, all
  <2> QED
    BY <1>8, <2>2
<1> QED
  BY <1>13, <1>17, <1>18

-----------------------------------------------------------------------------
(***************************************************************************)
(* What the parts of the invariant mean for concrete states.               *)
(***************************************************************************)

LEMMA SuccessorIsState ==
  ASSUME NEW o \in COperators, NEW s \in CStates
  PROVE  Successor(o, s) \in CStates
<1> DEFINE t == Successor(o, s)
<1>1. \A v \in CVars : t[v] \in CDomain[v]
  BY CartesianTask DEF Successor, CStates
<1>2. t = [v \in CVars |-> t[v]]
  BY DEF Successor
<1> HIDE DEF t
<1>3. \A v \in CVars : CDomain[v] \in Range(CDomain)
  BY CartesianTask DEF Range
<1>4. t \in [CVars -> UNION Range(CDomain)]
  BY <1>1, <1>2, <1>3
<1>5. t \in CStates
  BY <1>1, <1>4 DEF CStates
<1> QED
  BY <1>5 DEF t

\* A concrete transition leads from every set with its state to every set with its
\* successor.
LEMMA ConcreteLeads ==
  ASSUME NEW o \in COperators, NEW s \in CStates, Applicable(o, s), NEW a, NEW b,
         Includes(a, s), Includes(b, Successor(o, s))
  PROVE  LeadsTo(a, o, b)
<1> DEFINE t == Successor(o, s)
<1>1. \A v \in CVars : s[v] \in a[v] /\ t[v] \in b[v]
  BY IncludesIs, SuccessorIsState
<1>2. \A v \in CVars : t[v] = IF v \in DOMAIN CEff[o] THEN CEff[o][v] ELSE s[v]
  BY DEF Successor
<1>3. \A v \in DOMAIN CPre[o] : s[v] = CPre[o][v]
  BY DEF Applicable
<1> HIDE DEF t
<1>4. ASSUME NEW v \in CVars PROVE Fits(o, v, a[v], b[v])
  <2>1. CASE v \in DOMAIN CEff[o]
    <3>1. CEff[o][v] # Undefined
      BY <2>1, CartesianTask, UndefinedAssumption
    <3>2. PostconditionValue(o, v) = CEff[o][v]
      BY <2>1 DEF PostconditionValue
    <3>3. PreconditionValue(o, v) = Undefined \/ PreconditionValue(o, v) = s[v]
      BY <1>3 DEF PreconditionValue
    <3> QED
      BY <1>1, <1>2, <2>1, <3>1, <3>2, <3>3 DEF Fits
  <2>2. CASE v \notin DOMAIN CEff[o] /\ v \in DOMAIN CPre[o]
    <3>1. PostconditionValue(o, v) = s[v] /\ PreconditionValue(o, v) = s[v]
      BY <1>3, <2>2 DEF PostconditionValue, PreconditionValue
    <3> QED
      BY <1>1, <1>2, <2>2, <3>1 DEF Fits
  <2>3. CASE v \notin DOMAIN CEff[o] /\ v \notin DOMAIN CPre[o]
    <3>1. PostconditionValue(o, v) = Undefined
      BY <2>3 DEF PostconditionValue, PreconditionValue
    <3>2. s[v] \in a[v] \intersect b[v]
      BY <1>1, <1>2, <2>3
    <3> QED
      BY <3>1, <3>2 DEF Fits
  <2> QED
    BY <2>1, <2>2, <2>3
<1> QED
  BY <1>4 DEF LeadsTo

\* What fits in every variable is a concrete transition.
LEMMA LeadsConcretely ==
  ASSUME NEW o \in COperators, NEW a, NEW b, SetOK(a), SetOK(b), LeadsTo(a, o, b)
  PROVE  \E s \in CStates : Applicable(o, s) /\ Includes(a, s) /\ Includes(b, Successor(o, s))
<1> DEFINE s == [v \in CVars |->
             IF PostconditionValue(o, v) = Undefined THEN CHOOSE d \in a[v] \intersect b[v] : TRUE
             ELSE IF PreconditionValue(o, v) = Undefined THEN CHOOSE d \in a[v] : TRUE
             ELSE PreconditionValue(o, v)]
           t == Successor(o, s)
<1>1. ASSUME NEW v \in CVars
      PROVE  /\ s[v] \in a[v]
             /\ v \in DOMAIN CPre[o] => s[v] = CPre[o][v]
             /\ (IF v \in DOMAIN CEff[o] THEN CEff[o][v] ELSE s[v]) \in b[v]
  <2>1. Fits(o, v, a[v], b[v]) /\ a[v] # {}
    BY DEF LeadsTo, SetOK
  <2>2. /\ v \in DOMAIN CPre[o] => CPre[o][v] # Undefined
        /\ v \in DOMAIN CEff[o] => CEff[o][v] # Undefined
    BY CartesianTask, UndefinedAssumption
  <2>3. CASE PostconditionValue(o, v) = Undefined
    <3>1. v \notin DOMAIN CEff[o] /\ v \notin DOMAIN CPre[o]
      BY <2>2, <2>3 DEF PostconditionValue, PreconditionValue
    <3>2. s[v] \in a[v] \intersect b[v]
      BY <2>1, <2>3 DEF Fits
    <3> HIDE DEF s
    <3> QED
      BY <3>1, <3>2
  <2>4. CASE PostconditionValue(o, v) # Undefined /\ PreconditionValue(o, v) = Undefined
    <3>1. v \in DOMAIN CEff[o] /\ v \notin DOMAIN CPre[o] /\ PostconditionValue(o, v) = CEff[o][v]
      BY <2>2, <2>4 DEF PostconditionValue, PreconditionValue
    <3>2. s[v] \in a[v]
      BY <2>1, <2>4
    <3> HIDE DEF s
    <3> QED
      BY <2>1, <2>4, <3>1, <3>2 DEF Fits
  <2>5. CASE PostconditionValue(o, v) # Undefined /\ PreconditionValue(o, v) # Undefined
    <3>1. v \in DOMAIN CPre[o] /\ PreconditionValue(o, v) = CPre[o][v]
      BY <2>5 DEF PreconditionValue
    <3>2. s[v] = CPre[o][v]
      BY <2>5, <3>1
    <3>3. PostconditionValue(o, v) = IF v \in DOMAIN CEff[o] THEN CEff[o][v] ELSE CPre[o][v]
      BY <3>1 DEF PostconditionValue
    <3> HIDE DEF s
    <3> QED
      BY <2>1, <2>5, <3>1, <3>2, <3>3 DEF Fits
  <2> QED
    BY <2>3, <2>4, <2>5
<1>2. s = [v \in CVars |-> s[v]]
  OBVIOUS
<1> HIDE DEF s
<1>3. s \in CStates
  <2>1. \A v \in CVars : s[v] \in CDomain[v]
    BY <1>1 DEF SetOK
  <2>2. \A v \in CVars : CDomain[v] \in Range(CDomain)
    BY CartesianTask DEF Range
  <2>3. s \in [CVars -> UNION Range(CDomain)]
    BY <1>2, <2>1, <2>2
  <2> QED
    BY <2>1, <2>3 DEF CStates
<1>4. Applicable(o, s)
  BY <1>1, CartesianTask DEF Applicable
<1>5. Includes(a, s)
  BY <1>1, <1>3, IncludesIs
<1>6. Includes(b, t)
  <2>1. t \in CStates
    BY <1>3, SuccessorIsState
  <2>2. \A v \in CVars : t[v] = IF v \in DOMAIN CEff[o] THEN CEff[o][v] ELSE s[v]
    BY DEF Successor
  <2> HIDE DEF t
  <2> QED
    BY <1>1, <2>1, <2>2, IncludesIs
<1> QED
  BY <1>3, <1>4, <1>5, <1>6

LEMMA AbstractStateIs ==
  ASSUME AbstractionOK, NEW s \in CStates
  PROVE  /\ AbstractStateOf(s) \in DOMAIN states
         /\ \A b \in DOMAIN states : Includes(states[b].set, s) <=> b = AbstractStateOf(s)
<1>1. AbstractStateOf(s) = nodes[NodeIn(nodes, s)].value
  BY NodeOfIn DEF AbstractStateOf
<1> QED
  BY <1>1 DEF AbstractionOK, PartitionOK

\* The invariant of the abstraction is what the abstraction promises.
LEMMA OKIsInduced == AbstractionOK => AbstractionIsInduced
<1> SUFFICES ASSUME AbstractionOK PROVE AbstractionIsInduced
  OBVIOUS
<1>1. PICK n : StatesOK(states, n)
  BY DEF AbstractionOK
<1>2. TransitionsOK(states, transitions, loops)
  BY DEF AbstractionOK
<1> DEFINE lp == {<<l[1], l[2], l[1]>> : l \in loops}
           IsInduced(a, o, b) == \E s \in CStates : /\ Applicable(o, s) /\ a = AbstractStateOf(s)
                                                    /\ b = AbstractStateOf(Successor(o, s))
<1>3. ASSUME NEW a \in DOMAIN states, NEW b \in DOMAIN states, NEW o \in COperators
      PROVE  LeadsTo(states[a].set, o, states[b].set) <=> IsInduced(a, o, b)
  <2>1. SetOK(states[a].set) /\ SetOK(states[b].set)
    BY <1>1 DEF StatesOK
  <2>2. ASSUME LeadsTo(states[a].set, o, states[b].set) PROVE IsInduced(a, o, b)
    <3>1. PICK s \in CStates : /\ Applicable(o, s) /\ Includes(states[a].set, s)
                               /\ Includes(states[b].set, Successor(o, s))
      BY <2>1, <2>2, LeadsConcretely
    <3>2. a = AbstractStateOf(s) /\ b = AbstractStateOf(Successor(o, s))
      BY <3>1, AbstractStateIs, SuccessorIsState
    <3> QED
      BY <3>1, <3>2
  <2>3. ASSUME IsInduced(a, o, b) PROVE LeadsTo(states[a].set, o, states[b].set)
    <3>1. PICK s \in CStates : /\ Applicable(o, s) /\ a = AbstractStateOf(s)
                               /\ b = AbstractStateOf(Successor(o, s))
      BY <2>3
    <3>2. Includes(states[a].set, s) /\ Includes(states[b].set, Successor(o, s))
      BY <3>1, AbstractStateIs, SuccessorIsState
    <3> QED
      BY <3>1, <3>2, ConcreteLeads
  <2> QED
    BY <2>2, <2>3
<1>4. \A x : x \in Induced <=>
        \E a \in DOMAIN states, o \in COperators, b \in DOMAIN states :
          x = <<a, o, b>> /\ IsInduced(a, o, b)
  <2>1. ASSUME NEW x \in Induced
        PROVE  \E a \in DOMAIN states, o \in COperators, b \in DOMAIN states :
                 x = <<a, o, b>> /\ IsInduced(a, o, b)
    <3>1. PICK y \in CStates \X COperators : /\ Applicable(y[2], y[1])
             /\ x = <<AbstractStateOf(y[1]), y[2], AbstractStateOf(Successor(y[2], y[1]))>>
      BY DEF Induced
    <3>2. AbstractStateOf(y[1]) \in DOMAIN states /\ y[2] \in COperators
          /\ AbstractStateOf(Successor(y[2], y[1])) \in DOMAIN states
      BY AbstractStateIs, SuccessorIsState
    <3>3. IsInduced(AbstractStateOf(y[1]), y[2], AbstractStateOf(Successor(y[2], y[1])))
      BY <3>1
    <3> HIDE DEF IsInduced
    <3> QED
      BY <3>1, <3>2, <3>3
  <2>2. ASSUME NEW x, NEW a \in DOMAIN states, NEW o \in COperators, NEW b \in DOMAIN states,
               x = <<a, o, b>>, IsInduced(a, o, b)
        PROVE  x \in Induced
    <3>1. PICK s \in CStates : /\ Applicable(o, s) /\ a = AbstractStateOf(s)
                               /\ b = AbstractStateOf(Successor(o, s))
      BY <2>2
    <3>a. PICK y : y = <<s, o>>
      OBVIOUS
    <3>2. y \in CStates \X COperators /\ y[1] = s /\ y[2] = o
      BY <3>a
    <3>3. /\ Applicable(y[2], y[1])
          /\ x = <<AbstractStateOf(y[1]), y[2], AbstractStateOf(Successor(y[2], y[1]))>>
      BY <2>2, <3>1, <3>2
    <3> QED
      BY <3>2, <3>3 DEF Induced
  <2> QED
    BY <2>1, <2>2
<1>5. \A x : x \in transitions \union lp <=>
        \E a \in DOMAIN states, o \in COperators, b \in DOMAIN states :
          x = <<a, o, b>> /\ LeadsTo(states[a].set, o, states[b].set)
  <2>1. ASSUME NEW x \in transitions
        PROVE  \E a \in DOMAIN states, o \in COperators, b \in DOMAIN states :
                 x = <<a, o, b>> /\ LeadsTo(states[a].set, o, states[b].set)
    <3>1. x[1] \in DOMAIN states /\ x[2] \in COperators /\ x[3] \in DOMAIN states
          /\ x = <<x[1], x[2], x[3]>> /\ x[1] # x[3]
      BY <1>2 DEF TransitionsOK
    <3>2. LeadsTo(states[x[1]].set, x[2], states[x[3]].set)
      BY <1>2, <3>1 DEF TransitionsOK
    <3> QED
      BY <3>1, <3>2
  <2>2. ASSUME NEW x \in lp
        PROVE  \E a \in DOMAIN states, o \in COperators, b \in DOMAIN states :
                 x = <<a, o, b>> /\ LeadsTo(states[a].set, o, states[b].set)
    <3>1. PICK l \in loops : x = <<l[1], l[2], l[1]>>
      OBVIOUS
    <3>2. l[1] \in DOMAIN states /\ l[2] \in COperators /\ l = <<l[1], l[2]>>
      BY <1>2 DEF TransitionsOK
    <3>3. LeadsTo(states[l[1]].set, l[2], states[l[1]].set)
      BY <1>2, <3>2 DEF TransitionsOK
    <3> QED
      BY <3>1, <3>2, <3>3
  <2>3. ASSUME NEW x, NEW a \in DOMAIN states, NEW o \in COperators, NEW b \in DOMAIN states,
               x = <<a, o, b>>, LeadsTo(states[a].set, o, states[b].set)
        PROVE  x \in transitions \union lp
    <3>1. CASE a # b
      BY <1>2, <2>3, <3>1 DEF TransitionsOK
    <3>2. CASE a = b
      <4>1. <<a, o>> \in loops
        BY <1>2, <2>3, <3>2 DEF TransitionsOK
      <4>2. PICK l \in loops : l[1] = a /\ l[2] = o
        BY <4>1
      <4> QED
        BY <2>3, <3>2, <4>2
    <3> QED
      BY <3>1, <3>2
  <2> QED
    BY <2>1, <2>2, <2>3
<1> HIDE DEF lp, IsInduced
<1>6. transitions \union lp = Induced
  <2>1. \A x : x \in transitions \union lp <=> x \in Induced
    BY <1>3, <1>4, <1>5
  <2> QED
    BY <2>1
<1>7. \A t \in transitions : t[1] # t[3]
  BY <1>2 DEF TransitionsOK
<1>8. \A s \in CStates :
       {id \in DOMAIN states : Includes(states[id].set, s)} = {AbstractStateOf(s)}
  <2> SUFFICES ASSUME NEW s \in CStates
               PROVE  {id \in DOMAIN states : Includes(states[id].set, s)} = {AbstractStateOf(s)}
    OBVIOUS
  <2>1. /\ AbstractStateOf(s) \in DOMAIN states
        /\ \A b \in DOMAIN states : Includes(states[b].set, s) <=> b = AbstractStateOf(s)
    BY AbstractStateIs
  <2> QED
    BY <2>1
<1>9. AbstractStateOf(CInit) = InitId
  BY NodeOfIn DEF AbstractStateOf, AbstractionOK, PartitionOK
<1> QED
  BY <1>6, <1>7, <1>8, <1>9 DEF AbstractionIsInduced, AbstractionOK, lp

\* A single abstract state with all states.
LEMMA TrivialOK ==
  ASSUME NEW sts, NEW nds, sts = TrivialStates, nds = <<Leaf(InitId)>>
  PROVE  /\ StatesOK(sts, 1) /\ HierarchyOK(nds) /\ PartitionOK(sts, nds)
         /\ TransitionsOK(sts, {}, {InitId} \X COperators) /\ 0 = Cardinality({})
<1>1. /\ DOMAIN sts = 0..0 /\ DOMAIN sts = {0} /\ sts[0].set = CDomain /\ sts[0].node = 1
  BY DEF TrivialStates, InitId
<1>2. SetOK(CDomain)
  <2>1. \A v \in CVars : CDomain[v] # {}
    <3>1. \A v \in CVars : CInit[v] \in CDomain[v]
      BY CartesianTask DEF CStates
    <3> QED
      BY <3>1
  <2>2. CDomain = [v \in CVars |-> CDomain[v]]
    BY CartesianTask
  <2> QED
    BY <2>1, <2>2, CartesianTask DEF SetOK
<1>3. StatesOK(sts, 1)
  BY <1>1, <1>2 DEF StatesOK
<1>4. /\ DOMAIN nds = 1..1 /\ DOMAIN nds = {1} /\ Len(nds) = 1
      /\ nds[1].left = Undefined /\ nds[1].value = InitId
  BY DEF Leaf
<1>5. Ranked(nds, [n \in DOMAIN nds |-> 0])
  BY <1>4 DEF Ranked
<1>6. \A s : IsBelow(nds, s, [n \in DOMAIN nds |-> n])
  <2>1. \A s : [n \in DOMAIN nds |-> n] =
          [n \in DOMAIN nds |->
             IF nds[n].left = Undefined THEN n
             ELSE [k \in DOMAIN nds |-> k][IF s[nds[n].var] = nds[n].value THEN nds[n].right ELSE nds[n].left]]
    BY <1>4
  <2> QED
    BY <2>1 DEF IsBelow
<1>7. HierarchyOK(nds)
  <2>1. \A n \in DOMAIN nds : [k \in DOMAIN nds |-> k][n] \in DOMAIN nds
                              /\ nds[[k \in DOMAIN nds |-> k][n]].left = Undefined
    BY <1>4
  <2>2. DOMAIN nds = 1..Len(nds) /\ Len(nds) \in Nat \ {0}
    BY <1>4
  <2> QED
    BY <1>5, <1>6, <2>1, <2>2 DEF HierarchyOK
<1>8. \A s \in CStates : NodeIn(nds, s) = 1
  BY <1>4, <1>7, NodeInLeaf
<1>9. PartitionOK(sts, nds)
  <2>1. \A s \in CStates : Includes(CDomain, s)
    BY IncludesIs DEF CStates
  <2> QED
    BY <1>1, <1>4, <1>8, <2>1, CartesianTask DEF PartitionOK, InitId
<1>10. TransitionsOK(sts, {}, {InitId} \X COperators)
  <2>1. ASSUME NEW o \in COperators PROVE LeadsTo(CDomain, o, CDomain)
    <3>1. ASSUME NEW v \in CVars PROVE Fits(o, v, CDomain[v], CDomain[v])
      <4>1. CDomain[v] # {}
        BY <1>2 DEF SetOK
      <4>2. /\ PostconditionValue(o, v) # Undefined => PostconditionValue(o, v) \in CDomain[v]
            /\ PreconditionValue(o, v) # Undefined => PreconditionValue(o, v) \in CDomain[v]
        BY CartesianTask DEF PostconditionValue, PreconditionValue
      <4> QED
        BY <4>1, <4>2 DEF Fits
    <3> QED
      BY <3>1 DEF LeadsTo
  <2>2. \A l \in {InitId} \X COperators : l[1] \in DOMAIN sts /\ l[2] \in COperators /\ l = <<l[1], l[2]>>
    BY <1>1 DEF InitId
  <2>3. \A a \in DOMAIN sts : \A o \in COperators : <<a, o>> \in {InitId} \X COperators
    BY <1>1 DEF InitId
  <2> QED
    BY <1>1, <2>1, <2>2, <2>3 DEF TransitionsOK
<1> QED
  BY <1>3, <1>7, <1>9, <1>10, FS_EmptySet

-----------------------------------------------------------------------------
(***************************************************************************)
(* Recursive functions over an interval.                                   *)
(***************************************************************************)

LEMMA Induction ==
  ASSUME NEW S, 0 \in S, \A n \in Nat : n \in S => n + 1 \in S
  PROVE  Nat \subseteq S
<1>1. ASSUME Nat \ S # {} PROVE FALSE
  <2>1. PICK x \in Nat \ S : \A y \in Nat \ S : x <= y
    BY <1>1, LeastElement
  <2>2. x # 0 /\ x - 1 \in Nat
    BY <2>1
  <2>3. x - 1 \in S
    BY <2>1, <2>2
  <2> QED
    BY <2>1, <2>2, <2>3
<1> QED
  BY <1>1

\* The recursive functions over 0..n in which step[i] leads from the value for
\* i - 1 to the one for i.
Solutions(X, first, n, step) ==
  {f \in [0..n -> X] : f[0] = first /\ \A i \in 1..n : f[i] = step[i][f[i-1]]}

\* Such a function exists.
LEMMA Recursion ==
  ASSUME NEW X, NEW first \in X, NEW n \in Nat, NEW step \in [1..n -> [X -> X]]
  PROVE  Solutions(X, first, n, step) # {}
<1> DEFINE Upto(m, f) == /\ f \in [0..m -> X] /\ f[0] = first
                         /\ \A i \in 1..m : f[i] = step[i][f[i-1]]
           S == {m \in Nat : m <= n => \E f : Upto(m, f)}
<1>1. 0 \in S
  <2>1. Upto(0, [i \in 0..0 |-> first])
    OBVIOUS
  <2> QED
    BY <2>1
<1>2. ASSUME NEW m \in Nat, m \in S PROVE m + 1 \in S
  <2>1. SUFFICES ASSUME m + 1 <= n PROVE \E f : Upto(m + 1, f)
    OBVIOUS
  <2>2. PICK f : Upto(m, f)
    BY <1>2, <2>1
  <2> DEFINE h == [i \in 0..m+1 |-> IF i = m + 1 THEN step[m+1][f[m]] ELSE f[i]]
  <2>3. f[m] \in X /\ m + 1 \in 1..n
    BY <2>1, <2>2
  <2>4. step[m+1][f[m]] \in X
    BY <2>3
  <2>5. h \in [0..m+1 -> X] /\ h[0] = first
    BY <2>2, <2>4
  <2>6. ASSUME NEW i \in 1..m+1 PROVE h[i] = step[i][h[i-1]]
    <3>1. CASE i = m + 1
      BY <3>1
    <3>2. CASE i # m + 1
      <4>1. i \in 1..m /\ h[i] = f[i] /\ h[i-1] = f[i-1]
        BY <3>2
      <4> QED
        BY <2>2, <4>1
    <3> QED
      BY <3>1, <3>2
  <2> QED
    BY <2>5, <2>6
<1> HIDE DEF S
<1>3. n \in S
  BY <1>1, <1>2, Induction
<1> QED
  BY <1>3 DEF S, Solutions


-----------------------------------------------------------------------------
(***************************************************************************)
(* What may be true before the goal.                                       *)
(***************************************************************************)

\* No operator that does not achieve the goal leads out of the facts.
IsClosed(facts, goal) ==
  \A o \in COperators :
    goal \notin Facts(CEff[o]) /\ Facts(CPre[o]) \subseteq facts => Facts(CEff[o]) \subseteq facts

LEMMA PossibleFacts ==
  ASSUME NEW goal
  PROVE  \E facts : /\ PossibleBefore(goal) = facts \union {goal}
                    /\ Facts(CInit) \subseteq facts /\ IsClosed(facts, goal)
<1> DEFINE N == Cardinality(COperators)
           fewer == {o \in COperators : goal \notin Facts(CEff[o])}
           U == CVars \X UNION Range(CDomain)
           usable(r) == {o \in fewer : Facts(CPre[o]) \subseteq r}
           next(r) == r \union UNION {Facts(CEff[o]) : o \in usable(r)}
           IsReached(f) == f = [n \in 0..N |-> IF n = 0 THEN Facts(CInit) ELSE next(f[n-1])]
           reached == CHOOSE f : IsReached(f)
<1>1. N \in Nat /\ IsFiniteSet(fewer)
  BY CartesianTask, FS_CardinalityType, FS_Subset
<1>2. /\ Facts(CInit) \in SUBSET U /\ \A o \in COperators : Facts(CEff[o]) \in SUBSET U
  <2>1. \A v \in CVars : CDomain[v] \in Range(CDomain)
    BY CartesianTask DEF Range
  <2>2. ASSUME NEW f, DOMAIN f \subseteq CVars, \A v \in DOMAIN f : f[v] \in CDomain[v]
        PROVE  Facts(f) \in SUBSET U
    BY <2>1, <2>2 DEF Facts
  <2>3. DOMAIN CInit = CVars /\ \A v \in CVars : CInit[v] \in CDomain[v]
    BY CartesianTask DEF CStates
  <2>4. \A o \in COperators : DOMAIN CEff[o] \subseteq CVars /\ \A v \in DOMAIN CEff[o] : CEff[o][v] \in CDomain[v]
    BY CartesianTask
  <2> QED
    BY <2>2, <2>3, <2>4
<1>3. \A r \in SUBSET U : next(r) \in SUBSET U
  BY <1>2
<1>4. \E f : IsReached(f)
  <2> DEFINE step == [i \in 1..N |-> [r \in SUBSET U |-> next(r)]]
  <2> HIDE DEF next, U
  <2>1. step \in [1..N -> [SUBSET U -> SUBSET U]]
    BY <1>3
  <2>2. \A i \in 1..N : \A r \in SUBSET U : step[i][r] = next(r)
    OBVIOUS
  <2> HIDE DEF step
  <2>3. PICK f \in [0..N -> SUBSET U] :
          f[0] = Facts(CInit) /\ \A i \in 1..N : f[i] = step[i][f[i-1]]
    <3>1. Facts(CInit) \in SUBSET U
      BY <1>2
    <3>2. Solutions(SUBSET U, Facts(CInit), N, step) # {}
      BY <1>1, <2>1, <3>1, Recursion
    <3> QED
      BY <3>2 DEF Solutions
  <2>4. \A i \in 0..N : i # 0 => i \in 1..N /\ i - 1 \in 0..N
    BY <1>1
  <2>5. \A i \in 0..N : f[i] = IF i = 0 THEN Facts(CInit) ELSE next(f[i-1])
    BY <2>2, <2>3, <2>4
  <2>6. f = [n \in 0..N |-> f[n]]
    BY <2>3
  <2>7. IsReached(f)
    BY <2>5, <2>6
  <2> QED
    BY <2>7
<1>5. IsReached(reached)
  BY <1>4
<1>6. PossibleBefore(goal) = reached[N] \union {goal}
  BY DEF PossibleBefore
<1> HIDE DEF reached
<1>7. reached[0] = Facts(CInit) /\ \A i \in Nat : i + 1 <= N => reached[i+1] = next(reached[i])
  <2> HIDE DEF next
  <2>1. 0 \in 0..N
    BY <1>1
  <2>2. ASSUME NEW i \in Nat, i + 1 <= N PROVE reached[i+1] = next(reached[i])
    <3>1. PICK k \in 0..N : k = i + 1 /\ k # 0 /\ k - 1 = i
      BY <1>1, <2>2
    <3>2. reached[k] = next(reached[k-1])
      BY <1>5, <3>1
    <3> QED
      BY <3>1, <3>2
  <2> QED
    BY <1>5, <2>1, <2>2
<1> DEFINE C(i) == Cardinality(usable(reached[i]))
           closed(i) == usable(next(reached[i])) = usable(reached[i])
           S == {i \in Nat : i <= N => /\ Facts(CInit) \subseteq reached[i]
                                       /\ IsClosed(reached[i], goal) \/ C(i) >= i + 1}
<1>8. \A i : IsFiniteSet(usable(reached[i])) /\ C(i) \in Nat
  <2>1. \A i : usable(reached[i]) \subseteq fewer
    OBVIOUS
  <2> HIDE DEF usable, fewer
  <2> QED
    BY <1>1, <2>1, FS_Subset, FS_CardinalityType
<1>9. 0 \in S
  <2>1. CASE usable(reached[0]) = {}
    <3>1. IsClosed(reached[0], goal)
      BY <2>1 DEF IsClosed
    <3> QED
      BY <1>7, <3>1
  <2>2. CASE usable(reached[0]) # {}
    <3>1. C(0) # 0
      <4> HIDE DEF usable
      <4> QED
        BY <1>8, <2>2, FS_EmptySet
    <3>2. C(0) \in Nat
      BY <1>8
    <3> HIDE DEF C
    <3>3. C(0) >= 0 + 1
      BY <3>1, <3>2
    <3> QED
      BY <1>7, <3>3
  <2> QED
    BY <2>1, <2>2
<1>10. ASSUME NEW i \in Nat, i \in S PROVE i + 1 \in S
  <2> SUFFICES ASSUME i + 1 <= N
               PROVE  /\ Facts(CInit) \subseteq reached[i+1]
                      /\ IsClosed(reached[i+1], goal) \/ C(i+1) >= i + 1 + 1
    OBVIOUS
  <2>0. i <= N
    BY <1>1
  <2>1. reached[i+1] = next(reached[i]) /\ reached[i] \subseteq reached[i+1]
    BY <1>7
  <2>2. Facts(CInit) \subseteq reached[i]
    BY <1>10, <2>0
  <2>3. usable(reached[i]) \subseteq usable(reached[i+1])
    BY <2>1
  <2>4. ASSUME usable(reached[i+1]) = usable(reached[i]) PROVE IsClosed(reached[i+1], goal)
    <3>1. ASSUME NEW o \in COperators, goal \notin Facts(CEff[o]), Facts(CPre[o]) \subseteq reached[i+1]
          PROVE  Facts(CEff[o]) \subseteq reached[i+1]
      <4>1. o \in usable(reached[i+1])
        BY <3>1
      <4>2. o \in usable(reached[i])
        BY <2>4, <4>1
      <4> QED
        BY <2>1, <4>2
    <3> QED
      BY <3>1 DEF IsClosed
  <2>5. ASSUME IsClosed(reached[i], goal) PROVE IsClosed(reached[i+1], goal)
    <3>1. next(reached[i]) = reached[i]
      BY <2>5 DEF IsClosed
    <3> QED
      BY <2>1, <2>5, <3>1
  <2>6. ASSUME usable(reached[i+1]) # usable(reached[i]), C(i) >= i + 1 PROVE C(i+1) >= i + 1 + 1
    <3> DEFINE a == usable(reached[i])
               b == usable(reached[i+1])
    <3>1. a \subseteq b /\ a # b /\ IsFiniteSet(b) /\ IsFiniteSet(a)
      BY <1>8, <2>3, <2>6
    <3>2. Cardinality(a) = C(i) /\ Cardinality(b) = C(i+1)
      OBVIOUS
    <3> HIDE DEF a, b, C
    <3>3. Cardinality(a) <= Cardinality(b) /\ Cardinality(a) # Cardinality(b)
      BY <3>1, FS_Subset
    <3>4. C(i) \in Nat /\ C(i+1) \in Nat
      BY <1>8
    <3> QED
      BY <2>6, <3>2, <3>3, <3>4
  <2> HIDE DEF usable, C, next
  <2> QED
    BY <1>10, <2>0, <2>1, <2>2, <2>4, <2>5, <2>6
<1>11. N \in S
  <2> HIDE DEF S
  <2> QED
    BY <1>1, <1>9, <1>10, Induction
<1>12. C(N) <= N
  <2>1. usable(reached[N]) \subseteq COperators
    OBVIOUS
  <2> HIDE DEF usable
  <2> QED
    BY <2>1, CartesianTask, FS_Subset
<1>13. Facts(CInit) \subseteq reached[N] /\ IsClosed(reached[N], goal)
  <2>1. C(N) \in Nat
    BY <1>8
  <2> HIDE DEF C
  <2>2. ~(C(N) >= N + 1)
    BY <1>1, <1>12, <2>1
  <2> QED
    BY <1>1, <1>11, <2>2
<1> QED
  BY <1>6, <1>13

-----------------------------------------------------------------------------
(***************************************************************************)
(* Subgoals, and the states that cannot be before one.                     *)
(***************************************************************************)

\* The subgoal is one fact: a landmark or a single goal.
IsSingle == Cardinality(DOMAIN subgoal) = 1

\* No state of the set can be reached before the goal fact.
IsImpossible(set, goal) ==
  \E v \in CVars : \A d \in set[v] : <<v, d>> \notin PossibleBefore(goal)

LEMMA SubgoalFacts ==
  ASSUME NEW goal \in Subgoals
  PROVE  /\ DOMAIN goal \subseteq CVars /\ DOMAIN goal # {} /\ IsFiniteSet(DOMAIN goal)
         /\ \A v \in DOMAIN goal : goal[v] \in CDomain[v]
<1>1. PICK vars \in (SUBSET CVars) \ {{}} : goal \in [vars -> UNION Range(CDomain)]
  BY DEF Subgoals
<1>2. DOMAIN goal \subseteq CVars /\ DOMAIN goal # {}
  BY <1>1
<1>3. IsFiniteSet(DOMAIN goal)
  BY <1>2, CartesianTask, FS_Subset
<1> QED
  BY <1>2, <1>3 DEF Subgoals

\* A single subgoal is the goal fact, and it is not true at first.
LEMMA GoalFactIs ==
  ASSUME subgoal \in Subgoals, IsSingle
  PROVE  /\ GoalFact[1] \in CVars /\ DOMAIN subgoal = {GoalFact[1]}
         /\ GoalFact[2] = subgoal[GoalFact[1]] /\ GoalFact = <<GoalFact[1], GoalFact[2]>>
         /\ GoalFact[2] \in CDomain[GoalFact[1]] /\ GoalFact[2] # CInit[GoalFact[1]]
<1>1. /\ DOMAIN subgoal \subseteq CVars /\ IsFiniteSet(DOMAIN subgoal)
      /\ \A v \in DOMAIN subgoal : subgoal[v] \in CDomain[v]
  BY SubgoalFacts
<1>2. PICK gv : DOMAIN subgoal = {gv}
  BY <1>1, FS_Singleton DEF IsSingle
<1>3. Facts(subgoal) = {<<gv, subgoal[gv]>>}
  BY <1>2 DEF Facts
<1>4. GoalFact = <<gv, subgoal[gv]>>
  BY <1>3 DEF GoalFact
<1>5. GoalFact[1] = gv /\ GoalFact[2] = subgoal[gv]
  BY <1>4
<1>6. subgoal[gv] # CInit[gv]
  <2>1. \A f \in Facts(subgoal) : f \notin Facts(CInit)
    BY DEF Subgoals, IsSingle
  <2>2. <<gv, subgoal[gv]>> \notin Facts(CInit)
    BY <1>3, <2>1
  <2>3. gv \in DOMAIN CInit
    BY <1>1, <1>2, CartesianTask DEF CStates
  <2> QED
    BY <2>2, <2>3 DEF Facts
<1> QED
  BY <1>1, <1>2, <1>4, <1>5, <1>6

LEMMA IncludesGoal ==
  ASSUME NEW set
  PROVE  Includes(set, subgoal) <=> \A v \in DOMAIN subgoal : subgoal[v] \in set[v]
BY DEF Includes

LEMMA SingleCardinality == \A x : Cardinality({x}) = 1
BY FS_Singleton

-----------------------------------------------------------------------------
(***************************************************************************)
(* Separating the goal from the other states.                              *)
(***************************************************************************)

\* The variables of vars, each once.
Distinct(vars) ==
  /\ \A i \in 1..Len(vars) : vars[i] \in CVars
  /\ \A i, j \in 1..Len(vars) : vars[i] = vars[j] => i = j

\* The state 0 is not split yet in the variables to come, and contains the goal
\* fact; the others cannot be reached before it.
SeparatingFacts ==
  phase = "separate" =>
    /\ subgoal \in Subgoals /\ IsSingle
    /\ todo \in Seq(Nat) /\ Distinct(todo)
    /\ \A i \in 1..Len(todo) : states[InitId].set[todo[i]] = CDomain[todo[i]]
    /\ \A id \in DOMAIN states : id # InitId => IsImpossible(states[id].set, GoalFact)
    /\ GoalFact[2] \in states[InitId].set[GoalFact[1]]

\* The first of todo is the goal state, which is not split yet in the variables to
\* come and has the goal values of the others; the other states miss a goal value.
SeparatingGoals ==
  phase = "split_goals" =>
    /\ subgoal \in Subgoals
    /\ todo \in Seq(Nat) /\ Len(todo) > 1 /\ todo[1] \in DOMAIN states
    /\ Distinct(Tail(todo)) /\ \A i \in 2..Len(todo) : todo[i] \in DOMAIN subgoal
    /\ goals = {todo[1]}
    /\ \A v \in DOMAIN subgoal :
         states[todo[1]].set[v] =
           IF \E i \in 2..Len(todo) : todo[i] = v THEN CDomain[v] ELSE {subgoal[v]}
    /\ \A id \in DOMAIN states :
         id # todo[1] => \E v \in DOMAIN subgoal : subgoal[v] \notin states[id].set[v]

\* An abstract goal state has the goal values in all its states, or cannot be reached
\* before the goal fact; the others have the goal values in none.
Separated(sts, ids) ==
  /\ ids \subseteq DOMAIN sts
  /\ \A id \in DOMAIN sts :
       IF id \in ids
       THEN \/ \A v \in DOMAIN subgoal : sts[id].set[v] = {subgoal[v]}
            \/ IsSingle /\ IsImpossible(sts[id].set, GoalFact)
       ELSE \E v \in DOMAIN subgoal : subgoal[v] \notin sts[id].set[v]

\* In the initial state of a split of the state 0 that does not take its value, the
\* rest keeps the id 0.
LEMMA InitStays ==
  ASSUME AbstractionOK, AbstractionOK', NEW var \in CVars, NEW wanted, NEW goal_ids, NEW idw, NEW idr,
         SplitInto(InitId, var, wanted, goal_ids, idw, idr), CInit[var] \notin wanted
  PROVE  idr = InitId /\ idw = NumStates
<1>1. /\ InitId \in DOMAIN states' /\ Includes(states'[InitId].set, CInit)
  BY CartesianTask DEF AbstractionOK, PartitionOK
<1>2. CInit[var] \in states'[InitId].set[var]
  BY <1>1, CartesianTask, IncludesIs
<1>3. states'[idw].set[var] = wanted
  BY DEF SplitInto
<1>4. idw # InitId
  BY <1>2, <1>3
<1> QED
  BY <1>4 DEF SplitInto

LEMMA InitIn ==
  ASSUME AbstractionOK
  PROVE  InitId \in DOMAIN states /\ \A v \in CVars : CInit[v] \in states[InitId].set[v]
<1>1. InitId \in DOMAIN states /\ Includes(states[InitId].set, CInit)
  BY CartesianTask DEF AbstractionOK, PartitionOK
<1> QED
  BY <1>1, CartesianTask, IncludesIs

LEMMA SetsIn ==
  ASSUME AbstractionOK, NEW id \in DOMAIN states
  PROVE  SetOK(states[id].set)
BY DEF AbstractionOK, StatesOK

LEMMA InitPossible ==
  ASSUME NEW goal, NEW v \in CVars
  PROVE  <<v, CInit[v]>> \in PossibleBefore(goal)
<1>1. PICK facts : /\ PossibleBefore(goal) = facts \union {goal}
                   /\ Facts(CInit) \subseteq facts /\ IsClosed(facts, goal)
  BY PossibleFacts, Zenon
<1>2. DOMAIN CInit = CVars
  BY CartesianTask DEF CStates
<1>3. <<v, CInit[v]>> \in Facts(CInit)
  BY <1>2 DEF Facts
<1> QED
  BY <1>1, <1>3

LEMMA GoalPossible ==
  ASSUME NEW goal PROVE goal \in PossibleBefore(goal)
<1>1. PICK facts : /\ PossibleBefore(goal) = facts \union {goal}
                   /\ Facts(CInit) \subseteq facts /\ IsClosed(facts, goal)
  BY PossibleFacts, Zenon
<1> QED
  BY <1>1

\* separate_facts_unreachable_before_goal splits off what cannot be before the goal.
LEMMA SeparateUnreachableKeeps ==
  ASSUME AbstractionOK, SeparatingFacts, SeparateUnreachable
  PROVE  AbstractionOK' /\ SeparatingFacts' /\ subgoal' = subgoal
<1> DEFINE var == Head(todo)
           goal == GoalFact
           unreachable == {d \in CDomain[var] : <<var, d>> \notin PossibleBefore(goal)}
<1>1. /\ phase = "separate" /\ todo # <<>> /\ phase' = phase /\ todo' = Tail(todo)
      /\ IF unreachable = {} THEN UNCHANGED abstractionvars
         ELSE Refine(InitId, var, unreachable, goals)
  BY DEF SeparateUnreachable
<1>2. /\ subgoal \in Subgoals /\ IsSingle /\ todo \in Seq(Nat) /\ Distinct(todo)
      /\ \A i \in 1..Len(todo) : states[InitId].set[todo[i]] = CDomain[todo[i]]
      /\ \A id \in DOMAIN states : id # InitId => IsImpossible(states[id].set, goal)
      /\ goal[2] \in states[InitId].set[goal[1]]
  BY <1>1 DEF SeparatingFacts
<1>3. /\ var = todo[1] /\ 1 \in 1..Len(todo) /\ var \in CVars
      /\ Tail(todo) \in Seq(Nat) /\ Len(Tail(todo)) = Len(todo) - 1 /\ Len(todo) \in Nat
      /\ \A i \in 1..Len(todo) - 1 : Tail(todo)[i] = todo[i+1]
  BY <1>1, <1>2 DEF Distinct
<1>4. /\ Distinct(todo')
      /\ \A i \in 1..Len(todo') : todo'[i] # var /\ todo'[i] \in CVars /\ \E j \in 1..Len(todo) : todo'[i] = todo[j]
  <2> HIDE DEF var
  <2>1. PICK k \in Nat : Len(todo) = k + 1
    <3>1. Len(todo) - 1 \in Nat /\ Len(todo) = (Len(todo) - 1) + 1
      BY <1>3
    <3> QED
      BY <3>1
  <2>2. Len(todo') = k /\ \A i \in 1..k : todo'[i] = todo[i+1]
    BY <1>1, <1>3, <2>1
  <2>3. \A i \in 1..k : i + 1 \in 1..k+1 /\ i + 1 # 1
    OBVIOUS
  <2>4. \A i, j \in 1..k : i + 1 = j + 1 => i = j
    OBVIOUS
  <2>5. /\ \A i \in 1..k+1 : todo[i] \in CVars
        /\ \A i, j \in 1..k+1 : todo[i] = todo[j] => i = j
        /\ 1 \in 1..k+1
    BY <1>2, <1>3, <2>1 DEF Distinct
  <2>6. \A i \in 1..k : todo'[i] # var /\ todo'[i] \in CVars /\ \E j \in 1..k+1 : todo'[i] = todo[j]
    <3> SUFFICES ASSUME NEW i \in 1..k
                 PROVE  todo'[i] # var /\ todo'[i] \in CVars /\ \E j \in 1..k+1 : todo'[i] = todo[j]
      OBVIOUS
    <3>1. i + 1 \in 1..k+1 /\ i + 1 # 1 /\ todo'[i] = todo[i+1]
      BY <2>2, <2>3
    <3> QED
      BY <1>3, <2>5, <3>1
  <2>7. \A i, j \in 1..k : todo'[i] = todo'[j] => i = j
    <3> SUFFICES ASSUME NEW i \in 1..k, NEW j \in 1..k, todo'[i] = todo'[j] PROVE i = j
      OBVIOUS
    <3>1. i + 1 \in 1..k+1 /\ j + 1 \in 1..k+1 /\ todo[i+1] = todo[j+1]
      BY <2>2, <2>3
    <3>2. i + 1 = j + 1
      BY <2>5, <3>1
    <3> QED
      BY <2>4, <3>2
  <2> QED
    BY <2>1, <2>2, <2>6, <2>7 DEF Distinct
<1>5. CASE unreachable = {}
  <2>1. UNCHANGED abstractionvars
    BY <1>1, <1>5
  <2>2. subgoal' = subgoal /\ states' = states
    BY <2>1 DEF abstractionvars
  <2>3. AbstractionOK'
    BY <2>1 DEF AbstractionOK, abstractionvars
  <2>4. IsSingle' /\ GoalFact' = GoalFact
    BY <1>2, <2>2 DEF IsSingle, GoalFact
  <2>5. SeparatingFacts'
    BY <1>1, <1>2, <1>3, <1>4, <2>2, <2>4 DEF SeparatingFacts
  <2> QED
    BY <2>2, <2>3, <2>5
<1>6. CASE unreachable # {}
  <2>1. Refine(InitId, var, unreachable, goals)
    BY <1>1, <1>6
  <2>2. states[InitId].set[var] = CDomain[var]
    BY <1>2, <1>3
  <2>3. CInit[var] \in CDomain[var] /\ CInit[var] \notin unreachable /\ InitId \in DOMAIN states
    BY <1>3, <2>2, InitIn, InitPossible
  <2>4. MaySplit(InitId, var, unreachable)
    BY <1>3, <1>6, <2>2, <2>3 DEF MaySplit
  <2> HIDE DEF unreachable, var
  <2>5. AbstractionOK' /\ \E idw, idr : SplitInto(InitId, var, unreachable, goals, idw, idr)
    BY <2>1, <2>4, RefineKeeps
  <2>6. PICK idw, idr : SplitInto(InitId, var, unreachable, goals, idw, idr)
    BY <2>5, Zenon
  <2>7. idr = InitId /\ idw = NumStates
    BY <1>3, <2>3, <2>5, <2>6, InitStays
  <2>8. /\ \A x \in CVars :
             /\ states'[idw].set[x] = IF x = var THEN unreachable ELSE states[InitId].set[x]
             /\ states'[idr].set[x] = IF x = var THEN states[InitId].set[var] \ unreachable ELSE states[InitId].set[x]
        /\ \A id \in DOMAIN states : id # InitId => states'[id] = states[id]
        /\ NumStates \in Nat /\ DOMAIN states' = 0..NumStates /\ DOMAIN states = 0..NumStates-1
        /\ subgoal' = subgoal
    BY <2>6 DEF SplitInto
  <2>9. IsSingle' /\ GoalFact' = goal
    BY <1>2, <2>8 DEF IsSingle, GoalFact
  <2>10. ASSUME NEW id \in DOMAIN states', id # InitId
         PROVE  IsImpossible(states'[id].set, goal)
    <3>1. CASE id = idw
      <4>1. \A d \in states'[id].set[var] : <<var, d>> \notin PossibleBefore(goal)
        BY <1>3, <2>8, <3>1 DEF unreachable
      <4> QED
        BY <1>3, <4>1 DEF IsImpossible
    <3>2. CASE id # idw
      <4>1. id \in DOMAIN states
        BY <2>7, <2>8, <3>2
      <4> QED
        BY <1>2, <2>8, <2>10, <4>1
    <3> QED
      BY <3>1, <3>2
  <2>11. ASSUME NEW i \in 1..Len(todo')
         PROVE  states'[InitId].set[todo'[i]] = CDomain[todo'[i]]
    <3>1. todo'[i] \in CVars /\ todo'[i] # var
      BY <1>4
    <3>2. PICK j \in 1..Len(todo) : todo'[i] = todo[j]
      BY <1>4
    <3>3. states[InitId].set[todo[j]] = CDomain[todo[j]]
      BY <1>2
    <3> QED
      BY <2>7, <2>8, <3>1, <3>2, <3>3
  <2>12. goal[2] \in states'[InitId].set[goal[1]]
    <3>1. goal[1] \in CVars /\ goal = <<goal[1], goal[2]>>
      BY <1>2, GoalFactIs
    <3>2. goal[2] \notin unreachable \/ goal[1] # var
      BY <3>1, GoalPossible DEF unreachable
    <3> HIDE DEF goal
    <3> QED
      BY <1>2, <2>7, <2>8, <3>1, <3>2
  <2>13. SeparatingFacts'
    <3> HIDE DEF goal
    <3>1. GoalFact' = goal /\ subgoal' \in Subgoals /\ IsSingle' /\ todo' \in Seq(Nat)
      BY <1>1, <1>2, <1>3, <2>8, <2>9
    <3> QED
      BY <1>4, <2>10, <2>11, <2>12, <3>1 DEF SeparatingFacts
  <2> QED
    BY <2>5, <2>8, <2>13
<1> QED
  BY <1>5, <1>6

LEMMA SplitOffGoalKeeps ==
  ASSUME AbstractionOK, SeparatingFacts, SplitOffGoal
  PROVE  AbstractionOK' /\ Separated(states, goals)' /\ subgoal' = subgoal
<1> DEFINE goal == GoalFact
<1>1. phase = "separate" /\ Refine(InitId, goal[1], {goal[2]}, DOMAIN states)
  BY DEF SplitOffGoal
<1>2. /\ subgoal \in Subgoals /\ IsSingle
      /\ \A id \in DOMAIN states : id # InitId => IsImpossible(states[id].set, goal)
      /\ goal[2] \in states[InitId].set[goal[1]]
  BY <1>1 DEF SeparatingFacts
<1>3. /\ goal[1] \in CVars /\ DOMAIN subgoal = {goal[1]}
      /\ goal[2] = subgoal[goal[1]] /\ goal[2] # CInit[goal[1]]
  BY <1>2, GoalFactIs
<1> HIDE DEF goal
<1>4. MaySplit(InitId, goal[1], {goal[2]})
  <2>1. CInit[goal[1]] \in states[InitId].set[goal[1]] /\ InitId \in DOMAIN states
    BY <1>3, InitIn
  <2> QED
    BY <1>2, <1>3, <2>1 DEF MaySplit
<1>5. AbstractionOK' /\ \E idw, idr : SplitInto(InitId, goal[1], {goal[2]}, DOMAIN states, idw, idr)
  BY <1>1, <1>4, RefineKeeps
<1>6. PICK idw, idr : SplitInto(InitId, goal[1], {goal[2]}, DOMAIN states, idw, idr)
  BY <1>5, Zenon
<1>7. idr = InitId /\ idw = NumStates
  <2>1. CInit[goal[1]] \notin {goal[2]}
    BY <1>3
  <2> QED
    BY <1>3, <1>5, <1>6, <2>1, InitStays
<1>8. /\ \A x \in CVars :
           /\ states'[idw].set[x] = IF x = goal[1] THEN {goal[2]} ELSE states[InitId].set[x]
           /\ states'[idr].set[x] = IF x = goal[1] THEN states[InitId].set[goal[1]] \ {goal[2]}
                                    ELSE states[InitId].set[x]
      /\ \A id \in DOMAIN states : id # InitId => states'[id] = states[id]
      /\ NumStates \in Nat /\ NumStates > 0 /\ DOMAIN states' = 0..NumStates /\ DOMAIN states = 0..NumStates-1
      /\ goals' = (DOMAIN states \ {InitId}) \union
           (IF InitId \in DOMAIN states THEN {w \in {idw, idr} : Includes(states'[w].set, subgoal)} ELSE {})
      /\ subgoal' = subgoal
  BY <1>6 DEF SplitInto
<1>9. IsSingle' /\ GoalFact' = goal
  BY <1>2, <1>8 DEF IsSingle, GoalFact, goal
<1>10. /\ goal[2] \in states'[idw].set[goal[1]] /\ states'[idw].set[goal[1]] = {goal[2]}
       /\ goal[2] \notin states'[idr].set[goal[1]]
  BY <1>3, <1>8
<1>11. /\ Includes(states'[idw].set, subgoal) /\ ~Includes(states'[idr].set, subgoal)
  BY <1>3, <1>10, IncludesGoal
<1>12. goals' = (DOMAIN states \ {InitId}) \union {idw}
  <2>1. InitId \in DOMAIN states
    BY InitIn
  <2>2. {w \in {idw, idr} : Includes(states'[w].set, subgoal)} = {idw}
    BY <1>11
  <2> QED
    BY <1>8, <2>1, <2>2
<1>13. ASSUME NEW id \in DOMAIN states'
       PROVE  IF id \in goals'
              THEN \/ \A v \in DOMAIN subgoal : states'[id].set[v] = {subgoal[v]}
                   \/ IsImpossible(states'[id].set, goal)
              ELSE \E v \in DOMAIN subgoal : subgoal[v] \notin states'[id].set[v]
  <2>1. CASE id = idw
    BY <1>3, <1>10, <1>12, <2>1
  <2>2. CASE id = InitId
    BY <1>3, <1>7, <1>8, <1>10, <1>12, <2>2 DEF InitId
  <2>3. CASE id # idw /\ id # InitId
    <3>1. id \in DOMAIN states
      BY <1>7, <1>8, <2>3
    <3> QED
      BY <1>2, <1>8, <1>12, <2>3, <3>1
  <2> QED
    BY <2>1, <2>2, <2>3
<1>14. goals' \subseteq DOMAIN states'
  BY <1>7, <1>8, <1>12
<1> QED
  BY <1>5, <1>8, <1>9, <1>13, <1>14 DEF Separated

\* t has x in the place of the first two elements of s.
IsNext(t, s, x) ==
  /\ t \in Seq(Nat) /\ Len(t) = Len(s) - 1 /\ t[1] = x
  /\ \A i \in 2..Len(t) : t[i] = s[i+1]

\* The rest of todo behind a goal state and a variable, and behind the next state.
LEMMA NextTodo ==
  ASSUME NEW s \in Seq(Nat), Len(s) > 1, NEW x \in Nat, NEW t, t = <<x>> \o Tail(Tail(s))
  PROVE  /\ IsNext(t, s, x)
         /\ (Tail(Tail(s)) = <<>>) <=> (Len(s) = 2)
         /\ Head(s) = s[1] /\ Len(s) \in Nat
<1> DEFINE a == Tail(s)
           r == Tail(a)
<1>1. /\ Len(s) \in Nat /\ Head(s) = s[1] /\ a \in Seq(Nat) /\ Len(a) = Len(s) - 1
      /\ \A i \in 1..Len(s)-1 : a[i] = s[i+1]
  <2>1. s # <<>>
    OBVIOUS
  <2> QED
    BY <2>1
<1> HIDE DEF a
<1>2. /\ r \in Seq(Nat) /\ Len(r) = Len(s) - 2 /\ \A i \in 1..Len(s)-2 : r[i] = a[i+1]
  <2>1. a # <<>> /\ Len(a) \in Nat /\ Len(a) - 1 = Len(s) - 2
    BY <1>1
  <2>2. /\ r \in Seq(Nat) /\ Len(r) = Len(a) - 1 /\ \A i \in 1..Len(a)-1 : r[i] = a[i+1]
    BY <1>1, <2>1
  <2> QED
    BY <2>1, <2>2
<1>a. t = <<x>> \o r
  BY DEF a
<1>3. \A i \in 1..Len(s)-2 : r[i] = s[i+2]
  <2> SUFFICES ASSUME NEW i \in 1..Len(s)-2 PROVE r[i] = s[i+2]
    OBVIOUS
  <2>1. r[i] = a[i+1] /\ i + 1 \in 1..Len(s)-1
    BY <1>1, <1>2
  <2>2. PICK j \in 1..Len(s)-1 : j = i + 1 /\ j + 1 = i + 2
    BY <2>1
  <2>3. a[j] = s[j+1]
    BY <1>1
  <2> QED
    BY <2>1, <2>2, <2>3
<1> HIDE DEF r
<1>4. t \in Seq(Nat) /\ Len(t) = Len(s) - 1 /\ t[1] = x
  <2>1. <<x>> \in Seq(Nat) /\ Len(<<x>>) = 1
    OBVIOUS
  <2> QED
    BY <1>1, <1>2, <1>a, <2>1
<1>5. \A i \in 2..Len(s)-1 : t[i] = s[i+1]
  <2> SUFFICES ASSUME NEW i \in 2..Len(s)-1 PROVE t[i] = s[i+1]
    OBVIOUS
  <2>1. PICK j \in 1..Len(s)-2 : i = j + 1 /\ i + 1 = j + 2
    BY <1>1
  <2>2. t[i] = r[i-1]
    <3>1. <<x>> \in Seq(Nat) /\ Len(<<x>>) = 1 /\ i - 1 \in 1..Len(r) /\ i \in 1..Len(r) + 1 /\ i > 1
      BY <1>1, <1>2
    <3>2. \A k \in 1..Len(<<x>>) + Len(r) :
             (<<x>> \o r)[k] = IF k <= Len(<<x>>) THEN <<x>>[k] ELSE r[k - Len(<<x>>)]
      BY <1>2, <3>1, ConcatProperties
    <3>3. i \in 1..Len(<<x>>) + Len(r) /\ ~(i <= Len(<<x>>))
      BY <1>1, <1>2, <3>1
    <3> QED
      BY <1>a, <3>1, <3>2, <3>3
  <2>3. i - 1 = j
    BY <2>1
  <2> QED
    BY <1>3, <2>1, <2>2, <2>3
<1>6. (r = <<>>) <=> (Len(s) = 2)
  <2>1. (r = <<>>) <=> (Len(r) = 0)
    <3>1. r \in Seq(Nat)
      BY <1>2
    <3> QED
      BY <3>1
  <2>2. PICK k \in Nat : k = Len(s)
    BY <1>1
  <2>3. (k - 2 = 0) <=> (k = 2)
    OBVIOUS
  <2> QED
    BY <1>2, <2>1, <2>2, <2>3
<1> QED
  BY <1>1, <1>4, <1>5, <1>6 DEF a, r, IsNext

LEMMA SplitNextGoalKeeps ==
  ASSUME AbstractionOK, SeparatingGoals, SplitNextGoal
  PROVE  /\ AbstractionOK' /\ subgoal' = subgoal
         /\ (phase' = "dijkstra" /\ Recompute(DOMAIN states', goals') /\ Separated(states, goals)')
            \/ (phase' = phase /\ UNCHANGED treevars /\ SeparatingGoals')
<1> DEFINE current == Head(todo)
           var == todo[2]
           wanted == IF KeepInitial(current, {subgoal[var]}, var) THEN current ELSE NumStates
           rest == Tail(Tail(todo))
<1>1. /\ phase = "split_goals"
      /\ Refine(current, var, {subgoal[var]}, goals)
      /\ IF rest = <<>>
         THEN Recompute(DOMAIN states', goals') /\ phase' = "dijkstra" /\ todo' = <<>>
         ELSE todo' = <<wanted>> \o rest /\ UNCHANGED <<phase, treevars>>
  BY DEF SplitNextGoal
<1>2. /\ subgoal \in Subgoals
      /\ todo \in Seq(Nat) /\ Len(todo) > 1 /\ todo[1] \in DOMAIN states
      /\ Distinct(Tail(todo)) /\ \A i \in 2..Len(todo) : todo[i] \in DOMAIN subgoal
      /\ goals = {todo[1]}
      /\ \A v \in DOMAIN subgoal :
           states[todo[1]].set[v] =
             IF \E i \in 2..Len(todo) : todo[i] = v THEN CDomain[v] ELSE {subgoal[v]}
      /\ \A id \in DOMAIN states :
           id # todo[1] => \E v \in DOMAIN subgoal : subgoal[v] \notin states[id].set[v]
  BY <1>1 DEF SeparatingGoals
<1>3. Len(todo) \in Nat /\ current = todo[1] /\ ((rest = <<>>) <=> (Len(todo) = 2)) /\ 2 \in 2..Len(todo)
  <2>1. /\ (Tail(Tail(todo)) = <<>>) <=> (Len(todo) = 2)
        /\ Head(todo) = todo[1] /\ Len(todo) \in Nat
    BY <1>2, NextTodo
  <2>2. 2 \in 2..Len(todo)
    BY <1>2, <2>1
  <2> QED
    BY <2>1, <2>2
<1>4. /\ DOMAIN subgoal \subseteq CVars /\ DOMAIN subgoal # {}
      /\ \A v \in DOMAIN subgoal : subgoal[v] \in CDomain[v]
  BY <1>2, SubgoalFacts
<1>5. var \in DOMAIN subgoal /\ states[current].set[var] = CDomain[var] /\ current \in DOMAIN states
  BY <1>2, <1>3
<1>6. MaySplit(current, var, {subgoal[var]})
  <2>1. var \in CVars /\ Cardinality(CDomain[var]) > 1
    BY <1>4, <1>5, CartesianTask
  <2>2. CDomain[var] # {subgoal[var]}
    BY <2>1, SingleCardinality
  <2>3. Cardinality({subgoal[var]}) = 1
    BY SingleCardinality
  <2> HIDE DEF var, current
  <2> QED
    BY <1>4, <1>5, <2>1, <2>2, <2>3 DEF MaySplit
<1>7. /\ AbstractionOK'
      /\ \E idw, idr : SplitInto(current, var, {subgoal[var]}, goals, idw, idr)
  BY <1>1, <1>6, RefineKeeps
<1>8. PICK idw, idr : SplitInto(current, var, {subgoal[var]}, goals, idw, idr)
  BY <1>7, Zenon
<1>9. /\ \A x \in CVars :
           /\ states'[idw].set[x] = IF x = var THEN {subgoal[var]} ELSE states[current].set[x]
           /\ states'[idr].set[x] = IF x = var THEN states[current].set[var] \ {subgoal[var]}
                                    ELSE states[current].set[x]
      /\ \A id \in DOMAIN states : id # current => states'[id] = states[id]
      /\ NumStates \in Nat /\ NumStates > 0 /\ DOMAIN states' = 0..NumStates /\ DOMAIN states = 0..NumStates-1
      /\ (idw = current /\ idr = NumStates) \/ (idw = NumStates /\ idr = current)
      /\ subgoal' = subgoal
  BY <1>8 DEF SplitInto
<1>10. goals' = (goals \ {current}) \union
           (IF current \in goals THEN {w \in {idw, idr} : Includes(states'[w].set, subgoal)} ELSE {})
  BY <1>8 DEF SplitInto
<1>11. idw = wanted
  <2>1. Cardinality({subgoal[var]}) = 1
    BY SingleCardinality
  <2> QED
    BY <1>8, <2>1 DEF SplitInto
<1> HIDE DEF wanted, rest
<1>12. idw \in 0..NumStates /\ idw \in Nat
  <2> HIDE DEF var, current
  <2> QED
    BY <1>5, <1>9
<1> HIDE DEF var, current
<1>13. ASSUME NEW v \in DOMAIN subgoal
       PROVE  subgoal[v] \in states'[idw].set[v]
  <2>1. subgoal[v] \in states[current].set[v]
    BY <1>2, <1>3, <1>4
  <2> QED
    BY <1>4, <1>9, <2>1
<1>14. Includes(states'[idw].set, subgoal) /\ ~Includes(states'[idr].set, subgoal)
  <2>1. subgoal[var] \notin states'[idr].set[var]
    BY <1>4, <1>5, <1>9
  <2> QED
    BY <1>5, <1>13, <2>1, IncludesGoal
<1>15. goals' = {idw}
  BY <1>2, <1>3, <1>10, <1>14
<1>16. ASSUME NEW id \in DOMAIN states', id # idw
       PROVE  \E v \in DOMAIN subgoal : subgoal[v] \notin states'[id].set[v]
  <2>1. CASE id = idr
    BY <1>4, <1>5, <1>9, <2>1
  <2>2. CASE id # idr
    <3>1. id \in DOMAIN states /\ id # current
      BY <1>5, <1>9, <1>16, <2>2
    <3> QED
      BY <1>2, <1>3, <1>9, <3>1
  <2> QED
    BY <2>1, <2>2
<1>17. CASE rest = <<>>
  <2>1. Len(todo) = 2 /\ \A i \in 2..Len(todo) : todo[i] = var
    <3>1. Len(todo) = 2
      BY <1>3, <1>17
    <3>2. \A i \in 2..2 : i = 2
      OBVIOUS
    <3> QED
      BY <3>1, <3>2 DEF var
  <2>2. ASSUME NEW v \in DOMAIN subgoal PROVE states'[idw].set[v] = {subgoal[v]}
    <3>1. v # var => states[current].set[v] = {subgoal[v]}
      BY <1>2, <1>3, <2>1
    <3> QED
      BY <1>4, <1>9, <3>1
  <2>3. Separated(states', goals')
    BY <1>9, <1>12, <1>15, <1>16, <2>2 DEF Separated
  <2>4. /\ IsSingle' = IsSingle /\ GoalFact' = GoalFact
    BY <1>9 DEF IsSingle, GoalFact
  <2>5. Separated(states, goals)'
    BY <1>9, <2>3, <2>4 DEF Separated
  <2> QED
    BY <1>1, <1>7, <1>9, <1>17, <2>5
<1>18. CASE rest # <<>>
  <2>1. /\ todo' = <<idw>> \o Tail(Tail(todo))
        /\ UNCHANGED <<phase, treevars>>
    BY <1>1, <1>11, <1>18 DEF rest
  <2>2. /\ todo' \in Seq(Nat) /\ Len(todo') = Len(todo) - 1 /\ todo'[1] = idw
        /\ \A i \in 2..Len(todo') : todo'[i] = todo[i+1]
    <3>1. PICK t : t = <<idw>> \o Tail(Tail(todo))
      OBVIOUS
    <3>2. PICK s : s = todo
      OBVIOUS
    <3>3. s \in Seq(Nat) /\ Len(s) > 1 /\ t = <<idw>> \o Tail(Tail(s))
      BY <1>2, <3>1, <3>2
    <3>4. IsNext(t, s, idw)
      BY <1>12, <3>3, NextTodo
    <3> QED
      BY <2>1, <3>1, <3>2, <3>4 DEF IsNext
  <2>3. PICK k \in Nat : Len(todo) = k + 2 /\ k > 0
    <3>0. PICK n \in Nat : n = Len(todo)
      BY <1>3
    <3>a. n > 1 /\ n # 2
      BY <1>2, <1>3, <1>18, <3>0
    <3>1. Len(todo) - 2 \in Nat /\ Len(todo) = (Len(todo) - 2) + 2 /\ Len(todo) - 2 > 0
      BY <3>0, <3>a
    <3> QED
      BY <3>1
  <2>4. Len(todo') = k + 1 /\ \A i \in 2..k+1 : todo'[i] = todo[i+1]
    BY <2>2, <2>3
  <2>5. /\ Len(Tail(todo)) = k + 1 /\ \A i \in 1..k+1 : Tail(todo)[i] = todo[i+1]
    <3>1. todo # <<>> /\ Len(todo) - 1 = k + 1
      BY <1>2, <2>3
    <3> QED
      BY <1>2, <2>3, <3>1
  <2>6. \A i, j \in 2..k+2 : todo[i] = todo[j] => i = j
    <3> SUFFICES ASSUME NEW i \in 2..k+2, NEW j \in 2..k+2, todo[i] = todo[j] PROVE i = j
      OBVIOUS
    <3>1. i - 1 \in 1..k+1 /\ j - 1 \in 1..k+1 /\ (i - 1) + 1 = i /\ (j - 1) + 1 = j
      BY <2>3
    <3>2. Tail(todo)[i-1] = todo[i] /\ Tail(todo)[j-1] = todo[j]
      BY <2>5, <3>1
    <3>3. i - 1 = j - 1
      BY <1>2, <2>5, <3>1, <3>2 DEF Distinct
    <3> QED
      BY <3>3
  <2>7. /\ Len(Tail(todo')) = k /\ \A i \in 1..k : Tail(todo')[i] = todo[i+2]
    <3>1. todo' # <<>> /\ Len(todo') - 1 = k
      BY <2>2, <2>4
    <3>2. Len(Tail(todo')) = k /\ \A i \in 1..k : Tail(todo')[i] = todo'[i+1]
      BY <2>2, <3>1
    <3>3. ASSUME NEW i \in 1..k PROVE todo'[i+1] = todo[i+2]
      <4>1. PICK j \in 2..k+1 : j = i + 1 /\ j + 1 = i + 2
        BY <2>3
      <4> QED
        BY <2>4, <4>1
    <3> QED
      BY <3>2, <3>3
  <2>8. Distinct(Tail(todo'))
    <3>1. \A i \in 1..k : Tail(todo')[i] \in CVars
      <4> SUFFICES ASSUME NEW i \in 1..k PROVE Tail(todo')[i] \in CVars
        OBVIOUS
      <4>1. i + 2 \in 2..Len(todo)
        BY <2>3
      <4> QED
        BY <1>2, <1>4, <2>7, <4>1
    <3>2. \A i, j \in 1..k : Tail(todo')[i] = Tail(todo')[j] => i = j
      <4> SUFFICES ASSUME NEW i \in 1..k, NEW j \in 1..k, Tail(todo')[i] = Tail(todo')[j] PROVE i = j
        OBVIOUS
      <4>1. i + 2 \in 2..k+2 /\ j + 2 \in 2..k+2 /\ (i + 2 = j + 2 => i = j)
        BY <2>3
      <4>2. todo[i+2] = todo[j+2]
        BY <2>7
      <4> QED
        BY <2>6, <4>1, <4>2
    <3> QED
      BY <2>7, <3>1, <3>2 DEF Distinct
  <2>9. \A i \in 2..Len(todo') : todo'[i] \in DOMAIN subgoal
    <3> SUFFICES ASSUME NEW i \in 2..k+1 PROVE todo'[i] \in DOMAIN subgoal
      BY <2>4
    <3>1. i + 1 \in 2..Len(todo)
      BY <2>3
    <3> QED
      BY <1>2, <2>4, <3>1
  <2>10. ASSUME NEW v \in DOMAIN subgoal
         PROVE  states'[idw].set[v] =
                  IF \E i \in 2..Len(todo') : todo'[i] = v THEN CDomain[v] ELSE {subgoal[v]}
    <3>1. CASE v = var
      <4>1. ASSUME NEW i \in 2..k+1 PROVE todo'[i] # v
        <5>1. i + 1 \in 2..k+2 /\ 2 \in 2..k+2 /\ i + 1 # 2
          BY <2>3
        <5>2. todo[i+1] # todo[2]
          BY <2>6, <5>1
        <5> QED
          BY <2>4, <3>1, <5>2 DEF var
      <4> QED
        BY <1>4, <1>9, <2>4, <3>1, <4>1
    <3>2. CASE v # var
      <4>1. (\E i \in 2..k+1 : todo'[i] = v) <=> (\E i \in 2..Len(todo) : todo[i] = v)
        <5>1. ASSUME NEW i \in 2..k+1, todo'[i] = v PROVE \E j \in 2..Len(todo) : todo[j] = v
          <6>1. i + 1 \in 2..Len(todo)
            BY <2>3
          <6> QED
            BY <2>4, <5>1, <6>1
        <5>2. ASSUME NEW i \in 2..Len(todo), todo[i] = v PROVE \E j \in 2..k+1 : todo'[j] = v
          <6>1. i # 2
            BY <3>2, <5>2 DEF var
          <6>2. PICK j \in 2..k+1 : i = j + 1
            <7>1. i - 1 \in 2..k+1 /\ i = (i - 1) + 1
              BY <2>3, <6>1
            <7> QED
              BY <7>1
          <6> QED
            BY <2>4, <5>2, <6>2
        <5> QED
          BY <5>1, <5>2
      <4>2. states'[idw].set[v] = states[current].set[v]
        BY <1>4, <1>9, <3>2
      <4> QED
        BY <1>2, <1>3, <2>4, <4>1, <4>2
    <3> QED
      BY <3>1, <3>2
  <2>11. Len(todo') > 1
    BY <2>3, <2>4
  <2>12. SeparatingGoals'
    BY <1>2, <1>9, <1>12, <1>15, <1>16, <2>2, <2>8, <2>9, <2>10, <2>11 DEF SeparatingGoals
  <2> QED
    BY <1>7, <1>9, <2>1, <2>12
<1> QED
  BY <1>17, <1>18

-----------------------------------------------------------------------------
(***************************************************************************)
(* Distances.                                                              *)
(***************************************************************************)

LEMMA MinNat ==
  ASSUME NEW S, S \subseteq Nat, S # {}
  PROVE  Min(S) \in S /\ \A y \in S : Min(S) <= y
<1>1. \E x \in S : \A y \in S : x <= y
  BY LeastElement
<1> QED
  BY <1>1 DEF Min

LEMMA MaxBounded ==
  ASSUME NEW S, S \subseteq Int, S # {}, NEW b \in Int, \A x \in S : x <= b
  PROVE  Max(S) \in S /\ \A y \in S : Max(S) >= y
<1> DEFINE T == {b - x : x \in S}
<1>1. T \subseteq Nat /\ T # {}
  <2>1. \A x \in S : b - x \in Nat
    <3> SUFFICES ASSUME NEW x \in S PROVE b - x \in Nat
      OBVIOUS
    <3>1. x \in Int /\ x <= b
      OBVIOUS
    <3> QED
      BY <3>1
  <2> QED
    BY <2>1
<1>2. PICK t \in T : \A u \in T : t <= u
  BY <1>1, LeastElement
<1>3. PICK x \in S : t = b - x
  BY <1>2
<1>4. \A y \in S : x >= y
  <2> SUFFICES ASSUME NEW y \in S PROVE x >= y
    OBVIOUS
  <2>1. b - x <= b - y
    BY <1>2, <1>3
  <2> QED
    BY <2>1
<1> QED
  BY <1>4 DEF Max

\* Every state has a distance, at most Infinity.
DistanceMaps == [DOMAIN states -> 0..Infinity]

EdgesOK(edges) ==
  \A e \in edges : e[1] \in DOMAIN states /\ e[2] \in COperators /\ e[3] \in DOMAIN states

\* One round of the computation of distances.
Round(d, edges) ==
  [id \in DOMAIN states |->
     Min({d[id]} \union {AddCosts(d[e[1]], operator_costs[e[2]]) : e \in {e \in edges : e[3] = id}})]

LEMMA AddType == \A a, b \in Nat : AddCosts(a, b) \in Nat
BY DistanceAssumption DEF AddCosts

\* What a round does: no distance grows, and each is the one over some edge or stays.
IsRound(r, d, edges) ==
  /\ r \in DistanceMaps
  /\ \A id \in DOMAIN states :
       /\ r[id] <= d[id]
       /\ r[id] = d[id]
          \/ \E e \in edges : e[3] = id /\ r[id] = AddCosts(d[e[1]], operator_costs[e[2]])
  /\ \A e \in edges : r[e[3]] <= AddCosts(d[e[1]], operator_costs[e[2]])

LEMMA RoundFacts ==
  ASSUME operator_costs \in [COperators -> Nat], NEW edges, EdgesOK(edges), NEW d \in DistanceMaps
  PROVE  IsRound(Round(d, edges), d, edges)
<1> DEFINE through(e) == AddCosts(d[e[1]], operator_costs[e[2]])
           all(id) == {d[id]} \union {through(e) : e \in {e \in edges : e[3] = id}}
<1>1. \A id \in DOMAIN states : d[id] \in Nat /\ d[id] <= Infinity
  BY DistanceAssumption DEF DistanceMaps
<1>2. \A e \in edges : through(e) \in Nat
  BY <1>1, AddType DEF EdgesOK
<1>3. Round(d, edges) = [id \in DOMAIN states |-> Min(all(id))]
  BY DEF Round
<1> HIDE DEF through
<1>4. ASSUME NEW id \in DOMAIN states
      PROVE  Min(all(id)) \in all(id) /\ \A y \in all(id) : Min(all(id)) <= y
  <2>1. all(id) \subseteq Nat /\ all(id) # {}
    BY <1>1, <1>2
  <2> HIDE DEF all
  <2> QED
    BY <2>1, MinNat
<1>5. ASSUME NEW id \in DOMAIN states
      PROVE  /\ Round(d, edges)[id] \in Nat /\ Round(d, edges)[id] <= d[id]
             /\ Round(d, edges)[id] = d[id]
                \/ \E e \in edges : e[3] = id /\ Round(d, edges)[id] = through(e)
  <2>1. Round(d, edges)[id] = Min(all(id))
    BY <1>3
  <2>2. d[id] \in all(id)
    OBVIOUS
  <2>3. \A y \in all(id) : y = d[id] \/ \E e \in edges : e[3] = id /\ y = through(e)
    OBVIOUS
  <2>4. all(id) \subseteq Nat
    BY <1>1, <1>2
  <2> HIDE DEF all
  <2> QED
    BY <1>4, <2>1, <2>2, <2>3, <2>4
<1>6. ASSUME NEW e \in edges
      PROVE  Round(d, edges)[e[3]] <= through(e)
  <2>1. e[3] \in DOMAIN states /\ through(e) \in all(e[3])
    BY DEF EdgesOK
  <2> HIDE DEF all
  <2> QED
    BY <1>3, <1>4, <2>1
<1>7. Round(d, edges) \in DistanceMaps
  <2>1. \A id \in DOMAIN states : Round(d, edges)[id] \in 0..Infinity
    BY <1>1, <1>5, DistanceAssumption
  <2> HIDE DEF all
  <2>2. Round(d, edges) = [id \in DOMAIN states |-> Round(d, edges)[id]]
    BY <1>3
  <2> QED
    BY <2>1, <2>2 DEF DistanceMaps
<1> QED
  BY <1>5, <1>6, <1>7 DEF through, IsRound

StartMap(start) == [id \in DOMAIN states |-> IF id \in start THEN 0 ELSE Infinity]

\* The rounds of compute_distances.
AreRounds(f, n, start, edges) ==
  /\ f \in [0..n -> DistanceMaps] /\ f[0] = StartMap(start)
  /\ \A i \in 1..n : f[i] = Round(f[i-1], edges)

LEMMA DistancesAre ==
  ASSUME NumStates \in Nat, operator_costs \in [COperators -> Nat],
         NEW edges, EdgesOK(edges), NEW start
  PROVE  \E f : AreRounds(f, NumStates, start, edges) /\ DistancesFrom(start, edges) = f[NumStates]
<1> DEFINE N == NumStates
           IsDist(f) == f = [n \in 0..N |-> IF n = 0 THEN StartMap(start) ELSE Round(f[n-1], edges)]
           dist == CHOOSE f : IsDist(f)
           step == [i \in 1..N |-> [d \in DistanceMaps |-> Round(d, edges)]]
<1>1. StartMap(start) \in DistanceMaps
  BY DistanceAssumption DEF StartMap, DistanceMaps
<1>2. step \in [1..N -> [DistanceMaps -> DistanceMaps]]
  BY RoundFacts DEF IsRound
<1>3. \A i \in 1..N : \A d \in DistanceMaps : step[i][d] = Round(d, edges)
  OBVIOUS
<1> HIDE DEF step
<1>4. PICK f \in [0..N -> DistanceMaps] :
        f[0] = StartMap(start) /\ \A i \in 1..N : f[i] = step[i][f[i-1]]
  <2>1. Solutions(DistanceMaps, StartMap(start), N, step) # {}
    BY <1>1, <1>2, Recursion
  <2> QED
    BY <2>1 DEF Solutions
<1>5. \A i \in 1..N : i - 1 \in 0..N
  OBVIOUS
<1>6. IsDist(f)
  <2>1. \A i \in 0..N : i # 0 => i \in 1..N
    OBVIOUS
  <2>2. \A i \in 0..N : f[i] = IF i = 0 THEN StartMap(start) ELSE Round(f[i-1], edges)
    BY <1>3, <1>4, <1>5, <2>1
  <2>3. f = [n \in 0..N |-> f[n]]
    BY <1>4
  <2> QED
    BY <2>2, <2>3
<1>7. DistancesFrom(start, edges) = dist[N]
  BY DEF DistancesFrom, StartMap, Round
<1>8. IsDist(dist)
  BY <1>6
<1> HIDE DEF dist
<1>9. dist = f
  <2> DEFINE S == {n \in Nat : n <= N => dist[n] = f[n]}
  <2>1. 0 \in S
    BY <1>4, <1>8
  <2>2. ASSUME NEW n \in Nat, n \in S PROVE n + 1 \in S
    <3> SUFFICES ASSUME n + 1 <= N PROVE dist[n+1] = f[n+1]
      OBVIOUS
    <3>1. PICK k \in 1..N : k = n + 1 /\ k - 1 = n /\ k \in 0..N /\ k # 0
      <4>1. n + 1 \in 1..N /\ (n + 1) - 1 = n /\ n + 1 \in 0..N /\ n + 1 # 0
        OBVIOUS
      <4> QED
        BY <4>1
    <3>2. dist[n] = f[n]
      BY <2>2
    <3>3. dist[k] = Round(dist[k-1], edges)
      BY <1>8, <3>1
    <3>4. f[k] = Round(f[k-1], edges)
      BY <1>6, <3>1
    <3> QED
      BY <3>1, <3>2, <3>3, <3>4
  <2> HIDE DEF S
  <2>3. Nat \subseteq S
    BY <2>1, <2>2, Induction
  <2>4. \A n \in 0..N : dist[n] = f[n]
    BY <2>3 DEF S
  <2>5. dist = [n \in 0..N |-> dist[n]]
    BY <1>8
  <2>6. f = [n \in 0..N |-> f[n]]
    BY <1>4
  <2> QED
    BY <2>4, <2>5, <2>6
<1>10. \A i \in 1..N : f[i] = Round(f[i-1], edges)
  BY <1>3, <1>4, <1>5
<1> QED
  BY <1>4, <1>7, <1>9, <1>10 DEF AreRounds

\* The ids of start are at distance 0, and no edge is a shortcut.
IsFixed(d, start, edges) ==
  /\ d \in DistanceMaps /\ \A id \in DOMAIN states : id \in start => d[id] = 0
  /\ \A e \in edges : d[e[3]] <= AddCosts(d[e[1]], operator_costs[e[2]])

\* A round that changes a distance has seen a path of as many edges.
LEMMA DistancesFixed ==
  ASSUME NEW n, StatesOK(states, n), operator_costs \in [COperators -> Nat],
         NEW edges, EdgesOK(edges), NEW start
  PROVE  IsFixed(DistancesFrom(start, edges), start, edges)
<1>1. NumStates = n /\ n \in Nat /\ n > 0 /\ DOMAIN states = 0..n-1
  BY NumStatesIs DEF StatesOK
<1>2. IsFiniteSet(DOMAIN states) /\ Cardinality(DOMAIN states) = n
  <2>1. 0 \in Int /\ n - 1 \in Int
    BY <1>1
  <2>2. IsFiniteSet(0..n-1)
    BY <2>1, FS_Interval
  <2> QED
    BY <1>1, <2>2 DEF NumStates
<1>3. PICK f : AreRounds(f, n, start, edges) /\ DistancesFrom(start, edges) = f[n]
  <2>1. \E f : AreRounds(f, NumStates, start, edges) /\ DistancesFrom(start, edges) = f[NumStates]
    BY <1>1, DistancesAre
  <2> QED
    BY <1>1, <2>1
<1>4. /\ f \in [0..n -> DistanceMaps] /\ f[0] = StartMap(start)
      /\ \A i \in 1..n : f[i] = Round(f[i-1], edges)
  BY <1>3 DEF AreRounds
<1>5. \A i \in 0..n : \A id \in DOMAIN states : f[i][id] \in Nat /\ f[i][id] <= Infinity
  <2>1. \A d \in DistanceMaps : \A id \in DOMAIN states : d[id] \in Nat /\ d[id] <= Infinity
    BY DistanceAssumption DEF DistanceMaps
  <2> QED
    BY <1>4, <2>1
<1>6. ASSUME NEW i \in Nat, i < n
      PROVE  /\ i \in 0..n /\ i + 1 \in 0..n /\ f[i] \in DistanceMaps
             /\ f[i+1] = Round(f[i], edges)
  <2>1. i \in 0..n /\ i + 1 \in 0..n
    BY <1>1, <1>6
  <2>2. PICK k \in 1..n : k = i + 1 /\ k - 1 = i
    <3>1. i + 1 \in 1..n /\ (i + 1) - 1 = i
      BY <1>1, <1>6
    <3> QED
      BY <3>1
  <2>3. f[k] = Round(f[k-1], edges)
    BY <1>4
  <2> QED
    BY <1>4, <2>1, <2>2, <2>3
<1>7. ASSUME NEW i \in Nat, i < n, NEW id \in DOMAIN states
      PROVE  /\ f[i+1][id] <= f[i][id]
             /\ f[i+1][id] = f[i][id]
                \/ \E e \in edges : e[3] = id /\ f[i+1][id] = AddCosts(f[i][e[1]], operator_costs[e[2]])
             /\ \A e \in edges : f[i+1][e[3]] <= AddCosts(f[i][e[1]], operator_costs[e[2]])
  <2>1. f[i] \in DistanceMaps /\ f[i+1] = Round(f[i], edges)
    BY <1>6, <1>7
  <2>2. PICK d \in DistanceMaps : d = f[i]
    BY <2>1
  <2>3. PICK r : r = Round(d, edges) /\ r = f[i+1]
    BY <2>1, <2>2
  <2>4. /\ r[id] <= d[id]
        /\ r[id] = d[id] \/ \E e \in edges : e[3] = id /\ r[id] = AddCosts(d[e[1]], operator_costs[e[2]])
        /\ \A e \in edges : r[e[3]] <= AddCosts(d[e[1]], operator_costs[e[2]])
    <3>1. IsRound(r, d, edges)
      BY <2>3, RoundFacts
    <3> QED
      BY <3>1 DEF IsRound
  <2> QED
    BY <2>2, <2>3, <2>4
\* The states before id on the path, all at distances that are not longer.
<1> DEFINE IsPath(T, i, id) ==
             /\ T \subseteq DOMAIN states /\ Cardinality(T) = i + 1
             /\ \A x \in T : f[i][x] <= f[i+1][id]
           S == {i \in Nat : i < n =>
                   \A id \in DOMAIN states : f[i+1][id] # f[i][id] => \E T : IsPath(T, i, id)}
<1>8. ASSUME NEW i \in Nat, i < n, NEW id \in DOMAIN states, f[i+1][id] # f[i][id]
      PROVE  \E p \in DOMAIN states : f[i][p] <= f[i+1][id] /\ (i > 0 => f[i][p] # f[i-1][p])
  <2>1. PICK e \in edges : e[3] = id /\ f[i+1][id] = AddCosts(f[i][e[1]], operator_costs[e[2]])
    BY <1>7, <1>8
  <2>2. e[1] \in DOMAIN states /\ operator_costs[e[2]] \in Nat
    BY DEF EdgesOK
  <2>3. /\ f[i][e[1]] \in Nat /\ f[i][e[1]] <= Infinity /\ f[i][id] \in Nat /\ f[i][id] <= Infinity
        /\ f[i+1][id] \in Nat /\ f[i+1][id] < f[i][id]
    <3>1. i \in 0..n /\ i + 1 \in 0..n
      BY <1>6, <1>8
    <3>2. f[i+1][id] \in Nat /\ f[i][id] \in Nat /\ f[i+1][id] <= f[i][id]
      BY <1>5, <1>7, <1>8, <3>1
    <3> QED
      BY <1>5, <1>8, <2>2, <3>1, <3>2
  <2>4. f[i][e[1]] <= f[i+1][id]
    <3>1. PICK c \in Nat : c = operator_costs[e[2]]
      BY <2>2
    <3>2. PICK a \in Nat : a = f[i][e[1]]
      BY <2>3
    <3>3. f[i+1][id] # Infinity
      BY <2>3, DistanceAssumption
    <3> QED
      BY <2>1, <3>1, <3>2, <3>3 DEF AddCosts
  <2>5. ASSUME i > 0, f[i][e[1]] = f[i-1][e[1]] PROVE FALSE
    <3>1. PICK j \in Nat : i = j + 1 /\ i - 1 = j /\ j < n
      <4>1. i - 1 \in Nat /\ i = (i - 1) + 1 /\ i - 1 < n
        BY <1>1, <1>8, <2>5
      <4> QED
        BY <4>1
    <3>2. \A y \in edges : f[j+1][y[3]] <= AddCosts(f[j][y[1]], operator_costs[y[2]])
      BY <1>7, <3>1
    <3>3. f[i][id] <= AddCosts(f[i][e[1]], operator_costs[e[2]])
      BY <2>1, <2>5, <3>1, <3>2
    <3> QED
      BY <2>1, <2>3, <3>3
  <2> QED
    BY <2>2, <2>4, <2>5
<1>9. 0 \in S
  <2> SUFFICES ASSUME 0 < n, NEW id \in DOMAIN states, f[0+1][id] # f[0][id]
               PROVE  \E T : IsPath(T, 0, id)
    OBVIOUS
  <2>1. PICK p \in DOMAIN states : f[0][p] <= f[0+1][id]
    BY <1>8
  <2>2. IsPath({p}, 0, id)
    BY <2>1, SingleCardinality
  <2> QED
    BY <2>2
<1>10. ASSUME NEW i \in Nat, i \in S PROVE i + 1 \in S
  <2> SUFFICES ASSUME i + 1 < n, NEW id \in DOMAIN states, f[i+1+1][id] # f[i+1][id]
               PROVE  \E T : IsPath(T, i + 1, id)
    OBVIOUS
  <2>0. PICK k \in Nat : k = i + 1 /\ k - 1 = i /\ k > 0 /\ k < n /\ i < n
    BY <1>1
  <2>1. PICK p \in DOMAIN states : f[k][p] <= f[k+1][id] /\ f[k][p] # f[i][p]
    BY <1>8, <2>0
  <2>2. PICK T : IsPath(T, i, p)
    BY <1>10, <2>0, <2>1
  <2>3. /\ T \subseteq DOMAIN states /\ Cardinality(T) = k /\ IsFiniteSet(T)
        /\ \A x \in T : f[i][x] <= f[k][p]
    <3>1. T \subseteq DOMAIN states /\ Cardinality(T) = i + 1 /\ \A x \in T : f[i][x] <= f[i+1][p]
      BY <2>2
    <3> QED
      BY <1>2, <2>0, <3>1, FS_Subset
  <2>4. i \in 0..n /\ k \in 0..n /\ k + 1 \in 0..n /\ \A x \in DOMAIN states : f[k][x] <= f[i][x]
    BY <1>6, <1>7, <2>0
  <2>5. p \notin T
    <3> SUFFICES ASSUME p \in T PROVE FALSE
      OBVIOUS
    <3>1. f[i][p] <= f[k][p] /\ f[k][p] <= f[i][p] /\ f[i][p] \in Nat /\ f[k][p] \in Nat
      BY <1>5, <2>3, <2>4
    <3> QED
      BY <2>1, <3>1
  <2>6. Cardinality(T \union {p}) = k + 1
    BY <2>3, <2>5, FS_AddElement
  <2>7. ASSUME NEW x \in T \union {p} PROVE f[k][x] <= f[k+1][id]
    <3>1. CASE x = p
      BY <2>1, <3>1
    <3>2. CASE x \in T
      <4>1. /\ f[k][x] <= f[i][x] /\ f[i][x] <= f[k][p] /\ f[k][p] <= f[k+1][id]
            /\ f[k][x] \in Nat /\ f[i][x] \in Nat /\ f[k][p] \in Nat /\ f[k+1][id] \in Nat
        BY <1>5, <2>1, <2>3, <2>4, <3>2
      <4> QED
        BY <4>1
    <3> QED
      BY <3>1, <3>2
  <2>8. IsPath(T \union {p}, k, id)
    BY <2>3, <2>6, <2>7
  <2> QED
    BY <2>0, <2>8
<1> HIDE DEF S
<1>11. PICK m \in Nat : n = m + 1 /\ m < n /\ m \in S
  <2>1. n - 1 \in Nat /\ n = (n - 1) + 1 /\ n - 1 < n
    BY <1>1
  <2>2. n - 1 \in S
    BY <1>9, <1>10, <2>1, Induction
  <2> QED
    BY <2>1, <2>2
<1>12. \A id \in DOMAIN states : f[n][id] = f[m][id]
  <2> SUFFICES ASSUME NEW id \in DOMAIN states, f[n][id] # f[m][id] PROVE FALSE
    OBVIOUS
  <2>1. PICK T : IsPath(T, m, id)
    BY <1>11 DEF S
  <2>2. T \subseteq DOMAIN states /\ Cardinality(T) = n
    BY <1>11, <2>1
  <2>3. T = DOMAIN states
    BY <1>2, <2>2, FS_Subset
  <2>4. f[m][id] <= f[n][id]
    BY <1>11, <2>1, <2>3
  <2>5. f[n][id] <= f[m][id] /\ f[n][id] \in Nat /\ f[m][id] \in Nat
    BY <1>5, <1>6, <1>7, <1>11
  <2> QED
    BY <2>4, <2>5
<1>13. f[n] \in DistanceMaps
  BY <1>1, <1>4
<1>14. ASSUME NEW e \in edges PROVE f[n][e[3]] <= AddCosts(f[n][e[1]], operator_costs[e[2]])
  <2>1. e[1] \in DOMAIN states /\ e[3] \in DOMAIN states
    BY DEF EdgesOK
  <2>2. f[m+1][e[3]] <= AddCosts(f[m][e[1]], operator_costs[e[2]])
    BY <1>7, <1>11, <2>1
  <2> QED
    BY <1>11, <1>12, <2>1, <2>2
<1>15. ASSUME NEW id \in DOMAIN states, id \in start PROVE f[n][id] = 0
  <2> DEFINE Z == {i \in Nat : i <= n => f[i][id] = 0}
  <2>1. 0 \in Z
    BY <1>4, <1>15 DEF StartMap
  <2>2. ASSUME NEW i \in Nat, i \in Z PROVE i + 1 \in Z
    <3> SUFFICES ASSUME i + 1 <= n PROVE f[i+1][id] = 0
      OBVIOUS
    <3>1. i < n /\ i <= n
      BY <1>1
    <3>2. f[i][id] = 0 /\ f[i+1][id] <= f[i][id] /\ f[i+1][id] \in Nat
      BY <1>5, <1>6, <1>7, <2>2, <3>1
    <3> QED
      BY <3>2
  <2> HIDE DEF Z
  <2>3. n \in Z
    BY <1>1, <2>1, <2>2, Induction
  <2> QED
    BY <1>1, <2>3 DEF Z
<1> QED
  BY <1>3, <1>13, <1>14, <1>15 DEF IsFixed

-----------------------------------------------------------------------------
(***************************************************************************)
(* Choices.                                                                *)
(***************************************************************************)

LEMMA ChoicesAre ==
  ASSUME NEW n \in Nat, NEW options, DOMAIN options = 0..n-1, NEW choice \in ChoicesOf(options)
  PROVE  DOMAIN choice = 0..n-1 /\ \A id \in 0..n-1 : choice[id] \in options[id]
<1> DEFINE V == UNION {options[id] : id \in 0..n-1}
           Up(m) == [0..m-1 -> V]
           X == SUBSET UNION {Up(m) : m \in 0..n}
           next(i, r) == {[id \in 0..i-1 |-> IF id = i-1 THEN x ELSE f[id]] : x \in options[i-1], f \in r}
           IsUpto(u) == u = [i \in 0..Cardinality(DOMAIN options) |-> IF i = 0 THEN {<<>>} ELSE next(i, u[i-1])]
           upto == CHOOSE u : IsUpto(u)
           step == [i \in 1..n |-> [r \in X |-> IF next(i, r) \in X THEN next(i, r) ELSE {}]]
           Good(i, r) == \A f \in r : f \in Up(i) /\ \A id \in 0..i-1 : f[id] \in options[id]
<1>1. Cardinality(DOMAIN options) = n
  <2>1. 0 \in Int /\ n - 1 \in Int /\ (0 > n - 1 => n = 0) /\ n - 1 - 0 + 1 = n
    OBVIOUS
  <2> QED
    BY <2>1, FS_Interval
<1>2. {<<>>} \in X /\ Good(0, {<<>>})
  <2>1. <<>> \in Up(0)
    OBVIOUS
  <2>2. \A id \in 0..0-1 : FALSE
    OBVIOUS
  <2>3. 0 \in 0..n
    OBVIOUS
  <2> HIDE DEF Up
  <2> QED
    BY <2>1, <2>2, <2>3
<1>3. ASSUME NEW i \in 1..n, NEW r, Good(i-1, r)
      PROVE  Good(i, next(i, r)) /\ next(i, r) \in X
  <2>1. ASSUME NEW x \in options[i-1], NEW f \in r
        PROVE  LET g == [id \in 0..i-1 |-> IF id = i-1 THEN x ELSE f[id]]
               IN g \in Up(i) /\ \A id \in 0..i-1 : g[id] \in options[id]
    <3> DEFINE g == [id \in 0..i-1 |-> IF id = i-1 THEN x ELSE f[id]]
    <3>1. \A id \in 0..i-1 : id # i - 1 => id \in 0..(i-1)-1
      OBVIOUS
    <3>2. \A id \in 0..i-1 : g[id] \in options[id]
      BY <1>3, <2>1, <3>1
    <3>3. \A id \in 0..i-1 : id \in 0..n-1
      OBVIOUS
    <3>4. \A id \in 0..i-1 : g[id] \in V
      BY <3>2, <3>3
    <3> QED
      BY <3>2, <3>4
  <2>2. Good(i, next(i, r))
    BY <2>1
  <2>3. i \in 0..n
    OBVIOUS
  <2> HIDE DEF next, Up
  <2> QED
    BY <2>2, <2>3
<1> HIDE DEF V
<1>4. step \in [1..n -> [X -> X]]
  <2>1. {} \in X
    OBVIOUS
  <2> HIDE DEF X, next
  <2> QED
    BY <2>1
<1>5. PICK u \in [0..n -> X] : u[0] = {<<>>} /\ \A i \in 1..n : u[i] = step[i][u[i-1]]
  <2> HIDE DEF step, X
  <2>1. Solutions(X, {<<>>}, n, step) # {}
    BY <1>2, <1>4, Recursion
  <2> QED
    BY <2>1 DEF Solutions
<1> HIDE DEF Good, next, X, step
<1>6. ASSUME NEW i \in 1..n, Good(i-1, u[i-1])
      PROVE  u[i] = next(i, u[i-1]) /\ Good(i, u[i])
  <2>1. i - 1 \in 0..n
    OBVIOUS
  <2>2. u[i-1] \in X
    BY <1>5, <2>1
  <2>3. Good(i, next(i, u[i-1])) /\ next(i, u[i-1]) \in X
    BY <1>3, <1>6
  <2>4. step[i][u[i-1]] = next(i, u[i-1])
    BY <2>2, <2>3 DEF step
  <2> HIDE DEF step
  <2> QED
    BY <1>5, <2>3, <2>4
<1> DEFINE S == {i \in Nat : i <= n => Good(i, u[i])}
<1>7. \A i \in 0..n : Good(i, u[i])
  <2>1. 0 \in S
    BY <1>2, <1>5
  <2>2. ASSUME NEW i \in Nat, i \in S PROVE i + 1 \in S
    <3> SUFFICES ASSUME i + 1 <= n PROVE Good(i + 1, u[i+1])
      OBVIOUS
    <3>1. PICK k \in 1..n : k = i + 1 /\ k - 1 = i
      <4>1. i + 1 \in 1..n /\ (i + 1) - 1 = i
        OBVIOUS
      <4> QED
        BY <4>1
    <3>2. Good(k - 1, u[k-1])
      BY <2>2, <3>1
    <3> QED
      BY <1>6, <3>1, <3>2
  <2> HIDE DEF S
  <2>3. Nat \subseteq S
    BY <2>1, <2>2, Induction
  <2> QED
    BY <2>3 DEF S
<1>8. IsUpto(u)
  <2>1. ASSUME NEW i \in 0..n PROVE u[i] = IF i = 0 THEN {<<>>} ELSE next(i, u[i-1])
    <3>1. CASE i = 0
      BY <1>5, <3>1
    <3>2. CASE i # 0
      <4>1. i \in 1..n /\ i - 1 \in 0..n
        BY <3>2
      <4> QED
        BY <1>6, <1>7, <3>2, <4>1
    <3> QED
      BY <3>1, <3>2
  <2>2. u = [i \in 0..n |-> u[i]]
    BY <1>5
  <2> QED
    BY <1>1, <2>1, <2>2
<1>9. ChoicesOf(options) = upto[n]
  <2>1. ChoicesOf(options) = upto[Cardinality(DOMAIN options)]
    BY DEF ChoicesOf, next
  <2> HIDE DEF upto
  <2> QED
    BY <1>1, <2>1
<1>10. IsUpto(upto)
  BY <1>8
<1> HIDE DEF upto
<1>11. upto[n] = u[n]
  <2> DEFINE Z == {i \in Nat : i <= n => upto[i] = u[i]}
  <2>1. 0 \in Z
    BY <1>1, <1>5, <1>10
  <2>2. ASSUME NEW i \in Nat, i \in Z PROVE i + 1 \in Z
    <3> SUFFICES ASSUME i + 1 <= n PROVE upto[i+1] = u[i+1]
      OBVIOUS
    <3>1. PICK k \in 0..n : k = i + 1 /\ k - 1 = i /\ k # 0
      <4>1. i + 1 \in 0..n /\ (i + 1) - 1 = i /\ i + 1 # 0
        OBVIOUS
      <4> QED
        BY <4>1
    <3>2. upto[k] = next(k, upto[k-1]) /\ u[k] = next(k, u[k-1])
      BY <1>1, <1>8, <1>10, <3>1
    <3> QED
      BY <2>2, <3>1, <3>2
  <2> HIDE DEF Z
  <2>3. n \in Z
    BY <2>1, <2>2, Induction
  <2> QED
    BY <2>3 DEF Z
<1>12. Good(n, u[n]) /\ choice \in u[n]
  BY <1>7, <1>9, <1>11
<1> QED
  BY <1>12 DEF Good

-----------------------------------------------------------------------------
(***************************************************************************)
(* The tree of shortest paths.                                             *)
(***************************************************************************)

LEMMA Product ==
  ASSUME NEW a \in Nat, NEW b \in Nat, a > 0, b > 0
  PROVE  a * b \in Nat /\ a * b > 0
OBVIOUS

LEMMA Cost64Positive ==
  ASSUME operator_costs \in [COperators -> Nat], NEW o \in COperators
  PROVE  Cost64(o) \in Nat /\ Cost64(o) > 0
<1>1. PICK c \in Nat : c = operator_costs[o]
  OBVIOUS
<1>2. c = 0 => HasZeroCosts
  BY <1>1 DEF HasZeroCosts
<1>3. c > 0 => c * Scale \in Nat /\ c * Scale > 0
  BY DistanceAssumption, Product
<1>4. Infinity \in Nat /\ Infinity > 0
  BY DistanceAssumption
<1> HIDE DEF HasZeroCosts
<1>5. Cost64(o) = IF c = Infinity \/ ~HasZeroCosts THEN c ELSE IF c = 0 THEN 1 ELSE c * Scale
  BY <1>1 DEF Cost64
<1>6. c = 0 \/ c > 0
  OBVIOUS
<1> QED
  BY <1>1, <1>2, <1>3, <1>4, <1>5, <1>6

\* The tree has an edge for u, to a state that is nearer to the goals.
StepOK(u) ==
  /\ shortest_path[u] # Undefined
  /\ <<u, shortest_path[u][1], shortest_path[u][2]>> \in transitions
  /\ goal_distances[shortest_path[u][2]] \notin {Dirty, Infinity}
  /\ Cost64(shortest_path[u][1]) # Infinity
  /\ goal_distances[u] >= goal_distances[shortest_path[u][2]] + Cost64(shortest_path[u][1])

\* dirty_states names each dirty state once.
DirtyListed ==
  /\ dirty_states \in Seq(Nat)
  /\ \A i \in 1..Len(dirty_states) : /\ dirty_states[i] \in DOMAIN states
                                     /\ goal_distances[dirty_states[i]] = Dirty
  /\ \A i, j \in 1..Len(dirty_states) : dirty_states[i] = dirty_states[j] => i = j
  /\ \A id \in DOMAIN states : goal_distances[id] = Dirty =>
       \E i \in 1..Len(dirty_states) : dirty_states[i] = id

IsDistance(d) == (d \in Nat /\ d <= Infinity) \/ d = Dirty

\* What the tree of shortest paths is in each phase of the update: no distance is above
\* the one through an edge, except for what still waits in a queue.
TreeFacts ==
  /\ DOMAIN goal_distances = DOMAIN states /\ DOMAIN shortest_path = DOMAIN states
  /\ \A id \in DOMAIN states : IsDistance(goal_distances[id])
  /\ \A id \in DOMAIN states : id \in goals => goal_distances[id] = 0 /\ shortest_path[id] = Undefined
  /\ \A id \in candidate_queue :
       id \in DOMAIN states /\ id \notin goals /\ goal_distances[id] # Dirty
  /\ DirtyListed
  /\ \A t \in transitions :
       goal_distances[t[1]] # Dirty /\ goal_distances[t[3]] # Dirty /\ t[3] \notin open_queue
         => goal_distances[t[1]] <= Through(t)
  /\ \A u \in DOMAIN states :
       u \notin goals /\ u \notin candidate_queue /\ goal_distances[u] \notin {Dirty, Infinity}
         => StepOK(u)
  /\ phase # "reconnect" => candidate_queue = {}
  /\ phase \notin {"reconnect", "settle"} => dirty_states = <<>>
  /\ phase \notin {"settle", "dijkstra"} => open_queue = {}

\* The phases in which there is a tree.
TreePhases == {"dijkstra", "loop", "reconnect", "settle"}

TreeOK ==
  /\ phase \in {"separate", "split_goals"} => candidate_queue = {} /\ dirty_states = <<>>
  /\ phase \in TreePhases => TreeFacts

\* All transitions are between states, by operators.
TransitionsIn ==
  /\ DOMAIN states \subseteq Nat
  /\ \A t \in transitions :
       /\ t[1] \in DOMAIN states /\ t[2] \in COperators /\ t[3] \in DOMAIN states
       /\ t = <<t[1], t[2], t[3]>> /\ t[1] # t[3]

LEMMA OKTransitionsIn == AbstractionOK => TransitionsIn
BY DEF AbstractionOK, StatesOK, TransitionsOK, TransitionsIn

LEMMA EmptyListed ==
  ASSUME dirty_states = <<>>, \A id \in DOMAIN states : goal_distances[id] # Dirty
  PROVE  DirtyListed
<1>1. dirty_states \in Seq(Nat) /\ Len(dirty_states) = 0
  OBVIOUS
<1>2. \A i \in 1..0 : FALSE
  OBVIOUS
<1> QED
  BY <1>1, <1>2 DEF DirtyListed

LEMMA NoneDirty ==
  ASSUME DirtyListed, dirty_states = <<>>
  PROVE  \A id \in DOMAIN states : goal_distances[id] # Dirty
<1>1. Len(dirty_states) = 0
  OBVIOUS
<1>2. \A i \in 1..0 : FALSE
  OBVIOUS
<1> QED
  BY <1>1, <1>2 DEF DirtyListed

\* ShortestPaths::recompute starts with a tree of the goals.
LEMMA RecomputeTree ==
  ASSUME TransitionsIn, candidate_queue = {}, dirty_states = <<>>, phase = "dijkstra",
         goals \subseteq DOMAIN states,
         goal_distances = [id \in DOMAIN states |-> IF id \in goals THEN 0 ELSE Infinity],
         shortest_path = [id \in DOMAIN states |-> Undefined], open_queue = goals
  PROVE  TreeFacts
<1>1. \A id \in DOMAIN states : /\ goal_distances[id] = IF id \in goals THEN 0 ELSE Infinity
                                /\ shortest_path[id] = Undefined
  OBVIOUS
<1>2. Infinity \in Nat /\ Infinity > 0 /\ Dirty < 0 /\ Dirty # 0 /\ Dirty # Infinity
  BY DistanceAssumption
<1>3. DirtyListed
  BY <1>1, <1>2, EmptyListed
<1>4. ASSUME NEW t \in transitions, t[3] \notin open_queue
      PROVE  goal_distances[t[1]] <= Through(t)
  <2>1. goal_distances[t[3]] = Infinity
    BY <1>1, <1>4 DEF TransitionsIn
  <2>2. Through(t) = Infinity
    BY <2>1 DEF Through, AddCosts
  <2> QED
    BY <1>1, <1>2, <2>2 DEF TransitionsIn
<1>5. \A id \in DOMAIN states : IsDistance(goal_distances[id])
  BY <1>1, <1>2 DEF IsDistance
<1> QED
  BY <1>1, <1>3, <1>4, <1>5 DEF TreeFacts

LEMMA ThroughNat ==
  ASSUME operator_costs \in [COperators -> Nat], NEW t, t[2] \in COperators,
         goal_distances[t[3]] \in Nat
  PROVE  /\ Through(t) \in Nat
         /\ goal_distances[t[3]] # Infinity /\ Cost64(t[2]) # Infinity
              => Through(t) = goal_distances[t[3]] + Cost64(t[2])
         /\ goal_distances[t[3]] = Infinity \/ Cost64(t[2]) = Infinity => Through(t) = Infinity
<1>1. Cost64(t[2]) \in Nat
  BY Cost64Positive
<1>2. PICK a \in Nat, b \in Nat : a = goal_distances[t[3]] /\ b = Cost64(t[2])
  BY <1>1
<1>3. Through(t) = AddCosts(a, b)
  BY <1>2 DEF Through
<1> QED
  BY <1>2, <1>3, AddType DEF AddCosts

\* Reconnect keeps or moves an edge of the tree, or takes a state out of it.
LEMMA ReconnectTree ==
  ASSUME TransitionsIn, operator_costs \in [COperators -> Nat],
         TreeFacts, phase = "reconnect", Reconnect
  PROVE  TreeFacts'
<1>1. PICK id \in Nearest(candidate_queue) :
       LET asGood == {t \in SettledEdges(id) : Through(t) = goal_distances[id]}
           rest == candidate_queue \ {id}
       IN IF asGood # {}
          THEN /\ \E t \in asGood : shortest_path' = [shortest_path EXCEPT ![id] = <<t[2], t[3]>>]
               /\ candidate_queue' = rest
               /\ UNCHANGED <<goal_distances, dirty_states>>
          ELSE /\ goal_distances' = [goal_distances EXCEPT ![id] = Dirty]
               /\ shortest_path' = [shortest_path EXCEPT ![id] = Undefined]
               /\ dirty_states' = Append(dirty_states, id)
               /\ candidate_queue' = rest \union Orphans(id)
  BY DEF Reconnect
<1>2. /\ UNCHANGED <<states, goals, transitions, phase, operator_costs, open_queue>>
  BY DEF Reconnect, abstractionvars
<1>3. /\ id \in candidate_queue /\ id \in DOMAIN states /\ id \notin goals
      /\ goal_distances[id] # Dirty
      /\ DOMAIN goal_distances = DOMAIN states /\ DOMAIN shortest_path = DOMAIN states
      /\ open_queue = {}
  BY DEF Nearest, TreeFacts
<1>4. \A o : Cost64(o)' = Cost64(o)
  BY <1>2 DEF Cost64, HasZeroCosts
<1> DEFINE asGood == {t \in SettledEdges(id) : Through(t) = goal_distances[id]}
<1>5. CASE asGood # {}
  <2>1. PICK t \in asGood : shortest_path' = [shortest_path EXCEPT ![id] = <<t[2], t[3]>>]
    BY <1>1, <1>5
  <2>2. candidate_queue' = candidate_queue \ {id} /\ UNCHANGED <<goal_distances, dirty_states>>
    BY <1>1, <1>5
  <2>3. /\ t \in transitions /\ t[1] = id /\ goal_distances[t[3]] # Dirty
        /\ Through(t) = goal_distances[id]
    BY DEF SettledEdges
  <2>4. t[2] \in COperators /\ t[3] \in DOMAIN states /\ t = <<id, t[2], t[3]>>
    BY <2>3 DEF TransitionsIn
  <2>5. DOMAIN shortest_path' = DOMAIN states
        /\ \A u \in DOMAIN states : shortest_path'[u] = IF u = id THEN <<t[2], t[3]>> ELSE shortest_path[u]
    BY <1>3, <2>1
  <2>6. ASSUME NEW u \in DOMAIN states, u \notin goals, u \notin candidate_queue',
               goal_distances[u] \notin {Dirty, Infinity}
        PROVE  StepOK(u)'
    <3>1. CASE u = id
      <4>1. shortest_path'[u] = <<t[2], t[3]>> /\ <<t[2], t[3]>> # Undefined
        <5>1. t[3] \in Nat
          BY <2>4 DEF TransitionsIn
        <5> QED
          BY <2>4, <2>5, <3>1, <5>1, UndefinedAssumption
      <4>2. shortest_path'[u][1] = t[2] /\ shortest_path'[u][2] = t[3]
        BY <4>1
      <4>3. goal_distances[t[3]] \in Nat
        BY <2>3, <2>4 DEF TreeFacts, IsDistance
      <4>4. goal_distances[t[3]] # Infinity /\ Cost64(t[2]) # Infinity
            /\ goal_distances[u] = goal_distances[t[3]] + Cost64(t[2])
        BY <2>3, <2>4, <2>6, <3>1, <4>3, ThroughNat
      <4>5. goal_distances[u] \in Nat
        BY <2>6 DEF TreeFacts, IsDistance
      <4>6. goal_distances[u] >= goal_distances[t[3]] + Cost64(t[2])
        BY <4>4, <4>5
      <4> QED
        BY <1>2, <1>4, <2>2, <2>3, <2>4, <3>1, <4>1, <4>2, <4>4, <4>6 DEF StepOK
    <3>2. CASE u # id
      <4>1. StepOK(u)
        BY <2>2, <2>6, <3>2 DEF TreeFacts
      <4>2. shortest_path'[u] = shortest_path[u]
        BY <2>5, <3>2
      <4> QED
        BY <1>2, <1>4, <2>2, <4>1, <4>2 DEF StepOK
    <3> QED
      BY <3>1, <3>2
  <2>7. DirtyListed'
    BY <1>2, <2>2 DEF TreeFacts, DirtyListed
  <2>8. \A x : Through(x)' = Through(x)
    BY <1>4, <2>2 DEF Through
  <2>9. \A u \in DOMAIN states : u \in goals => u # id
    BY <1>3
  <2> QED
    BY <1>2, <1>3, <2>2, <2>5, <2>6, <2>7, <2>8, <2>9 DEF TreeFacts
<1>6. CASE asGood = {}
  <2>1. /\ goal_distances' = [goal_distances EXCEPT ![id] = Dirty]
        /\ shortest_path' = [shortest_path EXCEPT ![id] = Undefined]
        /\ dirty_states' = Append(dirty_states, id)
        /\ candidate_queue' = (candidate_queue \ {id}) \union Orphans(id)
    BY <1>1, <1>6
  <2>2. /\ DOMAIN goal_distances' = DOMAIN states /\ DOMAIN shortest_path' = DOMAIN states
        /\ \A u \in DOMAIN states :
             /\ goal_distances'[u] = IF u = id THEN Dirty ELSE goal_distances[u]
             /\ shortest_path'[u] = IF u = id THEN Undefined ELSE shortest_path[u]
    BY <1>3, <2>1
  <2>3. \A u \in Orphans(id) :
          /\ u \in DOMAIN states /\ u \notin candidate_queue /\ goal_distances[u] # Dirty
          /\ shortest_path[u] # Undefined
    BY <1>3 DEF Orphans
  <2>4. \A u \in candidate_queue' : u \in DOMAIN states /\ u \notin goals /\ goal_distances'[u] # Dirty
    <3> SUFFICES ASSUME NEW u \in candidate_queue'
                 PROVE  u \in DOMAIN states /\ u \notin goals /\ goal_distances'[u] # Dirty
      OBVIOUS
    <3>1. CASE u \in candidate_queue \ {id}
      BY <2>2, <3>1 DEF TreeFacts
    <3>2. CASE u \in Orphans(id)
      BY <1>3, <2>2, <2>3, <3>2 DEF TreeFacts
    <3> QED
      BY <2>1, <3>1, <3>2
  <2>5. ASSUME NEW u \in DOMAIN states, u \notin goals, u \notin candidate_queue',
               goal_distances'[u] \notin {Dirty, Infinity}
        PROVE  StepOK(u)'
    <3>1. u # id /\ goal_distances'[u] = goal_distances[u] /\ shortest_path'[u] = shortest_path[u]
      BY <2>2, <2>5
    <3>2. StepOK(u)
      BY <2>1, <2>5, <3>1 DEF TreeFacts
    <3>3. shortest_path[u][2] # id
      <4>1. u \in DOMAIN shortest_path \ candidate_queue
        BY <1>3, <2>1, <2>5, <3>1
      <4> QED
        BY <2>1, <2>5, <3>1, <3>2, <4>1 DEF Orphans, StepOK
    <3>4. shortest_path[u][2] \in DOMAIN states
      <4>1. PICK y : y = <<u, shortest_path[u][1], shortest_path[u][2]>>
        OBVIOUS
      <4>2. y \in transitions /\ y[3] = shortest_path[u][2]
        BY <3>2, <4>1 DEF StepOK
      <4> QED
        BY <4>2 DEF TransitionsIn
    <3>5. goal_distances'[shortest_path[u][2]] = goal_distances[shortest_path[u][2]]
      BY <2>2, <3>3, <3>4
    <3> QED
      BY <1>2, <1>4, <3>1, <3>2, <3>5 DEF StepOK
  <2>6. DirtyListed'
    <3>1. DirtyListed
      BY DEF TreeFacts
    <3>2. id \in Nat /\ DOMAIN states \subseteq DOMAIN states'
      BY <1>2, <1>3 DEF TransitionsIn
    <3>3. PICK k \in Nat : k = Len(dirty_states)
      BY <3>1 DEF DirtyListed
    <3>4. /\ dirty_states' \in Seq(Nat) /\ Len(dirty_states') = k + 1
          /\ \A i \in 1..k : dirty_states'[i] = dirty_states[i]
          /\ dirty_states'[k+1] = id
      BY <2>1, <3>1, <3>2, <3>3 DEF DirtyListed
    <3>5. \A i \in 1..k : dirty_states[i] \in DOMAIN states /\ goal_distances[dirty_states[i]] = Dirty
                          /\ dirty_states[i] # id
      BY <1>3, <3>1, <3>3 DEF DirtyListed
    <3>6. \A i \in 1..k+1 : i \in 1..k \/ i = k + 1
      OBVIOUS
    <3>7. \A i \in 1..k+1 : dirty_states'[i] \in DOMAIN states /\ goal_distances'[dirty_states'[i]] = Dirty
      BY <1>3, <2>2, <3>4, <3>5, <3>6
    <3>8. \A i, j \in 1..k+1 : dirty_states'[i] = dirty_states'[j] => i = j
      <4>1. \A i, j \in 1..k : dirty_states[i] = dirty_states[j] => i = j
        BY <3>1, <3>3 DEF DirtyListed
      <4> QED
        BY <3>4, <3>5, <3>6, <4>1
    <3>9. ASSUME NEW u \in DOMAIN states, goal_distances'[u] = Dirty
          PROVE  \E i \in 1..k+1 : dirty_states'[i] = u
      <4>1. CASE u = id
        <5>1. k + 1 \in 1..k+1
          OBVIOUS
        <5> QED
          BY <3>4, <4>1, <5>1
      <4>2. CASE u # id
        <5>1. PICK i \in 1..k : dirty_states[i] = u
          BY <2>2, <3>1, <3>3, <3>9, <4>2 DEF DirtyListed
        <5>2. i \in 1..k+1
          OBVIOUS
        <5> QED
          BY <3>4, <5>1, <5>2
      <4> QED
        BY <4>1, <4>2
    <3> QED
      BY <1>2, <3>4, <3>7, <3>8, <3>9 DEF DirtyListed
  <2>7. ASSUME NEW t \in transitions, goal_distances'[t[1]] # Dirty, goal_distances'[t[3]] # Dirty
        PROVE  goal_distances'[t[1]] <= Through(t)'
    <3>1. t[1] \in DOMAIN states /\ t[3] \in DOMAIN states
      BY DEF TransitionsIn
    <3>2. goal_distances'[t[1]] = goal_distances[t[1]] /\ goal_distances'[t[3]] = goal_distances[t[3]]
      BY <2>2, <2>7, <3>1
    <3>3. Through(t)' = Through(t)
      BY <1>4, <3>2 DEF Through
    <3> QED
      BY <1>3, <2>7, <3>2, <3>3 DEF TreeFacts
  <2>8. \A u \in DOMAIN states : IsDistance(goal_distances'[u])
    BY <2>2 DEF TreeFacts, IsDistance
  <2>9. \A u \in DOMAIN states : u \in goals => goal_distances'[u] = 0 /\ shortest_path'[u] = Undefined
    BY <1>3, <2>2 DEF TreeFacts
  <2> QED
    BY <1>2, <1>3, <2>2, <2>4, <2>5, <2>6, <2>7, <2>8, <2>9 DEF TreeFacts, IsDistance
<1> QED
  BY <1>5, <1>6

\* A dirty state gets the best distance over the others, or none.
LEMMA SettleTree ==
  ASSUME TransitionsIn, operator_costs \in [COperators -> Nat],
         TreeFacts, phase = "settle", SettleDirty
  PROVE  TreeFacts'
<1> DEFINE id == Head(dirty_states)
           all == {Infinity} \union {Through(t) : t \in SettledEdges(id)}
           best == Min(all)
<1>1. /\ dirty_states # <<>>
      /\ goal_distances' = [goal_distances EXCEPT ![id] = best]
      /\ IF best = Infinity THEN UNCHANGED <<shortest_path, open_queue>>
         ELSE /\ \E t \in {t \in SettledEdges(id) : Through(t) = best} :
                   shortest_path' = [shortest_path EXCEPT ![id] = <<t[2], t[3]>>]
              /\ open_queue' = open_queue \union {id}
      /\ dirty_states' = Tail(dirty_states)
  BY DEF SettleDirty
<1>2. UNCHANGED <<states, goals, transitions, phase, operator_costs, candidate_queue>>
  BY DEF SettleDirty, abstractionvars
<1>3. \A o : Cost64(o)' = Cost64(o)
  BY <1>2 DEF Cost64, HasZeroCosts
<1>4. /\ dirty_states \in Seq(Nat) /\ Len(dirty_states) \in Nat /\ Len(dirty_states) > 0
      /\ id = dirty_states[1] /\ 1 \in 1..Len(dirty_states)
  BY <1>1 DEF TreeFacts, DirtyListed
<1>5. /\ id \in DOMAIN states /\ goal_distances[id] = Dirty /\ id \notin goals
      /\ candidate_queue = {}
      /\ DOMAIN goal_distances = DOMAIN states /\ DOMAIN shortest_path = DOMAIN states
  <2>1. id \in DOMAIN states /\ goal_distances[id] = Dirty
    BY <1>4 DEF TreeFacts, DirtyListed
  <2>2. Dirty # 0
    BY DistanceAssumption
  <2> HIDE DEF id
  <2> QED
    BY <2>1, <2>2 DEF TreeFacts
<1> HIDE DEF id
<1>6. \A t \in SettledEdges(id) :
        /\ t \in transitions /\ t[1] = id /\ t[2] \in COperators /\ t[3] \in DOMAIN states
        /\ t[3] # id /\ goal_distances[t[3]] \in Nat /\ Through(t) \in Nat
        /\ goal_distances[t[3]] <= Infinity
  <2> SUFFICES ASSUME NEW t \in SettledEdges(id)
               PROVE  /\ t \in transitions /\ t[1] = id /\ t[2] \in COperators /\ t[3] \in DOMAIN states
                      /\ t[3] # id /\ goal_distances[t[3]] \in Nat /\ Through(t) \in Nat
                      /\ goal_distances[t[3]] <= Infinity
    OBVIOUS
  <2>1. t \in transitions /\ t[1] = id /\ goal_distances[t[3]] # Dirty
    BY DEF SettledEdges
  <2>2. t[2] \in COperators /\ t[3] \in DOMAIN states /\ t[3] # id
    BY <2>1 DEF TransitionsIn
  <2>3. goal_distances[t[3]] \in Nat /\ goal_distances[t[3]] <= Infinity
    BY <2>1, <2>2 DEF TreeFacts, IsDistance
  <2> QED
    BY <2>1, <2>2, <2>3, ThroughNat
<1>7. /\ best \in Nat /\ best <= Infinity
      /\ \A t \in SettledEdges(id) : best <= Through(t)
  <2>1. all \subseteq Nat /\ all # {}
    BY <1>6, DistanceAssumption
  <2>2. Infinity \in all /\ \A t \in SettledEdges(id) : Through(t) \in all
    OBVIOUS
  <2> HIDE DEF all
  <2> QED
    BY <2>1, <2>2, MinNat
<1>8. best # Dirty
  BY <1>7, DistanceAssumption
<1> HIDE DEF all, best
<1>9. /\ DOMAIN goal_distances' = DOMAIN states
      /\ \A u \in DOMAIN states : goal_distances'[u] = IF u = id THEN best ELSE goal_distances[u]
  BY <1>1, <1>5
<1>10. /\ DOMAIN shortest_path' = DOMAIN states
       /\ \A u \in DOMAIN states : u # id => shortest_path'[u] = shortest_path[u]
       /\ \A u \in DOMAIN states : u \in open_queue => u \in open_queue'
       /\ \A u : u \in open_queue /\ u # id => u \in open_queue'
  BY <1>1, <1>5
<1>11. best # Infinity =>
         /\ id \in open_queue'
         /\ \E t \in SettledEdges(id) : Through(t) = best /\ shortest_path'[id] = <<t[2], t[3]>>
  <2> SUFFICES ASSUME best # Infinity
               PROVE  /\ id \in open_queue'
                      /\ \E t \in SettledEdges(id) : Through(t) = best /\ shortest_path'[id] = <<t[2], t[3]>>
    OBVIOUS
  <2>1. PICK t \in SettledEdges(id) : Through(t) = best /\ shortest_path' = [shortest_path EXCEPT ![id] = <<t[2], t[3]>>]
    BY <1>1
  <2>2. shortest_path'[id] = <<t[2], t[3]>>
    BY <1>5, <2>1
  <2> QED
    BY <1>1, <2>1, <2>2
<1>12. ASSUME NEW u \in DOMAIN states, u \notin goals, goal_distances'[u] \notin {Dirty, Infinity}
       PROVE  StepOK(u)'
  <2>1. CASE u = id
    <3>1. PICK t \in SettledEdges(id) : Through(t) = best /\ shortest_path'[id] = <<t[2], t[3]>>
      BY <1>9, <1>11, <1>12, <2>1
    <3>2. /\ t \in transitions /\ t[1] = id /\ t[2] \in COperators /\ t[3] \in DOMAIN states
          /\ t[3] # id /\ goal_distances[t[3]] \in Nat
      BY <1>6
    <3>3. t = <<id, t[2], t[3]>> /\ <<t[2], t[3]>> # Undefined
      <4>1. t[3] \in Nat
        BY <3>2 DEF TransitionsIn
      <4> QED
        BY <3>2, <4>1, UndefinedAssumption DEF TransitionsIn
    <3>4. shortest_path'[id][1] = t[2] /\ shortest_path'[id][2] = t[3]
      BY <3>1
    <3>5. goal_distances'[t[3]] = goal_distances[t[3]] /\ goal_distances'[id] = best
      BY <1>5, <1>9, <3>2
    <3>6. best # Infinity
      BY <1>12, <2>1, <3>5
    <3>7. goal_distances[t[3]] # Infinity /\ Cost64(t[2]) # Infinity
          /\ best = goal_distances[t[3]] + Cost64(t[2])
      BY <3>1, <3>2, <3>6, ThroughNat
    <3>8. best >= goal_distances[t[3]] + Cost64(t[2])
      BY <1>7, <3>7
    <3>9. goal_distances[t[3]] # Dirty
      BY <3>2, DistanceAssumption
    <3> QED
      BY <1>2, <1>3, <2>1, <3>1, <3>2, <3>3, <3>4, <3>5, <3>7, <3>8, <3>9 DEF StepOK
  <2>2. CASE u # id
    <3>1. goal_distances'[u] = goal_distances[u] /\ shortest_path'[u] = shortest_path[u]
      BY <1>9, <1>10, <2>2
    <3>2. StepOK(u)
      BY <1>5, <1>12, <3>1 DEF TreeFacts
    <3>3. shortest_path[u][2] \in DOMAIN states /\ shortest_path[u][2] # id
      <4>1. PICK y : y = <<u, shortest_path[u][1], shortest_path[u][2]>>
        OBVIOUS
      <4>2. y \in transitions /\ y[3] = shortest_path[u][2]
        BY <3>2, <4>1 DEF StepOK
      <4>3. shortest_path[u][2] \in DOMAIN states
        BY <4>2 DEF TransitionsIn
      <4> QED
        BY <1>5, <3>2, <4>3 DEF StepOK
    <3>4. goal_distances'[shortest_path[u][2]] = goal_distances[shortest_path[u][2]]
      BY <1>9, <3>3
    <3> QED
      BY <1>2, <1>3, <3>1, <3>2, <3>4 DEF StepOK
  <2> QED
    BY <2>1, <2>2
<1>13. ASSUME NEW t \in transitions, goal_distances'[t[1]] # Dirty, goal_distances'[t[3]] # Dirty,
              t[3] \notin open_queue'
       PROVE  goal_distances'[t[1]] <= Through(t)'
  <2>1. t[1] \in DOMAIN states /\ t[3] \in DOMAIN states /\ t[1] # t[3] /\ t[2] \in COperators
    BY DEF TransitionsIn
  <2>2. CASE t[1] = id
    <3>1. goal_distances'[t[3]] = goal_distances[t[3]] /\ goal_distances'[t[1]] = best
      BY <1>9, <2>1, <2>2
    <3>2. t \in SettledEdges(id)
      BY <1>13, <2>2, <3>1 DEF SettledEdges
    <3>3. Through(t)' = Through(t)
      BY <1>3, <3>1 DEF Through
    <3> QED
      BY <1>7, <3>1, <3>2, <3>3
  <2>3. CASE t[3] = id
    <3>1. goal_distances'[t[3]] = Infinity
      BY <1>9, <1>11, <1>13, <2>1, <2>3
    <3>2. Through(t)' = Infinity
      BY <3>1 DEF Through, AddCosts
    <3>3. goal_distances'[t[1]] = goal_distances[t[1]]
      BY <1>9, <2>1, <2>3
    <3>4. goal_distances[t[1]] <= Infinity
      BY <1>13, <2>1, <3>3 DEF TreeFacts, IsDistance
    <3> QED
      BY <3>2, <3>3, <3>4
  <2>4. CASE t[1] # id /\ t[3] # id
    <3>1. goal_distances'[t[3]] = goal_distances[t[3]] /\ goal_distances'[t[1]] = goal_distances[t[1]]
      BY <1>9, <2>1, <2>4
    <3>2. Through(t)' = Through(t)
      BY <1>3, <3>1 DEF Through
    <3>3. t[3] \notin open_queue
      BY <1>10, <1>13, <2>1
    <3> QED
      BY <1>13, <3>1, <3>2, <3>3 DEF TreeFacts
  <2> QED
    BY <2>2, <2>3, <2>4
<1>14. DirtyListed'
  <2>1. DirtyListed
    BY DEF TreeFacts
  <2>2. PICK k \in Nat : Len(dirty_states) = k + 1
    <3>1. Len(dirty_states) - 1 \in Nat /\ Len(dirty_states) = (Len(dirty_states) - 1) + 1
      BY <1>4
    <3> QED
      BY <3>1
  <2>3. dirty_states' \in Seq(Nat) /\ Len(dirty_states') = k
        /\ \A i \in 1..k : dirty_states'[i] = dirty_states[i+1]
    BY <1>1, <1>4, <2>2
  <2>4. \A i \in 1..k : i + 1 \in 1..k+1 /\ i + 1 # 1
    OBVIOUS
  <2>5. /\ \A i \in 1..k+1 : dirty_states[i] \in DOMAIN states /\ goal_distances[dirty_states[i]] = Dirty
        /\ \A i, j \in 1..k+1 : dirty_states[i] = dirty_states[j] => i = j
        /\ \A u \in DOMAIN states : goal_distances[u] = Dirty => \E i \in 1..k+1 : dirty_states[i] = u
    BY <2>1, <2>2 DEF DirtyListed
  <2>6. ASSUME NEW i \in 1..k
        PROVE  /\ dirty_states'[i] \in DOMAIN states /\ dirty_states'[i] # id
               /\ goal_distances'[dirty_states'[i]] = Dirty
    <3>1. i + 1 \in 1..k+1 /\ 1 \in 1..k+1 /\ i + 1 # 1 /\ dirty_states'[i] = dirty_states[i+1]
      BY <2>3, <2>4
    <3>2. dirty_states[i+1] # dirty_states[1]
      BY <2>5, <3>1
    <3> QED
      BY <1>4, <1>9, <2>5, <3>1, <3>2
  <2>7. ASSUME NEW i \in 1..k, NEW j \in 1..k, dirty_states'[i] = dirty_states'[j] PROVE i = j
    <3>1. i + 1 \in 1..k+1 /\ j + 1 \in 1..k+1 /\ dirty_states[i+1] = dirty_states[j+1]
      BY <2>3, <2>4, <2>7
    <3>2. i + 1 = j + 1
      BY <2>5, <3>1
    <3> QED
      BY <3>2
  <2>8. ASSUME NEW u \in DOMAIN states, goal_distances'[u] = Dirty
        PROVE  \E i \in 1..k : dirty_states'[i] = u
    <3>1. u # id /\ goal_distances[u] = Dirty
      BY <1>8, <1>9, <2>8
    <3>2. PICK j \in 1..k+1 : dirty_states[j] = u
      BY <2>5, <3>1
    <3>3. j # 1
      BY <1>4, <3>1, <3>2
    <3>4. PICK i \in 1..k : j = i + 1
      <4>1. j - 1 \in 1..k /\ j = (j - 1) + 1
        BY <3>3
      <4> QED
        BY <4>1
    <3> QED
      BY <2>3, <3>2, <3>4
  <2> QED
    BY <1>2, <2>3, <2>6, <2>7, <2>8 DEF DirtyListed
<1>15. \A u \in DOMAIN states : IsDistance(goal_distances'[u])
  BY <1>7, <1>9 DEF TreeFacts, IsDistance
<1>16. \A u \in DOMAIN states : u \in goals => goal_distances'[u] = 0 /\ shortest_path'[u] = Undefined
  BY <1>5, <1>9, <1>10 DEF TreeFacts
<1> QED
  BY <1>2, <1>5, <1>9, <1>10, <1>12, <1>13, <1>14, <1>15, <1>16 DEF TreeFacts, IsDistance

\* Dijkstra's algorithm brings the states before an expanded one closer.
LEMMA ExpandTree ==
  ASSUME NEW n, StatesOK(states, n), TransitionsIn, operator_costs \in [COperators -> Nat],
         TreeFacts, phase = "dijkstra", ExpandNearest
  PROVE  TreeFacts'
<1> DEFINE into(id, u) == {t \in transitions : t[1] = u /\ t[3] = id}
           all(id, u) == {goal_distances[u]} \union {Through(t) : t \in into(id, u)}
           best(id, u) == Min(all(id, u))
           improved(id) == {u \in DOMAIN states : best(id, u) < goal_distances[u]}
           options(id) == [u \in DOMAIN states |->
               IF u \in improved(id)
               THEN {<<t[2], t[3]>> : t \in {t \in into(id, u) : Through(t) = best(id, u)}}
               ELSE {shortest_path[u]}]
<1>1. PICK id \in Nearest(open_queue) :
        /\ goal_distances' = [u \in DOMAIN states |-> best(id, u)]
        /\ shortest_path' \in ChoicesOf(options(id))
        /\ open_queue' = (open_queue \ {id}) \union improved(id)
  BY DEF ExpandNearest
<1>2. UNCHANGED <<states, goals, transitions, phase, operator_costs, candidate_queue, dirty_states>>
  BY DEF ExpandNearest, abstractionvars
<1>3. \A o : Cost64(o)' = Cost64(o)
  BY <1>2 DEF Cost64, HasZeroCosts
<1>4. /\ candidate_queue = {} /\ dirty_states = <<>>
      /\ DOMAIN goal_distances = DOMAIN states /\ DOMAIN shortest_path = DOMAIN states
      /\ \A u \in DOMAIN states : goal_distances[u] \in Nat /\ goal_distances[u] <= Infinity
  <2>1. candidate_queue = {} /\ dirty_states = <<>> /\ DirtyListed
    BY DEF TreeFacts
  <2>2. \A u \in DOMAIN states : goal_distances[u] # Dirty
    BY <2>1, NoneDirty
  <2> QED
    BY <2>1, <2>2 DEF TreeFacts, IsDistance
<1>5. \A t \in transitions :
        /\ t[1] \in DOMAIN states /\ t[2] \in COperators /\ t[3] \in DOMAIN states
        /\ t[1] # t[3] /\ t = <<t[1], t[2], t[3]>> /\ Through(t) \in Nat
  <2> SUFFICES ASSUME NEW t \in transitions
               PROVE  /\ t[1] \in DOMAIN states /\ t[2] \in COperators /\ t[3] \in DOMAIN states
                      /\ t[1] # t[3] /\ t = <<t[1], t[2], t[3]>> /\ Through(t) \in Nat
    OBVIOUS
  <2>1. /\ t[1] \in DOMAIN states /\ t[2] \in COperators /\ t[3] \in DOMAIN states
        /\ t[1] # t[3] /\ t = <<t[1], t[2], t[3]>>
    BY DEF TransitionsIn
  <2>2. Through(t) \in Nat
    BY <1>4, <2>1, ThroughNat
  <2> QED
    BY <2>1, <2>2
<1>6. ASSUME NEW u \in DOMAIN states
      PROVE  /\ best(id, u) \in Nat /\ best(id, u) <= goal_distances[u]
             /\ \A t \in into(id, u) : best(id, u) <= Through(t)
  <2>1. all(id, u) \subseteq Nat /\ all(id, u) # {}
    BY <1>4, <1>5
  <2>2. goal_distances[u] \in all(id, u) /\ \A t \in into(id, u) : Through(t) \in all(id, u)
    OBVIOUS
  <2> HIDE DEF all, into
  <2> QED
    BY <2>1, <2>2, MinNat
<1> HIDE DEF best
<1>7. /\ DOMAIN goal_distances' = DOMAIN states
      /\ \A u \in DOMAIN states : goal_distances'[u] = best(id, u)
  BY <1>1
<1>8. /\ DOMAIN shortest_path' = DOMAIN states
      /\ \A u \in DOMAIN states : shortest_path'[u] \in options(id)[u]
  <2>1. n \in Nat /\ DOMAIN states = 0..n-1
    BY DEF StatesOK
  <2>2. DOMAIN options(id) = 0..n-1
    BY <2>1
  <2> HIDE DEF options
  <2> QED
    BY <1>1, <2>1, <2>2, ChoicesAre
<1>9. ASSUME NEW u \in DOMAIN states
      PROVE  IF u \in improved(id)
             THEN \E t \in into(id, u) : Through(t) = best(id, u) /\ shortest_path'[u] = <<t[2], t[3]>>
             ELSE shortest_path'[u] = shortest_path[u] /\ goal_distances'[u] = goal_distances[u]
  <2>1. shortest_path'[u] \in
          IF u \in improved(id)
          THEN {<<t[2], t[3]>> : t \in {t \in into(id, u) : Through(t) = best(id, u)}}
          ELSE {shortest_path[u]}
    BY <1>8
  <2>2. CASE u \in improved(id)
    <3> HIDE DEF improved, into
    <3> QED
      BY <2>1, <2>2
  <2>3. CASE u \notin improved(id)
    <3>1. shortest_path'[u] = shortest_path[u]
      BY <2>1, <2>3
    <3>2. ~(best(id, u) < goal_distances[u])
      BY <2>3
    <3>3. best(id, u) = goal_distances[u]
      BY <1>4, <1>6, <3>2
    <3> QED
      BY <1>7, <2>3, <3>1, <3>3
  <2> QED
    BY <2>2, <2>3
<1>10. ASSUME NEW u \in DOMAIN states, u \notin goals, goal_distances'[u] # Infinity
       PROVE  StepOK(u)'
  <2>1. CASE u \in improved(id)
    <3>1. PICK t \in into(id, u) : Through(t) = best(id, u) /\ shortest_path'[u] = <<t[2], t[3]>>
      BY <1>9, <2>1
    <3>2. t \in transitions /\ t[1] = u /\ t[3] = id
      BY <3>1
    <3>3. t[2] \in COperators /\ t[3] \in DOMAIN states /\ t = <<u, t[2], t[3]>>
      BY <1>5, <3>2
    <3>4. <<t[2], t[3]>> # Undefined
      <4>1. t[3] \in Nat
        BY <3>3 DEF TransitionsIn
      <4> QED
        BY <3>3, <4>1, UndefinedAssumption
    <3>5. shortest_path'[u][1] = t[2] /\ shortest_path'[u][2] = t[3]
      BY <3>1
    <3>6. goal_distances[t[3]] \in Nat /\ goal_distances[t[3]] <= Infinity
      BY <1>4, <3>3
    <3>7. goal_distances[t[3]] # Infinity /\ Cost64(t[2]) # Infinity
          /\ goal_distances'[u] = goal_distances[t[3]] + Cost64(t[2])
      BY <1>7, <1>10, <3>1, <3>3, <3>6, ThroughNat
    <3>8. goal_distances'[t[3]] \in Nat /\ goal_distances'[t[3]] <= goal_distances[t[3]]
      BY <1>6, <1>7, <3>3
    <3>9. Cost64(t[2]) \in Nat
      BY <3>3, Cost64Positive
    <3>10. /\ goal_distances'[t[3]] \notin {Dirty, Infinity}
           /\ goal_distances'[u] >= goal_distances'[t[3]] + Cost64(t[2])
      BY <3>6, <3>7, <3>8, <3>9, DistanceAssumption
    <3> QED
      BY <1>2, <1>3, <3>1, <3>2, <3>3, <3>4, <3>5, <3>7, <3>10 DEF StepOK
  <2>2. CASE u \notin improved(id)
    <3>1. shortest_path'[u] = shortest_path[u] /\ goal_distances'[u] = goal_distances[u]
      BY <1>9, <2>2
    <3>2. StepOK(u)
      <4>1. goal_distances[u] \notin {Dirty, Infinity}
        BY <1>4, <1>10, <3>1, DistanceAssumption
      <4> QED
        BY <1>4, <1>10, <4>1 DEF TreeFacts
    <3>3. shortest_path[u][2] \in DOMAIN states /\ shortest_path[u][1] \in COperators
      <4>1. PICK y : y = <<u, shortest_path[u][1], shortest_path[u][2]>>
        OBVIOUS
      <4>2. y \in transitions /\ y[3] = shortest_path[u][2] /\ y[2] = shortest_path[u][1]
        BY <3>2, <4>1 DEF StepOK
      <4> QED
        BY <1>5, <4>2
    <3>4. PICK v \in DOMAIN states : v = shortest_path[u][2]
      BY <3>3
    <3>5. /\ goal_distances'[v] \in Nat /\ goal_distances'[v] <= goal_distances[v]
          /\ goal_distances[v] \in Nat /\ goal_distances[v] <= Infinity /\ goal_distances[u] \in Nat
      BY <1>4, <1>6, <1>7
    <3>6. Cost64(shortest_path[u][1]) \in Nat
      BY <3>3, Cost64Positive
    <3>7. goal_distances[v] # Infinity /\ goal_distances[u] >= goal_distances[v] + Cost64(shortest_path[u][1])
      BY <3>2, <3>4 DEF StepOK
    <3>8. /\ goal_distances'[v] \notin {Dirty, Infinity}
          /\ goal_distances[u] >= goal_distances'[v] + Cost64(shortest_path[u][1])
      BY <3>5, <3>6, <3>7, DistanceAssumption
    <3> QED
      BY <1>2, <1>3, <3>1, <3>2, <3>4, <3>8 DEF StepOK
  <2> QED
    BY <2>1, <2>2
<1>11. ASSUME NEW t \in transitions, t[3] \notin open_queue'
       PROVE  goal_distances'[t[1]] <= Through(t)'
  <2>1. t[1] \in DOMAIN states /\ t[3] \in DOMAIN states /\ t[1] # t[3]
    BY <1>5
  <2>2. goal_distances'[t[3]] = goal_distances[t[3]]
    <3>1. t[3] \notin improved(id)
      BY <1>1, <1>11
    <3> QED
      BY <1>9, <2>1, <3>1
  <2>3. Through(t)' = Through(t)
    BY <1>3, <2>2 DEF Through
  <2>4. CASE t[3] = id
    <3>1. t \in into(id, t[1])
      BY <2>4
    <3> QED
      BY <1>6, <1>7, <2>1, <2>3, <3>1
  <2>5. CASE t[3] # id
    <3>1. t[3] \notin open_queue
      BY <1>1, <1>11, <2>5
    <3>2. goal_distances[t[1]] # Dirty /\ goal_distances[t[3]] # Dirty
      BY <1>4, <2>1, DistanceAssumption
    <3>3. goal_distances[t[1]] <= Through(t)
      BY <3>1, <3>2 DEF TreeFacts
    <3>4. goal_distances'[t[1]] \in Nat /\ goal_distances'[t[1]] <= goal_distances[t[1]]
      BY <1>6, <1>7, <2>1
    <3> QED
      BY <1>4, <1>5, <2>1, <2>3, <3>3, <3>4
  <2> QED
    BY <2>4, <2>5
<1>12. \A u \in DOMAIN states : goal_distances'[u] \in Nat /\ goal_distances'[u] <= Infinity
  <2> SUFFICES ASSUME NEW u \in DOMAIN states
               PROVE  goal_distances'[u] \in Nat /\ goal_distances'[u] <= Infinity
    OBVIOUS
  <2>1. best(id, u) \in Nat /\ best(id, u) <= goal_distances[u] /\ goal_distances[u] \in Nat
        /\ goal_distances[u] <= Infinity
    BY <1>4, <1>6
  <2> QED
    BY <1>7, <2>1, DistanceAssumption
<1>13. ASSUME NEW u \in DOMAIN states, u \in goals
       PROVE  goal_distances'[u] = 0 /\ shortest_path'[u] = Undefined
  <2>1. goal_distances[u] = 0 /\ shortest_path[u] = Undefined
    BY <1>13 DEF TreeFacts
  <2>2. u \notin improved(id)
    BY <1>6, <2>1
  <2> QED
    BY <1>9, <2>1, <2>2
<1>14. DirtyListed'
  <2>1. \A u \in DOMAIN states : goal_distances'[u] # Dirty
    BY <1>12, DistanceAssumption
  <2>2. dirty_states' = <<>>
    BY <1>2, <1>4
  <2>3. dirty_states' \in Seq(Nat) /\ Len(dirty_states') = 0
    BY <2>2
  <2>4. \A i \in 1..0 : FALSE
    OBVIOUS
  <2> QED
    BY <1>2, <2>1, <2>3, <2>4 DEF DirtyListed
<1> HIDE DEF improved, into, options
<1> QED
  BY <1>2, <1>4, <1>7, <1>8, <1>10, <1>11, <1>12, <1>13, <1>14 DEF TreeFacts, IsDistance

\* The steps that only change the phase.
LEMMA PhaseTree ==
  ASSUME TreeFacts, UNCHANGED <<abstractionvars, operator_costs, treevars>>,
         \/ phase = "reconnect" /\ candidate_queue = {} /\ phase' = "settle"
         \/ phase = "settle" /\ dirty_states = <<>> /\ phase' = "dijkstra"
         \/ phase = "dijkstra" /\ open_queue = {} /\ phase' = "loop"
         \/ phase' = phase
  PROVE  TreeFacts'
<1>1. UNCHANGED <<states, goals, transitions, operator_costs, goal_distances, shortest_path,
                  candidate_queue, dirty_states, open_queue>>
  BY DEF abstractionvars, treevars
<1>2. \A o : Cost64(o)' = Cost64(o)
  BY <1>1 DEF Cost64, HasZeroCosts
<1>3. \A t : Through(t)' = Through(t)
  BY <1>1, <1>2 DEF Through
<1>4. \A u : StepOK(u)' <=> StepOK(u)
  BY <1>1, <1>2 DEF StepOK
<1>5. DirtyListed'
  BY <1>1 DEF TreeFacts, DirtyListed
<1> QED
  BY <1>1, <1>3, <1>4, <1>5 DEF TreeFacts, IsDistance

-----------------------------------------------------------------------------
(***************************************************************************)
(* The walk along the abstract solution.                                   *)
(***************************************************************************)

\* What holds between two rounds of refinement_loop.
LoopOK ==
  /\ AbstractionOK /\ phase = "loop" /\ TreeFacts
  /\ operator_costs \in [COperators -> Nat]
  /\ subgoal \in Subgoals /\ Separated(states, goals)

\* Facts that may hold before the goal fact, and are closed but for it.
AreBefore(facts) ==
  /\ PossibleBefore(GoalFact) = facts \union {GoalFact}
  /\ Facts(CInit) \subseteq facts /\ IsClosed(facts, GoalFact)

Start == [id |-> InitId, concrete |-> CInit]

\* The pairs of an abstract and a concrete state in it that the walk may meet: nearer
\* to the goals than the first, and before a single goal fact or where it holds.
Walkable(facts) ==
  {p \in [id : DOMAIN states, concrete : CStates] :
     /\ Includes(states[p.id].set, p.concrete)
     /\ goal_distances[p.id] \in Nat /\ goal_distances[p.id] < Infinity
     /\ p = Start \/ goal_distances[p.id] < goal_distances[InitId]
     /\ IsSingle => Facts(p.concrete) \subseteq facts \/ p.concrete[GoalFact[1]] = GoalFact[2]}

Stops(p) == p.id \in goals \/ shortest_path[p.id] = Undefined \/ Deviates(p)

NextOnWalk(p) ==
  IF Stops(p) THEN p
  ELSE [id |-> shortest_path[p.id][2], concrete |-> Successor(shortest_path[p.id][1], p.concrete)]

LEMMA LoopFacts ==
  ASSUME LoopOK
  PROVE  /\ TransitionsIn /\ DOMAIN goal_distances = DOMAIN states
         /\ \A id \in DOMAIN states : goal_distances[id] \in Nat /\ goal_distances[id] <= Infinity
         /\ \A u \in DOMAIN states : u \notin goals /\ goal_distances[u] # Infinity =>
              /\ StepOK(u) /\ shortest_path[u][1] \in COperators
              /\ shortest_path[u][2] \in DOMAIN states /\ shortest_path[u][2] # u
              /\ LeadsTo(states[u].set, shortest_path[u][1], states[shortest_path[u][2]].set)
              /\ goal_distances[shortest_path[u][2]] < goal_distances[u]
<1>1. TransitionsIn /\ TreeFacts /\ phase = "loop"
  BY OKTransitionsIn DEF LoopOK
<1>2. /\ candidate_queue = {} /\ dirty_states = <<>> /\ DirtyListed
      /\ DOMAIN goal_distances = DOMAIN states
  BY <1>1 DEF TreeFacts
<1>3. \A id \in DOMAIN states : goal_distances[id] # Dirty
  BY <1>2, NoneDirty
<1>4. \A id \in DOMAIN states : goal_distances[id] \in Nat /\ goal_distances[id] <= Infinity
  BY <1>1, <1>3 DEF TreeFacts, IsDistance
<1>5. ASSUME NEW u \in DOMAIN states, u \notin goals, goal_distances[u] # Infinity
      PROVE  /\ StepOK(u) /\ shortest_path[u][1] \in COperators
             /\ shortest_path[u][2] \in DOMAIN states /\ shortest_path[u][2] # u
             /\ LeadsTo(states[u].set, shortest_path[u][1], states[shortest_path[u][2]].set)
             /\ goal_distances[shortest_path[u][2]] < goal_distances[u]
  <2>1. StepOK(u)
    BY <1>1, <1>2, <1>3, <1>5 DEF TreeFacts
  <2>2. PICK o, v : o = shortest_path[u][1] /\ v = shortest_path[u][2]
    OBVIOUS
  <2>3. <<u, o, v>> \in transitions /\ goal_distances[u] >= goal_distances[v] + Cost64(o)
    BY <2>1, <2>2 DEF StepOK
  <2>4. o \in COperators /\ v \in DOMAIN states /\ v # u
    <3>1. PICK y \in transitions : y = <<u, o, v>>
      BY <2>3
    <3>2. y[2] = o /\ y[3] = v /\ y[1] = u
      BY <3>1
    <3> QED
      BY <1>1, <3>2 DEF TransitionsIn
  <2>5. Cost64(o) \in Nat /\ Cost64(o) > 0
    BY <2>4, Cost64Positive DEF LoopOK
  <2>6. goal_distances[v] < goal_distances[u]
    <3>1. goal_distances[v] \in Nat /\ goal_distances[u] \in Nat
      BY <1>4, <2>4
    <3> QED
      BY <2>3, <2>5, <3>1
  <2>7. LeadsTo(states[u].set, o, states[v].set)
    BY <2>3, <2>4 DEF LoopOK, AbstractionOK, TransitionsOK
  <2> QED
    BY <2>1, <2>2, <2>4, <2>6, <2>7
<1> QED
  BY <1>1, <1>2, <1>4, <1>5

LEMMA SuccessorFacts ==
  ASSUME NEW o \in COperators, NEW s \in CStates
  PROVE  /\ Facts(Successor(o, s)) \subseteq Facts(CEff[o]) \union Facts(s)
         /\ \A v \in CVars : v \in DOMAIN CEff[o] => Successor(o, s)[v] = CEff[o][v]
         /\ Applicable(o, s) => Facts(CPre[o]) \subseteq Facts(s)
<1>1. DOMAIN s = CVars /\ DOMAIN CEff[o] \subseteq CVars /\ DOMAIN CPre[o] \subseteq CVars
  BY CartesianTask DEF CStates
<1>2. \A v \in CVars : Successor(o, s)[v] = IF v \in DOMAIN CEff[o] THEN CEff[o][v] ELSE s[v]
  BY DEF Successor
<1>3. DOMAIN Successor(o, s) = CVars
  BY DEF Successor
<1>4. Facts(Successor(o, s)) \subseteq Facts(CEff[o]) \union Facts(s)
  BY <1>1, <1>2, <1>3 DEF Facts
<1>5. Applicable(o, s) => Facts(CPre[o]) \subseteq Facts(s)
  BY <1>1 DEF Facts, Applicable
<1> QED
  BY <1>2, <1>4, <1>5

\* An abstract goal state on the walk is a concrete solution.
LEMMA GoalOnWalk ==
  ASSUME LoopOK, NEW facts, IsSingle => AreBefore(facts), NEW p \in Walkable(facts), p.id \in goals
  PROVE  IsConcreteSolution(p)
<1>1. /\ p.id \in DOMAIN states /\ p.concrete \in CStates /\ Includes(states[p.id].set, p.concrete)
      /\ IsSingle => Facts(p.concrete) \subseteq facts \/ p.concrete[GoalFact[1]] = GoalFact[2]
  BY DEF Walkable
<1>2. /\ DOMAIN subgoal \subseteq CVars /\ subgoal \in Subgoals
  BY SubgoalFacts DEF LoopOK
<1>3. \A v \in CVars : p.concrete[v] \in states[p.id].set[v] /\ p.concrete[v] \in CDomain[v]
  BY <1>1, IncludesIs DEF CStates
<1>4. \/ \A v \in DOMAIN subgoal : states[p.id].set[v] = {subgoal[v]}
      \/ IsSingle /\ IsImpossible(states[p.id].set, GoalFact)
  BY <1>1 DEF LoopOK, Separated
<1>5. \A v \in DOMAIN subgoal : p.concrete[v] = subgoal[v]
  <2>1. CASE \A v \in DOMAIN subgoal : states[p.id].set[v] = {subgoal[v]}
    BY <1>2, <1>3, <2>1
  <2>2. CASE IsSingle /\ IsImpossible(states[p.id].set, GoalFact)
    <3>1. /\ GoalFact[1] \in CVars /\ DOMAIN subgoal = {GoalFact[1]}
          /\ GoalFact[2] = subgoal[GoalFact[1]] /\ GoalFact = <<GoalFact[1], GoalFact[2]>>
      BY <1>2, <2>2, GoalFactIs
    <3>2. PICK v \in CVars : \A d \in states[p.id].set[v] : <<v, d>> \notin PossibleBefore(GoalFact)
      BY <2>2 DEF IsImpossible
    <3>3. <<v, p.concrete[v]>> \notin facts
      BY <1>3, <2>2, <3>2 DEF AreBefore
    <3>4. DOMAIN p.concrete = CVars
      BY <1>1 DEF CStates
    <3>5. <<v, p.concrete[v]>> \in Facts(p.concrete)
      BY <3>4 DEF Facts
    <3> QED
      BY <1>1, <2>2, <3>1, <3>3, <3>5
  <2> QED
    BY <1>4, <2>1, <2>2
<1>6. \A v \in CVars : p.concrete[v] \in CartesianSet(subgoal)[v]
  BY <1>2, <1>3, <1>5 DEF CartesianSet
<1> QED
  BY <1>1, <1>6, IncludesIs DEF IsConcreteSolution

\* A step of the walk that does not deviate stays in the abstraction and comes nearer.
LEMMA StepOnWalk ==
  ASSUME LoopOK, NEW facts, IsSingle => AreBefore(facts), NEW p \in Walkable(facts), ~Stops(p)
  PROVE  /\ NextOnWalk(p) \in Walkable(facts)
         /\ goal_distances[NextOnWalk(p).id] < goal_distances[p.id]
<1> DEFINE o == shortest_path[p.id][1]
           v == shortest_path[p.id][2]
           s == Successor(o, p.concrete)
           q == NextOnWalk(p)
<1>1. /\ p.id \in DOMAIN states /\ p.concrete \in CStates /\ Includes(states[p.id].set, p.concrete)
      /\ goal_distances[p.id] \in Nat /\ goal_distances[p.id] < Infinity
      /\ p = Start \/ goal_distances[p.id] < goal_distances[InitId]
      /\ IsSingle => Facts(p.concrete) \subseteq facts \/ p.concrete[GoalFact[1]] = GoalFact[2]
  BY DEF Walkable
<1>2. p.id \notin goals /\ Applicable(o, p.concrete) /\ Includes(states[v].set, s)
  BY DEF Stops, Deviates
<1>3. q = [id |-> v, concrete |-> s]
  BY DEF NextOnWalk
<1>4. /\ o \in COperators /\ v \in DOMAIN states /\ goal_distances[v] < goal_distances[p.id]
      /\ goal_distances[v] \in Nat /\ goal_distances[InitId] \in Nat
  <2>1. goal_distances[p.id] # Infinity
    BY <1>1, DistanceAssumption
  <2>2. o \in COperators /\ v \in DOMAIN states /\ goal_distances[v] < goal_distances[p.id]
    BY <1>1, <1>2, <2>1, LoopFacts
  <2>3. InitId \in DOMAIN states
    BY InitIn DEF LoopOK
  <2> QED
    BY <2>2, <2>3, LoopFacts
<1>5. s \in CStates
  BY <1>1, <1>4, SuccessorIsState
<1>6. /\ goal_distances[v] < Infinity
      /\ goal_distances[v] < goal_distances[InitId]
  <2>1. goal_distances[p.id] <= goal_distances[InitId]
    BY <1>1, <1>4 DEF Start
  <2> QED
    BY <1>1, <1>4, <2>1, DistanceAssumption
<1>7. ASSUME IsSingle PROVE Facts(s) \subseteq facts \/ s[GoalFact[1]] = GoalFact[2]
  <2>1. /\ GoalFact[1] \in CVars /\ DOMAIN subgoal = {GoalFact[1]}
        /\ GoalFact[2] = subgoal[GoalFact[1]] /\ GoalFact = <<GoalFact[1], GoalFact[2]>>
    BY <1>7, GoalFactIs DEF LoopOK
  <2>2. p.concrete[GoalFact[1]] # GoalFact[2]
    <3>1. subgoal[GoalFact[1]] \notin states[p.id].set[GoalFact[1]]
      BY <1>1, <1>2, <2>1 DEF LoopOK, Separated
    <3> QED
      BY <1>1, <2>1, <3>1, IncludesIs
  <2>3. Facts(p.concrete) \subseteq facts
    BY <1>1, <1>7, <2>2
  <2>4. Facts(CPre[o]) \subseteq facts
    BY <1>1, <1>2, <1>4, <2>3, SuccessorFacts
  <2>5. CASE GoalFact \in Facts(CEff[o])
    <3>1. PICK w \in DOMAIN CEff[o] : GoalFact = <<w, CEff[o][w]>>
      BY <2>5 DEF Facts
    <3>2. GoalFact[1] = w /\ GoalFact[2] = CEff[o][w]
      BY <3>1
    <3> QED
      BY <1>1, <1>4, <2>1, <3>2, SuccessorFacts
  <2>6. CASE GoalFact \notin Facts(CEff[o])
    <3>1. Facts(CEff[o]) \subseteq facts
      BY <1>4, <1>7, <2>4, <2>6 DEF AreBefore, IsClosed
    <3> QED
      BY <1>1, <1>4, <2>3, <3>1, SuccessorFacts
  <2> QED
    BY <2>5, <2>6
<1> HIDE DEF o, v, s, q
<1>8. q \in [id : DOMAIN states, concrete : CStates] /\ q.id = v /\ q.concrete = s
  BY <1>3, <1>4, <1>5
<1>9. q \in Walkable(facts)
  BY <1>2, <1>4, <1>6, <1>7, <1>8 DEF Walkable
<1> QED
  BY <1>4, <1>8, <1>9 DEF q

\* Where the walk stops without a solution, some variable can be split, and only so
\* that values remain on both sides.
LEMMA FlawOnWalk ==
  ASSUME LoopOK, NEW facts, NEW p \in Walkable(facts), Stops(p), p.id \notin goals
  PROVE  /\ PossibleSplits(p) # {}
         /\ \A split \in PossibleSplits(p) : MaySplit(p.id, split.var, split.wanted)
<1> DEFINE o == shortest_path[p.id][1]
           v == shortest_path[p.id][2]
           s == p.concrete
           t == Successor(o, s)
           a == states[p.id].set
           b == states[v].set
<1>1. /\ p.id \in DOMAIN states /\ s \in CStates /\ Includes(a, s)
      /\ goal_distances[p.id] \in Nat /\ goal_distances[p.id] < Infinity
      /\ p = Start \/ goal_distances[p.id] < goal_distances[InitId]
  BY DEF Walkable
<1>2. /\ StepOK(p.id) /\ o \in COperators /\ v \in DOMAIN states /\ LeadsTo(a, o, b)
  <2>1. goal_distances[p.id] # Infinity
    BY <1>1, DistanceAssumption
  <2> QED
    BY <1>1, <2>1, LoopFacts
<1>3. ~Applicable(o, s) \/ ~Includes(b, t)
  BY <1>2 DEF Stops, Deviates, StepOK
<1>4. \A x \in CVars : s[x] \in a[x] /\ s[x] \in CDomain[x]
  BY <1>1, IncludesIs DEF CStates
<1>5. t \in CStates /\ DOMAIN CPre[o] \subseteq CVars /\ DOMAIN CEff[o] \subseteq CVars
      /\ (\A x \in DOMAIN CPre[o] : CPre[o][x] # Undefined /\ CPre[o][x] \in CDomain[x])
      /\ (\A x \in DOMAIN CEff[o] : CEff[o][x] # Undefined /\ CEff[o][x] \in CDomain[x])
  <2>1. t \in CStates
    BY <1>1, <1>2, SuccessorIsState
  <2> HIDE DEF t, o
  <2>2. o \in COperators
    BY <1>2
  <2>3. \A f \in {CPre[o], CEff[o]} :
          DOMAIN f \subseteq CVars /\ \A x \in DOMAIN f : f[x] \in CDomain[x]
    BY <2>2, CartesianTask
  <2>4. \A x \in CVars : Undefined \notin CDomain[x]
    BY UndefinedAssumption
  <2>5. ASSUME NEW f \in {CPre[o], CEff[o]}
        PROVE  DOMAIN f \subseteq CVars /\ \A x \in DOMAIN f : f[x] # Undefined /\ f[x] \in CDomain[x]
    BY <2>3, <2>4
  <2> QED
    BY <2>1, <2>5
<1>6. \A x \in CVars : t[x] = IF x \in DOMAIN CEff[o] THEN CEff[o][x] ELSE s[x]
  BY DEF Successor
<1>7. \A x \in CVars : Fits(o, x, a[x], b[x])
  BY <1>2 DEF LeadsTo
<1>8. Desired(p) = IF ~Applicable(o, s) THEN CartesianSet(CPre[o]) ELSE Regress(b, o)
  BY DEF Desired
<1>9. \A x \in CVars : SetOK(a)
  BY <1>1, SetsIn DEF LoopOK
<1> HIDE DEF o, v, t, a, b
<1>10. /\ \E x \in CVars : s[x] \notin Desired(p)[x]
       /\ \A x \in CVars : s[x] \notin Desired(p)[x] => a[x] \intersect Desired(p)[x] # {}
  <2>1. CASE ~Applicable(o, s)
    <3>1. \A x \in CVars : Desired(p)[x] = IF x \in DOMAIN CPre[o] THEN {CPre[o][x]} ELSE CDomain[x]
      BY <1>8, <2>1 DEF CartesianSet
    <3>2. PICK x \in DOMAIN CPre[o] : s[x] # CPre[o][x]
      BY <2>1 DEF Applicable
    <3>3. s[x] \notin Desired(p)[x] /\ x \in CVars
      BY <1>5, <3>1, <3>2
    <3>4. ASSUME NEW y \in CVars, s[y] \notin Desired(p)[y] PROVE a[y] \intersect Desired(p)[y] # {}
      <4>1. y \in DOMAIN CPre[o]
        BY <1>4, <3>1, <3>4
      <4>2. PreconditionValue(o, y) = CPre[o][y] /\ CPre[o][y] # Undefined
        BY <1>5, <4>1 DEF PreconditionValue
      <4>3. PostconditionValue(o, y) # Undefined
        BY <1>5, <4>1, <4>2 DEF PostconditionValue
      <4>4. CPre[o][y] \in a[y]
        BY <1>7, <4>2, <4>3 DEF Fits
      <4> QED
        BY <3>1, <4>1, <4>4
    <3> QED
      BY <3>3, <3>4
  <2>2. CASE Applicable(o, s)
    <3>1. \A x \in CVars : Desired(p)[x] = IF x \in DOMAIN CPre[o] THEN {CPre[o][x]}
                              ELSE IF x \in DOMAIN CEff[o] THEN CDomain[x] ELSE b[x]
      BY <1>8, <2>2 DEF Regress
    <3>2. \A x \in DOMAIN CPre[o] : s[x] = CPre[o][x]
      BY <2>2 DEF Applicable
    <3>3. PICK x \in CVars : t[x] \notin b[x]
      BY <1>3, <1>5, <2>2, IncludesIs
    <3>4. x \notin DOMAIN CEff[o] /\ x \notin DOMAIN CPre[o] /\ t[x] = s[x]
      <4>1. x \notin DOMAIN CEff[o]
        <5>1. SUFFICES ASSUME x \in DOMAIN CEff[o] PROVE FALSE
          OBVIOUS
        <5>2. PostconditionValue(o, x) = CEff[o][x] /\ CEff[o][x] # Undefined /\ t[x] = CEff[o][x]
          BY <1>5, <1>6, <5>1 DEF PostconditionValue
        <5> QED
          BY <1>7, <3>3, <5>2 DEF Fits
      <4>2. x \notin DOMAIN CPre[o]
        <5>1. SUFFICES ASSUME x \in DOMAIN CPre[o] PROVE FALSE
          OBVIOUS
        <5>2. PostconditionValue(o, x) = CPre[o][x] /\ CPre[o][x] # Undefined /\ t[x] = s[x]
              /\ s[x] = CPre[o][x]
          BY <1>5, <1>6, <3>2, <4>1, <5>1 DEF PostconditionValue, PreconditionValue
        <5> QED
          BY <1>7, <3>3, <5>2 DEF Fits
      <4> QED
        BY <1>6, <4>1, <4>2
    <3>5. s[x] \notin Desired(p)[x]
      BY <3>1, <3>3, <3>4
    <3>6. ASSUME NEW y \in CVars, s[y] \notin Desired(p)[y] PROVE a[y] \intersect Desired(p)[y] # {}
      <4>1. y \notin DOMAIN CPre[o] /\ y \notin DOMAIN CEff[o]
        BY <1>4, <3>1, <3>2, <3>6
      <4>2. PostconditionValue(o, y) = Undefined
        BY <4>1 DEF PostconditionValue, PreconditionValue
      <4> QED
        BY <1>7, <3>1, <4>1, <4>2 DEF Fits
    <3> QED
      BY <3>5, <3>6
  <2> QED
    BY <2>1, <2>2
<1>11. PossibleSplits(p) # {}
  BY <1>10 DEF PossibleSplits
<1>12. ASSUME NEW split \in PossibleSplits(p) PROVE MaySplit(p.id, split.var, split.wanted)
  <2>1. PICK x \in CVars : /\ s[x] \notin Desired(p)[x]
                           /\ split = [var |-> x, wanted |-> a[x] \intersect Desired(p)[x]]
    BY DEF PossibleSplits, a
  <2>2. split.var = x /\ split.wanted = a[x] \intersect Desired(p)[x]
    BY <2>1
  <2>3. split.wanted # {} /\ split.wanted \subseteq a[x] /\ s[x] \in a[x] /\ s[x] \notin split.wanted
    BY <1>4, <1>10, <2>1, <2>2
  <2>4. p.id = InitId => CInit[x] \notin split.wanted
    <3> SUFFICES ASSUME p.id = InitId PROVE CInit[x] \notin split.wanted
      OBVIOUS
    <3>1. p = Start
      BY <1>1, DistanceAssumption
    <3>2. s = CInit
      BY <3>1 DEF Start
    <3> QED
      BY <2>3, <3>2
  <2> QED
    BY <1>1, <2>2, <2>3, <2>4 DEF MaySplit, a
<1> QED
  BY <1>11, <1>12

LEMMA StartOnWalk ==
  ASSUME LoopOK, goal_distances[InitId] # Infinity, NEW facts, IsSingle => AreBefore(facts)
  PROVE  Start \in Walkable(facts)
<1>1. InitId \in DOMAIN states /\ \A v \in CVars : CInit[v] \in states[InitId].set[v]
  BY InitIn DEF LoopOK
<1>2. goal_distances[InitId] \in Nat /\ goal_distances[InitId] < Infinity
  <2>1. goal_distances[InitId] \in Nat /\ goal_distances[InitId] <= Infinity
    BY <1>1, LoopFacts
  <2> QED
    BY <2>1, DistanceAssumption
<1>3. CInit \in CStates
  BY CartesianTask
<1>4. Includes(states[InitId].set, CInit)
  BY <1>1, <1>3, IncludesIs
<1>5. IsSingle => Facts(CInit) \subseteq facts
  BY DEF AreBefore
<1>6. Start \in [id : DOMAIN states, concrete : CStates] /\ Start.id = InitId /\ Start.concrete = CInit
  BY <1>1, <1>3 DEF Start
<1> QED
  BY <1>2, <1>4, <1>5, <1>6 DEF Walkable

IsWalk(f) ==
  f = [n \in 0..NumStates |-> IF n = 0 THEN Start ELSE NextOnWalk(f[n-1])]

LEMMA WalkIs ==
  ASSUME LoopOK, goal_distances[InitId] # Infinity, NEW facts, IsSingle => AreBefore(facts)
  PROVE  \E f : /\ IsWalk(f) /\ LastOfTrace = f[NumStates]
                /\ \A n \in 0..NumStates : f[n] \in Walkable(facts)
<1> DEFINE N == NumStates
           X == Walkable(facts)
           walk == CHOOSE f : IsWalk(f)
           step == [i \in 1..N |-> [p \in X |-> NextOnWalk(p)]]
<1>1. N \in Nat
  <2>1. PICK n : StatesOK(states, n)
    BY DEF LoopOK, AbstractionOK
  <2> QED
    BY <2>1, NumStatesIs DEF StatesOK
<1>2. Start \in X
  BY StartOnWalk
<1>3. \A p \in X : NextOnWalk(p) \in X
  <2> SUFFICES ASSUME NEW p \in X PROVE NextOnWalk(p) \in X
    OBVIOUS
  <2>1. CASE Stops(p)
    BY <2>1 DEF NextOnWalk
  <2>2. CASE ~Stops(p)
    BY <2>2, StepOnWalk
  <2> QED
    BY <2>1, <2>2
<1> HIDE DEF X
<1>4. \E f : IsWalk(f)
  <2>1. step \in [1..N -> [X -> X]]
    BY <1>3
  <2>2. \A i \in 1..N : \A p \in X : step[i][p] = NextOnWalk(p)
    OBVIOUS
  <2> HIDE DEF step
  <2>3. PICK f \in [0..N -> X] : f[0] = Start /\ \A i \in 1..N : f[i] = step[i][f[i-1]]
    <3>1. Solutions(X, Start, N, step) # {}
      BY <1>1, <1>2, <2>1, Recursion
    <3> QED
      BY <3>1 DEF Solutions
  <2>4. \A i \in 0..N : i # 0 => i \in 1..N /\ i - 1 \in 0..N
    BY <1>1
  <2>5. \A i \in 0..N : f[i] = IF i = 0 THEN Start ELSE NextOnWalk(f[i-1])
    BY <2>2, <2>3, <2>4
  <2>6. f = [n \in 0..N |-> f[n]]
    BY <2>3
  <2> QED
    BY <2>5, <2>6 DEF IsWalk
<1>5. IsWalk(walk)
  BY <1>4
<1>6. LastOfTrace = walk[N]
  BY DEF LastOfTrace, IsWalk, NextOnWalk, Stops, Start
<1> HIDE DEF walk, N
<1>7. walk[0] = Start /\ \A i \in Nat : i + 1 <= N => walk[i+1] = NextOnWalk(walk[i])
  <2>1. walk[0] = Start
    BY <1>1, <1>5 DEF IsWalk, N
  <2>2. ASSUME NEW i \in Nat, i + 1 <= N PROVE walk[i+1] = NextOnWalk(walk[i])
    <3>1. PICK k \in 0..N : k = i + 1 /\ k # 0 /\ k - 1 = i
      <4>1. i + 1 \in 0..N /\ i + 1 # 0 /\ (i + 1) - 1 = i
        BY <1>1, <2>2
      <4> QED
        BY <4>1
    <3>2. walk[k] = NextOnWalk(walk[k-1])
      BY <1>5, <3>1 DEF IsWalk, N
    <3> QED
      BY <3>1, <3>2
  <2> QED
    BY <2>1, <2>2
<1> DEFINE S == {n \in Nat : n <= N => walk[n] \in X}
<1>8. 0 \in S
  BY <1>2, <1>7
<1>9. ASSUME NEW n \in Nat, n \in S PROVE n + 1 \in S
  <2> SUFFICES ASSUME n + 1 <= N PROVE walk[n+1] \in X
    OBVIOUS
  <2>1. walk[n] \in X
    BY <1>1, <1>9
  <2> QED
    BY <1>3, <1>7, <2>1
<1> HIDE DEF S
<1>10. Nat \subseteq S
  BY <1>8, <1>9, Induction
<1>11. \A n \in 0..N : walk[n] \in X
  BY <1>1, <1>10 DEF S
<1> QED
  BY <1>5, <1>6, <1>11 DEF X, N

\* The walk comes nearer to the goals with every step, so it stops before there are
\* more steps than states.
LEMMA LastWalk ==
  ASSUME LoopOK, goal_distances[InitId] # Infinity, NEW facts, IsSingle => AreBefore(facts)
  PROVE  LastOfTrace \in Walkable(facts) /\ Stops(LastOfTrace)
<1> DEFINE N == NumStates
           gd == goal_distances
           D == DOMAIN states
           IsFar(T, n, id) == IsFiniteSet(T) /\ Cardinality(T) = n /\ T \subseteq D /\ \A x \in T : gd[x] > gd[id]
<1>1. PICK walk : /\ IsWalk(walk) /\ LastOfTrace = walk[N]
                  /\ \A n \in 0..N : walk[n] \in Walkable(facts)
  <2>1. \E f : /\ IsWalk(f) /\ LastOfTrace = f[NumStates]
               /\ \A n \in 0..NumStates : f[n] \in Walkable(facts)
    BY WalkIs
  <2> QED
    BY <2>1
<1>2. /\ N \in Nat /\ IsFiniteSet(D) /\ Cardinality(D) = N
  <2>1. PICK n : StatesOK(states, n)
    BY DEF LoopOK, AbstractionOK
  <2>2. IsFiniteSet(0..n-1)
    BY <2>1, FS_Interval DEF StatesOK
  <2> QED
    BY <2>1, <2>2, NumStatesIs DEF StatesOK, NumStates
<1>3. \A id \in D : gd[id] \in Nat
  BY LoopFacts
<1>4. \A n \in 0..N : walk[n].id \in D
  BY <1>1 DEF Walkable
<1> DEFINE S == {n \in Nat : n <= N => Stops(walk[n]) \/ \E T : IsFar(T, n, walk[n].id)}
<1>5. 0 \in S
  <2>1. IsFar({}, 0, walk[0].id)
    BY FS_EmptySet
  <2> QED
    BY <2>1
<1>6. ASSUME NEW n \in Nat, n \in S PROVE n + 1 \in S
  <2> SUFFICES ASSUME n + 1 <= N PROVE Stops(walk[n+1]) \/ \E T : IsFar(T, n + 1, walk[n+1].id)
    OBVIOUS
  <2>1. PICK k \in 0..N : k = n + 1 /\ k # 0 /\ k - 1 = n
    <3>1. n + 1 \in 0..N /\ n + 1 # 0 /\ (n + 1) - 1 = n
      BY <1>2
    <3> QED
      BY <3>1
  <2>2. walk[k] = NextOnWalk(walk[k-1])
    BY <1>1, <2>1 DEF IsWalk
  <2>3. Stops(walk[n]) \/ \E T : IsFar(T, n, walk[n].id)
    BY <1>2, <1>6
  <2>4. CASE Stops(walk[n])
    BY <2>1, <2>2, <2>4 DEF NextOnWalk
  <2>5. CASE ~Stops(walk[n])
    <3>1. PICK T : IsFar(T, n, walk[n].id)
      BY <2>3, <2>5
    <3> DEFINE x == walk[n].id
               y == walk[n+1].id
    <3>2. n \in 0..N /\ n + 1 \in 0..N
      BY <1>2
    <3>3. walk[n] \in Walkable(facts) /\ x \in D /\ y \in D
      BY <1>1, <1>4, <3>2
    <3>4. gd[y] < gd[x]
      BY <2>1, <2>2, <2>5, <3>3, StepOnWalk
    <3> HIDE DEF x, y, D
    <3>5. IsFar(T, n, x)
      BY <3>1 DEF x
    <3>6. x \notin T
      BY <1>3, <3>3, <3>5
    <3>7. IsFiniteSet(T \union {x}) /\ Cardinality(T \union {x}) = n + 1
      BY <3>5, <3>6, FS_AddElement
    <3>8. ASSUME NEW z \in T \union {x} PROVE z \in D /\ gd[z] > gd[y]
      <4>1. z \in D
        BY <3>3, <3>5
      <4>2. gd[z] \in Nat /\ gd[x] \in Nat /\ gd[y] \in Nat
        BY <1>3, <3>3, <4>1
      <4>3. gd[z] >= gd[x]
        BY <3>5, <4>2
      <4> QED
        BY <3>4, <4>1, <4>2, <4>3
    <3>9. IsFar(T \union {x}, n + 1, y)
      BY <3>7, <3>8
    <3> QED
      BY <3>9 DEF y
  <2> QED
    BY <2>4, <2>5
<1> HIDE DEF S
<1>7. Nat \subseteq S
  BY <1>5, <1>6, Induction
<1>8. Stops(walk[N]) \/ \E T : IsFar(T, N, walk[N].id)
  BY <1>2, <1>7 DEF S
<1>9. ASSUME NEW T, IsFar(T, N, walk[N].id) PROVE FALSE
  <2> DEFINE x == walk[N].id
  <2>1. x \in D /\ gd[x] \in Nat
    BY <1>2, <1>3, <1>4
  <2> HIDE DEF x, D, N
  <2>2. x \notin T /\ IsFiniteSet(T) /\ Cardinality(T) = N /\ T \subseteq D
    BY <1>9, <2>1 DEF x
  <2>3. Cardinality(T \union {x}) = N + 1
    BY <2>2, FS_AddElement
  <2>4. T \union {x} \subseteq D
    BY <2>1, <2>2
  <2>5. Cardinality(T \union {x}) <= Cardinality(D)
    BY <1>2, <2>4, FS_Subset
  <2> QED
    BY <1>2, <2>3, <2>5
<1>10. LastOfTrace \in Walkable(facts)
  BY <1>1, <1>2
<1> QED
  BY <1>1, <1>8, <1>9, <1>10

LEMMA FactsBefore ==
  \E facts : AreBefore(facts)
<1>1. \E facts : /\ PossibleBefore(GoalFact) = facts \union {GoalFact}
                 /\ Facts(CInit) \subseteq facts /\ IsClosed(facts, GoalFact)
  BY PossibleFacts, Zenon
<1> QED
  BY <1>1 DEF AreBefore

LEMMA LoopSplittable == LoopOK => FlawsAreSplittable
<1> SUFFICES ASSUME LoopOK, goal_distances[InitId] # Infinity
             PROVE  LET p == LastOfTrace
                    IN IsConcreteSolution(p) \/
                       /\ p.id \notin goals /\ Includes(states[p.id].set, p.concrete)
                       /\ PossibleSplits(p) # {}
                       /\ \A split \in PossibleSplits(p) : split.wanted # {}
  BY DEF FlawsAreSplittable
<1> DEFINE p == LastOfTrace
<1>1. PICK facts : AreBefore(facts)
  BY FactsBefore
<1>2. p \in Walkable(facts) /\ Stops(p)
  BY <1>1, LastWalk
<1> HIDE DEF p
<1>3. CASE p.id \in goals
  <2>1. IsConcreteSolution(p)
    BY <1>1, <1>2, <1>3, GoalOnWalk
  <2> QED
    BY <2>1 DEF p
<1>4. CASE p.id \notin goals
  <2>1. /\ PossibleSplits(p) # {}
        /\ \A split \in PossibleSplits(p) : MaySplit(p.id, split.var, split.wanted)
    BY <1>2, <1>4, FlawOnWalk
  <2>2. Includes(states[p.id].set, p.concrete)
    BY <1>2 DEF Walkable
  <2>3. \A split \in PossibleSplits(p) : split.wanted # {}
    BY <2>1 DEF MaySplit
  <2> QED
    BY <1>4, <2>1, <2>2, <2>3 DEF p
<1> QED
  BY <1>3, <1>4

-----------------------------------------------------------------------------
(***************************************************************************)
(* A round of refinement_loop.                                             *)
(***************************************************************************)

\* The state of which a state was part before the split of v.
WholeOf(id, v) == IF id = NumStates THEN v ELSE id

IsSplitUp(v) ==
  /\ NumStates \in Nat /\ v \in DOMAIN states
  /\ DOMAIN states = 0..NumStates-1 /\ DOMAIN states' = 0..NumStates
  /\ \A id \in DOMAIN states' :
       /\ WholeOf(id, v) \in DOMAIN states
       /\ \A x \in CVars : states'[id].set[x] \subseteq states[WholeOf(id, v)].set[x]
  /\ \A id \in DOMAIN states : id # v => states'[id] = states[id]
  /\ \A s \in CStates : Includes(states[v].set, s) =>
       \E w \in {v, NumStates} : Includes(states'[w].set, s)

LEMMA SplitsUp ==
  ASSUME NEW v, NEW var, NEW wanted, NEW goal_ids, MaySplit(v, var, wanted), NEW idw, NEW idr,
         SplitInto(v, var, wanted, goal_ids, idw, idr)
  PROVE  IsSplitUp(v)
<1> DEFINE n == NumStates
           all == states[v].set[var]
<1>1. /\ n \in Nat /\ n > 0 /\ DOMAIN states = 0..n-1 /\ DOMAIN states' = 0..n
      /\ (idw = v /\ idr = n) \/ (idw = n /\ idr = v)
      /\ \A x \in CVars :
           /\ states'[idw].set[x] = IF x = var THEN wanted ELSE states[v].set[x]
           /\ states'[idr].set[x] = IF x = var THEN all \ wanted ELSE states[v].set[x]
      /\ \A id \in DOMAIN states : id # v => states'[id] = states[id]
  BY DEF SplitInto
<1>2. v \in DOMAIN states /\ var \in CVars /\ wanted \subseteq all
  BY DEF MaySplit
<1> HIDE DEF n
<1>3. ASSUME NEW id \in DOMAIN states'
      PROVE  /\ WholeOf(id, v) \in DOMAIN states
             /\ \A x \in CVars : states'[id].set[x] \subseteq states[WholeOf(id, v)].set[x]
  <2>1. CASE id \in {v, n}
    <3>1. WholeOf(id, v) = v
      BY <2>1 DEF WholeOf, n
    <3>2. id = idw \/ id = idr
      BY <1>1, <2>1
    <3>3. \A x \in CVars : states'[id].set[x] \subseteq states[v].set[x]
      BY <1>1, <1>2, <3>2
    <3> QED
      BY <1>2, <3>1, <3>3
  <2>2. CASE id \notin {v, n}
    <3>1. WholeOf(id, v) = id /\ id \in DOMAIN states
      BY <1>1, <2>2 DEF WholeOf, n
    <3>2. states'[id] = states[id]
      BY <1>1, <2>2, <3>1
    <3> QED
      BY <3>1, <3>2
  <2> QED
    BY <2>1, <2>2
<1>4. ASSUME NEW s \in CStates, Includes(states[v].set, s)
      PROVE  \E w \in {v, n} : Includes(states'[w].set, s)
  <2>1. \A x \in CVars : s[x] \in states[v].set[x]
    BY <1>4, IncludesIs
  <2>2. CASE s[var] \in wanted
    <3>1. \A x \in CVars : s[x] \in states'[idw].set[x]
      BY <1>1, <2>1, <2>2
    <3>2. Includes(states'[idw].set, s)
      BY <3>1, IncludesIs
    <3> QED
      BY <1>1, <3>2
  <2>3. CASE s[var] \notin wanted
    <3>1. \A x \in CVars : s[x] \in states'[idr].set[x]
      BY <1>1, <2>1, <2>3
    <3>2. Includes(states'[idr].set, s)
      BY <3>1, IncludesIs
    <3> QED
      BY <1>1, <3>2
  <2> QED
    BY <2>2, <2>3
<1> QED
  BY <1>1, <1>2, <1>3, <1>4 DEF IsSplitUp, n

\* A transition of parts comes from a transition of the wholes, one that does not
\* touch v stays, and one into v still leads to a part.
IsRewired(v) ==
  /\ \A t \in transitions' :
       /\ t[1] \in DOMAIN states' /\ t[2] \in COperators /\ t[3] \in DOMAIN states'
       /\ WholeOf(t[1], v) = WholeOf(t[3], v)
          \/ <<WholeOf(t[1], v), t[2], WholeOf(t[3], v)>> \in transitions
  /\ \A u, w \in DOMAIN states : \A o \in COperators :
       <<u, o, w>> \in transitions /\ u # v =>
         IF w # v THEN <<u, o, w>> \in transitions'
         ELSE \E x \in {v, NumStates} : <<u, o, x>> \in transitions'

LEMMA SplitRewires ==
  ASSUME AbstractionOK, AbstractionOK', NEW v, IsSplitUp(v)
  PROVE  IsRewired(v)
<1>1. /\ NumStates \in Nat /\ v \in DOMAIN states
      /\ DOMAIN states = 0..NumStates-1 /\ DOMAIN states' = 0..NumStates
      /\ \A id \in DOMAIN states' :
           /\ WholeOf(id, v) \in DOMAIN states
           /\ \A x \in CVars : states'[id].set[x] \subseteq states[WholeOf(id, v)].set[x]
      /\ \A id \in DOMAIN states : id # v => states'[id] = states[id]
      /\ \A s \in CStates : Includes(states[v].set, s) =>
           \E w \in {v, NumStates} : Includes(states'[w].set, s)
  BY DEF IsSplitUp
<1>2. /\ \A t \in transitions : t[1] # t[3]
      /\ \A a, b \in DOMAIN states : \A o \in COperators :
           a # b => (<<a, o, b>> \in transitions <=> LeadsTo(states[a].set, o, states[b].set))
  BY DEF AbstractionOK, TransitionsOK
<1>3. /\ \A t \in transitions' : /\ t[1] \in DOMAIN states' /\ t[2] \in COperators
                                 /\ t[3] \in DOMAIN states' /\ t[1] # t[3]
                                 /\ t = <<t[1], t[2], t[3]>>
      /\ \A a, b \in DOMAIN states' : \A o \in COperators :
           a # b => (<<a, o, b>> \in transitions' <=> LeadsTo(states'[a].set, o, states'[b].set))
  BY DEF AbstractionOK, TransitionsOK
<1>4. ASSUME NEW t \in transitions', WholeOf(t[1], v) # WholeOf(t[3], v)
      PROVE  <<WholeOf(t[1], v), t[2], WholeOf(t[3], v)>> \in transitions
  <2> DEFINE a == WholeOf(t[1], v)
             b == WholeOf(t[3], v)
  <2>1. LeadsTo(states'[t[1]].set, t[2], states'[t[3]].set)
    BY <1>3
  <2>2. /\ a \in DOMAIN states /\ b \in DOMAIN states /\ t[2] \in COperators
        /\ \A x \in CVars : /\ states'[t[1]].set[x] \subseteq states[a].set[x]
                            /\ states'[t[3]].set[x] \subseteq states[b].set[x]
    BY <1>1, <1>3
  <2>3. a # b
    BY <1>4
  <2> HIDE DEF a, b
  <2>4. ASSUME NEW x \in CVars
        PROVE  Fits(t[2], x, states[a].set[x], states[b].set[x])
    <3>1. Fits(t[2], x, states'[t[1]].set[x], states'[t[3]].set[x])
      BY <2>1 DEF LeadsTo
    <3> QED
      BY <2>2, <3>1, FitsPart
  <2>5. LeadsTo(states[a].set, t[2], states[b].set)
    BY <2>4 DEF LeadsTo
  <2>6. <<a, t[2], b>> \in transitions
    BY <1>2, <2>2, <2>3, <2>5
  <2> QED
    BY <2>6 DEF a, b
<1>5. ASSUME NEW u \in DOMAIN states, NEW w \in DOMAIN states, NEW o \in COperators,
             <<u, o, w>> \in transitions, u # v
      PROVE  IF w # v THEN <<u, o, w>> \in transitions'
             ELSE \E x \in {v, NumStates} : <<u, o, x>> \in transitions'
  <2>1. u # w
    <3>1. PICK y \in transitions : y = <<u, o, w>>
      BY <1>5
    <3>2. y[1] = u /\ y[3] = w
      BY <3>1
    <3> QED
      BY <1>2, <3>2
  <2>2. LeadsTo(states[u].set, o, states[w].set)
    BY <1>2, <1>5, <2>1
  <2>3. u \in DOMAIN states' /\ w \in DOMAIN states' /\ states'[u] = states[u] /\ u # NumStates
    BY <1>1, <1>5
  <2>4. CASE w # v
    <3>1. states'[w] = states[w]
      BY <1>1, <2>4
    <3> QED
      BY <1>3, <2>1, <2>2, <2>3, <2>4, <3>1
  <2>5. CASE w = v
    <3>1. PICK s \in CStates : /\ Applicable(o, s) /\ Includes(states[u].set, s)
                               /\ Includes(states[v].set, Successor(o, s))
      <4>1. SetOK(states[u].set) /\ SetOK(states[v].set)
        BY <1>1, SetsIn
      <4> QED
        BY <2>2, <2>5, <4>1, LeadsConcretely
    <3>2. Successor(o, s) \in CStates
      BY SuccessorIsState
    <3>3. PICK x \in {v, NumStates} : Includes(states'[x].set, Successor(o, s))
      BY <1>1, <3>1, <3>2
    <3>4. LeadsTo(states'[u].set, o, states'[x].set)
      BY <2>3, <3>1, <3>3, ConcreteLeads
    <3>5. x \in DOMAIN states' /\ u # x
      BY <1>1, <1>5, <2>3
    <3>6. <<u, o, x>> \in transitions'
      BY <1>3, <2>3, <3>4, <3>5
    <3> QED
      BY <2>5, <3>6
  <2> QED
    BY <2>4, <2>5
<1> QED
  BY <1>3, <1>4, <1>5 DEF IsRewired

\* The states stay separated from the goal.
LEMMA SplitSeparates ==
  ASSUME Separated(states, goals), subgoal \in Subgoals, NEW v, IsSplitUp(v), v \notin goals,
         goals' = goals, subgoal' = subgoal
  PROVE  Separated(states, goals)'
<1>1. /\ NumStates \in Nat /\ v \in DOMAIN states
      /\ DOMAIN states = 0..NumStates-1 /\ DOMAIN states' = 0..NumStates
      /\ \A id \in DOMAIN states' :
           /\ WholeOf(id, v) \in DOMAIN states
           /\ \A x \in CVars : states'[id].set[x] \subseteq states[WholeOf(id, v)].set[x]
      /\ \A id \in DOMAIN states : id # v => states'[id] = states[id]
  BY DEF IsSplitUp
<1>2. GoalFact' = GoalFact /\ (IsSingle' <=> IsSingle)
  BY DEF GoalFact, IsSingle
<1>3. ASSUME NEW id \in DOMAIN states', id \in goals
      PROVE  \/ \A x \in DOMAIN subgoal : states'[id].set[x] = {subgoal[x]}
             \/ IsSingle /\ IsImpossible(states'[id].set, GoalFact)
  <2>1. id \in DOMAIN states /\ id # v
    BY <1>3 DEF Separated
  <2>2. states'[id] = states[id]
    BY <1>1, <2>1
  <2> QED
    BY <1>3, <2>1, <2>2 DEF Separated
<1>4. ASSUME NEW id \in DOMAIN states', id \notin goals
      PROVE  \E x \in DOMAIN subgoal : subgoal[x] \notin states'[id].set[x]
  <2>1. WholeOf(id, v) \in DOMAIN states /\ WholeOf(id, v) \notin goals
    BY <1>1, <1>4 DEF WholeOf
  <2>2. PICK x \in DOMAIN subgoal : subgoal[x] \notin states[WholeOf(id, v)].set[x]
    BY <2>1 DEF Separated
  <2>3. x \in CVars
    BY SubgoalFacts
  <2> QED
    BY <1>1, <2>2, <2>3
<1>5. goals' \subseteq DOMAIN states'
  BY <1>1 DEF Separated
<1>6. ASSUME NEW id \in DOMAIN states'
      PROVE  IF id \in goals'
             THEN \/ \A x \in DOMAIN subgoal' : states'[id].set[x] = {subgoal'[x]}
                  \/ IsSingle' /\ IsImpossible(states'[id].set, GoalFact')
             ELSE \E x \in DOMAIN subgoal' : subgoal'[x] \notin states'[id].set[x]
  BY <1>2, <1>3, <1>4
<1> QED
  BY <1>5, <1>6 DEF Separated, IsImpossible

\* Where the edges of the tree go after the split of v.
LEMMA NewTreeIs ==
  ASSUME NEW v, NEW n \in Nat, NEW sp \in NewTree(v, n)
  PROVE  /\ DOMAIN sp = 0..n /\ sp[n] = Undefined
         /\ \A u \in 0..n : u # n =>
              IF shortest_path[u] # Undefined /\ shortest_path[u][2] = v /\ NewParents(u, v, n) # {}
              THEN sp[u] \in NewParents(u, v, n) ELSE sp[u] = shortest_path[u]
<1> DEFINE options == [u \in 0..n |->
             IF u = n THEN {Undefined}
             ELSE IF shortest_path[u] # Undefined /\ shortest_path[u][2] = v /\ NewParents(u, v, n) # {}
             THEN NewParents(u, v, n) ELSE {shortest_path[u]}]
<1>1. sp \in ChoicesOf(options)
  BY DEF NewTree
<1>2. DOMAIN options = 0..(n+1)-1 /\ n + 1 \in Nat
  OBVIOUS
<1>3. \A u \in 0..n : options[u] = IF u = n THEN {Undefined}
             ELSE IF shortest_path[u] # Undefined /\ shortest_path[u][2] = v /\ NewParents(u, v, n) # {}
             THEN NewParents(u, v, n) ELSE {shortest_path[u]}
  OBVIOUS
<1> HIDE DEF options
<1>4. DOMAIN sp = 0..(n+1)-1 /\ \A u \in 0..(n+1)-1 : sp[u] \in options[u]
  BY <1>1, <1>2, ChoicesAre
<1>5. DOMAIN sp = 0..n /\ \A u \in 0..n : sp[u] \in options[u]
  <2>1. 0..(n+1)-1 = 0..n
    OBVIOUS
  <2> QED
    BY <1>4, <2>1
<1>6. n \in 0..n
  OBVIOUS
<1>7. sp[n] = Undefined
  BY <1>3, <1>5, <1>6
<1> QED
  BY <1>3, <1>5, <1>7

LEMMA NewParentIs ==
  ASSUME NEW u, NEW v, NEW n, NEW x \in NewParents(u, v, n)
  PROVE  \E t \in transitions' : /\ t[1] = u /\ t[3] \in {v, n} /\ x = <<t[2], t[3]>>
                                 /\ Cost64(t[2]) = Cost64(shortest_path[u][1])
BY DEF NewParents

LEMMA NewParentsExist ==
  ASSUME NEW u, NEW v, NEW n, NEW t \in transitions', t[1] = u, t[3] \in {v, n},
         Cost64(t[2]) = Cost64(shortest_path[u][1])
  PROVE  NewParents(u, v, n) # {}
BY DEF NewParents

\* Every tree edge still leads to a state at the same distance.
LEMMA NewTreeSteps ==
  ASSUME LoopOK, TransitionsIn, NEW v, IsSplitUp(v), IsRewired(v), TransitionsIn',
         shortest_path' \in NewTree(v, NumStates),
         goal_distances' = [id \in 0..NumStates |-> goal_distances[WholeOf(id, v)]],
         operator_costs' = operator_costs,
         NEW u \in DOMAIN states, u # v, StepOK(u)
  PROVE  StepOK(u)'
<1> DEFINE o == shortest_path[u][1]
           w == shortest_path[u][2]
           N == NumStates
<1>1. /\ N \in Nat /\ v \in DOMAIN states
      /\ DOMAIN states = 0..N-1 /\ DOMAIN states' = 0..N
  BY DEF IsSplitUp
<1>2. /\ <<u, o, w>> \in transitions /\ shortest_path[u] # Undefined
      /\ goal_distances[w] \notin {Dirty, Infinity} /\ Cost64(o) # Infinity
      /\ goal_distances[u] >= goal_distances[w] + Cost64(o)
  BY DEF StepOK
<1>3. u \in 0..N /\ u # N
  BY <1>1
<1> HIDE DEF N
<1>4. o \in COperators /\ w \in DOMAIN states
  <2> HIDE DEF o, w
  <2>1. PICK y \in transitions : y = <<u, o, w>>
    BY <1>2
  <2>2. y[2] = o /\ y[3] = w
    BY <2>1
  <2> QED
    BY <2>2 DEF TransitionsIn
<1>5. \A x : Cost64(x)' = Cost64(x)
  BY DEF Cost64, HasZeroCosts
<1>6. goal_distances'[u] = goal_distances[u]
  <2>1. WholeOf(u, v) = u
    BY <1>3 DEF WholeOf, N
  <2> QED
    BY <1>3, <2>1 DEF N
<1>7. IF shortest_path[u] # Undefined /\ shortest_path[u][2] = v /\ NewParents(u, v, N) # {}
      THEN shortest_path'[u] \in NewParents(u, v, N) ELSE shortest_path'[u] = shortest_path[u]
  BY <1>1, <1>3, NewTreeIs DEF N
<1>8. IF w # v THEN <<u, o, w>> \in transitions'
      ELSE \E x \in {v, N} : <<u, o, x>> \in transitions'
  <2> HIDE DEF o, w
  <2> QED
    BY <1>2, <1>4 DEF IsRewired, N
<1>9. CASE w # v
  <2>1. shortest_path'[u] = shortest_path[u]
    BY <1>7, <1>9
  <2>2. <<u, o, w>> \in transitions'
    BY <1>8, <1>9
  <2>3. goal_distances'[w] = goal_distances[w]
    <3>1. w \in 0..N /\ w # N
      BY <1>1, <1>4
    <3>2. WholeOf(w, v) = w
      BY <3>1 DEF WholeOf, N
    <3> QED
      BY <3>1, <3>2 DEF N
  <2> QED
    BY <1>2, <1>5, <1>6, <2>1, <2>2, <2>3 DEF StepOK
<1>10. CASE w = v
  <2>1. PICK x \in {v, N} : <<u, o, x>> \in transitions'
    BY <1>8, <1>10
  <2>2. NewParents(u, v, N) # {}
    <3>1. PICK y \in transitions' : y = <<u, o, x>>
      BY <2>1
    <3>2. y[1] = u /\ y[2] = o /\ y[3] = x
      BY <3>1
    <3> QED
      BY <2>1, <3>2, NewParentsExist
  <2>3. shortest_path'[u] \in NewParents(u, v, N)
    BY <1>2, <1>7, <1>10, <2>2
  <2>4. PICK t \in transitions' : /\ t[1] = u /\ t[3] \in {v, N} /\ shortest_path'[u] = <<t[2], t[3]>>
                                  /\ Cost64(t[2]) = Cost64(shortest_path[u][1])
    <3>1. \E t \in transitions' : /\ t[1] = u /\ t[3] \in {v, N} /\ shortest_path'[u] = <<t[2], t[3]>>
                                  /\ Cost64(t[2]) = Cost64(shortest_path[u][1])
      BY <2>3, NewParentIs
    <3> QED
      BY <3>1
  <2>5. shortest_path'[u][1] = t[2] /\ shortest_path'[u][2] = t[3]
    BY <2>4
  <2>6. t = <<u, t[2], t[3]>> /\ t[2] \in COperators /\ t[3] \in DOMAIN states'
    BY <2>4 DEF TransitionsIn
  <2>7. goal_distances'[t[3]] = goal_distances[w]
    <3>1. t[3] \in 0..N
      BY <1>1, <2>6
    <3>2. WholeOf(t[3], v) = v
      BY <2>4 DEF WholeOf, N
    <3> QED
      BY <1>10, <3>1, <3>2 DEF N
  <2>8. shortest_path'[u] # Undefined
    <3>1. t[3] \in Nat
      BY <1>1, <2>6
    <3> QED
      BY <2>4, <2>6, <3>1, UndefinedAssumption
  <2>9. <<u, shortest_path'[u][1], shortest_path'[u][2]>> \in transitions'
    BY <2>4, <2>5, <2>6
  <2>10. Cost64(t[2]) = Cost64(o)
    BY <2>4
  <2> HIDE DEF o, w
  <2>11. goal_distances'[t[3]] \notin {Dirty, Infinity} /\ Cost64(t[2]) # Infinity
         /\ goal_distances'[u] >= goal_distances'[t[3]] + Cost64(t[2])
    BY <1>2, <1>6, <2>7, <2>10
  <2>12. goal_distances'[shortest_path'[u][2]] \notin {Dirty, Infinity}
         /\ Cost64(shortest_path'[u][1]) # Infinity
         /\ goal_distances'[u] >= goal_distances'[shortest_path'[u][2]] + Cost64(shortest_path'[u][1])
    BY <2>5, <2>11
  <2> QED
    BY <2>8, <2>9, <2>12 DEF StepOK, Cost64, HasZeroCosts
<1> QED
  BY <1>9, <1>10

\* No transition between parts is a shortcut.
LEMMA NoNewShortcut ==
  ASSUME LoopOK, TransitionsIn, NEW v, IsSplitUp(v), IsRewired(v),
         goal_distances' = [id \in 0..NumStates |-> goal_distances[WholeOf(id, v)]],
         operator_costs' = operator_costs,
         NEW t \in transitions'
  PROVE  goal_distances'[t[1]] <= Through(t)'
<1> DEFINE a == WholeOf(t[1], v)
           b == WholeOf(t[3], v)
           o == t[2]
           gd == goal_distances
<1>1. /\ a \in DOMAIN states /\ b \in DOMAIN states /\ o \in COperators
      /\ t[1] \in 0..NumStates /\ t[3] \in 0..NumStates
      /\ a = b \/ <<a, o, b>> \in transitions
  <2>1. /\ t[1] \in DOMAIN states' /\ o \in COperators /\ t[3] \in DOMAIN states'
        /\ a = b \/ <<a, o, b>> \in transitions
    BY DEF IsRewired
  <2> QED
    BY <2>1 DEF IsSplitUp
<1>2. gd'[t[1]] = gd[a] /\ gd'[t[3]] = gd[b]
  BY <1>1
<1>3. gd[a] \in Nat /\ gd[a] <= Infinity /\ gd[b] \in Nat /\ gd[b] <= Infinity
  BY <1>1, LoopFacts
<1>4. Cost64(o) \in Nat /\ Cost64(o) > 0
  BY <1>1, Cost64Positive DEF LoopOK
<1>5. gd[a] <= AddCosts(gd[b], Cost64(o))
  <2>1. CASE a = b
    <3> HIDE DEF a, b, o
    <3> QED
      BY <1>3, <1>4, <2>1 DEF AddCosts
  <2>2. CASE <<a, o, b>> \in transitions
    <3> HIDE DEF a, b, o
    <3>1. TreeFacts /\ phase = "loop"
      BY DEF LoopOK
    <3>2. open_queue = {} /\ gd[a] # Dirty /\ gd[b] # Dirty
      BY <1>3, <3>1, DistanceAssumption DEF TreeFacts
    <3>3. PICK y \in transitions : y = <<a, o, b>>
      BY <2>2
    <3>4. y[1] = a /\ y[2] = o /\ y[3] = b
      BY <3>3
    <3>5. gd[a] <= Through(y)
      BY <3>1, <3>2, <3>4 DEF TreeFacts
    <3> QED
      BY <3>4, <3>5 DEF Through
  <2> QED
    BY <1>1, <2>1, <2>2
<1> HIDE DEF a, b
<1>6. gd'[t[1]] <= AddCosts(gd'[t[3]], Cost64(o))
  BY <1>2, <1>5
<1> QED
  BY <1>6 DEF Through, Cost64, HasZeroCosts

\* The flaw is split, and the tree stays one but for the two parts.
LEMMA RefineFlawKeeps ==
  ASSUME LoopOK, RefineFlaw
  PROVE  /\ AbstractionOK' /\ subgoal' = subgoal /\ Separated(states, goals)' /\ TreeFacts'
         /\ \E x : x \notin goals /\ IsSplitUp(x) /\ goals' = goals
<1> DEFINE p == LastOfTrace
           v == p.id
           N == NumStates
           gd == goal_distances
<1>1. PICK split \in PossibleSplits(p) :
        /\ Refine(v, split.var, split.wanted, goals)
        /\ shortest_path' \in NewTree(v, N)
        /\ gd' = [id \in 0..N |-> gd[IF id = N THEN v ELSE id]]
        /\ candidate_queue' = {v, N}
  BY DEF RefineFlaw
<1>2. /\ gd[InitId] # Infinity /\ ~IsConcreteSolution(p) /\ phase' = "reconnect"
      /\ UNCHANGED <<operator_costs, dirty_states, open_queue>>
  BY DEF RefineFlaw
<1>3. PICK facts : AreBefore(facts)
  BY FactsBefore
<1>4. p \in Walkable(facts) /\ Stops(p)
  BY <1>2, <1>3, LastWalk
<1> HIDE DEF p
<1>5. v \notin goals /\ MaySplit(v, split.var, split.wanted)
  <2>1. v \notin goals
    BY <1>2, <1>3, <1>4, GoalOnWalk
  <2> QED
    BY <1>4, <2>1, FlawOnWalk
<1>6. AbstractionOK /\ TreeFacts /\ phase = "loop" /\ TransitionsIn
  BY OKTransitionsIn DEF LoopOK
<1>7. /\ AbstractionOK'
      /\ \E idw, idr : SplitInto(v, split.var, split.wanted, goals, idw, idr)
  BY <1>1, <1>5, <1>6, RefineKeeps
<1>8. PICK idw, idr : SplitInto(v, split.var, split.wanted, goals, idw, idr)
  BY <1>7
<1>9. IsSplitUp(v)
  BY <1>5, <1>8, SplitsUp
<1>10. goals' = goals /\ subgoal' = subgoal
  BY <1>5, <1>8 DEF SplitInto
<1> HIDE DEF v
<1>11. IsRewired(v)
  BY <1>6, <1>7, <1>9, SplitRewires
<1>12. Separated(states, goals)'
  BY <1>5, <1>9, <1>10, SplitSeparates DEF LoopOK
<1>13. gd' = [id \in 0..N |-> gd[WholeOf(id, v)]]
  BY <1>1 DEF WholeOf
<1>14. TransitionsIn'
  BY <1>7, OKTransitionsIn, PTL
<1>15. /\ N \in Nat /\ v \in DOMAIN states /\ DOMAIN states = 0..N-1 /\ DOMAIN states' = 0..N
       /\ \A id \in 0..N : WholeOf(id, v) \in DOMAIN states /\ (id # v /\ id # N => id \in DOMAIN states /\ WholeOf(id, v) = id)
  BY <1>9 DEF IsSplitUp, WholeOf
<1>16. \A id \in DOMAIN states : gd[id] \in Nat /\ gd[id] <= Infinity /\ gd[id] # Dirty
  <2>1. \A id \in DOMAIN states : gd[id] \in Nat /\ gd[id] <= Infinity
    BY LoopFacts
  <2> QED
    BY <2>1, DistanceAssumption
<1>17. /\ \A id \in DOMAIN states : id \in goals => gd[id] = 0 /\ shortest_path[id] = Undefined
       /\ \A u \in DOMAIN states : u \notin goals /\ gd[u] # Infinity => StepOK(u)
       /\ candidate_queue = {} /\ dirty_states = <<>> /\ open_queue = {} /\ goals \subseteq DOMAIN states
  <2>1. /\ candidate_queue = {} /\ dirty_states = <<>> /\ open_queue = {}
        /\ \A id \in DOMAIN states : id \in goals => gd[id] = 0 /\ shortest_path[id] = Undefined
        /\ \A u \in DOMAIN states :
             u \notin goals /\ u \notin candidate_queue /\ gd[u] \notin {Dirty, Infinity} => StepOK(u)
    BY <1>6 DEF TreeFacts
  <2> QED
    BY <1>16, <2>1 DEF LoopOK, Separated
<1>18. DOMAIN gd' = DOMAIN states' /\ DOMAIN shortest_path' = DOMAIN states'
  <2>1. DOMAIN shortest_path' = 0..N
    BY <1>1, <1>15, NewTreeIs DEF v
  <2> QED
    BY <1>13, <1>15, <2>1
<1>19. \A id \in DOMAIN states' : gd'[id] = gd[WholeOf(id, v)] /\ gd'[id] # Dirty /\ gd'[id] \in Nat /\ gd'[id] <= Infinity
  BY <1>13, <1>15, <1>16
<1>20. \A id \in DOMAIN states' : id \in goals' => gd'[id] = 0 /\ shortest_path'[id] = Undefined
  <2> SUFFICES ASSUME NEW id \in DOMAIN states', id \in goals
               PROVE  gd'[id] = 0 /\ shortest_path'[id] = Undefined
    BY <1>10
  <2>1. id \in DOMAIN states /\ id # v /\ id # N /\ id \in 0..N
    BY <1>5, <1>15, <1>17 DEF v
  <2>2. gd'[id] = gd[id]
    BY <1>15, <1>19, <2>1
  <2>3. shortest_path[id] = Undefined
    BY <1>17, <2>1
  <2>4. shortest_path'[id] = shortest_path[id]
    BY <1>1, <1>15, <2>1, <2>3, NewTreeIs DEF v
  <2> QED
    BY <1>17, <2>1, <2>2, <2>3, <2>4
<1>21. \A id \in candidate_queue' : id \in DOMAIN states' /\ id \notin goals' /\ gd'[id] # Dirty
  <2>1. candidate_queue' = {v, N}
    BY <1>1 DEF v
  <2>2. v \notin goals' /\ N \notin goals' /\ v \in 0..N /\ N \in 0..N
    <3>1. N \notin DOMAIN states /\ v \in 0..N /\ N \in 0..N
      BY <1>15
    <3> QED
      BY <1>5, <1>10, <1>17, <3>1 DEF v
  <2> QED
    BY <1>15, <1>19, <2>1, <2>2
<1>22. DirtyListed'
  <2>1. dirty_states' = <<>> /\ \A id \in DOMAIN states' : gd'[id] # Dirty
    BY <1>2, <1>17, <1>19
  <2> QED
    <3>1. dirty_states' \in Seq(Nat)
      BY <2>1
    <3>2. \A i \in 1..Len(dirty_states') : FALSE
      BY <2>1
    <3> QED
      BY <2>1, <3>1, <3>2 DEF DirtyListed
<1>23. \A t \in transitions' : gd'[t[1]] <= Through(t)'
  BY <1>2, <1>6, <1>9, <1>11, <1>13, NoNewShortcut
<1>24. ASSUME NEW u \in DOMAIN states', u \notin goals', u \notin candidate_queue', gd'[u] # Infinity
       PROVE  StepOK(u)'
  <2>1. u # v /\ u # N
    BY <1>1, <1>24 DEF v
  <2>2. u \in DOMAIN states /\ gd'[u] = gd[u]
    BY <1>15, <1>19, <2>1
  <2>3. StepOK(u)
    BY <1>10, <1>17, <1>24, <2>2
  <2> QED
    <3>1. shortest_path' \in NewTree(v, N) /\ operator_costs' = operator_costs
      BY <1>1, <1>2 DEF v
    <3> HIDE DEF N
    <3> QED
      BY <1>6, <1>9, <1>11, <1>13, <1>14, <2>1, <2>2, <2>3, <3>1, NewTreeSteps DEF N
<1>25. TreeFacts'
  BY <1>2, <1>17, <1>18, <1>19, <1>20, <1>21, <1>22, <1>23, <1>24 DEF TreeFacts, IsDistance
<1>26. \E x : x \notin goals /\ IsSplitUp(x) /\ goals' = goals
  BY <1>5, <1>9, <1>10 DEF v
<1> QED
  BY <1>7, <1>10, <1>12, <1>25, <1>26

-----------------------------------------------------------------------------
(***************************************************************************)
(* The costs that are left for the next subtask.                           *)
(***************************************************************************)

ReversedEdges == {<<t[3], t[2], t[1]>> : t \in transitions}

LEMMA GoalDistancesFixed ==
  ASSUME AbstractionOK, operator_costs \in [COperators -> Nat]
  PROVE  /\ \A id \in DOMAIN states : GoalDistances[id] \in Nat /\ GoalDistances[id] <= Infinity
         /\ \A id \in DOMAIN states : id \in goals => GoalDistances[id] = 0
         /\ \A t \in transitions : GoalDistances[t[1]] <= AddCosts(GoalDistances[t[3]], operator_costs[t[2]])
<1>1. PICK n : StatesOK(states, n)
  BY DEF AbstractionOK
<1>2. TransitionsIn
  BY OKTransitionsIn
<1>3. EdgesOK(ReversedEdges)
  <2> SUFFICES ASSUME NEW t \in transitions, NEW e, e = <<t[3], t[2], t[1]>>
               PROVE  e[1] \in DOMAIN states /\ e[2] \in COperators /\ e[3] \in DOMAIN states
    BY DEF EdgesOK, ReversedEdges
  <2> QED
    BY <1>2 DEF TransitionsIn
<1>4. GoalDistances = DistancesFrom(goals, ReversedEdges)
  BY DEF GoalDistances, ReversedEdges
<1>5. IsFixed(GoalDistances, goals, ReversedEdges)
  BY <1>1, <1>3, <1>4, DistancesFixed
<1>6. ASSUME NEW t \in transitions
      PROVE  GoalDistances[t[1]] <= AddCosts(GoalDistances[t[3]], operator_costs[t[2]])
  <2>1. PICK e : e = <<t[3], t[2], t[1]>>
    OBVIOUS
  <2>2. e \in ReversedEdges
    BY <2>1 DEF ReversedEdges
  <2>3. e[1] = t[3] /\ e[2] = t[2] /\ e[3] = t[1]
    BY <2>1
  <2>4. GoalDistances[e[3]] <= AddCosts(GoalDistances[e[1]], operator_costs[e[2]])
    BY <1>5, <2>2 DEF IsFixed
  <2> QED
    BY <2>3, <2>4
<1>7. \A id \in DOMAIN states : GoalDistances[id] \in 0..Infinity
  BY <1>5 DEF IsFixed, DistanceMaps
<1> QED
  BY <1>5, <1>6, <1>7, DistanceAssumption DEF IsFixed

\* An abstraction takes no more of the cost of an operator than there is.
LEMMA ReducedCostIn ==
  ASSUME AbstractionOK, remaining_costs \in [COperators -> Nat], operator_costs = remaining_costs,
         NEW o \in COperators, NEW g
  PROVE  ReducedCost(o, g, GoalDistances) \in Nat
<1> DEFINE h == GoalDistances
           lowest == IF ~use_general_costs \/ HasLoop(o, g, h) THEN 0 ELSE -Infinity
           S == {lowest} \union Needs(o, g, h)
           r == remaining_costs[o]
<1>1. /\ \A id \in DOMAIN states : h[id] \in Nat
      /\ \A t \in transitions : h[t[1]] <= AddCosts(h[t[3]], operator_costs[t[2]])
  BY GoalDistancesFixed
<1>2. TransitionsIn /\ r \in Nat /\ Infinity \in Nat /\ Infinity > 0
  BY OKTransitionsIn, DistanceAssumption
<1> HIDE DEF h
<1>3. ASSUME NEW x \in Needs(o, g, h), r # Infinity PROVE x \in Int /\ x <= r
  <2>1. PICK t \in transitions : /\ t[2] = o /\ Matters(t[1], g, h) /\ h[t[3]] # Infinity
                                 /\ x = h[t[1]] - h[t[3]]
    BY DEF Needs
  <2>2. t[1] \in DOMAIN states /\ t[3] \in DOMAIN states
    BY <1>2 DEF TransitionsIn
  <2>3. h[t[1]] \in Nat /\ h[t[3]] \in Nat
    BY <1>1, <2>2
  <2>4. h[t[1]] <= h[t[3]] + r
    BY <1>1, <1>3, <2>1 DEF AddCosts
  <2> QED
    BY <1>2, <2>1, <2>3, <2>4
<1>4. lowest \in Int /\ lowest <= r
  BY <1>2
<1>5. SaturatedCost(o, g, h) = Max(S)
  BY DEF SaturatedCost
<1>6. ASSUME r # Infinity PROVE Max(S) \in Int /\ Max(S) <= r
  <2> HIDE DEF lowest
  <2>1. S \subseteq Int /\ S # {} /\ \A x \in S : x <= r
    BY <1>3, <1>4, <1>6
  <2>2. Max(S) \in S
    BY <1>2, <2>1, MaxBounded
  <2> QED
    BY <2>1, <2>2
<1> HIDE DEF S, r
<1>7. ReducedCost(o, g, h) = IF r = Infinity \/ Max(S) = -Infinity THEN Infinity ELSE r - Max(S)
  BY <1>5 DEF ReducedCost, r
<1>8. ReducedCost(o, g, h) \in Nat
  BY <1>2, <1>6, <1>7
<1> QED
  BY <1>8 DEF h

-----------------------------------------------------------------------------
(***************************************************************************)
(* The invariant of the additive abstractions.                             *)
(***************************************************************************)

\* The abstraction is built with the costs that its predecessors have left.
CostsOK ==
  /\ remaining_costs \in [COperators -> Nat] /\ subtasks \in Seq(Subgoals)
  /\ phase \notin {"next", "ready"} =>
       operator_costs = remaining_costs /\ subgoal \in Subgoals

\* What is inductive: the abstraction is the one that its splits induce, the goal is
\* being separated or has been, and the tree of shortest paths is consistent with
\* what the incremental update still has to do.
SaturationInvariant ==
  /\ AbstractionOK /\ SeparatingFacts /\ SeparatingGoals /\ TreeOK /\ CostsOK
  /\ phase \in TreePhases \union {"refined"} => Separated(states, goals)

LEMMA SaturationInitOK == SaturationInit => SaturationInvariant
<1> SUFFICES ASSUME SaturationInit PROVE SaturationInvariant
  OBVIOUS
<1>1. /\ StatesOK(states, 1) /\ HierarchyOK(nodes) /\ PartitionOK(states, nodes)
      /\ TransitionsOK(states, {}, {InitId} \X COperators) /\ 0 = Cardinality({})
  BY TrivialOK DEF SaturationInit, AbstractionInit
<1>2. AbstractionOK
  BY <1>1 DEF SaturationInit, AbstractionInit, AbstractionOK
<1>3. CostsOK
  <2>1. CCost \in [COperators -> Nat]
    BY SubtaskAssumption, DistanceAssumption
  <2> QED
    BY <2>1, SubtaskAssumption DEF SaturationInit, CostsOK
<1> QED
  BY <1>2, <1>3 DEF SaturationInit, SaturationInvariant, SeparatingFacts, SeparatingGoals, TreeOK,
     TreePhases

\* separate_facts_unreachable_before_goal visits each variable once.
LEMMA AllVariables ==
  ASSUME NEW vars, vars = [i \in 1..Cardinality(CVars) |-> i]
  PROVE  vars \in Seq(Nat) /\ Distinct(vars)
<1>1. PICK n \in Nat : n = Cardinality(CVars) /\ CVars = 1..n
  BY CartesianTask, FS_CardinalityType
<1>2. vars \in Seq(Nat) /\ Len(vars) = n
  BY <1>1
<1>3. \A i \in 1..n : vars[i] = i
  BY <1>1
<1> QED
  BY <1>1, <1>2, <1>3 DEF Distinct

\* The goal state is the first, and each goal variable follows once.
IsGoalList(list, goal) ==
  /\ list \in Seq(Nat) /\ Len(list) > 1 /\ list[1] = InitId
  /\ Distinct(Tail(list)) /\ \A i \in 2..Len(list) : list[i] \in DOMAIN goal
  /\ \A v \in DOMAIN goal : \E i \in 2..Len(list) : list[i] = v

LEMMA AllGoals ==
  ASSUME NEW goal \in Subgoals, NEW list, list = <<InitId>> \o Enumeration(DOMAIN goal)
  PROVE  IsGoalList(list, goal)
<1> DEFINE e == Enumeration(DOMAIN goal)
<1>1. /\ DOMAIN goal \subseteq CVars /\ DOMAIN goal # {} /\ IsFiniteSet(DOMAIN goal)
  BY SubgoalFacts
<1>2. PICK m : m = Cardinality(DOMAIN goal)
  OBVIOUS
<1>3. /\ m \in Nat /\ Len(e) = m /\ e \in [1..m -> DOMAIN goal]
      /\ \A x \in DOMAIN goal : \E j \in 1..m : x = e[j]
      /\ \A i, j \in 1..m : e[i] = e[j] => i = j
  BY <1>1, <1>2, EnumerationFacts
<1>4. m > 0
  BY <1>1, <1>3
<1>5. CVars \subseteq Nat
  <2>1. Cardinality(CVars) \in Nat /\ CVars = 1..Cardinality(CVars)
    BY CartesianTask, FS_CardinalityType
  <2> QED
    BY <2>1
<1> HIDE DEF e
<1>6. e \in Seq(Nat) /\ <<InitId>> \in Seq(Nat) /\ Len(<<InitId>>) = 1
  <2>1. DOMAIN goal \subseteq Nat
    BY <1>1, <1>5
  <2>2. e \in [1..m -> Nat]
    BY <1>3, <2>1
  <2>3. e \in Seq(Nat)
    BY <1>3, <2>2
  <2>4. <<InitId>> \in Seq(Nat) /\ Len(<<InitId>>) = 1
    BY DEF InitId
  <2> QED
    BY <2>3, <2>4
<1>7. /\ list \in Seq(Nat) /\ Len(list) = 1 + m
      /\ \A i \in 1..1+m : list[i] = IF i <= 1 THEN <<InitId>>[i] ELSE e[i-1]
  BY <1>3, <1>6, ConcatProperties DEF e
<1>8. list[1] = InitId
  <2>1. 1 \in 1..1+m
    BY <1>3
  <2> QED
    BY <1>7, <2>1
<1>9. \A i \in 2..1+m : i - 1 \in 1..m /\ list[i] = e[i-1] /\ list[i] \in DOMAIN goal
  <2> SUFFICES ASSUME NEW i \in 2..1+m
               PROVE  i - 1 \in 1..m /\ list[i] = e[i-1] /\ list[i] \in DOMAIN goal
    OBVIOUS
  <2>1. i - 1 \in 1..m /\ i \in 1..1+m /\ ~(i <= 1)
    BY <1>3
  <2> QED
    BY <1>3, <1>7, <2>1
<1>10. /\ Len(Tail(list)) = m /\ \A i \in 1..m : Tail(list)[i] = list[i+1]
  <2>1. list # <<>>
    BY <1>3, <1>7
  <2>2. /\ Len(Tail(list)) = Len(list) - 1
        /\ \A i \in 1..Len(Tail(list)) : Tail(list)[i] = list[i+1]
    BY <1>7, <2>1, HeadTailProperties
  <2> QED
    BY <1>3, <1>7, <2>2
<1>11. \A i \in 1..m : Tail(list)[i] = e[i]
  <2> SUFFICES ASSUME NEW i \in 1..m PROVE Tail(list)[i] = e[i]
    OBVIOUS
  <2>1. PICK k \in 2..1+m : k = i + 1 /\ k - 1 = i
    <3>1. i + 1 \in 2..1+m /\ (i + 1) - 1 = i
      BY <1>3
    <3> QED
      BY <3>1
  <2> QED
    BY <1>9, <1>10, <2>1
<1>12. Distinct(Tail(list))
  BY <1>1, <1>3, <1>10, <1>11 DEF Distinct
<1>13. ASSUME NEW v \in DOMAIN goal PROVE \E i \in 2..Len(list) : list[i] = v
  <2>1. PICK j \in 1..m : v = e[j]
    BY <1>3
  <2>2. j + 1 \in 2..1+m /\ (j + 1) - 1 = j
    BY <1>3
  <2> QED
    BY <1>7, <1>9, <2>1, <2>2
<1>14. list \in Seq(Nat) /\ Len(list) > 1
  BY <1>3, <1>4, <1>7
<1>15. \A i \in 2..Len(list) : list[i] \in DOMAIN goal
  BY <1>7, <1>9
<1> QED
  BY <1>8, <1>12, <1>13, <1>14, <1>15 DEF IsGoalList

LEMMA ChosenFact ==
  ASSUME NEW goal \in Subgoals, NEW f, f = CHOOSE f1 \in Facts(goal) : TRUE
  PROVE  f[1] \in CVars /\ f[2] \in CDomain[f[1]]
<1>1. /\ DOMAIN goal \subseteq CVars /\ DOMAIN goal # {}
      /\ \A v \in DOMAIN goal : goal[v] \in CDomain[v]
  BY SubgoalFacts
<1>2. Facts(goal) # {}
  BY <1>1 DEF Facts
<1>3. f \in Facts(goal)
  BY <1>2
<1>4. PICK x \in Facts(goal) : x = f
  BY <1>3
<1>5. \E v \in DOMAIN goal : x[1] = v /\ x[2] = goal[v]
  BY DEF Facts
<1> QED
  BY <1>1, <1>4, <1>5

LEMMA StartSubtaskKeeps ==
  ASSUME SaturationInvariant, StartSubtask
  PROVE  SaturationInvariant'
<1> DEFINE goal == Head(subtasks)
<1>1. /\ phase = "next" /\ subtasks # <<>>
      /\ subtasks' = Tail(subtasks) /\ remaining_costs' = remaining_costs
      /\ operator_costs' = remaining_costs
      /\ subgoal' = goal /\ states' = TrivialStates /\ nodes' = <<Leaf(InitId)>>
      /\ goals' = {InitId} /\ transitions' = {} /\ num_non_loops' = 0
      /\ loops' = {InitId} \X COperators
      /\ candidate_queue' = {} /\ dirty_states' = <<>>
      /\ IF Cardinality(DOMAIN goal) = 1
         THEN phase' = "separate" /\ todo' = [i \in 1..Cardinality(CVars) |-> i]
         ELSE phase' = "split_goals" /\ todo' = <<InitId>> \o Enumeration(DOMAIN goal)
  BY DEF StartSubtask, StartRefining, InitializeTrivialAbstraction
<1>2. goal \in Subgoals /\ Tail(subtasks) \in Seq(Subgoals)
  <2>1. subtasks \in Seq(Subgoals)
    BY DEF SaturationInvariant, CostsOK
  <2> QED
    BY <1>1, <2>1, HeadTailProperties
<1> HIDE DEF goal
<1>3. AbstractionOK'
  <2>1. /\ StatesOK(states', 1) /\ HierarchyOK(nodes') /\ PartitionOK(states', nodes')
        /\ TransitionsOK(states', {}, {InitId} \X COperators) /\ 0 = Cardinality({})
    BY <1>1, TrivialOK
  <2>2. \E n : StatesOK(states', n)
    BY <2>1
  <2> QED
    BY <1>1, <2>1, <2>2 DEF AbstractionOK
<1>4. DOMAIN states' = {InitId} /\ states'[InitId].set = CDomain
  BY <1>1 DEF TrivialStates
<1>5. SeparatingFacts'
  <2> SUFFICES ASSUME phase' = "separate" PROVE SeparatingFacts'
    BY DEF SeparatingFacts
  <2>1. Cardinality(DOMAIN goal) = 1 /\ todo' = [i \in 1..Cardinality(CVars) |-> i]
    BY <1>1
  <2>2. todo' \in Seq(Nat) /\ Distinct(todo')
    BY <2>1, AllVariables
  <2>3. IsSingle'
    BY <1>1, <2>1 DEF IsSingle
  <2>4. GoalFact'[1] \in CVars /\ GoalFact'[2] \in CDomain[GoalFact'[1]]
    BY <1>1, <1>2, ChosenFact DEF GoalFact
  <2> QED
    BY <1>1, <1>2, <1>4, <2>2, <2>3, <2>4 DEF SeparatingFacts, Distinct
<1>6. SeparatingGoals'
  <2> SUFFICES ASSUME phase' = "split_goals" PROVE SeparatingGoals'
    BY DEF SeparatingGoals
  <2>1. todo' = <<InitId>> \o Enumeration(DOMAIN goal)
    BY <1>1
  <2>2. /\ todo' \in Seq(Nat) /\ Len(todo') > 1 /\ todo'[1] = InitId
        /\ Distinct(Tail(todo')) /\ \A i \in 2..Len(todo') : todo'[i] \in DOMAIN goal
        /\ \A v \in DOMAIN goal : \E i \in 2..Len(todo') : todo'[i] = v
    <3>1. IsGoalList(todo', goal)
      BY <1>2, <2>1, AllGoals
    <3> QED
      BY <3>1 DEF IsGoalList
  <2>3. Distinct(Tail(todo))'
    BY <2>2 DEF Distinct
  <2> QED
    BY <1>1, <1>2, <1>4, <2>2, <2>3 DEF SeparatingGoals
<1>7. phase' \in {"separate", "split_goals"}
  BY <1>1
<1>8. TreeOK' /\ (phase' \notin TreePhases \union {"refined"})
  BY <1>1, <1>7 DEF TreeOK, TreePhases
<1>9. CostsOK'
  BY <1>1, <1>2 DEF SaturationInvariant, CostsOK
<1> QED
  BY <1>3, <1>5, <1>6, <1>8, <1>9 DEF SaturationInvariant

LEMMA AbstractionStays == AbstractionOK /\ UNCHANGED abstractionvars => AbstractionOK'
<1> SUFFICES ASSUME AbstractionOK, UNCHANGED abstractionvars PROVE AbstractionOK'
  OBVIOUS
<1>1. /\ subgoal' = subgoal /\ states' = states /\ goals' = goals /\ transitions' = transitions
      /\ loops' = loops /\ num_non_loops' = num_non_loops /\ nodes' = nodes
  BY DEF abstractionvars
<1> QED
  BY <1>1 DEF AbstractionOK

LEMMA SeparationStays ==
  ASSUME UNCHANGED <<subgoal, states, goals>>
  PROVE  Separated(states, goals) <=> Separated(states, goals)'
BY DEF Separated, IsSingle, IsImpossible, GoalFact

IsRecomputed ==
  /\ TransitionsIn /\ candidate_queue = {} /\ dirty_states = <<>> /\ phase = "dijkstra"
  /\ goals \subseteq DOMAIN states
  /\ goal_distances = [id \in DOMAIN states |-> IF id \in goals THEN 0 ELSE Infinity]
  /\ shortest_path = [id \in DOMAIN states |-> Undefined] /\ open_queue = goals

LEMMA RecomputedTree == IsRecomputed => TreeFacts
BY RecomputeTree DEF IsRecomputed

LEMMA RecomputeKeeps ==
  ASSUME AbstractionOK', candidate_queue = {}, dirty_states = <<>>, phase' = "dijkstra",
         goals' \subseteq DOMAIN states', Recompute(DOMAIN states', goals')
  PROVE  TreeFacts'
<1>1. TransitionsIn'
  BY OKTransitionsIn, PTL
<1>2. IsRecomputed'
  BY <1>1 DEF IsRecomputed, Recompute
<1> QED
  BY <1>2, RecomputedTree, PTL

\* Steps of the separation.
LEMMA SeparationKeeps ==
  ASSUME SaturationInvariant, UNCHANGED saturationvars,
         SeparateUnreachable \/ SplitOffGoal \/ SplitNextGoal
  PROVE  SaturationInvariant'
<1>1. /\ AbstractionOK /\ SeparatingFacts /\ SeparatingGoals
      /\ phase \in {"separate", "split_goals"} => candidate_queue = {} /\ dirty_states = <<>>
      /\ remaining_costs \in [COperators -> Nat] /\ subtasks \in Seq(Subgoals)
      /\ phase \notin {"next", "ready"} => operator_costs = remaining_costs /\ subgoal \in Subgoals
  BY DEF SaturationInvariant, TreeOK, CostsOK
<1>2. remaining_costs' = remaining_costs /\ subtasks' = subtasks
  BY DEF saturationvars
<1>3. operator_costs' = operator_costs
  BY DEF SeparateUnreachable, SplitOffGoal, SplitNextGoal
<1>4. CASE SeparateUnreachable
  <2>1. phase = "separate" /\ phase' = phase /\ UNCHANGED treevars
    BY <1>4 DEF SeparateUnreachable
  <2>2. AbstractionOK' /\ SeparatingFacts' /\ subgoal' = subgoal
    BY <1>1, <1>4, SeparateUnreachableKeeps
  <2>3. TreeOK'
    BY <1>1, <2>1 DEF TreeOK, TreePhases, treevars
  <2>4. SeparatingGoals' /\ CostsOK'
    BY <1>1, <1>2, <1>3, <2>1, <2>2 DEF SeparatingGoals, CostsOK
  <2> QED
    BY <2>1, <2>2, <2>3, <2>4 DEF SaturationInvariant, TreePhases
<1>5. CASE SplitOffGoal
  <2>1. phase = "separate" /\ phase' = "dijkstra" /\ Recompute(DOMAIN states', goals')
    BY <1>5 DEF SplitOffGoal
  <2>2. AbstractionOK' /\ Separated(states, goals)' /\ subgoal' = subgoal
    BY <1>1, <1>5, SplitOffGoalKeeps
  <2>3. goals' \subseteq DOMAIN states'
    BY <2>2 DEF Separated
  <2>4. TreeFacts'
    BY <1>1, <2>1, <2>2, <2>3, RecomputeKeeps
  <2>5. TreeOK' /\ SeparatingFacts' /\ SeparatingGoals' /\ CostsOK'
    BY <1>1, <1>2, <1>3, <2>1, <2>2, <2>4 DEF TreeOK, SeparatingFacts, SeparatingGoals, CostsOK
  <2> QED
    BY <2>2, <2>5 DEF SaturationInvariant
<1>6. CASE SplitNextGoal
  <2>1. phase = "split_goals"
    BY <1>6 DEF SplitNextGoal
  <2>2. /\ AbstractionOK' /\ subgoal' = subgoal
        /\ (phase' = "dijkstra" /\ Recompute(DOMAIN states', goals') /\ Separated(states, goals)')
           \/ (phase' = phase /\ UNCHANGED treevars /\ SeparatingGoals')
    BY <1>1, <1>6, SplitNextGoalKeeps
  <2>3. CASE phase' = "dijkstra" /\ Recompute(DOMAIN states', goals') /\ Separated(states, goals)'
    <3>1. goals' \subseteq DOMAIN states'
      BY <2>3 DEF Separated
    <3>2. TreeFacts'
      BY <1>1, <2>1, <2>2, <2>3, <3>1, RecomputeKeeps
    <3>3. TreeOK' /\ SeparatingFacts' /\ SeparatingGoals' /\ CostsOK'
      BY <1>1, <1>2, <1>3, <2>1, <2>2, <2>3, <3>2 DEF TreeOK, SeparatingFacts, SeparatingGoals, CostsOK
    <3> QED
      BY <2>2, <2>3, <3>3 DEF SaturationInvariant
  <2>4. CASE phase' = phase /\ UNCHANGED treevars /\ SeparatingGoals'
    <3>1. TreeOK'
      BY <1>1, <2>1, <2>4 DEF TreeOK, TreePhases, treevars
    <3>2. SeparatingFacts' /\ CostsOK'
      BY <1>1, <1>2, <1>3, <2>1, <2>2, <2>4 DEF SeparatingFacts, CostsOK
    <3> QED
      BY <2>1, <2>2, <2>4, <3>1, <3>2 DEF SaturationInvariant, TreePhases
  <2> QED
    BY <2>2, <2>3, <2>4
<1> QED
  BY <1>4, <1>5, <1>6

\* Steps that leave the abstraction alone and repair the tree.
LEMMA TreeStepKeeps ==
  ASSUME SaturationInvariant, UNCHANGED saturationvars, phase \in TreePhases,
         UNCHANGED <<abstractionvars, operator_costs>>, phase' \in TreePhases, TreeFacts'
  PROVE  SaturationInvariant'
<1>1. AbstractionOK'
  BY AbstractionStays DEF SaturationInvariant
<1>2. Separated(states, goals)'
  <2>1. Separated(states, goals)
    BY DEF SaturationInvariant
  <2> QED
    BY <2>1, SeparationStays DEF abstractionvars
<1>3. TreeOK' /\ SeparatingFacts' /\ SeparatingGoals'
  BY DEF TreeOK, SeparatingFacts, SeparatingGoals, TreePhases
<1>4. CostsOK'
  BY DEF SaturationInvariant, CostsOK, saturationvars, abstractionvars, TreePhases
<1> QED
  BY <1>1, <1>2, <1>3, <1>4 DEF SaturationInvariant

LEMMA InvariantLoopOK == SaturationInvariant /\ phase = "loop" => LoopOK
BY DEF SaturationInvariant, TreeOK, TreePhases, CostsOK, LoopOK

LEMMA CegarKeeps ==
  ASSUME SaturationInvariant, UNCHANGED saturationvars, CegarStep
  PROVE  SaturationInvariant'
<1>1. CASE SeparateUnreachable \/ SplitOffGoal \/ SplitNextGoal
  BY <1>1, SeparationKeeps
<1>2. CASE RefineFlaw
  <2>1. phase = "loop" /\ phase' = "reconnect" /\ operator_costs' = operator_costs
    BY <1>2 DEF RefineFlaw
  <2>2. AbstractionOK' /\ subgoal' = subgoal /\ Separated(states, goals)' /\ TreeFacts'
    BY <1>2, <2>1, InvariantLoopOK, RefineFlawKeeps
  <2>3. CostsOK'
    BY <2>1, <2>2 DEF SaturationInvariant, CostsOK, saturationvars
  <2> QED
    BY <2>1, <2>2, <2>3 DEF SaturationInvariant, TreeOK, SeparatingFacts, SeparatingGoals
<1>3. CASE StopRefining
  <2>1. phase = "loop" /\ phase' = "refined" /\ UNCHANGED <<abstractionvars, operator_costs>>
    BY <1>3 DEF StopRefining
  <2>2. AbstractionOK'
    BY <2>1, AbstractionStays DEF SaturationInvariant
  <2>3. Separated(states, goals)'
    <3>1. Separated(states, goals)
      BY <2>1 DEF SaturationInvariant, TreePhases
    <3> QED
      BY <2>1, <3>1, SeparationStays DEF abstractionvars
  <2>4. CostsOK'
    BY <2>1 DEF SaturationInvariant, CostsOK, saturationvars, abstractionvars
  <2> QED
    BY <2>1, <2>2, <2>3, <2>4 DEF SaturationInvariant, TreeOK, TreePhases, SeparatingFacts, SeparatingGoals
<1>4. CASE phase \in TreePhases /\ UNCHANGED <<abstractionvars, operator_costs>>
           /\ phase' \in TreePhases /\ TreeFacts'
  BY <1>4, TreeStepKeeps
<1>5. ASSUME Reconnect \/ EndReconnecting \/ SettleDirty \/ EndSettling \/ ExpandNearest \/ EndDijkstra
      PROVE  /\ phase \in TreePhases /\ UNCHANGED <<abstractionvars, operator_costs>>
             /\ phase' \in TreePhases /\ TreeFacts'
  <2>1. phase \in TreePhases /\ UNCHANGED <<abstractionvars, operator_costs>> /\ phase' \in TreePhases
    BY <1>5 DEF Reconnect, EndReconnecting, SettleDirty, EndSettling, ExpandNearest, EndDijkstra,
       TreePhases
  <2>2. AbstractionOK /\ TreeFacts /\ TransitionsIn /\ operator_costs \in [COperators -> Nat]
    BY <2>1, OKTransitionsIn DEF SaturationInvariant, TreeOK, CostsOK, TreePhases
  <2>3. PICK n : StatesOK(states, n)
    BY <2>2 DEF AbstractionOK
  <2>4. CASE Reconnect
    <3>1. phase = "reconnect"
      BY <2>4 DEF Reconnect
    <3> QED
      BY <2>1, <2>2, <2>4, <3>1, ReconnectTree
  <2>5. CASE SettleDirty
    <3>1. phase = "settle"
      BY <2>5 DEF SettleDirty
    <3> QED
      BY <2>1, <2>2, <2>5, <3>1, SettleTree
  <2>6. CASE ExpandNearest
    <3>1. phase = "dijkstra"
      BY <2>6 DEF ExpandNearest
    <3> QED
      BY <2>1, <2>2, <2>3, <2>6, <3>1, ExpandTree
  <2>7. CASE EndReconnecting \/ EndSettling \/ EndDijkstra
    <3>1. /\ UNCHANGED <<abstractionvars, operator_costs, treevars>>
          /\ \/ phase = "reconnect" /\ candidate_queue = {} /\ phase' = "settle"
             \/ phase = "settle" /\ dirty_states = <<>> /\ phase' = "dijkstra"
             \/ phase = "dijkstra" /\ open_queue = {} /\ phase' = "loop"
      BY <2>7 DEF EndReconnecting, EndSettling, EndDijkstra
    <3> QED
      BY <2>1, <2>2, <3>1, PhaseTree
  <2> QED
    BY <1>5, <2>4, <2>5, <2>6, <2>7
<1> QED
  BY <1>1, <1>2, <1>3, <1>4, <1>5 DEF CegarStep

LEMMA FinishSubtaskKeeps ==
  ASSUME SaturationInvariant, FinishSubtask
  PROVE  SaturationInvariant'
<1>1. /\ phase = "refined" /\ phase' \in {"ready", "next"}
      /\ remaining_costs' = [o \in COperators |-> ReducedCost(o, InitDistances, GoalDistances)]
      /\ UNCHANGED <<abstractionvars, subtasks>>
  BY DEF FinishSubtask
<1>2. AbstractionOK'
  BY <1>1, AbstractionStays DEF SaturationInvariant
<1>3. \A o \in COperators : ReducedCost(o, InitDistances, GoalDistances) \in Nat
  BY <1>1, ReducedCostIn DEF SaturationInvariant, CostsOK
<1>4. remaining_costs' \in [COperators -> Nat]
  BY <1>1, <1>3
<1>5. CostsOK'
  BY <1>1, <1>4 DEF SaturationInvariant, CostsOK
<1> QED
  BY <1>1, <1>2, <1>5 DEF SaturationInvariant, TreeOK, TreePhases, SeparatingFacts, SeparatingGoals

LEMMA SaturationStutters ==
  ASSUME SaturationInvariant, UNCHANGED <<cegarvars, saturationvars>>
  PROVE  SaturationInvariant'
<1>1. /\ UNCHANGED <<abstractionvars, operator_costs, treevars, phase, todo>>
      /\ remaining_costs' = remaining_costs /\ subtasks' = subtasks
  BY DEF cegarvars, saturationvars
<1>2. AbstractionOK'
  BY <1>1, AbstractionStays DEF SaturationInvariant
<1>3. /\ subgoal' = subgoal /\ states' = states /\ goals' = goals /\ transitions' = transitions
      /\ goal_distances' = goal_distances /\ shortest_path' = shortest_path
      /\ candidate_queue' = candidate_queue /\ dirty_states' = dirty_states /\ open_queue' = open_queue
  BY <1>1 DEF abstractionvars, treevars
<1>4. Separated(states, goals) <=> Separated(states, goals)'
  BY <1>3, SeparationStays
<1>5. CostsOK'
  BY <1>1, <1>3 DEF SaturationInvariant, CostsOK
<1>6. SeparatingFacts' /\ SeparatingGoals'
  BY <1>1, <1>3 DEF SaturationInvariant, SeparatingFacts, SeparatingGoals, IsSingle, IsImpossible,
     GoalFact
<1>7. TreeFacts => TreeFacts'
  BY <1>1, PhaseTree
<1>8. TreeOK'
  BY <1>1, <1>3, <1>7 DEF SaturationInvariant, TreeOK
<1> QED
  BY <1>1, <1>2, <1>4, <1>5, <1>6, <1>8 DEF SaturationInvariant

LEMMA SaturationKeeps ==
  SaturationInvariant /\ [SaturationStep]_<<cegarvars, saturationvars>> => SaturationInvariant'
<1> SUFFICES ASSUME SaturationInvariant, [SaturationStep]_<<cegarvars, saturationvars>>
             PROVE  SaturationInvariant'
  OBVIOUS
<1>1. CASE StartSubtask
  BY <1>1, StartSubtaskKeeps
<1>2. CASE CegarStep /\ UNCHANGED saturationvars
  BY <1>2, CegarKeeps
<1>3. CASE FinishSubtask
  BY <1>3, FinishSubtaskKeeps
<1>4. CASE UNCHANGED <<cegarvars, saturationvars>>
  BY <1>4, SaturationStutters
<1> QED
  BY <1>1, <1>2, <1>3, <1>4 DEF SaturationStep

\* Every step of the separation, of the refinement and of the incremental update of
\* the distances keeps the invariant.
THEOREM SaturationInvariantHolds == SaturationSpec => []SaturationInvariant
BY SaturationInitOK, SaturationKeeps, PTL DEF SaturationSpec

\* For every task, whatever is split: the transitions and loops that rewiring keeps up
\* to date are exactly those that the concrete transitions induce, and the hierarchy
\* leads every concrete state to the one abstract state that includes it.
THEOREM AlwaysInduced == SaturationSpec => []AbstractionIsInduced
<1>1. SaturationInvariant => AbstractionIsInduced
  BY OKIsInduced DEF SaturationInvariant
<1> QED
  BY <1>1, SaturationInvariantHolds, PTL

\* For every task, find_flaw returns a solution or a flaw that some split resolves.
THEOREM AlwaysSplittable == SaturationSpec => []FlawsAreSplittable
<1>1. SaturationInvariant => FlawsAreSplittable
  <2>1. phase = "loop" \/ FlawsAreSplittable
    BY DEF FlawsAreSplittable
  <2> QED
    BY <2>1, InvariantLoopOK, LoopSplittable
<1> QED
  BY <1>1, SaturationInvariantHolds, PTL

\* reduce_remaining_costs never takes more than is left.
CostsStayNatural == remaining_costs \in [COperators -> Nat]

\* For every task, no cost that is left for the next abstraction is negative.
THEOREM CostsAreNatural == SaturationSpec => []CostsStayNatural
<1>1. SaturationInvariant => CostsStayNatural
  BY DEF SaturationInvariant, CostsOK, CostsStayNatural
<1> QED
  BY <1>1, SaturationInvariantHolds, PTL

-----------------------------------------------------------------------------
(***************************************************************************)
(* The distances of the tree are the goal distances.                       *)
(***************************************************************************)

\* Products of natural numbers.
LEMMA ProductSum ==
  ASSUME NEW k \in Nat, NEW a \in Nat, NEW b \in Nat
  PROVE  k * (a + b) = k * a + k * b /\ k * a \in Nat /\ k * b \in Nat
OBVIOUS

LEMMA ProductGrows ==
  ASSUME NEW k \in Nat, NEW a \in Nat, NEW b \in Nat, a <= b
  PROVE  k * a <= k * b /\ k * a \in Nat /\ k * b \in Nat
<1>1. PICK d \in Nat : b = a + d
  <2>1. b - a \in Nat /\ b = a + (b - a)
    OBVIOUS
  <2> QED
    BY <2>1
<1>2. k * b = k * a + k * d /\ k * a \in Nat /\ k * d \in Nat
  BY <1>1, ProductSum
<1> QED
  BY <1>2

LEMMA ProductAbove ==
  ASSUME NEW k \in Nat, NEW a \in Nat, k > 0
  PROVE  a <= k * a
<1>1. PICK d \in Nat : k = d + 1
  <2>1. k - 1 \in Nat /\ k = (k - 1) + 1
    OBVIOUS
  <2> QED
    BY <2>1
<1>2. k * a = d * a + a /\ d * a \in Nat
  BY <1>1
<1> QED
  BY <1>2

LEMMA Quotient ==
  ASSUME NEW k \in Nat, NEW a \in Nat, NEW b \in Nat, k > 0, k * a <= b, b < k * a + k
  PROVE  b \div k = a
<1>1. PICK r \in Nat : b = k * a + r /\ r < k
  <2>1. PICK c \in Nat : c = k * a
    OBVIOUS
  <2>2. b - c \in Nat /\ b = c + (b - c) /\ b - c < k
    BY <2>1
  <2> QED
    BY <2>1, <2>2
<1> QED
  BY <1>1

\* The 64 bits count one cost as Unit, and a path of n steps of cost 0 as Slack(n).
Unit == IF HasZeroCosts THEN Scale ELSE 1
Slack(n) == IF HasZeroCosts THEN n ELSE 0

LEMMA UnitIs == Unit \in Nat /\ Unit > 0
BY DistanceAssumption DEF Unit

LEMMA Cost64Bounds ==
  ASSUME operator_costs \in [COperators -> Nat], NEW o \in COperators
  PROVE  /\ Cost64(o) \in Nat
         /\ operator_costs[o] = Infinity => Cost64(o) = Infinity
         /\ operator_costs[o] # Infinity =>
              Unit * operator_costs[o] <= Cost64(o) /\ Cost64(o) <= Unit * operator_costs[o] + Slack(1)
<1>1. PICK c \in Nat : c = operator_costs[o]
  OBVIOUS
<1>2. Cost64(o) = IF c = Infinity \/ ~HasZeroCosts THEN c ELSE IF c = 0 THEN 1 ELSE c * Scale
  BY <1>1 DEF Cost64
<1>3. CASE c = Infinity
  BY <1>1, <1>2, <1>3
<1>4. CASE c # Infinity /\ ~HasZeroCosts
  BY <1>1, <1>2, <1>4 DEF Unit, Slack
<1>5. CASE c # Infinity /\ HasZeroCosts
  <2>1. Unit = Scale /\ Slack(1) = 1 /\ Scale \in Nat
    BY <1>5, DistanceAssumption DEF Unit, Slack
  <2>2. CASE c = 0
    <3>1. Cost64(o) = 1 /\ Scale * c = 0
      BY <1>2, <1>5, <2>1, <2>2
    <3> QED
      BY <1>1, <1>5, <2>1, <3>1
  <2>3. CASE c # 0
    <3>1. Cost64(o) = Scale * c /\ Scale * c \in Nat
      BY <1>2, <1>5, <2>1, <2>3
    <3> QED
      BY <1>1, <1>5, <2>1, <3>1
  <2> QED
    BY <2>2, <2>3
<1> QED
  BY <1>3, <1>4, <1>5

\* No distance of the tree is below the goal distance.
LEMMA NotBelow ==
  ASSUME LoopOK, NEW id \in DOMAIN states, goal_distances[id] # Infinity
  PROVE  Unit * GoalDistances[id] <= goal_distances[id]
<1> DEFINE gd == goal_distances
           h == GoalDistances
           S == {m \in Nat : \A u \in DOMAIN states :
                   gd[u] <= m /\ gd[u] # Infinity => Unit * h[u] <= gd[u]}
<1>1. /\ \A u \in DOMAIN states : h[u] \in Nat /\ h[u] <= Infinity
      /\ \A u \in DOMAIN states : u \in goals => h[u] = 0
      /\ \A t \in transitions : h[t[1]] <= AddCosts(h[t[3]], operator_costs[t[2]])
  BY GoalDistancesFixed DEF LoopOK
<1>2. \A u \in DOMAIN states : gd[u] \in Nat /\ gd[u] <= Infinity
  BY LoopFacts
<1>3. ASSUME NEW m \in Nat, NEW u \in DOMAIN states, gd[u] <= m, gd[u] # Infinity,
             \A w \in DOMAIN states : gd[w] < m /\ gd[w] # Infinity => Unit * h[w] <= gd[w]
      PROVE  Unit * h[u] <= gd[u]
  <2>1. CASE u \in goals
    BY <1>1, <1>2, <2>1, UnitIs
  <2>2. CASE u \notin goals
    <3>1. PICK o, w : o = shortest_path[u][1] /\ w = shortest_path[u][2]
      OBVIOUS
    <3>2. StepOK(u) /\ o \in COperators /\ w \in DOMAIN states /\ gd[w] < gd[u]
      BY <1>3, <2>2, <3>1, LoopFacts
    <3>3. /\ <<u, o, w>> \in transitions /\ gd[w] # Infinity /\ Cost64(o) # Infinity
          /\ gd[u] >= gd[w] + Cost64(o)
      BY <3>1, <3>2 DEF StepOK
    <3>4. PICK c \in Nat : c = operator_costs[o]
      BY <3>2 DEF LoopOK
    <3>5. Cost64(o) \in Nat /\ c # Infinity /\ Unit * c <= Cost64(o)
      BY <3>2, <3>3, <3>4, Cost64Bounds DEF LoopOK
    <3>6. PICK a \in Nat, b \in Nat, x \in Nat, y \in Nat : a = h[u] /\ b = h[w] /\ x = gd[u] /\ y = gd[w]
      BY <1>1, <1>2, <3>2
    <3>7. y < x /\ x <= m /\ y < m /\ y # Infinity /\ y <= Infinity
      BY <1>2, <1>3, <3>2, <3>3, <3>6
    <3>8. Unit * b <= y
      BY <1>3, <3>2, <3>6, <3>7
    <3>9. b # Infinity
      <4>1. b <= Unit * b /\ Unit * b \in Nat
        BY UnitIs, ProductAbove
      <4> QED
        BY <3>7, <3>8, <4>1, DistanceAssumption
    <3>10. a <= b + c
      <4>1. PICK t \in transitions : t = <<u, o, w>>
        BY <3>3
      <4>2. t[1] = u /\ t[2] = o /\ t[3] = w
        BY <4>1
      <4>3. h[u] <= AddCosts(h[w], operator_costs[o])
        BY <1>1, <4>2
      <4> QED
        BY <3>4, <3>5, <3>6, <3>9, <4>3 DEF AddCosts
    <3>11. Unit * a <= Unit * b + Unit * c /\ Unit * a \in Nat /\ Unit * b \in Nat /\ Unit * c \in Nat
      <4>1. b + c \in Nat
        OBVIOUS
      <4>2. Unit * a <= Unit * (b + c) /\ Unit * a \in Nat
        BY <3>10, <4>1, UnitIs, ProductGrows
      <4>3. Unit * (b + c) = Unit * b + Unit * c /\ Unit * b \in Nat /\ Unit * c \in Nat
        BY UnitIs, ProductSum
      <4> QED
        BY <4>2, <4>3
    <3>12. Unit * a <= x
      BY <3>3, <3>5, <3>6, <3>8, <3>11
    <3> QED
      BY <3>6, <3>12
  <2> QED
    BY <2>1, <2>2
<1>4. 0 \in S
  <2> SUFFICES ASSUME NEW u \in DOMAIN states, gd[u] <= 0, gd[u] # Infinity PROVE Unit * h[u] <= gd[u]
    OBVIOUS
  <2>1. \A w \in DOMAIN states : ~(gd[w] < 0)
    BY <1>2
  <2> QED
    BY <1>3, <2>1
<1>5. ASSUME NEW m \in Nat, m \in S PROVE m + 1 \in S
  <2> SUFFICES ASSUME NEW u \in DOMAIN states, gd[u] <= m + 1, gd[u] # Infinity
               PROVE  Unit * h[u] <= gd[u]
    OBVIOUS
  <2>1. \A w \in DOMAIN states : gd[w] < m + 1 => gd[w] <= m
    BY <1>2
  <2>2. \A w \in DOMAIN states : gd[w] <= m /\ gd[w] # Infinity => Unit * h[w] <= gd[w]
    BY <1>5
  <2>3. m + 1 \in Nat
    OBVIOUS
  <2> HIDE DEF gd, h
  <2> QED
    BY <1>3, <2>1, <2>2, <2>3
<1> HIDE DEF S
<1>6. gd[id] \in S
  BY <1>2, <1>4, <1>5, Induction
<1>7. gd[id] <= gd[id]
  BY <1>2
<1> QED
  BY <1>6, <1>7 DEF S

LEMMA ReversedOK == TransitionsIn => EdgesOK(ReversedEdges)
<1> SUFFICES ASSUME TransitionsIn, NEW t \in transitions, NEW e, e = <<t[3], t[2], t[1]>>
             PROVE  e[1] \in DOMAIN states /\ e[2] \in COperators /\ e[3] \in DOMAIN states
  BY DEF EdgesOK, ReversedEdges
<1> QED
  BY DEF TransitionsIn

\* No distance of the tree is above the one over n edges by more than n steps.
LEMMA NotAbove ==
  ASSUME LoopOK, NEW id \in DOMAIN states, GoalDistances[id] # Infinity
  PROVE  goal_distances[id] <= Unit * GoalDistances[id] + Slack(NumStates)
<1> DEFINE gd == goal_distances
           N == NumStates
<1>1. TransitionsIn /\ operator_costs \in [COperators -> Nat] /\ TreeFacts /\ phase = "loop"
  BY OKTransitionsIn DEF LoopOK
<1>2. N \in Nat
  <2>1. PICK n : StatesOK(states, n)
    BY DEF LoopOK, AbstractionOK
  <2> QED
    BY <2>1, NumStatesIs DEF StatesOK
<1>3. EdgesOK(ReversedEdges)
  BY <1>1, ReversedOK
<1>4. PICK f : AreRounds(f, N, goals, ReversedEdges) /\ GoalDistances = f[N]
  <2>1. \E f : AreRounds(f, N, goals, ReversedEdges) /\ DistancesFrom(goals, ReversedEdges) = f[N]
    BY <1>1, <1>2, <1>3, DistancesAre
  <2> QED
    BY <2>1 DEF GoalDistances, ReversedEdges
<1>5. /\ f \in [0..N -> DistanceMaps] /\ f[0] = StartMap(goals)
      /\ \A i \in 1..N : f[i] = Round(f[i-1], ReversedEdges)
  BY <1>4 DEF AreRounds
<1>6. \A i \in 0..N : \A u \in DOMAIN states : f[i][u] \in Nat /\ f[i][u] <= Infinity
  <2>1. \A d \in DistanceMaps : \A u \in DOMAIN states : d[u] \in Nat /\ d[u] <= Infinity
    BY DistanceAssumption DEF DistanceMaps
  <2> QED
    BY <1>5, <2>1
<1>7. \A u \in DOMAIN states : gd[u] \in Nat /\ gd[u] <= Infinity
  BY LoopFacts
<1>8. \A t \in transitions : gd[t[1]] <= Through(t)
  <2>1. open_queue = {}
    BY <1>1 DEF TreeFacts
  <2>2. \A u \in DOMAIN states : gd[u] # Dirty
    BY <1>7, DistanceAssumption
  <2> QED
    BY <1>1, <2>1, <2>2 DEF TreeFacts, TransitionsIn
<1> DEFINE IsAbove(n, u) == f[n][u] # Infinity => gd[u] <= Unit * f[n][u] + Slack(n)
           S == {n \in Nat : n <= N => \A u \in DOMAIN states : IsAbove(n, u)}
<1>9. 0 \in S
  <2> SUFFICES ASSUME NEW u \in DOMAIN states, f[0][u] # Infinity
               PROVE  gd[u] <= Unit * f[0][u] + Slack(0)
    OBVIOUS
  <2>1. u \in goals /\ f[0][u] = 0
    BY <1>5 DEF StartMap
  <2>2. gd[u] = 0
    BY <1>1, <2>1 DEF TreeFacts
  <2>3. Unit * 0 = 0
    BY UnitIs
  <2> QED
    BY <2>1, <2>2, <2>3 DEF Slack
<1>10. ASSUME NEW n \in Nat, n \in S PROVE n + 1 \in S
  <2> SUFFICES ASSUME n + 1 <= N, NEW u \in DOMAIN states PROVE IsAbove(n + 1, u)
    OBVIOUS
  <2>1. PICK k \in 1..N : k = n + 1 /\ k - 1 = n /\ n \in 0..N /\ k \in 0..N
    <3>1. n + 1 \in 1..N /\ (n + 1) - 1 = n /\ n \in 0..N /\ n + 1 \in 0..N
      BY <1>2
    <3> QED
      BY <3>1
  <2>2. PICK d, r : d = f[n] /\ r = f[k] /\ d \in DistanceMaps
    BY <1>5, <2>1
  <2>3. IsRound(r, d, ReversedEdges)
    <3>1. r = Round(d, ReversedEdges)
      BY <1>5, <2>1, <2>2
    <3> QED
      BY <1>1, <1>3, <2>2, <3>1, RoundFacts
  <2>4. \A w \in DOMAIN states : d[w] # Infinity => gd[w] <= Unit * d[w] + Slack(n)
    <3>1. n <= N
      BY <1>2
    <3> QED
      BY <1>10, <2>2, <3>1
  <2>5. \A w \in DOMAIN states : d[w] \in Nat /\ d[w] <= Infinity /\ r[w] \in Nat
    BY <1>6, <2>1, <2>2
  <2>6. Slack(n) \in Nat /\ Slack(k) = Slack(n) + Slack(1) /\ Slack(1) \in Nat
    BY <2>1 DEF Slack
  <2> SUFFICES ASSUME r[u] # Infinity PROVE gd[u] <= Unit * r[u] + Slack(k)
    BY <2>1, <2>2
  <2>7. CASE r[u] = d[u]
    <3>1. gd[u] <= Unit * d[u] + Slack(n)
      BY <2>4, <2>7
    <3>2. PICK a \in Nat, x \in Nat : a = d[u] /\ x = gd[u]
      BY <1>7, <2>5
    <3>3. PICK ua \in Nat : ua = Unit * a
      BY UnitIs, ProductSum
    <3> QED
      BY <2>6, <2>7, <3>1, <3>2, <3>3
  <2>8. CASE \E e \in ReversedEdges : e[3] = u /\ r[u] = AddCosts(d[e[1]], operator_costs[e[2]])
    <3>1. PICK e \in ReversedEdges : e[3] = u /\ r[u] = AddCosts(d[e[1]], operator_costs[e[2]])
      BY <2>8
    <3>2. PICK t \in transitions : e = <<t[3], t[2], t[1]>>
      BY DEF ReversedEdges
    <3>3. PICK o, w : o = t[2] /\ w = t[3] /\ t[1] = u /\ r[u] = AddCosts(d[w], operator_costs[o])
      <4>1. e[1] = t[3] /\ e[2] = t[2] /\ e[3] = t[1]
        BY <3>2
      <4> QED
        BY <3>1, <4>1
    <3>4. o \in COperators /\ w \in DOMAIN states
      BY <1>1, <3>3 DEF TransitionsIn
    <3>5. PICK c \in Nat, a \in Nat, b \in Nat, x \in Nat, y \in Nat, q \in Nat :
            /\ c = operator_costs[o] /\ a = r[u] /\ b = d[w] /\ x = gd[u] /\ y = gd[w] /\ q = Cost64(o)
      BY <1>1, <1>7, <2>5, <3>4, Cost64Bounds
    <3>6. b # Infinity /\ c # Infinity /\ a = b + c
      <4>1. a = AddCosts(b, c) /\ a # Infinity
        BY <3>3, <3>5
      <4> QED
        BY <4>1 DEF AddCosts
    <3>7. y <= Unit * b + Slack(n)
      BY <2>4, <3>4, <3>5, <3>6
    <3>8. q <= Unit * c + Slack(1)
      BY <1>1, <3>4, <3>5, <3>6, Cost64Bounds
    <3>9. x <= AddCosts(y, q) /\ x <= Infinity
      BY <1>7, <1>8, <3>3, <3>5 DEF Through
    <3>10. x <= y + q
      BY <3>9, DistanceAssumption DEF AddCosts
    <3>11. PICK ua \in Nat, ub \in Nat, uc \in Nat :
             ua = Unit * a /\ ub = Unit * b /\ uc = Unit * c /\ ua = ub + uc
      BY <3>6, UnitIs, ProductSum
    <3>12. x <= ua + (Slack(n) + Slack(1))
      BY <2>6, <3>7, <3>8, <3>10, <3>11
    <3> QED
      BY <2>6, <3>5, <3>11, <3>12
  <2> QED
    BY <2>3, <2>7, <2>8 DEF IsRound
<1> HIDE DEF S
<1>11. N \in S
  BY <1>2, <1>9, <1>10, Induction
<1>12. IsAbove(N, id)
  BY <1>2, <1>11 DEF S
<1> QED
  BY <1>4, <1>12

\* With operators of cost 0, the distances fit the upper half of the 64 bits, and the
\* steps the lower half: there are fewer than 2^32 abstract states, and a 32-bit
\* distance times 2^32 stays below the infinite distance of 64 bits.
CostsFit ==
  HasZeroCosts =>
    /\ NumStates < Scale
    /\ \A id \in DOMAIN states : GoalDistances[id] # Infinity =>
         Scale * GoalDistances[id] + Scale <= Infinity

LEMMA ExactDistance ==
  ASSUME LoopOK, CostsFit, NEW id \in DOMAIN states
  PROVE  Cost32(goal_distances[id]) = GoalDistances[id]
<1>1. PICK a \in Nat, x \in Nat : /\ a = GoalDistances[id] /\ a <= Infinity
                                  /\ x = goal_distances[id] /\ x <= Infinity
  <2>1. GoalDistances[id] \in Nat /\ GoalDistances[id] <= Infinity
    BY GoalDistancesFixed DEF LoopOK
  <2>2. goal_distances[id] \in Nat /\ goal_distances[id] <= Infinity
    BY LoopFacts
  <2> QED
    BY <2>1, <2>2
<1>2. x # Infinity => Unit * a <= x
  BY <1>1, NotBelow
<1>3. a # Infinity => x <= Unit * a + Slack(NumStates)
  BY <1>1, NotAbove
<1>4. a <= Unit * a /\ Unit * a \in Nat
  BY UnitIs, ProductAbove, ProductSum
<1>5. a = Infinity => x = Infinity
  BY <1>1, <1>2, <1>4, DistanceAssumption
<1>6. CASE ~HasZeroCosts
  <2>1. Unit * a = a /\ Slack(NumStates) = 0
    BY <1>6 DEF Unit, Slack
  <2>2. a = x
    BY <1>1, <1>2, <1>3, <1>5, <2>1, DistanceAssumption
  <2> QED
    BY <1>1, <1>6, <2>2 DEF Cost32
<1>7. CASE HasZeroCosts /\ a = Infinity
  BY <1>1, <1>5, <1>7 DEF Cost32
<1>8. CASE HasZeroCosts /\ a # Infinity
  <2>1. PICK N \in Nat : N = NumStates
    <3>1. PICK n : StatesOK(states, n)
      BY DEF LoopOK, AbstractionOK
    <3> QED
      BY <3>1, NumStatesIs DEF StatesOK
  <2>2. Unit = Scale /\ Slack(NumStates) = N /\ N < Scale /\ Scale \in Nat
    BY <1>8, <2>1, DistanceAssumption DEF Unit, Slack, CostsFit
  <2>3. Scale * a + Scale <= Infinity
    BY <1>1, <1>8 DEF CostsFit
  <2>4. PICK s \in Nat : s = Scale * a
    BY <1>4, <2>2
  <2>5. x <= s + N
    BY <1>3, <1>8, <2>2, <2>4
  <2>6. x # Infinity
    BY <2>1, <2>2, <2>3, <2>4, <2>5, DistanceAssumption
  <2>7. s <= x
    BY <1>2, <2>2, <2>4, <2>6
  <2>8. x < s + Scale
    BY <2>1, <2>2, <2>5
  <2>9. x \div Scale = a
    BY <2>2, <2>4, <2>7, <2>8, Quotient, DistanceAssumption
  <2> QED
    BY <1>1, <1>8, <2>6, <2>9 DEF Cost32
<1> QED
  BY <1>6, <1>7, <1>8

LEMMA LoopExact == LoopOK /\ CostsFit => DistancesExact
<1> SUFFICES ASSUME LoopOK, CostsFit, NEW id \in DOMAIN states
             PROVE  /\ goal_distances[id] # Dirty
                    /\ Cost32(goal_distances[id]) = GoalDistances[id]
                    /\ id \notin goals /\ goal_distances[id] # Infinity =>
                         LET step == shortest_path[id]
                         IN /\ step # Undefined /\ <<id, step[1], step[2]>> \in transitions
                            /\ goal_distances[id] = AddCosts(Cost64(step[1]), goal_distances[step[2]])
  BY DEF DistancesExact
<1>1. goal_distances[id] \in Nat /\ goal_distances[id] # Dirty
  BY LoopFacts, DistanceAssumption
<1>2. ASSUME id \notin goals, goal_distances[id] # Infinity
      PROVE  LET step == shortest_path[id]
             IN /\ step # Undefined /\ <<id, step[1], step[2]>> \in transitions
                /\ goal_distances[id] = AddCosts(Cost64(step[1]), goal_distances[step[2]])
  <2>1. PICK o, w : o = shortest_path[id][1] /\ w = shortest_path[id][2]
    OBVIOUS
  <2>2. StepOK(id) /\ o \in COperators /\ w \in DOMAIN states
    BY <1>2, <2>1, LoopFacts
  <2>3. /\ shortest_path[id] # Undefined /\ <<id, o, w>> \in transitions
        /\ goal_distances[w] # Infinity /\ Cost64(o) # Infinity
        /\ goal_distances[id] >= goal_distances[w] + Cost64(o)
    BY <2>1, <2>2 DEF StepOK
  <2>4. goal_distances[id] <= AddCosts(goal_distances[w], Cost64(o))
    <3>1. TreeFacts /\ phase = "loop"
      BY DEF LoopOK
    <3>2. open_queue = {} /\ goal_distances[w] # Dirty
      BY <2>2, <3>1, LoopFacts, DistanceAssumption DEF TreeFacts
    <3>3. PICK t \in transitions : t = <<id, o, w>>
      BY <2>3
    <3>4. t[1] = id /\ t[2] = o /\ t[3] = w
      BY <3>3
    <3> QED
      BY <1>1, <3>1, <3>2, <3>4 DEF TreeFacts, Through
  <2>5. PICK x \in Nat, y \in Nat, q \in Nat :
          x = goal_distances[id] /\ y = goal_distances[w] /\ q = Cost64(o)
    BY <1>1, <2>2, LoopFacts, Cost64Bounds DEF LoopOK
  <2>6. x = AddCosts(q, y)
    BY <2>3, <2>4, <2>5 DEF AddCosts
  <2> QED
    BY <2>1, <2>3, <2>5, <2>6
<1> QED
  BY <1>1, <1>2, ExactDistance

\* For every task, the distances that update_incrementally leaves are those of a
\* computation from nothing, and the tree has an edge on a shortest path from every
\* solvable state.
THEOREM AlwaysExact == SaturationSpec => [](CostsFit => DistancesExact)
<1>1. SaturationInvariant => (CostsFit => DistancesExact)
  <2>1. phase = "loop" \/ DistancesExact
    BY DEF DistancesExact
  <2> QED
    BY <2>1, InvariantLoopOK, LoopExact
<1> QED
  BY <1>1, SaturationInvariantHolds, PTL

-----------------------------------------------------------------------------
(***************************************************************************)
(* States on plans of the task.                                            *)
(***************************************************************************)

IsGoalState(s) == \A v \in DOMAIN CGoal : s[v] = CGoal[v]

\* The set contains all states that can be reached.
ReachedBy(T) ==
  /\ CInit \in T
  /\ \A s \in T : \A o \in COperators : Applicable(o, s) => Successor(o, s) \in T

\* The set contains all states from which a goal state can be reached.
SolvedBy(T) ==
  /\ \A s \in CStates : IsGoalState(s) => s \in T
  /\ \A s \in CStates : \A o \in COperators :
       Applicable(o, s) /\ Successor(o, s) \in T => s \in T

IsReachable(s) == \A T \in SUBSET CStates : ReachedBy(T) => s \in T
IsSolvable(s) == \A T \in SUBSET CStates : SolvedBy(T) => s \in T

\* A plan from the initial state may lead through the state.
OnPlan(s) == IsReachable(s) /\ IsSolvable(s)

LEMMA ReachableInit == IsReachable(CInit)
BY DEF IsReachable, ReachedBy

LEMMA ReachableStep ==
  ASSUME NEW s \in CStates, NEW o \in COperators, Applicable(o, s), IsReachable(s)
  PROVE  IsReachable(Successor(o, s))
BY DEF IsReachable, ReachedBy

LEMMA SolvableGoal ==
  ASSUME NEW s \in CStates, IsGoalState(s)
  PROVE  IsSolvable(s)
BY DEF IsSolvable, SolvedBy

LEMMA SolvableStep ==
  ASSUME NEW s \in CStates, NEW o \in COperators, Applicable(o, s), IsSolvable(Successor(o, s))
  PROVE  IsSolvable(s)
<1> SUFFICES ASSUME NEW T \in SUBSET CStates, SolvedBy(T) PROVE s \in T
  BY DEF IsSolvable
<1>1. Successor(o, s) \in T
  BY DEF IsSolvable
<1> QED
  BY <1>1 DEF SolvedBy

\* What holds initially and after every step on a plan holds on all plans.
LEMMA ForwardInduction ==
  ASSUME NEW H, CInit \in H,
         \A s \in CStates : \A o \in COperators :
           s \in H /\ OnPlan(s) /\ Applicable(o, s) /\ OnPlan(Successor(o, s))
             => Successor(o, s) \in H
  PROVE  \A s \in CStates : OnPlan(s) => s \in H
<1> DEFINE T == {s \in CStates : IsReachable(s) /\ (IsSolvable(s) => s \in H)}
<1>1. CInit \in T
  BY CartesianTask, ReachableInit
<1>2. ASSUME NEW s \in T, NEW o \in COperators, Applicable(o, s) PROVE Successor(o, s) \in T
  <2>1. Successor(o, s) \in CStates /\ IsReachable(Successor(o, s))
    BY <1>2, SuccessorIsState, ReachableStep
  <2>2. ASSUME IsSolvable(Successor(o, s)) PROVE Successor(o, s) \in H
    <3>1. IsSolvable(s)
      BY <1>2, <2>2, SolvableStep
    <3> QED
      BY <1>2, <2>1, <2>2, <3>1 DEF OnPlan
  <2> QED
    BY <2>1, <2>2
<1>3. ReachedBy(T)
  BY <1>1, <1>2 DEF ReachedBy
<1>4. T \in SUBSET CStates
  OBVIOUS
<1> SUFFICES ASSUME NEW s \in CStates, OnPlan(s) PROVE s \in H
  OBVIOUS
<1> HIDE DEF T
<1>5. s \in T
  BY <1>3, <1>4 DEF OnPlan, IsReachable
<1> QED
  BY <1>5 DEF T, OnPlan

\* What holds in goal states and before every step on a plan holds on all plans.
LEMMA BackwardInduction ==
  ASSUME NEW H, \A s \in CStates : IsGoalState(s) => s \in H,
         \A s \in CStates : \A o \in COperators :
           OnPlan(s) /\ Applicable(o, s) /\ OnPlan(Successor(o, s)) /\ Successor(o, s) \in H
             => s \in H
  PROVE  \A s \in CStates : OnPlan(s) => s \in H
<1> DEFINE T == {s \in CStates : IsSolvable(s) /\ (IsReachable(s) => s \in H)}
<1>1. ASSUME NEW s \in CStates, IsGoalState(s) PROVE s \in T
  BY <1>1, SolvableGoal
<1>2. ASSUME NEW s \in CStates, NEW o \in COperators, Applicable(o, s), Successor(o, s) \in T
      PROVE  s \in T
  <2>1. IsSolvable(Successor(o, s)) /\ IsSolvable(s)
    BY <1>2, SolvableStep
  <2>2. ASSUME IsReachable(s) PROVE s \in H
    <3>1. IsReachable(Successor(o, s))
      BY <1>2, <2>2, ReachableStep
    <3> QED
      BY <1>2, <2>1, <2>2, <3>1 DEF OnPlan
  <2> QED
    BY <2>1, <2>2
<1>3. SolvedBy(T)
  BY <1>1, <1>2 DEF SolvedBy
<1>4. T \in SUBSET CStates
  OBVIOUS
<1> SUFFICES ASSUME NEW s \in CStates, OnPlan(s) PROVE s \in H
  OBVIOUS
<1> HIDE DEF T
<1>5. s \in T
  BY <1>3, <1>4 DEF OnPlan, IsSolvable
<1> QED
  BY <1>5 DEF T, OnPlan

-----------------------------------------------------------------------------
(***************************************************************************)
(* Sums of estimates.                                                      *)
(***************************************************************************)

\* The recursion of Heuristic.
IsSum(f, fs, s) ==
  f = [n \in 0..Len(fs) |-> IF n = 0 THEN 0 ELSE f[n-1] + fs[n][s]]

TotalOf(fs, s) == (CHOOSE f : IsSum(f, fs, s))[Len(fs)]

AreSums(f, fs, s) ==
  /\ f \in [0..Len(fs) -> Nat] /\ f[0] = 0 /\ TotalOf(fs, s) = f[Len(fs)]
  /\ \A i \in 1..Len(fs) : f[i] = f[i-1] + fs[i][s]

LEMMA SumIs ==
  ASSUME NEW fs \in Seq([CStates -> Nat]), NEW s \in CStates
  PROVE  \E f : AreSums(f, fs, s)
<1> DEFINE N == Len(fs)
           step == [i \in 1..N |-> [x \in Nat |-> x + fs[i][s]]]
<1>1. N \in Nat /\ \A i \in 1..N : fs[i][s] \in Nat
  <2>1. \A i \in 1..N : fs[i] \in [CStates -> Nat]
    OBVIOUS
  <2> QED
    BY <2>1
<1>2. step \in [1..N -> [Nat -> Nat]]
  BY <1>1
<1>3. \A i \in 1..N : \A x \in Nat : step[i][x] = x + fs[i][s]
  OBVIOUS
<1> HIDE DEF step, N
<1>4. PICK f \in [0..N -> Nat] : f[0] = 0 /\ \A i \in 1..N : f[i] = step[i][f[i-1]]
  <2>1. Solutions(Nat, 0, N, step) # {}
    BY <1>1, <1>2, Recursion
  <2> QED
    BY <2>1 DEF Solutions
<1>5. \A i \in 0..N : i # 0 => i \in 1..N /\ i - 1 \in 0..N
  BY <1>1
<1>6. f = [n \in 0..N |-> IF n = 0 THEN 0 ELSE f[n-1] + fs[n][s]]
  <2>1. \A i \in 0..N : f[i] = IF i = 0 THEN 0 ELSE f[i-1] + fs[i][s]
    BY <1>3, <1>4, <1>5
  <2>2. f = [n \in 0..N |-> f[n]]
    BY <1>4
  <2> QED
    BY <2>1, <2>2
<1>7. IsSum(f, fs, s)
  BY <1>6 DEF IsSum, N
<1> DEFINE c == CHOOSE g : IsSum(g, fs, s)
<1>8. IsSum(c, fs, s) /\ TotalOf(fs, s) = c[N]
  BY <1>7 DEF TotalOf, N
<1> HIDE DEF c
<1>9. /\ DOMAIN c = 0..N /\ c = [n \in 0..N |-> c[n]]
      /\ \A i \in 0..N : c[i] = IF i = 0 THEN 0 ELSE c[i-1] + fs[i][s]
  BY <1>8 DEF IsSum, N
<1> DEFINE S == {n \in Nat : n <= N => c[n] \in Nat}
<1>10. 0 \in S
  <2>1. 0 \in 0..N
    BY <1>1
  <2>2. c[0] = 0
    BY <1>9, <2>1
  <2> QED
    BY <2>2
<1>11. ASSUME NEW n \in Nat, n \in S PROVE n + 1 \in S
  <2> SUFFICES ASSUME n + 1 <= N PROVE c[n+1] \in Nat
    OBVIOUS
  <2>1. PICK k \in 1..N : k = n + 1 /\ k - 1 = n /\ k \in 0..N /\ k # 0
    <3>1. n + 1 \in 1..N /\ (n + 1) - 1 = n /\ n + 1 \in 0..N /\ n + 1 # 0
      BY <1>1
    <3> QED
      BY <3>1
  <2>2. c[k] = c[k-1] + fs[k][s]
    BY <1>9, <2>1
  <2>3. c[n] \in Nat
    <3>1. n <= N
      BY <1>1
    <3> QED
      BY <1>11, <3>1
  <2>4. fs[k][s] \in Nat
    BY <1>1
  <2>5. c[k] = c[n] + fs[k][s]
    BY <2>1, <2>2
  <2>6. c[k] \in Nat
    BY <2>3, <2>4, <2>5
  <2> QED
    BY <2>1, <2>6
<1> HIDE DEF S
<1>12. \A i \in 0..N : c[i] \in Nat
  <2>1. Nat \subseteq S
    BY <1>10, <1>11, Induction
  <2> QED
    BY <2>1 DEF S
<1>13. c \in [0..N -> Nat] /\ c[0] = 0 /\ \A i \in 1..N : c[i] = c[i-1] + fs[i][s]
  <2>1. \A i \in 1..N : i \in 0..N /\ i # 0
    BY <1>1
  <2>2. 0 \in 0..N
    BY <1>1
  <2> QED
    BY <1>9, <1>12, <2>1, <2>2
<1> QED
  BY <1>8, <1>13 DEF AreSums, N

LEMMA TotalEmpty ==
  ASSUME NEW s \in CStates
  PROVE  TotalOf(<<>>, s) = 0
<1>1. <<>> \in Seq([CStates -> Nat]) /\ Len(<<>>) = 0
  OBVIOUS
<1>2. PICK f : AreSums(f, <<>>, s)
  BY <1>1, SumIs
<1> QED
  BY <1>1, <1>2 DEF AreSums

\* Another estimate is added.
LEMMA TotalAppend ==
  ASSUME NEW fs \in Seq([CStates -> Nat]), NEW h \in [CStates -> Nat], NEW s \in CStates
  PROVE  /\ TotalOf(fs, s) \in Nat /\ TotalOf(Append(fs, h), s) \in Nat
         /\ TotalOf(Append(fs, h), s) = TotalOf(fs, s) + h[s]
<1>1. PICK N \in Nat : Len(fs) = N
  OBVIOUS
<1> DEFINE X == [CStates -> Nat]
<1>2. PICK e : e = Append(fs, h)
  OBVIOUS
<1>3. e \in Seq(X) /\ Len(e) = N + 1 /\ e[N+1] = h /\ \A i \in 1..N : e[i] = fs[i]
  <2>1. fs \in Seq(X) /\ h \in X
    OBVIOUS
  <2> HIDE DEF X
  <2> QED
    BY <1>1, <1>2, <2>1, AppendProperties
<1>4. PICK f : AreSums(f, fs, s)
  BY SumIs
<1>5. PICK g : AreSums(g, e, s)
  BY <1>3, SumIs
<1>6. /\ f \in [0..N -> Nat] /\ f[0] = 0 /\ TotalOf(fs, s) = f[N]
      /\ \A i \in 1..N : f[i] = f[i-1] + fs[i][s]
  BY <1>1, <1>4 DEF AreSums
<1>7. /\ g \in [0..N+1 -> Nat] /\ g[0] = 0 /\ TotalOf(e, s) = g[N+1]
      /\ \A i \in 1..N+1 : g[i] = g[i-1] + e[i][s]
  BY <1>3, <1>5 DEF AreSums
<1> DEFINE S == {n \in Nat : n <= N => g[n] = f[n]}
<1>8. 0 \in S
  BY <1>6, <1>7
<1>9. ASSUME NEW n \in Nat, n \in S PROVE n + 1 \in S
  <2> SUFFICES ASSUME n + 1 <= N PROVE g[n+1] = f[n+1]
    OBVIOUS
  <2>1. PICK k \in 1..N : k = n + 1 /\ k - 1 = n /\ k \in 1..N+1
    <3>1. n + 1 \in 1..N /\ (n + 1) - 1 = n /\ n + 1 \in 1..N+1
      BY <1>1
    <3> QED
      BY <3>1
  <2>2. g[k] = g[k-1] + e[k][s] /\ f[k] = f[k-1] + fs[k][s] /\ e[k] = fs[k]
    BY <1>3, <1>6, <1>7, <2>1
  <2>3. g[n] = f[n]
    <3>1. n <= N
      BY <1>1
    <3> QED
      BY <1>9, <3>1
  <2>4. g[k] = f[k]
    BY <2>1, <2>2, <2>3
  <2> QED
    BY <2>1, <2>4
<1> HIDE DEF S
<1>10. g[N] = f[N]
  <2>1. N \in S
    BY <1>1, <1>8, <1>9, Induction
  <2>2. N <= N
    BY <1>1
  <2> QED
    BY <2>1, <2>2 DEF S
<1>11. g[N+1] = g[N] + h[s]
  <2>1. PICK k \in 1..N+1 : k = N + 1 /\ k - 1 = N
    <3>1. N + 1 \in 1..N+1 /\ (N + 1) - 1 = N
      BY <1>1
    <3> QED
      BY <3>1
  <2>2. g[k] = g[k-1] + e[k][s] /\ e[N+1] = h
    BY <1>3, <1>7
  <2> QED
    BY <2>1, <2>2
<1>12. f[N] \in Nat /\ g[N+1] \in Nat
  BY <1>6, <1>7
<1> QED
  BY <1>2, <1>6, <1>7, <1>10, <1>11, <1>12

-----------------------------------------------------------------------------
(***************************************************************************)
(* Sums that are bounded by the costs of all plans.                        *)
(***************************************************************************)

\* The sum of the estimates fs is 0 in goal states, and a step on a plan reduces it
\* by no more than what the estimates have taken of the cost of the operator.
SumsOK(fs, r) ==
  /\ fs \in Seq([CStates -> Nat])
  /\ \A s \in CStates : OnPlan(s) => ~IsDeadEnd(fs, s)
  /\ \A s \in CStates : OnPlan(s) /\ IsGoalState(s) => TotalOf(fs, s) = 0
  /\ \A s \in CStates : \A o \in COperators :
       OnPlan(s) /\ Applicable(o, s) /\ OnPlan(Successor(o, s)) =>
         /\ r[o] # Infinity
         /\ TotalOf(fs, s) + r[o] <= TotalOf(fs, Successor(o, s)) + CCost[o]

LEMMA TotalType ==
  ASSUME NEW fs \in Seq([CStates -> Nat]), NEW s \in CStates
  PROVE  TotalOf(fs, s) \in Nat
<1>1. PICK f : AreSums(f, fs, s)
  BY SumIs
<1>2. PICK n \in Nat : n = Len(fs)
  OBVIOUS
<1>3. f \in [0..n -> Nat] /\ TotalOf(fs, s) = f[n]
  BY <1>1, <1>2 DEF AreSums
<1>4. n \in 0..n
  BY <1>2
<1> QED
  BY <1>3, <1>4

LEMMA StatesFinite == Cardinality(CStates) \in Nat
<1> DEFINE U == UNION Range(CDomain)
           f == [s \in CStates |-> {<<v, s[v]>> : v \in CVars}]
           T == SUBSET (CVars \X U)
<1>1. DOMAIN CDomain = CVars /\ CDomain \in [CVars -> Range(CDomain)]
  BY CartesianTask DEF Range
<1>2. CDomain \in Surjection(CVars, Range(CDomain))
  <2>1. \A d \in Range(CDomain) : \E v \in CVars : CDomain[v] = d
    BY <1>1 DEF Range
  <2> QED
    BY <1>1, <2>1, Fun_IsSurj
<1>3. IsFiniteSet(Range(CDomain))
  BY <1>2, CartesianTask, FS_Surjection
<1>4. \A d \in Range(CDomain) : IsFiniteSet(d)
  BY <1>1, CartesianTask DEF Range
<1>5. IsFiniteSet(U)
  BY <1>3, <1>4, FS_UNION
<1> HIDE DEF U
<1>6. IsFiniteSet(CVars \X U)
  BY <1>5, CartesianTask, FS_Product
<1>7. IsFiniteSet(T)
  BY <1>6, FS_SUBSET
<1>8. \A s \in CStates : s = [v \in CVars |-> s[v]] /\ \A v \in CVars : s[v] \in U
  BY DEF CStates, U
<1>9. f \in [CStates -> T]
  BY <1>8
<1>10. ASSUME NEW a \in CStates, NEW b \in CStates, f[a] = f[b] PROVE a = b
  <2>1. ASSUME NEW v \in CVars PROVE a[v] = b[v]
    <3>1. <<v, a[v]>> \in f[b]
      BY <1>10
    <3>2. PICK w \in CVars : <<v, a[v]>> = <<w, b[w]>>
      BY <3>1
    <3> QED
      BY <3>2
  <2> QED
    BY <1>8, <2>1
<1> HIDE DEF f, T
<1>11. f \in Injection(CStates, T)
  BY <1>9, <1>10, Fun_IsInj
<1>12. IsFiniteSet(CStates)
  BY <1>7, <1>11, FS_Injection
<1> QED
  BY <1>12, FS_CardinalityType

LEMMA EdgeIs ==
  ASSUME NEW e \in ConcreteEdges
  PROVE  /\ e[1] \in CStates /\ e[2] \in COperators /\ Applicable(e[2], e[1])
         /\ e[3] = Successor(e[2], e[1])
<1>1. PICK x \in CStates \X COperators :
        Applicable(x[2], x[1]) /\ e = <<x[1], x[2], Successor(x[2], x[1])>>
  BY DEF ConcreteEdges
<1> QED
  BY <1>1

\* What a recursion over 0..n yields when its steps stay in X.
LEMMA RecursionIn ==
  ASSUME NEW X, NEW n \in Nat, NEW c, c[0] \in X,
         \A i \in 1..n : c[i-1] \in X => c[i] \in X
  PROVE  c[n] \in X
<1> DEFINE S == {i \in Nat : i <= n => c[i] \in X}
<1>1. 0 \in S
  OBVIOUS
<1>2. ASSUME NEW i \in Nat, i \in S PROVE i + 1 \in S
  <2> SUFFICES ASSUME i + 1 <= n PROVE c[i+1] \in X
    OBVIOUS
  <2>1. PICK k \in 1..n : k = i + 1 /\ k - 1 = i
    <3>1. i + 1 \in 1..n /\ (i + 1) - 1 = i
      OBVIOUS
    <3> QED
      BY <3>1
  <2>2. c[i] \in X
    <3>1. i <= n
      OBVIOUS
    <3> QED
      BY <1>2, <3>1
  <2>3. c[k] \in X
    BY <2>1, <2>2
  <2> QED
    BY <2>1, <2>3
<1> HIDE DEF S
<1>3. n \in S
  BY <1>1, <1>2, Induction
<1> QED
  BY <1>3 DEF S

LEMMA ReachableStatesIs == \A s \in ReachableStates : s \in CStates /\ IsReachable(s)
<1> DEFINE N == Cardinality(CStates)
           next(r) == r \union {e[3] : e \in {e \in ConcreteEdges : e[1] \in r}}
           IsReached(f) == f = [n \in 0..N |-> IF n = 0 THEN {CInit} ELSE next(f[n-1])]
           c == CHOOSE f : IsReached(f)
           X == SUBSET {s \in CStates : IsReachable(s)}
           step == [i \in 1..N |-> [r \in X |-> next(r)]]
<1>1. N \in Nat
  BY StatesFinite
<1>2. {CInit} \in X
  BY CartesianTask, ReachableInit
<1>3. ASSUME NEW r \in X PROVE next(r) \in X
  <2>1. ASSUME NEW e \in ConcreteEdges, e[1] \in r PROVE e[3] \in CStates /\ IsReachable(e[3])
    <3>1. e[1] \in CStates /\ IsReachable(e[1])
      BY <2>1
    <3>2. /\ e[2] \in COperators /\ Applicable(e[2], e[1]) /\ e[3] = Successor(e[2], e[1])
      BY EdgeIs
    <3> QED
      BY <3>1, <3>2, ReachableStep, SuccessorIsState
  <2> QED
    BY <2>1
<1>4. ReachableStates = c[N]
  BY DEF ReachableStates
<1> HIDE DEF N, next, X
<1>5. step \in [1..N -> [X -> X]]
  BY <1>3
<1>6. \A i \in 1..N : \A r \in X : step[i][r] = next(r)
  OBVIOUS
<1> HIDE DEF step
<1>7. PICK f \in [0..N -> X] : f[0] = {CInit} /\ \A i \in 1..N : f[i] = step[i][f[i-1]]
  <2>1. Solutions(X, {CInit}, N, step) # {}
    BY <1>1, <1>2, <1>5, Recursion
  <2> QED
    BY <2>1 DEF Solutions
<1>8. \A i \in 0..N : i # 0 => i \in 1..N /\ i - 1 \in 0..N
  BY <1>1
<1>9. IsReached(f)
  <2>1. \A i \in 0..N : f[i] = IF i = 0 THEN {CInit} ELSE next(f[i-1])
    BY <1>6, <1>7, <1>8
  <2>2. f = [n \in 0..N |-> f[n]]
    BY <1>7
  <2> QED
    BY <2>1, <2>2
<1>10. IsReached(c)
  BY <1>9
<1> HIDE DEF c
<1>11. c[0] = {CInit} /\ \A i \in 1..N : c[i] = next(c[i-1])
  <2>1. 0 \in 0..N /\ \A i \in 1..N : i \in 0..N /\ i # 0
    BY <1>1
  <2> QED
    BY <1>10, <2>1
<1>12. c[N] \in X
  <2>1. \A i \in 1..N : c[i-1] \in X => c[i] \in X
    BY <1>3, <1>11
  <2> QED
    BY <1>1, <1>2, <1>11, <2>1, RecursionIn
<1> QED
  BY <1>4, <1>12 DEF X

\* The sum is a lower bound for all plans from a state that is reached.
LEMMA PlanCostsBounded ==
  ASSUME NEW fs, NEW r \in [COperators -> Nat], SumsOK(fs, r)
  PROVE  \A p \in PlanCosts : /\ p[1] \in CStates /\ p[2] \in Nat /\ IsSolvable(p[1])
                              /\ IsReachable(p[1]) => TotalOf(fs, p[1]) <= p[2]
<1> DEFINE N == Cardinality(CStates)
           E == ConcreteEdges
           first == {s \in CStates : \A v \in DOMAIN CGoal : s[v] = CGoal[v]} \X {0}
           next(p) == p \union {<<x[1][1], x[2][2] + CCost[x[1][2]]>>
                                  : x \in {x \in E \X p : x[1][3] = x[2][1]}}
           IsPlans(f) == f = [n \in 0..N |-> IF n = 0 THEN first ELSE next(f[n-1])]
           c == CHOOSE f : IsPlans(f)
           B == {p \in CStates \X Nat :
                   IsSolvable(p[1]) /\ (IsReachable(p[1]) => TotalOf(fs, p[1]) <= p[2])}
           X == SUBSET B
           step == [i \in 1..N |-> [p \in X |-> next(p)]]
<1>1. N \in Nat
  BY StatesFinite
<1>2. fs \in Seq([CStates -> Nat])
  BY DEF SumsOK
<1>3. first \in X
  <2> SUFFICES ASSUME NEW s \in CStates, IsGoalState(s) PROVE <<s, 0>> \in B
    BY DEF IsGoalState
  <2>1. IsSolvable(s)
    BY SolvableGoal
  <2>2. IsReachable(s) => TotalOf(fs, s) = 0
    BY <2>1 DEF SumsOK, OnPlan
  <2> QED
    BY <2>1, <2>2
<1>4. ASSUME NEW p \in X PROVE next(p) \in X
  <2>1. ASSUME NEW e \in E, NEW q \in p, e[3] = q[1] PROVE <<e[1], q[2] + CCost[e[2]]>> \in B
    <3> DEFINE s == e[1]
               o == e[2]
               t == e[3]
    <3>1. s \in CStates /\ o \in COperators /\ Applicable(o, s) /\ t = Successor(o, s)
      BY EdgeIs
    <3>2. q[2] \in Nat /\ t \in CStates /\ IsSolvable(t) /\ (IsReachable(t) => TotalOf(fs, t) <= q[2])
      BY <2>1
    <3>3. CCost[o] \in Nat /\ r[o] \in Nat
      BY <3>1, SubtaskAssumption, DistanceAssumption
    <3>4. TotalOf(fs, s) \in Nat /\ TotalOf(fs, t) \in Nat
      BY <1>2, <3>1, <3>2, TotalType
    <3> HIDE DEF s, o, t
    <3>5. IsSolvable(s)
      BY <3>1, <3>2, SolvableStep
    <3>6. ASSUME IsReachable(s) PROVE TotalOf(fs, s) <= q[2] + CCost[o]
      <4>1. IsReachable(t)
        BY <3>1, <3>6, ReachableStep
      <4>2. TotalOf(fs, s) + r[o] <= TotalOf(fs, t) + CCost[o]
        BY <3>1, <3>2, <3>5, <3>6, <4>1 DEF SumsOK, OnPlan
      <4>3. TotalOf(fs, t) <= q[2]
        BY <3>2, <4>1
      <4> QED
        BY <3>2, <3>3, <3>4, <4>2, <4>3
    <3>7. q[2] + CCost[o] \in Nat
      BY <3>2, <3>3
    <3>8. <<s, q[2] + CCost[o]>> \in B
      BY <3>1, <3>5, <3>6, <3>7
    <3> QED
      BY <3>8 DEF s, o
  <2> HIDE DEF B, E
  <2> QED
    BY <2>1
<1>5. PlanCosts = c[N]
  BY DEF PlanCosts
<1> HIDE DEF N, next, X, first
<1>6. step \in [1..N -> [X -> X]]
  BY <1>4
<1>7. \A i \in 1..N : \A p \in X : step[i][p] = next(p)
  OBVIOUS
<1> HIDE DEF step
<1>8. PICK f \in [0..N -> X] : f[0] = first /\ \A i \in 1..N : f[i] = step[i][f[i-1]]
  <2>1. Solutions(X, first, N, step) # {}
    BY <1>1, <1>3, <1>6, Recursion
  <2> QED
    BY <2>1 DEF Solutions
<1>9. \A i \in 0..N : i # 0 => i \in 1..N /\ i - 1 \in 0..N
  BY <1>1
<1>10. IsPlans(f)
  <2>1. \A i \in 0..N : f[i] = IF i = 0 THEN first ELSE next(f[i-1])
    BY <1>7, <1>8, <1>9
  <2>2. f = [n \in 0..N |-> f[n]]
    BY <1>8
  <2> QED
    BY <2>1, <2>2
<1>11. IsPlans(c)
  BY <1>10
<1> HIDE DEF c
<1>12. c[0] = first /\ \A i \in 1..N : c[i] = next(c[i-1])
  <2>1. 0 \in 0..N /\ \A i \in 1..N : i \in 0..N /\ i # 0
    BY <1>1
  <2> QED
    BY <1>11, <2>1
<1>13. c[N] \in X
  <2>1. \A i \in 1..N : c[i-1] \in X => c[i] \in X
    BY <1>4, <1>12
  <2> QED
    BY <1>1, <1>3, <1>12, <2>1, RecursionIn
<1> QED
  BY <1>5, <1>13 DEF X

LEMMA SumsAdmissible ==
  ASSUME SumsOK(heuristic_functions, remaining_costs), remaining_costs \in [COperators -> Nat]
  PROVE  SumIsAdmissible
<1>1. ASSUME NEW p \in PlanCosts, p[1] \in ReachableStates PROVE Heuristic(p[1]) <= p[2]
  <2>1. IsReachable(p[1]) /\ p[1] \in CStates
    BY <1>1, ReachableStatesIs
  <2>2. IsSolvable(p[1]) /\ TotalOf(heuristic_functions, p[1]) <= p[2]
    BY <2>1, PlanCostsBounded
  <2>3. ~IsDeadEnd(heuristic_functions, p[1])
    BY <2>1, <2>2 DEF SumsOK, OnPlan
  <2>4. Heuristic(p[1]) = TotalOf(heuristic_functions, p[1])
    BY <2>3 DEF Heuristic, TotalOf, IsSum
  <2> QED
    BY <2>2, <2>4
<1>2. \A o \in COperators : remaining_costs[o] >= 0
  OBVIOUS
<1> QED
  BY <1>1, <1>2 DEF SumIsAdmissible

-----------------------------------------------------------------------------
(***************************************************************************)
(* No goal state is lost when the separation runs to its end.              *)
(***************************************************************************)

\* All values of the set may be true before the goal.
IsPossible(set, goal) == \A v \in CVars : \A d \in set[v] : <<v, d>> \in PossibleBefore(goal)

\* The variables of the state 0 that are done have no other values, and later no
\* state has that is not an abstract goal state.
SeparatesFully ==
  /\ phase = "separate" =>
       \A v \in CVars : (\A i \in 1..Len(todo) : todo[i] # v) =>
         \A d \in states[InitId].set[v] : <<v, d>> \in PossibleBefore(GoalFact)
  /\ phase = "split_goals" => ~IsSingle
  /\ phase \in TreePhases \union {"refined"} /\ IsSingle =>
       \A id \in DOMAIN states : id \notin goals => IsPossible(states[id].set, GoalFact)

\* The separation of the variables is not cut short by a limit.
CutShort == SplitOffGoal /\ todo # <<>>

LEMMA TodoAll ==
  ASSUME NEW vars, vars = [i \in 1..Cardinality(CVars) |-> i], NEW v \in CVars
  PROVE  \E i \in 1..Len(vars) : vars[i] = v
<1>1. PICK n \in Nat : n = Cardinality(CVars) /\ CVars = 1..n
  BY CartesianTask, FS_CardinalityType
<1>2. vars \in Seq(Nat) /\ Len(vars) = n
  BY <1>1
<1> QED
  BY <1>1, <1>2

LEMMA StartSeparatesFully ==
  ASSUME StartSubtask
  PROVE  SeparatesFully'
<1> DEFINE goal == Head(subtasks)
<1>1. /\ subgoal' = goal
      /\ IF Cardinality(DOMAIN goal) = 1
         THEN phase' = "separate" /\ todo' = [i \in 1..Cardinality(CVars) |-> i]
         ELSE phase' = "split_goals" /\ todo' = <<InitId>> \o Enumeration(DOMAIN goal)
  BY DEF StartSubtask, StartRefining, InitializeTrivialAbstraction
<1> HIDE DEF goal
<1>2. CASE Cardinality(DOMAIN goal) = 1
  <2>1. phase' = "separate" /\ \A v \in CVars : \E i \in 1..Len(todo') : todo'[i] = v
    BY <1>1, <1>2, TodoAll
  <2> QED
    BY <2>1 DEF SeparatesFully, TreePhases
<1>3. CASE Cardinality(DOMAIN goal) # 1
  <2>1. phase' = "split_goals" /\ ~IsSingle'
    BY <1>1, <1>3 DEF IsSingle
  <2> QED
    BY <2>1 DEF SeparatesFully, TreePhases
<1> QED
  BY <1>2, <1>3

LEMMA SeparateUnreachableFully ==
  ASSUME AbstractionOK, SeparatingFacts, SeparatesFully, SeparateUnreachable
  PROVE  SeparatesFully'
<1> DEFINE var == Head(todo)
           goal == GoalFact
           unreachable == {d \in CDomain[var] : <<var, d>> \notin PossibleBefore(goal)}
<1>1. /\ phase = "separate" /\ todo # <<>> /\ phase' = phase /\ todo' = Tail(todo)
      /\ IF unreachable = {} THEN UNCHANGED abstractionvars
         ELSE Refine(InitId, var, unreachable, goals)
  BY DEF SeparateUnreachable
<1>2. /\ subgoal \in Subgoals /\ IsSingle /\ todo \in Seq(Nat) /\ Distinct(todo)
      /\ \A i \in 1..Len(todo) : states[InitId].set[todo[i]] = CDomain[todo[i]]
  BY <1>1 DEF SeparatingFacts
<1>3. /\ var = todo[1] /\ 1 \in 1..Len(todo) /\ var \in CVars
      /\ Len(Tail(todo)) = Len(todo) - 1 /\ Len(todo) \in Nat
      /\ \A i \in 1..Len(todo) - 1 : Tail(todo)[i] = todo[i+1]
  BY <1>1, <1>2 DEF Distinct
<1>4. AbstractionOK'
  BY SeparateUnreachableKeeps
<1>5. /\ states[InitId].set[var] = CDomain[var] /\ InitId \in DOMAIN states
      /\ CInit[var] \in CDomain[var] /\ CInit[var] \notin unreachable
  BY <1>2, <1>3, InitIn, InitPossible
<1>6. subgoal' = subgoal /\ \A v \in CVars :
        states'[InitId].set[v] \subseteq
          IF v = var THEN CDomain[var] \ unreachable ELSE states[InitId].set[v]
  <2>1. CASE unreachable = {}
    <3>1. subgoal' = subgoal /\ states' = states
      BY <1>1, <2>1 DEF abstractionvars
    <3> QED
      BY <1>5, <2>1, <3>1
  <2>2. CASE unreachable # {}
    <3>1. MaySplit(InitId, var, unreachable)
      BY <1>3, <1>5, <2>2 DEF MaySplit
    <3>2. Refine(InitId, var, unreachable, goals)
      BY <1>1, <2>2
    <3> HIDE DEF unreachable, var
    <3>3. \E idw, idr : SplitInto(InitId, var, unreachable, goals, idw, idr)
      BY <3>1, <3>2, RefineKeeps
    <3>4. PICK idw, idr : SplitInto(InitId, var, unreachable, goals, idw, idr)
      BY <3>3, Zenon
    <3>5. idr = InitId
      BY <1>3, <1>4, <1>5, <3>4, InitStays
    <3>6. /\ \A x \in CVars : states'[idr].set[x] =
               IF x = var THEN states[InitId].set[var] \ unreachable ELSE states[InitId].set[x]
          /\ subgoal' = subgoal
      BY <3>4 DEF SplitInto
    <3> QED
      BY <1>5, <3>5, <3>6
  <2> QED
    BY <2>1, <2>2
<1>7. GoalFact' = goal
  BY <1>6 DEF GoalFact
<1>8. ASSUME NEW v \in CVars, \A i \in 1..Len(todo') : todo'[i] # v, NEW d \in states'[InitId].set[v]
      PROVE  <<v, d>> \in PossibleBefore(goal)
  <2> HIDE DEF goal
  <2>1. CASE v = var
    BY <1>6, <1>8, <2>1
  <2>2. CASE v # var
    <3>1. ASSUME NEW i \in 1..Len(todo) PROVE todo[i] # v
      <4>1. CASE i = 1
        BY <1>3, <2>2, <4>1
      <4>2. CASE i # 1
        <5>1. PICK k \in 1..Len(todo)-1 : i = k + 1
          <6>1. i - 1 \in 1..Len(todo)-1 /\ i = (i - 1) + 1
            BY <1>3, <4>2
          <6> QED
            BY <6>1
        <5>2. todo'[k] = todo[i] /\ k \in 1..Len(todo')
          BY <1>1, <1>3, <5>1
        <5> QED
          BY <1>8, <5>2
      <4> QED
        BY <4>1, <4>2
    <3>2. d \in states[InitId].set[v]
      BY <1>6, <1>8, <2>2
    <3> QED
      BY <1>1, <3>1, <3>2 DEF SeparatesFully, goal
  <2> QED
    BY <2>1, <2>2
<1> HIDE DEF goal
<1> QED
  BY <1>1, <1>7, <1>8 DEF SeparatesFully, TreePhases

LEMMA SplitOffGoalFully ==
  ASSUME AbstractionOK, SeparatingFacts, SeparatesFully, SplitOffGoal, todo = <<>>
  PROVE  SeparatesFully'
<1> DEFINE goal == GoalFact
<1>1. /\ phase = "separate" /\ Refine(InitId, goal[1], {goal[2]}, DOMAIN states)
      /\ phase' = "dijkstra"
  BY DEF SplitOffGoal
<1>2. /\ subgoal \in Subgoals /\ IsSingle /\ goal[2] \in states[InitId].set[goal[1]]
  BY <1>1 DEF SeparatingFacts
<1>3. /\ goal[1] \in CVars /\ DOMAIN subgoal = {goal[1]}
      /\ goal[2] = subgoal[goal[1]] /\ goal[2] # CInit[goal[1]]
  BY <1>2, GoalFactIs
<1>4. \A v \in CVars : \A d \in states[InitId].set[v] : <<v, d>> \in PossibleBefore(goal)
  <2>1. \A v : \A i \in 1..Len(todo) : todo[i] # v
    OBVIOUS
  <2> QED
    BY <1>1, <2>1 DEF SeparatesFully
<1>5. AbstractionOK'
  BY SplitOffGoalKeeps
<1> HIDE DEF goal
<1>6. MaySplit(InitId, goal[1], {goal[2]})
  <2>1. CInit[goal[1]] \in states[InitId].set[goal[1]] /\ InitId \in DOMAIN states
    BY <1>3, InitIn
  <2> QED
    BY <1>2, <1>3, <2>1 DEF MaySplit
<1>7. \E idw, idr : SplitInto(InitId, goal[1], {goal[2]}, DOMAIN states, idw, idr)
  BY <1>1, <1>6, RefineKeeps
<1>8. PICK idw, idr : SplitInto(InitId, goal[1], {goal[2]}, DOMAIN states, idw, idr)
  BY <1>7, Zenon
<1>9. idr = InitId /\ idw = NumStates
  <2>1. CInit[goal[1]] \notin {goal[2]}
    BY <1>3
  <2> QED
    BY <1>3, <1>5, <1>8, <2>1, InitStays
<1>10. /\ \A x \in CVars :
            /\ states'[idw].set[x] = IF x = goal[1] THEN {goal[2]} ELSE states[InitId].set[x]
            /\ states'[idr].set[x] = IF x = goal[1] THEN states[InitId].set[goal[1]] \ {goal[2]}
                                     ELSE states[InitId].set[x]
       /\ NumStates \in Nat /\ NumStates > 0 /\ DOMAIN states' = 0..NumStates
       /\ DOMAIN states = 0..NumStates-1
       /\ goals' = (DOMAIN states \ {InitId}) \union
            (IF InitId \in DOMAIN states
             THEN {w \in {idw, idr} : Includes(states'[w].set, subgoal)} ELSE {})
       /\ subgoal' = subgoal
  BY <1>8 DEF SplitInto
<1>11. GoalFact' = goal
  BY <1>10 DEF GoalFact, goal
<1>12. Includes(states'[idw].set, subgoal) /\ InitId \in DOMAIN states
  <2>1. subgoal[goal[1]] \in states'[idw].set[goal[1]]
    BY <1>3, <1>10
  <2> QED
    BY <1>3, <2>1, IncludesGoal, InitIn
<1>13. ASSUME NEW id \in DOMAIN states', id \notin goals' PROVE id = idr
  BY <1>9, <1>10, <1>12, <1>13
<1>14. \A v \in CVars : states'[idr].set[v] \subseteq states[InitId].set[v]
  BY <1>3, <1>10
<1>15. ASSUME NEW id \in DOMAIN states', id \notin goals' PROVE IsPossible(states'[id].set, goal)
  BY <1>4, <1>13, <1>14, <1>15 DEF IsPossible
<1> QED
  BY <1>1, <1>11, <1>15 DEF SeparatesFully, IsPossible

LEMMA SplitNextGoalFully ==
  ASSUME AbstractionOK, SeparatingGoals, SeparatesFully, SplitNextGoal
  PROVE  SeparatesFully'
<1>1. phase = "split_goals" /\ ~IsSingle
  BY DEF SplitNextGoal, SeparatesFully
<1>2. subgoal' = subgoal /\ phase' \in {"dijkstra", phase}
  BY SplitNextGoalKeeps
<1>3. ~IsSingle' /\ phase' # "separate"
  BY <1>1, <1>2 DEF IsSingle
<1> QED
  BY <1>3 DEF SeparatesFully

LEMMA RefineFlawFully ==
  ASSUME LoopOK, SeparatesFully, RefineFlaw
  PROVE  SeparatesFully'
<1>1. phase = "loop" /\ phase' = "reconnect"
  BY DEF RefineFlaw
<1>2. PICK v : v \notin goals /\ IsSplitUp(v) /\ goals' = goals /\ subgoal' = subgoal
  BY RefineFlawKeeps
<1>3. IsSingle' <=> IsSingle
  BY <1>2 DEF IsSingle
<1>4. GoalFact' = GoalFact
  BY <1>2 DEF GoalFact
<1>5. ASSUME IsSingle, NEW id \in DOMAIN states', id \notin goals'
      PROVE  IsPossible(states'[id].set, GoalFact)
  <2>1. /\ WholeOf(id, v) \in DOMAIN states
        /\ \A x \in CVars : states'[id].set[x] \subseteq states[WholeOf(id, v)].set[x]
    BY <1>2 DEF IsSplitUp
  <2>2. WholeOf(id, v) \notin goals
    BY <1>2, <1>5 DEF WholeOf
  <2>3. IsPossible(states[WholeOf(id, v)].set, GoalFact)
    BY <1>1, <1>5, <2>1, <2>2 DEF SeparatesFully, TreePhases
  <2> QED
    BY <2>1, <2>3 DEF IsPossible
<1> QED
  BY <1>1, <1>3, <1>4, <1>5 DEF SeparatesFully, IsPossible

\* The abstraction stays, and the phase is one behind the separation.
LEMMA FullyStays ==
  ASSUME SeparatesFully, UNCHANGED abstractionvars, phase \in TreePhases,
         phase' \in TreePhases \union {"refined"}
  PROVE  SeparatesFully'
<1>1. subgoal' = subgoal /\ states' = states /\ goals' = goals
  BY DEF abstractionvars
<1>2. GoalFact' = GoalFact /\ (IsSingle' <=> IsSingle)
  BY <1>1 DEF GoalFact, IsSingle
<1>3. phase' # "separate" /\ phase' # "split_goals"
  BY DEF TreePhases
<1> QED
  BY <1>1, <1>2, <1>3 DEF SeparatesFully, IsPossible

LEMMA FullyKeeps ==
  ASSUME SaturationInvariant, SeparatesFully, [SaturationStep]_<<cegarvars, saturationvars>>,
         ~CutShort
  PROVE  SeparatesFully'
<1>1. AbstractionOK /\ SeparatingFacts /\ SeparatingGoals
  BY DEF SaturationInvariant
<1>2. CASE StartSubtask
  BY <1>2, StartSeparatesFully
<1>3. CASE SeparateUnreachable
  BY <1>1, <1>3, SeparateUnreachableFully
<1>4. CASE SplitOffGoal
  BY <1>1, <1>4, SplitOffGoalFully DEF CutShort
<1>5. CASE SplitNextGoal
  BY <1>1, <1>5, SplitNextGoalFully
<1>6. CASE RefineFlaw
  <2>1. phase = "loop"
    BY <1>6 DEF RefineFlaw
  <2> QED
    BY <1>6, <2>1, InvariantLoopOK, RefineFlawFully
<1>7. CASE StopRefining
  <2>1. phase = "loop" /\ phase' = "refined" /\ UNCHANGED abstractionvars
    BY <1>7 DEF StopRefining
  <2> QED
    BY <2>1, FullyStays DEF TreePhases
<1>8. CASE Reconnect \/ EndReconnecting \/ SettleDirty \/ EndSettling \/ ExpandNearest \/ EndDijkstra
  <2>1. phase \in TreePhases /\ UNCHANGED abstractionvars /\ phase' \in TreePhases
    BY <1>8 DEF Reconnect, EndReconnecting, SettleDirty, EndSettling, ExpandNearest, EndDijkstra,
       TreePhases
  <2> QED
    BY <2>1, FullyStays
<1>9. CASE FinishSubtask
  <2>1. phase' \in {"ready", "next"}
    BY <1>9 DEF FinishSubtask
  <2> QED
    BY <2>1 DEF SeparatesFully, TreePhases
<1>10. CASE UNCHANGED <<cegarvars, saturationvars>>
  <2>1. /\ subgoal' = subgoal /\ states' = states /\ goals' = goals /\ phase' = phase /\ todo' = todo
    BY <1>10 DEF cegarvars, abstractionvars
  <2>2. GoalFact' = GoalFact /\ (IsSingle' <=> IsSingle)
    BY <2>1 DEF GoalFact, IsSingle
  <2> QED
    BY <2>1, <2>2 DEF SeparatesFully, IsPossible
<1> QED
  BY <1>2, <1>3, <1>4, <1>5, <1>6, <1>7, <1>8, <1>9, <1>10 DEF SaturationStep, CegarStep

\* Every goal state is in an abstract goal state.
LEMMA GoalStatesKept ==
  ASSUME SaturationInvariant, SeparatesFully, phase = "refined", NEW s \in CStates, IsGoalState(s)
  PROVE  AbstractStateOf(s) \in goals
<1> DEFINE id == AbstractStateOf(s)
<1>1. AbstractionOK /\ Separated(states, goals) /\ subgoal \in Subgoals
  BY DEF SaturationInvariant, CostsOK
<1>2. id \in DOMAIN states /\ Includes(states[id].set, s)
  BY <1>1, AbstractStateIs
<1>3. \A v \in CVars : s[v] \in states[id].set[v]
  BY <1>2, IncludesIs
<1> SUFFICES ASSUME id \notin goals PROVE FALSE
  OBVIOUS
<1> HIDE DEF id
<1>4. PICK v \in DOMAIN subgoal : subgoal[v] \notin states[id].set[v]
  BY <1>1, <1>2 DEF Separated
<1>5. v \in CVars /\ subgoal[v] # s[v]
  BY <1>1, <1>3, <1>4, SubgoalFacts
<1>6. CASE ~IsSingle
  <2>1. subgoal = CGoal
    BY <1>1, <1>6 DEF Subgoals, IsSingle
  <2> QED
    BY <1>4, <1>5, <2>1 DEF IsGoalState
<1>7. CASE IsSingle
  <2>1. /\ GoalFact = <<GoalFact[1], GoalFact[2]>> /\ DOMAIN subgoal = {GoalFact[1]}
        /\ GoalFact[2] = subgoal[GoalFact[1]]
    BY <1>1, <1>7, GoalFactIs
  <2>2. GoalFact \in Facts(subgoal)
    <3>1. <<GoalFact[1], subgoal[GoalFact[1]]>> \in Facts(subgoal)
      BY <2>1 DEF Facts
    <3> QED
      BY <2>1, <3>1
  <2>3. PICK fact \in Facts(CGoal) : fact = GoalFact \/ fact \notin PossibleBefore(GoalFact)
    BY <1>1, <1>7, <2>2 DEF Subgoals, IsSingle
  <2>4. PICK w \in DOMAIN CGoal : fact = <<w, CGoal[w]>>
    BY DEF Facts
  <2>5. w \in CVars /\ s[w] = CGoal[w]
    BY SubtaskAssumption DEF IsGoalState
  <2>6. fact # GoalFact
    BY <1>4, <1>5, <2>1, <2>4, <2>5
  <2>7. IsPossible(states[id].set, GoalFact)
    BY <1>2, <1>7 DEF SeparatesFully
  <2>8. <<w, s[w]>> \in PossibleBefore(GoalFact)
    BY <1>3, <2>5, <2>7 DEF IsPossible
  <2> QED
    BY <2>3, <2>4, <2>5, <2>6, <2>8
<1> QED
  BY <1>6, <1>7

-----------------------------------------------------------------------------
(***************************************************************************)
(* What an abstraction adds to the sum it takes from the costs.            *)
(***************************************************************************)

\* No sum reaches the value that stands for the infinite distance.
SumsFit ==
  phase = "refined" =>
    LET g == InitDistances
        h == GoalDistances
    IN /\ \A t \in transitions : operator_costs[t[2]] # Infinity =>
            /\ g[t[1]] # Infinity => g[t[1]] + operator_costs[t[2]] < Infinity
            /\ h[t[3]] # Infinity => h[t[3]] + operator_costs[t[2]] < Infinity
       /\ \A o \in COperators :
            remaining_costs[o] # Infinity /\ SaturatedCost(o, g, h) # -Infinity =>
              remaining_costs[o] - SaturatedCost(o, g, h) < Infinity

\* A concrete transition is an abstract transition or a loop.
LEMMA StepIsAbstract ==
  ASSUME AbstractionOK, NEW s \in CStates, NEW o \in COperators, Applicable(o, s),
         NEW a, a = AbstractStateOf(s), NEW b, b = AbstractStateOf(Successor(o, s))
  PROVE  /\ a \in DOMAIN states /\ b \in DOMAIN states
         /\ a # b => <<a, o, b>> \in transitions
         /\ a = b => <<a, o>> \in loops
<1>1. Successor(o, s) \in CStates
  BY SuccessorIsState
<1>2. a \in DOMAIN states /\ Includes(states[a].set, s)
  BY AbstractStateIs
<1>3. b \in DOMAIN states /\ Includes(states[b].set, Successor(o, s))
  BY <1>1, AbstractStateIs
<1>4. LeadsTo(states[a].set, o, states[b].set)
  BY <1>2, <1>3, ConcreteLeads
<1>5. TransitionsOK(states, transitions, loops)
  BY DEF AbstractionOK
<1> QED
  BY <1>2, <1>3, <1>4, <1>5 DEF TransitionsOK

LEMMA InitDistancesFixed ==
  ASSUME AbstractionOK, operator_costs \in [COperators -> Nat]
  PROVE  /\ \A id \in DOMAIN states : InitDistances[id] \in Nat /\ InitDistances[id] <= Infinity
         /\ InitDistances[InitId] = 0
         /\ \A t \in transitions : InitDistances[t[3]] <= AddCosts(InitDistances[t[1]], operator_costs[t[2]])
<1>1. PICK n : StatesOK(states, n)
  BY DEF AbstractionOK
<1>2. TransitionsIn
  BY OKTransitionsIn
<1>3. EdgesOK(transitions)
  BY <1>2 DEF EdgesOK, TransitionsIn
<1>4. InitDistances = DistancesFrom({InitId}, transitions)
  BY DEF InitDistances
<1>5. IsFixed(InitDistances, {InitId}, transitions)
  BY <1>1, <1>3, <1>4, DistancesFixed
<1>6. \A id \in DOMAIN states : InitDistances[id] \in 0..Infinity
  BY <1>5 DEF IsFixed, DistanceMaps
<1>7. InitId \in DOMAIN states
  BY InitIn
<1> QED
  BY <1>5, <1>6, <1>7, DistanceAssumption DEF IsFixed

\* What is known when a subtask ends.
AtEnd ==
  /\ SaturationInvariant /\ SeparatesFully /\ SumsFit /\ phase = "refined"
  /\ SumsOK(heuristic_functions, remaining_costs)

LEMMA AtEndFacts ==
  ASSUME AtEnd
  PROVE  /\ AbstractionOK /\ operator_costs = remaining_costs
         /\ remaining_costs \in [COperators -> Nat]
BY DEF AtEnd, SaturationInvariant, CostsOK

\* Every state on a plan is reached by the abstraction.
LEMMA ReachedOnPlans ==
  ASSUME AtEnd
  PROVE  \A s \in CStates : OnPlan(s) => InitDistances[AbstractStateOf(s)] # Infinity
<1> DEFINE g == InitDistances
           H == {s \in CStates : g[AbstractStateOf(s)] # Infinity}
<1>1. /\ AbstractionOK /\ operator_costs = remaining_costs
      /\ remaining_costs \in [COperators -> Nat] /\ SumsFit /\ phase = "refined"
  BY AtEndFacts DEF AtEnd
<1>2. /\ \A id \in DOMAIN states : g[id] \in Nat /\ g[id] <= Infinity
      /\ g[InitId] = 0
      /\ \A t \in transitions : g[t[3]] <= AddCosts(g[t[1]], operator_costs[t[2]])
  BY <1>1, InitDistancesFixed
<1>3. \A t \in transitions : operator_costs[t[2]] # Infinity /\ g[t[1]] # Infinity =>
        g[t[1]] + operator_costs[t[2]] < Infinity
  BY <1>1 DEF SumsFit
<1> HIDE DEF g
<1>4. CInit \in H
  <2>1. AbstractStateOf(CInit) = InitId
    BY <1>1, InitIn, AbstractStateIs, CartesianTask, IncludesIs
  <2> QED
    BY <1>2, <2>1, CartesianTask, DistanceAssumption
<1>5. ASSUME NEW s \in CStates, NEW o \in COperators, s \in H, OnPlan(s), Applicable(o, s),
             OnPlan(Successor(o, s))
      PROVE  Successor(o, s) \in H
  <2>1. PICK a : a = AbstractStateOf(s)
    OBVIOUS
  <2>2. PICK b : b = AbstractStateOf(Successor(o, s))
    OBVIOUS
  <2>3. /\ a \in DOMAIN states /\ b \in DOMAIN states /\ (a # b => <<a, o, b>> \in transitions)
    BY <1>1, <1>5, <2>1, <2>2, StepIsAbstract
  <2>4. remaining_costs[o] # Infinity /\ remaining_costs[o] \in Nat
    BY <1>1, <1>5 DEF AtEnd, SumsOK
  <2>5. g[a] # Infinity /\ g[a] \in Nat /\ g[b] \in Nat
    BY <1>2, <1>5, <2>1, <2>3
  <2>6. g[b] # Infinity
    <3>1. CASE a = b
      BY <2>5, <3>1
    <3>2. CASE a # b
      <4>1. PICK t \in transitions : t = <<a, o, b>>
        BY <2>3, <3>2
      <4>2. t[1] = a /\ t[2] = o /\ t[3] = b
        BY <4>1
      <4>3. g[b] <= AddCosts(g[a], remaining_costs[o])
        BY <1>1, <1>2, <4>2
      <4>4. g[a] + remaining_costs[o] < Infinity
        BY <1>1, <1>3, <2>4, <2>5, <4>2
      <4> QED
        BY <2>4, <2>5, <4>3, <4>4, DistanceAssumption DEF AddCosts
    <3> QED
      BY <3>1, <3>2
  <2>7. Successor(o, s) \in CStates
    BY SuccessorIsState
  <2> QED
    BY <2>2, <2>6, <2>7
<1> HIDE DEF H
<1>6. \A s \in CStates : \A o \in COperators :
        s \in H /\ OnPlan(s) /\ Applicable(o, s) /\ OnPlan(Successor(o, s))
          => Successor(o, s) \in H
  BY <1>5
<1>7. \A s \in CStates : OnPlan(s) => s \in H
  BY <1>4, <1>6, ForwardInduction
<1> QED
  BY <1>7 DEF H, g

\* Every state on a plan is solved by the abstraction.
LEMMA SolvedOnPlans ==
  ASSUME AtEnd
  PROVE  \A s \in CStates : OnPlan(s) => GoalDistances[AbstractStateOf(s)] # Infinity
<1> DEFINE h == GoalDistances
           H == {s \in CStates : h[AbstractStateOf(s)] # Infinity}
<1>1. /\ AbstractionOK /\ operator_costs = remaining_costs
      /\ remaining_costs \in [COperators -> Nat] /\ SumsFit /\ phase = "refined"
  BY AtEndFacts DEF AtEnd
<1>2. /\ \A id \in DOMAIN states : h[id] \in Nat /\ h[id] <= Infinity
      /\ \A id \in DOMAIN states : id \in goals => h[id] = 0
      /\ \A t \in transitions : h[t[1]] <= AddCosts(h[t[3]], operator_costs[t[2]])
  BY <1>1, GoalDistancesFixed
<1>3. \A t \in transitions : operator_costs[t[2]] # Infinity /\ h[t[3]] # Infinity =>
        h[t[3]] + operator_costs[t[2]] < Infinity
  BY <1>1 DEF SumsFit
<1> HIDE DEF h
<1>4. ASSUME NEW s \in CStates, IsGoalState(s) PROVE s \in H
  <2>1. AbstractStateOf(s) \in goals
    BY <1>1, <1>4, GoalStatesKept DEF AtEnd
  <2>2. AbstractStateOf(s) \in DOMAIN states
    BY <1>1, AbstractStateIs
  <2> QED
    BY <1>2, <2>1, <2>2, DistanceAssumption
<1>5. ASSUME NEW s \in CStates, NEW o \in COperators, OnPlan(s), Applicable(o, s),
             OnPlan(Successor(o, s)), Successor(o, s) \in H
      PROVE  s \in H
  <2>1. PICK a : a = AbstractStateOf(s)
    OBVIOUS
  <2>2. PICK b : b = AbstractStateOf(Successor(o, s))
    OBVIOUS
  <2>3. /\ a \in DOMAIN states /\ b \in DOMAIN states /\ (a # b => <<a, o, b>> \in transitions)
    BY <1>1, <1>5, <2>1, <2>2, StepIsAbstract
  <2>4. remaining_costs[o] # Infinity /\ remaining_costs[o] \in Nat
    BY <1>1, <1>5 DEF AtEnd, SumsOK
  <2>5. h[b] # Infinity /\ h[a] \in Nat /\ h[b] \in Nat
    BY <1>2, <1>5, <2>2, <2>3
  <2>6. h[a] # Infinity
    <3>1. CASE a = b
      BY <2>5, <3>1
    <3>2. CASE a # b
      <4>1. PICK t \in transitions : t = <<a, o, b>>
        BY <2>3, <3>2
      <4>2. t[1] = a /\ t[2] = o /\ t[3] = b
        BY <4>1
      <4>3. h[a] <= AddCosts(h[b], remaining_costs[o])
        BY <1>1, <1>2, <4>2
      <4>4. h[b] + remaining_costs[o] < Infinity
        BY <1>1, <1>3, <2>4, <2>5, <4>2
      <4> QED
        BY <2>4, <2>5, <4>3, <4>4, DistanceAssumption DEF AddCosts
    <3> QED
      BY <3>1, <3>2
  <2> QED
    BY <2>1, <2>6
<1> HIDE DEF H
<1>6. \A s \in CStates : \A o \in COperators :
        OnPlan(s) /\ Applicable(o, s) /\ OnPlan(Successor(o, s)) /\ Successor(o, s) \in H
          => s \in H
  BY <1>5
<1>7. \A s \in CStates : IsGoalState(s) => s \in H
  BY <1>4
<1>8. \A s \in CStates : OnPlan(s) => s \in H
  BY <1>6, <1>7, BackwardInduction
<1> QED
  BY <1>8 DEF H, h

\* On a plan, the abstraction takes as much of the cost of an operator as the
\* distance falls, and leaves the rest.
LEMMA StepSaturated ==
  ASSUME AtEnd, NEW s \in CStates, NEW o \in COperators, Applicable(o, s),
         OnPlan(s), OnPlan(Successor(o, s)),
         NEW x, x = GoalDistances[AbstractStateOf(s)],
         NEW y, y = GoalDistances[AbstractStateOf(Successor(o, s))]
  PROVE  /\ ReducedCost(o, InitDistances, GoalDistances) # Infinity
         /\ x + ReducedCost(o, InitDistances, GoalDistances) <= y + remaining_costs[o]
<1> DEFINE g == InitDistances
           h == GoalDistances
           lowest == IF ~use_general_costs \/ HasLoop(o, g, h) THEN 0 ELSE -Infinity
           S == {lowest} \union Needs(o, g, h)
           r == remaining_costs[o]
           sat == SaturatedCost(o, g, h)
<1>1. /\ AbstractionOK /\ operator_costs = remaining_costs
      /\ remaining_costs \in [COperators -> Nat] /\ SumsFit /\ phase = "refined"
      /\ TransitionsIn /\ Infinity \in Nat /\ Infinity > 0
  BY AtEndFacts, OKTransitionsIn, DistanceAssumption DEF AtEnd
<1>2. \A id \in DOMAIN states : h[id] \in Nat /\ h[id] <= Infinity
  BY <1>1, GoalDistancesFixed
<1>3. r \in Nat /\ r # Infinity
  BY <1>1 DEF AtEnd, SumsOK
<1>4. PICK a : a = AbstractStateOf(s)
  OBVIOUS
<1>5. PICK b : b = AbstractStateOf(Successor(o, s))
  OBVIOUS
<1>6. /\ a \in DOMAIN states /\ b \in DOMAIN states
      /\ a # b => <<a, o, b>> \in transitions
      /\ a = b => <<a, o>> \in loops
  BY <1>1, <1>4, <1>5, StepIsAbstract
<1>7. Successor(o, s) \in CStates
  BY SuccessorIsState
<1>8. g[a] # Infinity /\ h[a] # Infinity /\ h[b] # Infinity
  BY <1>4, <1>5, <1>7, ReachedOnPlans, SolvedOnPlans
<1>9. x = h[a] /\ y = h[b] /\ x \in Nat /\ y \in Nat /\ x < Infinity /\ y < Infinity
  <2>1. x = h[a] /\ y = h[b]
    BY <1>4, <1>5
  <2> HIDE DEF h
  <2> QED
    BY <1>1, <1>2, <1>6, <1>8, <2>1
<1>10. sat # -Infinity => r - sat < Infinity
  BY <1>1, <1>3 DEF SumsFit
<1>11. ReducedCost(o, g, h) = IF r = Infinity \/ sat = -Infinity THEN Infinity ELSE r - sat
  BY DEF ReducedCost
<1>12. sat = Max(S)
  BY DEF SaturatedCost
<1> HIDE DEF g, h
<1>13. ASSUME NEW z \in Needs(o, g, h) PROVE z \in Int /\ z <= Infinity
  <2>1. PICK t \in transitions : z = h[t[1]] - h[t[3]]
    BY DEF Needs
  <2>2. /\ h[t[1]] \in Nat /\ h[t[3]] \in Nat /\ h[t[1]] <= Infinity
    BY <1>1, <1>2 DEF TransitionsIn
  <2> QED
    BY <1>1, <2>1, <2>2
<1>14. lowest \in Int /\ lowest <= Infinity
  BY <1>1
<1>15. sat \in Int /\ \A z \in S : sat >= z
  <2> HIDE DEF lowest, sat
  <2>1. S \subseteq Int /\ S # {} /\ \A z \in S : z <= Infinity
    BY <1>13, <1>14
  <2>2. Max(S) \in S /\ \A z \in S : Max(S) >= z
    BY <1>1, <2>1, MaxBounded
  <2> QED
    BY <1>12, <2>1, <2>2
<1>16. sat >= x - y
  <2>1. CASE a # b
    <3>1. PICK t \in transitions : t = <<a, o, b>>
      BY <1>6, <2>1
    <3>2. t[1] = a /\ t[2] = o /\ t[3] = b
      BY <3>1
    <3>3. h[t[1]] - h[t[3]] \in Needs(o, g, h)
      BY <1>8, <3>2 DEF Needs, Matters
    <3>4. x - y \in S
      BY <1>9, <3>2, <3>3
    <3> HIDE DEF S, sat
    <3> QED
      BY <1>15, <3>4
  <2>2. CASE a = b
    <3>1. HasLoop(o, g, h)
      BY <1>6, <1>8, <2>2 DEF HasLoop, Matters
    <3>2. 0 \in S
      BY <3>1
    <3>3. x - y = 0
      BY <1>9, <2>2
    <3> HIDE DEF S, sat
    <3> QED
      BY <1>15, <3>2, <3>3
  <2> QED
    BY <2>1, <2>2
<1> HIDE DEF sat, r, S
<1>17. sat # -Infinity
  BY <1>1, <1>9, <1>15, <1>16
<1>18. ReducedCost(o, g, h) = r - sat
  BY <1>3, <1>11, <1>17
<1>19. r - sat < Infinity /\ x + (r - sat) <= y + r
  BY <1>3, <1>9, <1>10, <1>15, <1>16, <1>17
<1>20. ReducedCost(o, g, h) # Infinity /\ x + ReducedCost(o, g, h) <= y + r
  BY <1>1, <1>3, <1>15, <1>18, <1>19
<1> QED
  BY <1>20 DEF g, h, r

\* A finished abstraction keeps the sums below the costs of all plans.
LEMMA FinishKeepsSums ==
  ASSUME AtEnd, FinishSubtask
  PROVE  SumsOK(heuristic_functions, remaining_costs)'
<1> DEFINE h == GoalDistances
           fs == heuristic_functions
           new == [s \in CStates |-> h[AbstractStateOf(s)]]
           all == Append(fs, new)
           r == remaining_costs
           left == [o \in COperators |-> ReducedCost(o, InitDistances, GoalDistances)]
<1>1. heuristic_functions' = all /\ remaining_costs' = left
  BY DEF FinishSubtask
<1>2. /\ AbstractionOK /\ operator_costs = remaining_costs
      /\ r \in [COperators -> Nat] /\ phase = "refined" /\ SumsOK(fs, r)
      /\ \A o \in COperators : CCost[o] \in Nat
  BY AtEndFacts, SubtaskAssumption, DistanceAssumption DEF AtEnd
<1>3. /\ \A id \in DOMAIN states : h[id] \in Nat
      /\ \A id \in DOMAIN states : id \in goals => h[id] = 0
  BY <1>2, GoalDistancesFixed
<1>4. \A s \in CStates : AbstractStateOf(s) \in DOMAIN states
  BY <1>2, AbstractStateIs
<1>5. new \in [CStates -> Nat] /\ \A s \in CStates : new[s] = h[AbstractStateOf(s)]
  BY <1>3, <1>4
<1>6. \A s \in CStates : OnPlan(s) => new[s] # Infinity
  BY SolvedOnPlans, <1>5
<1>7. \A o \in COperators : left[o] = ReducedCost(o, InitDistances, GoalDistances)
  OBVIOUS
<1>8. \A o \in COperators : left[o] \in Nat
  BY <1>2, <1>7, ReducedCostIn
<1>9. fs \in Seq([CStates -> Nat])
  BY <1>2 DEF SumsOK
<1>10. ASSUME NEW s \in CStates, NEW o \in COperators, OnPlan(s), Applicable(o, s),
              OnPlan(Successor(o, s))
       PROVE  left[o] # Infinity /\ new[s] + left[o] <= new[Successor(o, s)] + r[o]
  <2>1. Successor(o, s) \in CStates
    BY SuccessorIsState
  <2> QED
    BY <1>5, <1>7, <1>10, <2>1, StepSaturated
<1>11. \A s \in CStates : IsGoalState(s) => new[s] = 0
  BY <1>2, <1>3, <1>4, <1>5, GoalStatesKept DEF AtEnd
<1> HIDE DEF new, left, h, fs, r
<1>12. \A s \in CStates : /\ TotalOf(fs, s) \in Nat /\ TotalOf(all, s) = TotalOf(fs, s) + new[s]
  BY <1>5, <1>9, TotalAppend
<1>13. PICK n \in Nat : n = Len(fs)
  BY <1>9
<1>14. /\ all \in Seq([CStates -> Nat]) /\ Len(all) = n + 1 /\ all[n+1] = new
       /\ \A i \in 1..n : all[i] = fs[i]
  <2> DEFINE X == [CStates -> Nat]
  <2>1. fs \in Seq(X) /\ new \in X
    BY <1>5, <1>9
  <2> HIDE DEF X
  <2>2. /\ all \in Seq(X) /\ Len(all) = n + 1 /\ all[n+1] = new
        /\ \A i \in 1..n : all[i] = fs[i]
    BY <1>13, <2>1, AppendProperties
  <2> QED
    BY <2>2 DEF X
<1> HIDE DEF all
<1>15. ASSUME NEW s \in CStates, OnPlan(s) PROVE ~IsDeadEnd(all, s)
  <2>1. ~IsDeadEnd(fs, s)
    BY <1>2, <1>15 DEF SumsOK
  <2>2. DOMAIN all = 1..n+1 /\ DOMAIN fs = 1..n
    BY <1>9, <1>13, <1>14
  <2>3. ASSUME NEW i \in 1..n+1 PROVE all[i][s] # Infinity
    <3>1. CASE i = n + 1
      BY <1>6, <1>14, <1>15, <3>1
    <3>2. CASE i # n + 1
      <4>1. i \in 1..n
        BY <3>2
      <4>2. fs[i][s] # Infinity
        BY <2>1, <2>2, <4>1 DEF IsDeadEnd
      <4> QED
        BY <1>14, <4>1, <4>2
    <3> QED
      BY <3>1, <3>2
  <2> QED
    BY <2>2, <2>3 DEF IsDeadEnd
<1>16. ASSUME NEW s \in CStates, OnPlan(s), IsGoalState(s) PROVE TotalOf(all, s) = 0
  <2>1. TotalOf(fs, s) = 0
    BY <1>2, <1>16 DEF SumsOK
  <2> QED
    BY <1>11, <1>12, <1>16, <2>1
<1>17. ASSUME NEW s \in CStates, NEW o \in COperators, OnPlan(s), Applicable(o, s),
              OnPlan(Successor(o, s))
       PROVE  /\ left[o] # Infinity
              /\ TotalOf(all, s) + left[o] <= TotalOf(all, Successor(o, s)) + CCost[o]
  <2>1. PICK t \in CStates : t = Successor(o, s)
    BY SuccessorIsState
  <2>2. TotalOf(fs, s) + r[o] <= TotalOf(fs, t) + CCost[o]
    BY <1>2, <1>17, <2>1 DEF SumsOK
  <2>3. left[o] # Infinity /\ new[s] + left[o] <= new[t] + r[o]
    BY <1>10, <1>17, <2>1
  <2>4. /\ TotalOf(all, s) = TotalOf(fs, s) + new[s] /\ TotalOf(all, t) = TotalOf(fs, t) + new[t]
        /\ TotalOf(fs, s) \in Nat /\ TotalOf(fs, t) \in Nat /\ new[s] \in Nat /\ new[t] \in Nat
        /\ r[o] \in Nat /\ left[o] \in Nat /\ CCost[o] \in Nat
    BY <1>2, <1>5, <1>8, <1>12
  <2>5. (TotalOf(fs, s) + new[s]) + left[o] <= (TotalOf(fs, t) + new[t]) + CCost[o]
    BY <2>2, <2>3, <2>4
  <2> QED
    BY <2>1, <2>3, <2>4, <2>5
<1>18. SumsOK(all, left)
  BY <1>14, <1>15, <1>16, <1>17 DEF SumsOK
<1> QED
  BY <1>1, <1>18

\* What is inductive of the sums, beside SaturationInvariant.
SumInvariant == SeparatesFully /\ SumsOK(heuristic_functions, remaining_costs)

LEMMA SumInitOK == SaturationInit => SumInvariant
<1> SUFFICES ASSUME SaturationInit PROVE SumInvariant
  OBVIOUS
<1>1. /\ phase = "next" /\ heuristic_functions = <<>> /\ remaining_costs = CCost
  BY DEF SaturationInit
<1>2. SeparatesFully
  BY <1>1 DEF SeparatesFully, TreePhases
<1>3. /\ \A s \in CStates : TotalOf(<<>>, s) = 0
      /\ \A s : ~IsDeadEnd(<<>>, s)
      /\ <<>> \in Seq([CStates -> Nat])
  BY TotalEmpty DEF IsDeadEnd
<1>4. ASSUME NEW s \in CStates, NEW o \in COperators
      PROVE  CCost[o] # Infinity /\ TotalOf(<<>>, s) + CCost[o] <= TotalOf(<<>>, Successor(o, s)) + CCost[o]
  <2>1. CCost[o] \in 0..Infinity-1
    BY SubtaskAssumption
  <2>2. TotalOf(<<>>, s) = 0 /\ TotalOf(<<>>, Successor(o, s)) = 0
    BY <1>3, SuccessorIsState
  <2> QED
    BY <2>1, <2>2, DistanceAssumption
<1>5. SumsOK(<<>>, CCost)
  BY <1>3, <1>4 DEF SumsOK
<1> QED
  BY <1>1, <1>2, <1>5 DEF SumInvariant

LEMMA SumKeeps ==
  /\ SaturationInvariant /\ SumInvariant /\ SumsFit
  /\ [SaturationStep]_<<cegarvars, saturationvars>> /\ [~CutShort]_<<cegarvars, saturationvars>>
  => SumInvariant'
<1> SUFFICES ASSUME SaturationInvariant, SumInvariant, SumsFit,
                    [SaturationStep]_<<cegarvars, saturationvars>>,
                    [~CutShort]_<<cegarvars, saturationvars>>
             PROVE  SumInvariant'
  OBVIOUS
<1>1. SeparatesFully /\ SumsOK(heuristic_functions, remaining_costs)
  BY DEF SumInvariant
<1>2. SeparatesFully'
  <2>1. CASE ~CutShort
    BY <1>1, <2>1, FullyKeeps
  <2>2. CASE UNCHANGED <<cegarvars, saturationvars>>
    <3>1. /\ subgoal' = subgoal /\ states' = states /\ goals' = goals /\ phase' = phase /\ todo' = todo
      BY <2>2 DEF cegarvars, abstractionvars
    <3>2. GoalFact' = GoalFact /\ (IsSingle' <=> IsSingle)
      BY <3>1 DEF GoalFact, IsSingle
    <3> QED
      BY <1>1, <3>1, <3>2 DEF SeparatesFully, IsPossible
  <2> QED
    BY <2>1, <2>2
<1>3. CASE FinishSubtask
  <2>1. phase = "refined"
    BY <1>3 DEF FinishSubtask
  <2>2. AtEnd
    BY <1>1, <2>1 DEF AtEnd
  <2>3. SumsOK(heuristic_functions, remaining_costs)'
    BY <1>3, <2>2, FinishKeepsSums
  <2> QED
    BY <1>2, <2>3 DEF SumInvariant
<1>4. CASE UNCHANGED <<heuristic_functions, remaining_costs>>
  BY <1>1, <1>2, <1>4 DEF SumInvariant
<1>5. FinishSubtask \/ UNCHANGED <<heuristic_functions, remaining_costs>>
  BY DEF SaturationStep, StartSubtask, saturationvars
<1> QED
  BY <1>3, <1>4, <1>5

\* For every task, however the costs are divided among the abstractions: when no limit
\* cuts the separation short and no sum overflows, the sum of the distances of a state
\* that can be reached is never above the cost of a plan for it.
THEOREM AlwaysAdmissible ==
  /\ SaturationSpec /\ [][~CutShort]_<<cegarvars, saturationvars>> /\ []SumsFit
  => []SumIsAdmissible
<1>1. SaturationInvariant /\ SumInvariant => SumIsAdmissible
  BY SumsAdmissible DEF SaturationInvariant, CostsOK, SumInvariant
<1> QED
  BY <1>1, SumInitOK, SumKeeps, SaturationInvariantHolds, PTL DEF SaturationSpec

=============================================================================
