-------------------------- MODULE MerkleTreeProofs --------------------------
(***************************************************************************)
(* Theorems about the Merkle trees: reference counts and hashes are right  *)
(* whatever trees share which nodes, for any trees, keys and values.       *)
(***************************************************************************)
EXTENDS MerkleTree, Induction, FiniteSetTheorems

-----------------------------------------------------------------------------
(* Nodes and edges *)

Side2 == {Left, Right}
Bits == Seq(Side2)

\* What is known of a node whatever it holds; a hash can be anything.
NodeOK(n) ==
    /\ n \in [leaf : BOOLEAN, dirty : BOOLEAN, hashes : {n.hashes}, count : Nat, prefix : Bits,
              bucket : {n.bucket}, child : [1 .. 2 -> Item \cup {Null}]]
    /\ n.bucket = [k \in DOMAIN n.bucket |-> n.bucket[k]] /\ DOMAIN n.bucket \subseteq Key

PoolOK(P) ==
    /\ P \in [used : SUBSET Item, item : {P.item}, refcnt : [Item -> Int], pairs : Int]
    /\ P.item = [i \in Item |-> P.item[i]]
    /\ \A i \in Item : NodeOK(P.item[i])

\* The edges from a node to another.
Own(P, j, i) ==
    IF j \in P.used
    THEN (IF P.item[j].child[1] = i THEN 1 ELSE 0) + (IF P.item[j].child[2] = i THEN 1 ELSE 0)
    ELSE 0

Weight(P, n) == IF n \in P.used THEN Cardinality(Keys(P.item[n].bucket)) ELSE 0

\* Two pools that differ in one node only.
ButOne(P, Q, i) == \A j \in Item \ {i} : (j \in P.used <=> j \in Q.used) /\ P.item[j] = Q.item[j]

LEMMA ItemFinite == IsFiniteSet(Item) /\ Cardinality(Item) = MaxItem
  BY TreeAssumption, FS_Interval DEF Item

LEMMA BucketFinite ==
    ASSUME NEW K \in SUBSET Key
    PROVE  IsFiniteSet(K) /\ Cardinality(K) \in Nat
  BY TreeAssumption, FS_Subset, FS_CardinalityType

EdgeSet(P, i) == {e \in P.used \X {1, 2} : P.item[e[1]].child[e[2]] = i}

LEMMA EdgesFinite ==
    ASSUME NEW P, P.used \subseteq Item, NEW i
    PROVE  IsFiniteSet(EdgeSet(P, i)) /\ Edges(P, i) = Cardinality(EdgeSet(P, i)) /\ Edges(P, i) \in Nat
  <1>1. IsFiniteSet(P.used) /\ IsFiniteSet({1, 2})
    <2>1. IsFiniteSet(1 .. 2)
      <3>1. 1 \in Int /\ 2 \in Int
        OBVIOUS
      <3> QED
        BY <3>1, FS_Interval
    <2>2. {1, 2} = 1 .. 2
      OBVIOUS
    <2> QED
      BY <2>1, <2>2, ItemFinite, FS_Subset
  <1>2. IsFiniteSet(P.used \X {1, 2})
    BY <1>1, FS_Product
  <1>3. IsFiniteSet(EdgeSet(P, i)) /\ Cardinality(EdgeSet(P, i)) \in Nat
    BY <1>2, FS_Subset, FS_CardinalityType DEF EdgeSet
  <1> QED
    BY <1>3 DEF Edges, EdgeSet

\* A node that changes exchanges its edges.
LEMMA EdgesOfOne ==
    ASSUME NEW P, NEW Q, P.used \subseteq Item, Q.used \subseteq Item, NEW j \in Item, ButOne(P, Q, j), NEW i
    PROVE  Edges(Q, i) - Own(Q, j, i) = Edges(P, i) - Own(P, j, i)
  <1> DEFINE Rest(R) == {e \in R.used \X {1, 2} : R.item[e[1]].child[e[2]] = i /\ e[1] # j}
             Mine(R) == {e \in {j} \X {1, 2} : j \in R.used /\ R.item[e[1]].child[e[2]] = i}
  <1>1. ASSUME NEW R, R.used \subseteq Item
        PROVE  Cardinality(EdgeSet(R, i)) = Cardinality(Rest(R)) + Own(R, j, i) /\ Cardinality(Rest(R)) \in Nat
               /\ Own(R, j, i) \in Nat
    <2>1. IsFiniteSet(EdgeSet(R, i))
      BY <1>1, EdgesFinite
    <2>2. IsFiniteSet(Rest(R)) /\ Cardinality(Rest(R)) \in Nat
      BY <2>1, FS_Subset, FS_CardinalityType DEF EdgeSet
    <2>3. CASE j \notin R.used
      <3>1. EdgeSet(R, i) = Rest(R)
        BY <2>3 DEF EdgeSet
      <3> QED
        BY <2>2, <2>3, <3>1 DEF Own
    <2>4. CASE j \in R.used
      <3> DEFINE a == <<j, 1>>
                 b == <<j, 2>>
      <3>1. a # b /\ a \notin Rest(R) /\ b \notin Rest(R)
        OBVIOUS
      <3>2. EdgeSet(R, i) = (Rest(R) \cup (IF R.item[j].child[1] = i THEN {a} ELSE {}))
                                      \cup (IF R.item[j].child[2] = i THEN {b} ELSE {})
        BY <2>4 DEF EdgeSet
      <3>3. Cardinality(Rest(R) \cup {a}) = Cardinality(Rest(R)) + 1 /\ IsFiniteSet(Rest(R) \cup {a})
            /\ Cardinality(Rest(R) \cup {b}) = Cardinality(Rest(R)) + 1
        BY <2>2, <3>1, FS_AddElement
      <3>4. Cardinality((Rest(R) \cup {a}) \cup {b}) = Cardinality(Rest(R) \cup {a}) + 1
        <4>1. b \notin Rest(R) \cup {a}
          BY <3>1
        <4> QED
          BY <3>3, <4>1, FS_AddElement
      <3> HIDE DEF Rest, a, b
      <3>5. CASE R.item[j].child[1] = i /\ R.item[j].child[2] = i
        BY <2>2, <2>4, <3>2, <3>3, <3>4, <3>5 DEF Own
      <3>6. CASE R.item[j].child[1] = i /\ R.item[j].child[2] # i
        <4>1. EdgeSet(R, i) = Rest(R) \cup {a}
          BY <3>2, <3>6
        <4> QED
          BY <2>2, <2>4, <4>1, <3>3, <3>6 DEF Own
      <3>7. CASE R.item[j].child[1] # i /\ R.item[j].child[2] = i
        <4>1. EdgeSet(R, i) = Rest(R) \cup {b}
          BY <3>2, <3>7
        <4> QED
          BY <2>2, <2>4, <4>1, <3>3, <3>7 DEF Own
      <3>8. CASE R.item[j].child[1] # i /\ R.item[j].child[2] # i
        <4>1. EdgeSet(R, i) = Rest(R)
          BY <3>2, <3>8
        <4> QED
          BY <2>2, <2>4, <4>1, <3>8 DEF Own
      <3> QED
        BY <3>5, <3>6, <3>7, <3>8
    <2> QED
      BY <2>3, <2>4
  <1>2. Rest(P) = Rest(Q)
    BY DEF ButOne
  <1>3. Edges(P, i) = Cardinality(EdgeSet(P, i)) /\ Edges(Q, i) = Cardinality(EdgeSet(Q, i))
    BY EdgesFinite
  <1> HIDE DEF Rest
  <1>4. Edges(P, i) = Cardinality(Rest(P)) + Own(P, j, i) /\ Edges(Q, i) = Cardinality(Rest(P)) + Own(Q, j, i)
        /\ Cardinality(Rest(P)) \in Nat /\ Own(P, j, i) \in Nat /\ Own(Q, j, i) \in Nat
    BY <1>1, <1>2, <1>3
  <1> QED
    BY <1>4

\* An edge is counted.
LEMMA EdgeCounts ==
    ASSUME NEW P, P.used \subseteq Item, NEW j \in P.used, NEW s \in {1, 2}, NEW i
    PROVE  P.item[j].child[s] = i => Edges(P, i) > 0
  <1> SUFFICES ASSUME P.item[j].child[s] = i PROVE Edges(P, i) > 0
    OBVIOUS
  <1>1. <<j, s>> \in EdgeSet(P, i)
    BY DEF EdgeSet
  <1>2. IsFiniteSet(EdgeSet(P, i)) /\ Edges(P, i) = Cardinality(EdgeSet(P, i)) /\ Edges(P, i) \in Nat
    BY EdgesFinite
  <1> QED
    BY <1>1, <1>2, FS_EmptySet

LEMMA NoEdges ==
    ASSUME NEW P, P.used \subseteq Item, NEW i, Edges(P, i) = 0, NEW j \in P.used, NEW s \in {1, 2}
    PROVE  P.item[j].child[s] # i
  BY EdgeCounts

-----------------------------------------------------------------------------
(* Pairs held *)

WeightSums(P, f) == f = [n \in 0 .. MaxItem |-> IF n = 0 THEN 0 ELSE f[n - 1] + Weight(P, n)]

LEMMA WeightType ==
    ASSUME NEW P, PoolOK(P), NEW n \in Item
    PROVE  Weight(P, n) \in Nat
  BY BucketFinite DEF PoolOK, NodeOK, Weight, Keys

LEMMA HeldSums ==
    ASSUME NEW P, PoolOK(P)
    PROVE  \E f \in [0 .. MaxItem -> Nat] : WeightSums(P, f) /\ Held(P) = f[MaxItem]
  <1> DEFINE step == [n \in Nat |-> [x \in Nat |-> x + (IF n \in Item THEN Weight(P, n) ELSE 0)]]
  <1>1. step \in [Nat -> [Nat -> Nat]]
    BY WeightType
  <1>2. MaxItem \in Nat
    BY TreeAssumption
  <1>3. PICK f \in [0 .. MaxItem -> Nat] : Iterates(f, 0, step, MaxItem)
    BY <1>1, <1>2, Recursion
  <1>4. f = [n \in 0 .. MaxItem |-> f[n]]
    BY <1>3
  <1>5. ASSUME NEW n \in 0 .. MaxItem PROVE f[n] = IF n = 0 THEN 0 ELSE f[n - 1] + Weight(P, n)
    <2>1. CASE n = 0
      BY <1>3, <2>1 DEF Iterates
    <2>2. CASE n # 0
      <3>1. n \in Item /\ n \in Nat /\ n \in 1 .. MaxItem /\ n - 1 \in 0 .. MaxItem
        BY <1>2, <2>2 DEF Item
      <3>2. f[n] = step[n][f[n - 1]] /\ f[n - 1] \in Nat
        BY <1>3, <3>1 DEF Iterates
      <3> QED
        BY <2>2, <3>1, <3>2
    <2> QED
      BY <2>1, <2>2
  <1>6. WeightSums(P, f)
    BY <1>4, <1>5 DEF WeightSums
  <1> HIDE DEF step
  <1> DEFINE held == CHOOSE g : WeightSums(P, g)
  <1>7. WeightSums(P, held)
    BY <1>6
  <1>8. Held(P) = held[MaxItem]
    BY Zenon DEF Held, held, WeightSums, Weight
  <1> HIDE DEF held
  <1>9. ASSUME NEW n \in Nat, n \in {m \in Nat : m <= MaxItem => held[m] = f[m]}
        PROVE  n + 1 \in {m \in Nat : m <= MaxItem => held[m] = f[m]}
    BY <1>2, <1>6, <1>7, <1>9 DEF WeightSums
  <1>10. 0 \in {m \in Nat : m <= MaxItem => held[m] = f[m]}
    BY <1>2, <1>6, <1>7 DEF WeightSums
  <1>11. MaxItem \in {m \in Nat : m <= MaxItem => held[m] = f[m]}
    BY <1>2, <1>9, <1>10, AllNaturals
  <1> QED
    BY <1>2, <1>3, <1>6, <1>8, <1>11

\* A node that changes exchanges its pairs.
LEMMA HeldOfOne ==
    ASSUME NEW P, NEW Q, PoolOK(P), PoolOK(Q), NEW j \in Item, ButOne(P, Q, j)
    PROVE  /\ Held(Q) - Weight(Q, j) = Held(P) - Weight(P, j)
           /\ Held(P) \in Nat /\ Held(Q) \in Nat
  <1>1. PICK f \in [0 .. MaxItem -> Nat] : WeightSums(P, f) /\ Held(P) = f[MaxItem]
    BY HeldSums
  <1>2. PICK g \in [0 .. MaxItem -> Nat] : WeightSums(Q, g) /\ Held(Q) = g[MaxItem]
    BY HeldSums
  <1>3. MaxItem \in Nat /\ j \in 1 .. MaxItem
    BY TreeAssumption DEF Item
  <1>4. \A n \in Item \ {j} : Weight(P, n) = Weight(Q, n)
    BY DEF ButOne, Weight
  <1>5. Weight(P, j) \in Nat /\ Weight(Q, j) \in Nat /\ \A n \in Item : Weight(P, n) \in Nat /\ Weight(Q, n) \in Nat
    BY WeightType
  <1> DEFINE A == {n \in Nat : n <= MaxItem => g[n] = f[n] + (IF n < j THEN 0 ELSE Weight(Q, j) - Weight(P, j))}
  <1>6. 0 \in A
    BY <1>1, <1>2, <1>3 DEF WeightSums
  <1>7. ASSUME NEW n \in Nat, n \in A PROVE n + 1 \in A
    <2> SUFFICES ASSUME n + 1 <= MaxItem
                 PROVE  g[n + 1] = f[n + 1] + (IF n + 1 < j THEN 0 ELSE Weight(Q, j) - Weight(P, j))
      OBVIOUS
    <2>1. n \in 0 .. MaxItem /\ n + 1 \in 0 .. MaxItem /\ n + 1 \in Item
      BY <1>3 DEF Item
    <2>2. g[n + 1] = g[n] + Weight(Q, n + 1) /\ f[n + 1] = f[n] + Weight(P, n + 1)
      BY <1>1, <1>2, <2>1 DEF WeightSums
    <2>3. g[n] = f[n] + (IF n < j THEN 0 ELSE Weight(Q, j) - Weight(P, j))
      BY <1>7, <2>1
    <2>4. f[n] \in Nat /\ g[n] \in Nat
      BY <2>1
    <2>5. CASE n + 1 = j
      BY <1>5, <2>2, <2>3, <2>4, <2>5
    <2>6. CASE n + 1 # j
      <3>1. Weight(Q, n + 1) = Weight(P, n + 1) /\ Weight(P, n + 1) \in Nat
        BY <1>4, <1>5, <2>1, <2>6
      <3>2. n < j <=> n + 1 < j
        BY <1>3, <2>6
      <3> QED
        BY <1>5, <2>2, <2>3, <2>4, <3>1, <3>2
    <2> QED
      BY <2>5, <2>6
  <1> HIDE DEF A
  <1>8. MaxItem \in A
    BY <1>3, <1>6, <1>7, AllNaturals
  <1> QED
    BY <1>1, <1>2, <1>3, <1>5, <1>8 DEF A

-----------------------------------------------------------------------------
(* What every operation on the pool keeps: references are counted, those   *)
(* of ext from outside the pool; nodes without references are new.         *)

LinkOK(P, j, s) ==
    LET c == P.item[j].child[s]
    IN  c # Null => c \in P.used /\ P.item[c].prefix = Append(P.item[j].prefix, s - 1)

Linked(P) == \A j \in P.used, s \in {1, 2} : LinkOK(P, j, s)
Counted(P, ext) == \A i \in Item : P.refcnt[i] = Edges(P, i) + ext[i]
Owned(P, new) == new \subseteq P.used /\ \A i \in Item : P.refcnt[i] = 0 <=> i \notin P.used \/ i \in new
Weighed(P) == P.pairs = Held(P)

Core(P, ext, new) ==
    PoolOK(P) /\ ext \in [Item -> Nat] /\ Linked(P) /\ Counted(P, ext) /\ Owned(P, new) /\ Weighed(P)

LEMMA LinkKept ==
    ASSUME NEW P, NEW Q, NEW i, NEW s, LinkOK(P, i, s), NEW c, c = P.item[i].child[s],
           Q.item[i].child[s] = c, Q.item[i].prefix = P.item[i].prefix,
           c # Null /\ c \in P.used => c \in Q.used /\ Q.item[c].prefix = P.item[c].prefix
    PROVE  LinkOK(Q, i, s) /\ (c # Null => c \in P.used)
  BY DEF LinkOK

LEMMA CoreOfOne ==
    ASSUME NEW P, NEW Q, NEW ext, NEW new, NEW ext2 \in [Item -> Nat], NEW new2,
           Core(P, ext, new), PoolOK(Q), NEW j \in Item, ButOne(P, Q, j),
           Linked(Q), Owned(Q, new2),
           \A i \in Item : Q.refcnt[i] - Own(Q, j, i) - ext2[i] = P.refcnt[i] - Own(P, j, i) - ext[i],
           Q.pairs - Weight(Q, j) = P.pairs - Weight(P, j)
    PROVE  Core(Q, ext2, new2)
  <1>1. P.used \subseteq Item /\ Q.used \subseteq Item /\ P.refcnt \in [Item -> Int] /\ Q.refcnt \in [Item -> Int]
        /\ P.pairs \in Int /\ Q.pairs \in Int /\ ext \in [Item -> Nat] /\ PoolOK(P)
    BY DEF Core, PoolOK
  <1>2. Counted(Q, ext2)
    <2> SUFFICES ASSUME NEW i \in Item PROVE Q.refcnt[i] = Edges(Q, i) + ext2[i]
      BY DEF Counted
    <2>1. Edges(Q, i) - Own(Q, j, i) = Edges(P, i) - Own(P, j, i)
      BY <1>1, EdgesOfOne
    <2>2. Edges(P, i) \in Nat /\ Edges(Q, i) \in Nat
      BY <1>1, EdgesFinite
    <2>3. Own(P, j, i) \in Nat /\ Own(Q, j, i) \in Nat
      BY DEF Own
    <2>4. P.refcnt[i] = Edges(P, i) + ext[i]
      BY DEF Core, Counted
    <2>5. Q.refcnt[i] - Own(Q, j, i) - ext2[i] = P.refcnt[i] - Own(P, j, i) - ext[i]
      OBVIOUS
    <2>6. P.refcnt[i] \in Int /\ Q.refcnt[i] \in Int /\ ext[i] \in Nat /\ ext2[i] \in Nat
      BY <1>1
    <2>7. PICK a \in Int, b \in Int, c \in Int, d \in Int :
              a = Edges(P, i) /\ b = Edges(Q, i) /\ c = Own(P, j, i) /\ d = Own(Q, j, i)
      BY <2>2, <2>3
    <2>8. PICK e \in Int, f \in Int, g \in Int, h \in Int :
              e = P.refcnt[i] /\ f = Q.refcnt[i] /\ g = ext[i] /\ h = ext2[i]
      BY <2>6
    <2> QED
      BY <2>1, <2>4, <2>5, <2>7, <2>8
  <1>3. Weighed(Q)
    <2>1. Held(Q) - Weight(Q, j) = Held(P) - Weight(P, j) /\ Held(P) \in Nat /\ Held(Q) \in Nat
      BY <1>1, HeldOfOne
    <2>2. Weight(P, j) \in Nat /\ Weight(Q, j) \in Nat
      BY <1>1, WeightType
    <2>3. P.pairs = Held(P)
      BY DEF Core, Weighed
    <2> QED
      BY <1>1, <2>1, <2>2, <2>3 DEF Weighed
  <1> QED
    BY <1>2, <1>3 DEF Core

\* The same, to cite.
OneChanges(P, Q, j, ext, ext2, new2) ==
    /\ PoolOK(Q) /\ j \in Item /\ ButOne(P, Q, j) /\ Linked(Q) /\ Owned(Q, new2) /\ ext2 \in [Item -> Nat]
    /\ \A i \in Item : Q.refcnt[i] - Own(Q, j, i) - ext2[i] = P.refcnt[i] - Own(P, j, i) - ext[i]
    /\ Q.pairs - Weight(Q, j) = P.pairs - Weight(P, j)

LEMMA CoreByOne ==
    ASSUME NEW P, NEW Q, NEW ext, NEW new, NEW ext2, NEW new2, NEW j,
           Core(P, ext, new), OneChanges(P, Q, j, ext, ext2, new2)
    PROVE  Core(Q, ext2, new2)
  <1>1. PoolOK(Q) /\ j \in Item /\ ButOne(P, Q, j) /\ Linked(Q) /\ Owned(Q, new2) /\ ext2 \in [Item -> Nat]
    BY DEF OneChanges
  <1>2. \A i \in Item : Q.refcnt[i] - Own(Q, j, i) - ext2[i] = P.refcnt[i] - Own(P, j, i) - ext[i]
    BY DEF OneChanges
  <1>3. Q.pairs - Weight(Q, j) = P.pairs - Weight(P, j)
    BY DEF OneChanges
  <1> QED
    BY <1>1, <1>2, <1>3, CoreOfOne

LEMMA CoreFacts ==
    ASSUME NEW P, NEW ext, NEW new, Core(P, ext, new)
    PROVE  /\ P.used \subseteq Item /\ P.refcnt \in [Item -> Nat] /\ P.pairs \in Int
           /\ \A i \in Item : NodeOK(P.item[i])
           /\ \A i \in Item : Edges(P, i) \in Nat /\ P.refcnt[i] = Edges(P, i) + ext[i]
           /\ \A i \in Item : ext[i] \in Nat /\ (ext[i] > 0 => i \in P.used /\ i \notin new)
           /\ \A i \in Item : i \in P.used /\ i \notin new <=> P.refcnt[i] > 0
           /\ \A j \in P.used, s \in {1, 2} : LinkOK(P, j, s)
           /\ \A j \in P.used, s \in {1, 2} : P.item[j].child[s] # Null => P.refcnt[P.item[j].child[s]] > 0
  <1>1. P.used \subseteq Item /\ P.refcnt \in [Item -> Int] /\ P.pairs \in Int /\ \A i \in Item : NodeOK(P.item[i])
    BY DEF Core, PoolOK
  <1>2. \A i \in Item : Edges(P, i) \in Nat
    BY <1>1, EdgesFinite
  <1>3. \A i \in Item : P.refcnt[i] = Edges(P, i) + ext[i] /\ ext[i] \in Nat
    BY DEF Core, Counted
  <1>4. \A i \in Item : P.refcnt[i] \in Nat
    BY <1>2, <1>3
  <1>5. P.refcnt \in [Item -> Nat]
    BY <1>1, <1>4
  <1>6. \A i \in Item : i \in P.used /\ i \notin new <=> P.refcnt[i] > 0
    BY <1>4 DEF Core, Owned
  <1>7. \A i \in Item : ext[i] > 0 => i \in P.used /\ i \notin new
    BY <1>2, <1>3, <1>6
  <1>8. \A j \in P.used, s \in {1, 2} : LinkOK(P, j, s)
    BY DEF Core, Linked
  <1>9. ASSUME NEW j \in P.used, NEW s \in {1, 2}, P.item[j].child[s] # Null
        PROVE  P.refcnt[P.item[j].child[s]] > 0
    <2>1. P.item[j].child[s] \in Item
      BY <1>1, <1>8, <1>9 DEF LinkOK
    <2>2. Edges(P, P.item[j].child[s]) > 0
      BY <1>1, EdgeCounts
    <2> QED
      BY <1>2, <1>3, <2>1, <2>2
  <1> QED
    BY <1>1, <1>2, <1>3, <1>5, <1>6, <1>7, <1>8, <1>9

-----------------------------------------------------------------------------
(* New nodes *)

LEMMA NewItemOK == NodeOK(NewItem)
  <1>1. <<Null, Null>> \in [1 .. 2 -> Item \cup {Null}] /\ <<>> \in Bits
    BY DEF Bits
  <1>2. <<>> = [k \in DOMAIN <<>> |-> <<>>[k]] /\ DOMAIN <<>> \subseteq Key
    OBVIOUS
  <1> QED
    BY <1>1, <1>2 DEF NodeOK, NewItem

Places(P) == Cardinality(Item \ P.used)

LEMMA PlacesType ==
    ASSUME NEW P
    PROVE  Places(P) \in Nat
  BY ItemFinite, FS_Subset, FS_CardinalityType DEF Places

LEMMA FreeItemFree ==
    ASSUME NEW P, P.used \subseteq Item, Places(P) > 0
    PROVE  FreeItem(P) \in Item \ P.used
  <1>1. IsFiniteSet(Item \ P.used)
    BY ItemFinite, FS_Subset
  <1>2. Item \ P.used # {}
    BY FS_EmptySet DEF Places
  <1>3. Item \ P.used \in SUBSET Nat
    BY DEF Item
  <1>4. \E i \in Item \ P.used : \A j \in Item \ P.used : i <= j
    BY <1>2, <1>3, LeastNatural
  <1> QED
    BY <1>4 DEF FreeItem

LEMMA AllocRight ==
    ASSUME NEW P, NEW ext, NEW new, Core(P, ext, new), Places(P) > 0
    PROVE  LET i == FreeItem(P)
               Q == AllocLeaf(P)
           IN  /\ i \in Item \ P.used /\ Core(Q, ext, new \cup {i})
               /\ Q.used = P.used \cup {i} /\ Q.item = [P.item EXCEPT ![i] = NewItem]
               /\ Q.refcnt = P.refcnt /\ Q.pairs = P.pairs
               /\ Places(P) \in Nat /\ Places(Q) = Places(P) - 1
  <1> DEFINE i == FreeItem(P)
             Q == AllocLeaf(P)
  <1>1. PoolOK(P) /\ P.used \subseteq Item
    BY DEF Core, PoolOK
  <1>2. i \in Item \ P.used
    BY <1>1, FreeItemFree
  <1>3. P.refcnt[i] = 0
    BY <1>2 DEF Core, Owned
  <1>4. /\ Q.used = P.used \cup {i} /\ Q.item = [P.item EXCEPT ![i] = NewItem]
        /\ Q.refcnt = [P.refcnt EXCEPT ![i] = 0] /\ Q.pairs = P.pairs
        /\ Q \in [used : {Q.used}, item : {Q.item}, refcnt : {Q.refcnt}, pairs : {Q.pairs}]
    BY <1>1 DEF PoolOK, AllocLeaf
  <1> HIDE DEF Q, i
  <1>5. Q.refcnt = P.refcnt
    BY <1>1, <1>2, <1>3, <1>4 DEF PoolOK
  <1>6. PoolOK(Q)
    BY <1>1, <1>2, <1>4, NewItemOK DEF PoolOK
  <1>7. ButOne(P, Q, i)
    BY <1>1, <1>4 DEF ButOne, PoolOK
  <1>8. Q.item[i] = NewItem /\ Q.used = P.used \cup {i}
    BY <1>1, <1>2, <1>4 DEF PoolOK
  <1>9. Linked(Q)
    <2> SUFFICES ASSUME NEW j \in Q.used, NEW s \in {1, 2} PROVE LinkOK(Q, j, s)
      BY DEF Linked
    <2>1. CASE j = i
      BY <1>8, <2>1 DEF LinkOK, NewItem
    <2>2. CASE j # i
      <3>1. j \in P.used /\ LinkOK(P, j, s) /\ Q.item[j] = P.item[j]
        BY <1>1, <1>7, <1>8, <2>2 DEF Core, Linked, ButOne
      <3>2. P.item[j].child[s] # Null => P.item[j].child[s] \in Item \ {i}
        BY <1>1, <1>2, <3>1 DEF LinkOK
      <3> QED
        BY <1>7, <1>8, <3>1, <3>2 DEF LinkOK, ButOne
    <2> QED
      BY <2>1, <2>2
  <1>10. Owned(Q, new \cup {i})
    BY <1>2, <1>3, <1>5, <1>8 DEF Core, Owned
  <1>11. \A x \in Item : Own(P, i, x) = 0 /\ Own(Q, i, x) = 0
    BY <1>2, <1>8, TreeAssumption DEF Own, NewItem
  <1>12. Weight(P, i) = 0 /\ Weight(Q, i) = 0
    <2>1. Keys(<<>>) = {}
      BY DEF Keys
    <2>2. Q.item[i].bucket = <<>>
      BY <1>8 DEF NewItem
    <2> QED
      BY <1>2, <1>8, <2>1, <2>2, FS_EmptySet DEF Weight
  <1>13. Core(Q, ext, new \cup {i})
    <2>1. ext \in [Item -> Nat] /\ P.pairs = Q.pairs
      BY <1>4 DEF Core
    <2> QED
      BY <1>2, <1>5, <1>6, <1>7, <1>9, <1>10, <1>11, <1>12, <2>1, CoreOfOne
  <1>14. Places(P) \in Nat /\ Places(Q) = Places(P) - 1
    <2>1. IsFiniteSet(Item \ P.used) /\ Item \ Q.used = (Item \ P.used) \ {i}
      BY <1>8, ItemFinite, FS_Subset
    <2> QED
      <3>1. PICK S : S = Item \ P.used
        BY <2>1
      <3>2. IsFiniteSet(S) /\ i \in S
        BY <1>2, <2>1, <3>1
      <3>3. Cardinality(S) \in Nat /\ Cardinality(S \ {i}) = Cardinality(S) - 1
        BY <3>2, FS_RemoveElement, FS_CardinalityType
      <3> QED
        BY <2>1, <3>1, <3>3 DEF Places
  <1> QED
    BY <1>2, <1>4, <1>5, <1>13, <1>14 DEF i, Q

-----------------------------------------------------------------------------
(* References given up *)

\* P is a pool, whatever its nodes are.
PoolShaped(P) ==
    P \in [used : {P.used}, item : {P.item}, refcnt : [Item -> Int], pairs : Int]

One(c, x) == IF c = x THEN 1 ELSE 0

LEMMA ForgetRight ==
    ASSUME NEW P, PoolShaped(P), NEW c \in Item \cup {Null}
    PROVE  LET Q == Forget(P, c)
           IN  /\ PoolShaped(Q) /\ Q.used = P.used /\ Q.item = P.item /\ Q.pairs = P.pairs
               /\ \A x \in Item : Q.refcnt[x] = P.refcnt[x] - One(c, x)
  <1>1. Null \notin Item
    BY TreeAssumption
  <1>2. CASE c = Null
    <2>1. Forget(P, c) = P
      BY <1>2 DEF Forget
    <2>2. \A x \in Item : P.refcnt[x] - One(c, x) = P.refcnt[x]
      BY <1>1, <1>2 DEF One, PoolShaped
    <2> QED
      BY <2>1, <2>2
  <1>3. CASE c # Null
    <2>1. c \in Item /\ Forget(P, c) = [P EXCEPT !.refcnt[c] = @ - 1]
      BY <1>3 DEF Forget
    <2> QED
      BY <2>1 DEF One, PoolShaped
  <1> QED
    BY <1>2, <1>3

LEMMA IncrRight ==
    ASSUME NEW P, PoolShaped(P), NEW c \in Item \cup {Null}
    PROVE  LET Q == IncrRef(P, c)
           IN  /\ PoolShaped(Q) /\ Q.used = P.used /\ Q.item = P.item /\ Q.pairs = P.pairs
               /\ \A x \in Item : Q.refcnt[x] = P.refcnt[x] + One(c, x)
  <1>1. Null \notin Item
    BY TreeAssumption
  <1>2. CASE c = Null
    <2>1. IncrRef(P, c) = P
      BY <1>2 DEF IncrRef
    <2>2. \A x \in Item : P.refcnt[x] + One(c, x) = P.refcnt[x]
      BY <1>1, <1>2 DEF One, PoolShaped
    <2> QED
      BY <2>1, <2>2
  <1>3. CASE c # Null
    <2>1. c \in Item /\ IncrRef(P, c) = [P EXCEPT !.refcnt[c] = @ + 1]
      BY <1>3 DEF IncrRef
    <2> QED
      BY <2>1 DEF One, PoolShaped
  <1> QED
    BY <1>2, <1>3

LEMMA PoolIsShaped ==
    ASSUME NEW P
    PROVE  /\ PoolOK(P) => PoolShaped(P)
           /\ PoolShaped(P) /\ P.used \subseteq Item /\ P.item = [i \in Item |-> P.item[i]]
              /\ (\A i \in Item : NodeOK(P.item[i])) => PoolOK(P)
  BY DEF PoolOK, PoolShaped

LEMMA ChildType ==
    ASSUME NEW n, NodeOK(n)
    PROVE  /\ n.child \in [1 .. 2 -> Item \cup {Null}] /\ n.child[1] \in Item \cup {Null}
           /\ n.child[2] \in Item \cup {Null}
           /\ n.prefix \in Bits /\ Len(n.prefix) \in Nat
  BY DEF NodeOK, Bits

LEMMA ReleaseRight ==
    ASSUME NEW P, NEW ext, NEW new, Core(P, ext, new), NEW i \in new
    PROVE  LET Q == Release(P, i)
               child == P.item[i].child
               D == Unreferenced(Q, {child[1], child[2]})
           IN  /\ Core(Q, ext, (new \ {i}) \cup D) /\ D \cap new = {} /\ D \subseteq Item
               /\ Q.used = P.used \ {i} /\ i \in P.used /\ \A x \in Item \ {i} : Q.item[x] = P.item[x]
               /\ \A x \in D : Len(P.item[x].prefix) >= Len(P.item[i].prefix)
  <1> DEFINE node == P.item[i]
             gone == [P EXCEPT !.used = @ \ {i}, !.item[i] = NewItem,
                               !.pairs = @ - Cardinality(Keys(node.bucket))]
             Q1 == Forget(gone, node.child[1])
             Q == Forget(Q1, node.child[2])
             D == Unreferenced(Q, {node.child[1], node.child[2]})
  <1>1. PoolOK(P) /\ P.used \subseteq Item /\ i \in P.used /\ i \in Item /\ P.refcnt[i] = 0
    BY CoreFacts DEF Core, PoolOK, Owned
  <1>2. NodeOK(node) /\ Weight(P, i) = Cardinality(Keys(node.bucket)) /\ Weight(P, i) \in Nat
    BY <1>1, WeightType DEF PoolOK, Weight
  <1>3. /\ PoolShaped(gone) /\ gone.used = P.used \ {i} /\ gone.item = [P.item EXCEPT ![i] = NewItem]
        /\ gone.refcnt = P.refcnt /\ gone.pairs = P.pairs - Weight(P, i)
    <2>1. PICK w \in Nat : w = Cardinality(Keys(node.bucket)) /\ w = Weight(P, i)
      BY <1>2
    <2>2. gone = [P EXCEPT !.used = @ \ {i}, !.item[i] = NewItem, !.pairs = @ - w]
      BY <2>1
    <2> HIDE DEF gone
    <2>3. /\ gone.used = P.used \ {i} /\ gone.item = [P.item EXCEPT ![i] = NewItem]
          /\ gone.refcnt = P.refcnt /\ gone.pairs = P.pairs - w
          /\ gone \in [used : {gone.used}, item : {gone.item}, refcnt : {gone.refcnt}, pairs : {gone.pairs}]
      BY <1>1, <2>2 DEF PoolOK
    <2>4. P.refcnt \in [Item -> Int] /\ P.pairs - w \in Int
      BY <1>1 DEF PoolOK
    <2> QED
      BY <2>1, <2>3, <2>4 DEF PoolShaped
  <1>4. node.child[1] \in Item \cup {Null} /\ node.child[2] \in Item \cup {Null}
    BY <1>2, ChildType
  <1> HIDE DEF gone
  <1>5. /\ PoolShaped(Q1) /\ Q1.used = gone.used /\ Q1.item = gone.item /\ Q1.pairs = gone.pairs
        /\ \A x \in Item : Q1.refcnt[x] = gone.refcnt[x] - One(node.child[1], x)
    BY <1>3, <1>4, ForgetRight
  <1> HIDE DEF Q1
  <1>6. /\ PoolShaped(Q) /\ Q.used = gone.used /\ Q.item = gone.item /\ Q.pairs = gone.pairs
        /\ \A x \in Item : Q.refcnt[x] = Q1.refcnt[x] - One(node.child[2], x)
    BY <1>4, <1>5, ForgetRight
  <1> HIDE DEF Q
  <1>7. /\ Q.used = P.used \ {i} /\ Q.item = [P.item EXCEPT ![i] = NewItem] /\ Q.pairs = P.pairs - Weight(P, i)
        /\ \A x \in Item : Q.refcnt[x] = (P.refcnt[x] - One(node.child[1], x)) - One(node.child[2], x)
    BY <1>3, <1>5, <1>6
  <1>8. PoolOK(Q)
    <2>1. Q.used \subseteq Item /\ Q.item = [x \in Item |-> Q.item[x]] /\ \A x \in Item : NodeOK(Q.item[x])
      BY <1>1, <1>7, NewItemOK DEF PoolOK
    <2> QED
      BY <1>6, <2>1, PoolIsShaped
  <1>9. \A x \in Item \ {i} : Q.item[x] = P.item[x]
    BY <1>1, <1>7 DEF PoolOK
  <1>10. ButOne(P, Q, i)
    BY <1>7, <1>9 DEF ButOne
  <1>11. \A j \in P.used, s \in {1, 2} : P.item[j].child[s] # Null =>
            P.item[j].child[s] \in P.used /\ P.item[j].child[s] \notin new
            /\ P.refcnt[P.item[j].child[s]] > 0 /\ P.item[j].child[s] # i
    BY <1>1, CoreFacts DEF LinkOK
  <1>12. Linked(Q)
    <2> SUFFICES ASSUME NEW j \in Q.used, NEW s \in {1, 2} PROVE LinkOK(Q, j, s)
      BY DEF Linked
    <2>1. j \in P.used /\ j # i /\ LinkOK(P, j, s) /\ Q.item[j] = P.item[j]
      BY <1>1, <1>7, <1>9, CoreFacts
    <2> QED
      <3>1. PICK c : c = P.item[j].child[s]
        OBVIOUS
      <3>2. c # Null => c \in P.used /\ P.item[c].prefix = Append(P.item[j].prefix, s - 1) /\ c # i
        BY <1>11, <2>1, <3>1 DEF LinkOK
      <3>3. c # Null => c \in Q.used /\ Q.item[c] = P.item[c]
        BY <1>1, <1>7, <1>9, <3>2
      <3> QED
        BY <2>1, <3>1, <3>2, <3>3 DEF LinkOK
  <1>13. ASSUME NEW x \in Item
         PROVE  Own(Q, i, x) = 0 /\ Own(P, i, x) = One(node.child[1], x) + One(node.child[2], x)
    BY <1>1, <1>7 DEF Own, One
  <1>14. Weight(Q, i) = 0
    BY <1>7 DEF Weight
  <1>15. D \subseteq Item /\ D = {x \in {node.child[1], node.child[2]} \ {Null} : Q.refcnt[x] = 0}
    BY <1>4 DEF Unreferenced
  <1> HIDE DEF D
  <1>16. D \cap new = {} /\ \A x \in D : Len(P.item[x].prefix) >= Len(P.item[i].prefix)
    <2> SUFFICES ASSUME NEW x \in D PROVE x \notin new /\ Len(P.item[x].prefix) >= Len(P.item[i].prefix)
      OBVIOUS
    <2>1. PICK s \in {1, 2} : x = P.item[i].child[s] /\ x # Null
      BY <1>15
    <2>2. x \notin new
      BY <1>1, <1>11, <2>1
    <2>3. LinkOK(P, i, s) /\ s - 1 \in {0, 1}
      BY <1>1, CoreFacts
    <2>4. P.item[x].prefix = Append(P.item[i].prefix, s - 1) /\ P.item[i].prefix \in Seq(Side2)
      BY <1>2, <2>1, <2>3, ChildType, Zenon DEF LinkOK, Bits
    <2>5. Len(P.item[x].prefix) = Len(P.item[i].prefix) + 1 /\ Len(P.item[i].prefix) \in Nat
      BY <2>3, <2>4 DEF Side2, Left, Right
    <2> QED
      BY <2>2, <2>5
  <1>17. Owned(Q, (new \ {i}) \cup D)
    <2>1. (new \ {i}) \cup D \subseteq Q.used
      <3>1. new \subseteq P.used
        BY DEF Core, Owned
      <3>2. \A x \in D : x \in P.used /\ x # i
        BY <1>1, <1>11, <1>15
      <3> QED
        BY <1>7, <3>1, <3>2
    <2>2. ASSUME NEW x \in Item PROVE Q.refcnt[x] = 0 <=> x \notin Q.used \/ x \in (new \ {i}) \cup D
      <3>1. P.refcnt[x] \in Nat /\ (P.refcnt[x] = 0 <=> x \notin P.used \/ x \in new)
        <4>1. P.refcnt \in [Item -> Nat]
          BY CoreFacts
        <4>2. P.refcnt[x] = 0 <=> x \notin P.used \/ x \in new
          BY DEF Core, Owned
        <4> QED
          BY <4>1, <4>2
      <3>2. CASE node.child[1] # x /\ node.child[2] # x
        <4>1. Q.refcnt[x] = P.refcnt[x] /\ x \notin D
          BY <1>7, <1>15, <3>1, <3>2 DEF One
        <4> QED
          BY <1>1, <1>7, <3>1, <4>1
      <3>3. CASE node.child[1] = x \/ node.child[2] = x
        <4>1. x # Null
          BY TreeAssumption
        <4>2. x \in P.used /\ x \notin new /\ x # i
          BY <1>1, <1>11, <3>3, <4>1
        <4>3. x \in D <=> Q.refcnt[x] = 0
          BY <1>15, <3>3, <4>1
        <4> QED
          BY <1>7, <4>2, <4>3
      <3> QED
        BY <3>2, <3>3
    <2> QED
      BY <2>1, <2>2 DEF Owned
  <1>18. \A x \in Item : Q.refcnt[x] - Own(Q, i, x) - ext[x] = P.refcnt[x] - Own(P, i, x) - ext[x]
    <2> SUFFICES ASSUME NEW x \in Item
                 PROVE  Q.refcnt[x] - Own(Q, i, x) - ext[x] = P.refcnt[x] - Own(P, i, x) - ext[x]
      OBVIOUS
    <2>1. P.refcnt[x] \in Nat /\ ext[x] \in Nat
      BY CoreFacts
    <2>2. One(node.child[1], x) \in Int /\ One(node.child[2], x) \in Int
      BY DEF One
    <2> QED
      BY <1>7, <1>13, <2>1, <2>2
  <1>19. Q.pairs - Weight(Q, i) = P.pairs - Weight(P, i)
    <2>1. P.pairs \in Int
      BY CoreFacts
    <2> QED
      BY <1>2, <1>7, <1>14, <2>1
  <1>20. Core(Q, ext, (new \ {i}) \cup D)
    <2>1. ext \in [Item -> Nat]
      BY DEF Core
    <2> QED
      BY <1>1, <1>8, <1>10, <1>12, <1>17, <1>18, <1>19, <2>1, CoreOfOne
  <1>21. Q = Release(P, i)
    BY DEF Release, Q, Q1, gone
  <1> QED
    BY <1>1, <1>7, <1>9, <1>15, <1>16, <1>20, <1>21 DEF D

\* The steps of decr_ref exist.
LEMMA ReleaseRuns ==
    ASSUME NEW start, NEW n \in Nat
    PROVE  \E f : /\ f = [m \in 0 .. n |-> IF m = 0 THEN start ELSE ReleaseOne(f[m - 1])]
                  /\ Steps(ReleaseOne, start, n) = f[n]
  <1> DEFINE Fits(f, q) == f = [m \in 0 .. q |-> IF m = 0 THEN start ELSE ReleaseOne(f[m - 1])]
             A == {q \in Nat : \E f : Fits(f, q)}
  <1>1. 0 \in A
    <2>1. Fits([m \in 0 .. 0 |-> start], 0)
      OBVIOUS
    <2> QED
      BY <2>1
  <1>2. ASSUME NEW q \in Nat, q \in A PROVE q + 1 \in A
    <2>1. PICK f : Fits(f, q)
      BY <1>2
    <2> DEFINE g == [m \in 0 .. q + 1 |-> IF m = q + 1 THEN ReleaseOne(f[q]) ELSE f[m]]
    <2>2. \A m \in 0 .. q : g[m] = f[m]
      OBVIOUS
    <2>3. ASSUME NEW m \in 0 .. q + 1 PROVE g[m] = IF m = 0 THEN start ELSE ReleaseOne(g[m - 1])
      <3>1. CASE m = q + 1
        BY <2>2, <3>1
      <3>2. CASE m # q + 1
        <4>1. m \in 0 .. q /\ (m # 0 => m - 1 \in 0 .. q)
          BY <3>2
        <4> HIDE DEF g
        <4> QED
          BY <2>1, <2>2, <4>1
      <3> QED
        BY <3>1, <3>2
    <2>4. g = [m \in 0 .. q + 1 |-> g[m]]
      OBVIOUS
    <2> HIDE DEF g
    <2>5. Fits(g, q + 1)
      BY <2>3, <2>4
    <2> QED
      BY <2>5
  <1> HIDE DEF A
  <1>3. n \in A
    BY <1>1, <1>2, AllNaturals
  <1>4. \E f : Fits(f, n)
    BY <1>3 DEF A
  <1> DEFINE after == CHOOSE f : Fits(f, n)
  <1>5. Fits(after, n)
    BY <1>4
  <1>6. Steps(ReleaseOne, start, n) = after[n]
    BY DEF Steps
  <1> HIDE DEF after
  <1> QED
    BY <1>5, <1>6

\* What giving up references leaves of P: nodes as they were, but for some that
\* are not new and whose prefix is at least m long.
Pruned(P, Q, new, m) ==
    /\ Q.used \subseteq P.used /\ new \subseteq Q.used
    /\ \A x \in Q.used : Q.item[x] = P.item[x]
    /\ \A x \in P.used \ Q.used : Len(P.item[x].prefix) >= m

ReleaseInv(P, s, ext, new, m) ==
    /\ Core(s.pool, ext, new \cup s.dead) /\ s.dead \cap new = {} /\ s.dead \subseteq Item
    /\ Pruned(P, s.pool, new, m) /\ \A x \in s.dead : Len(P.item[x].prefix) >= m

LEMMA ReleaseStep ==
    ASSUME NEW P, P.used \subseteq Item, NEW s, NEW ext, NEW new, NEW m \in Nat, ReleaseInv(P, s, ext, new, m),
           \A x \in Item : Len(P.item[x].prefix) \in Nat
    PROVE  /\ ReleaseInv(P, ReleaseOne(s), ext, new, m)
           /\ s.dead # {} => /\ Cardinality(ReleaseOne(s).pool.used) = Cardinality(s.pool.used) - 1
                             /\ IsFiniteSet(s.pool.used) /\ s.pool.used # {}
           /\ s.dead = {} => ReleaseOne(s) = s
  <1>1. CASE s.dead = {}
    BY <1>1 DEF ReleaseOne
  <1>2. CASE s.dead # {}
    <2> DEFINE i == CHOOSE j \in s.dead : TRUE
               child == s.pool.item[i].child
               Q == Release(s.pool, i)
               D == Unreferenced(Q, {child[1], child[2]})
    <2>1. i \in s.dead
      BY <1>2
    <2>2. ReleaseOne(s) = [pool |-> Q, dead |-> (s.dead \ {i}) \cup D]
      BY <1>2 DEF ReleaseOne
    <2> HIDE DEF i
    <2>3. /\ Core(Q, ext, ((new \cup s.dead) \ {i}) \cup D) /\ D \cap (new \cup s.dead) = {} /\ D \subseteq Item
          /\ Q.used = s.pool.used \ {i} /\ i \in s.pool.used /\ \A x \in Item \ {i} : Q.item[x] = s.pool.item[x]
          /\ \A x \in D : Len(s.pool.item[x].prefix) >= Len(s.pool.item[i].prefix)
      <3>1. Core(s.pool, ext, new \cup s.dead) /\ i \in new \cup s.dead
        BY <2>1 DEF ReleaseInv
      <3>2. s.dead \subseteq Item
        BY DEF ReleaseInv
      <3> QED
        BY <3>1, ReleaseRight
    <2> HIDE DEF Q, D
    <2>4. ((new \cup s.dead) \ {i}) \cup D = new \cup ((s.dead \ {i}) \cup D)
      BY <2>1 DEF ReleaseInv
    <2>5. Pruned(P, Q, new, m)
      BY <2>1, <2>3 DEF Pruned, ReleaseInv
    <2>6. ASSUME NEW x \in (s.dead \ {i}) \cup D PROVE Len(P.item[x].prefix) >= m
      <3>1. CASE x \in s.dead
        BY <3>1 DEF ReleaseInv
      <3>2. CASE x \in D
        <4>1. x \in Q.used
          BY <2>3, <3>2 DEF Core, Owned
        <4>2. s.pool.item[x] = P.item[x] /\ s.pool.item[i] = P.item[i]
          BY <2>3, <4>1 DEF ReleaseInv, Pruned
        <4>3. Len(P.item[i].prefix) >= m
          BY <2>1 DEF ReleaseInv
        <4>4. x \in Item /\ i \in Item
          BY <2>1, <2>3, <3>2 DEF ReleaseInv
        <4> QED
          BY <2>3, <3>2, <4>2, <4>3, <4>4
      <3> QED
        BY <3>1, <3>2
    <2>7. ReleaseInv(P, ReleaseOne(s), ext, new, m)
      <3>1. ((s.dead \ {i}) \cup D) \cap new = {} /\ (s.dead \ {i}) \cup D \subseteq Item
        BY <2>3 DEF ReleaseInv
      <3>2. Core(Q, ext, new \cup ((s.dead \ {i}) \cup D))
        BY <2>3, <2>4
      <3> QED
        BY <2>2, <2>5, <2>6, <3>1, <3>2 DEF ReleaseInv
    <2>8. IsFiniteSet(s.pool.used) /\ Cardinality(Q.used) = Cardinality(s.pool.used) - 1
      <3>1. IsFiniteSet(s.pool.used)
        BY CoreFacts, ItemFinite, FS_Subset DEF ReleaseInv
      <3> QED
        BY <2>3, <3>1, FS_RemoveElement
    <2>9. ReleaseOne(s).pool = Q /\ s.pool.used # {}
      BY <2>2, <2>3
    <2> QED
      BY <1>2, <2>7, <2>8, <2>9
  <1> QED
    BY <1>1, <1>2

\* decr_ref takes one reference away, with the nodes that nobody refers to any
\* more, and leaves everything counted.
LEMMA DecrRight ==
    ASSUME NEW P, NEW ext, NEW new, Core(P, ext, new), NEW i \in Item \cup {Null},
           NEW ext2 \in [Item -> Nat], \A x \in Item : ext2[x] = ext[x] - One(i, x),
           NEW m \in Nat, i # Null => m <= Len(P.item[i].prefix)
    PROVE  LET Q == DecrRef(P, i) IN Core(Q, ext2, new) /\ Pruned(P, Q, new, m)
  <1> DEFINE Q0 == Forget(P, i)
             D0 == Unreferenced(Q0, {i})
             start == [pool |-> Q0, dead |-> D0]
             n == Cardinality(P.used)
  <1>1. PoolOK(P) /\ P.used \subseteq Item /\ IsFiniteSet(P.used) /\ n \in Nat
    <2>1. PoolOK(P) /\ P.used \subseteq Item
      BY DEF Core, PoolOK
    <2> QED
      BY <2>1, ItemFinite, FS_Subset, FS_CardinalityType
  <1>2. /\ PoolShaped(Q0) /\ Q0.used = P.used /\ Q0.item = P.item /\ Q0.pairs = P.pairs
        /\ \A x \in Item : Q0.refcnt[x] = P.refcnt[x] - One(i, x)
    BY <1>1, PoolIsShaped, ForgetRight
  <1> HIDE DEF Q0
  <1>3. D0 \subseteq Item /\ \A x \in Item : x \in D0 <=> x = i /\ Q0.refcnt[x] = 0
    <2>1. Null \notin Item
      BY TreeAssumption
    <2> QED
      BY <2>1 DEF Unreferenced
  <1> HIDE DEF D0
  <1>4. \A x \in Item : One(i, x) \in {0, 1} /\ (One(i, x) = 1 <=> x = i) /\ ext[x] >= One(i, x)
    <2>1. \A x \in Item : ext2[x] \in Nat /\ ext[x] \in Nat /\ One(i, x) \in {0, 1} /\ (One(i, x) = 1 <=> x = i)
      BY CoreFacts DEF One
    <2> QED
      BY <2>1
  <1>5. \A x \in D0 : x \in P.used /\ x \notin new
    <2> SUFFICES ASSUME NEW x \in D0 PROVE x \in P.used /\ x \notin new
      OBVIOUS
    <2>1. x \in Item /\ x = i
      BY <1>3
    <2>2. ext[x] >= 1
      BY <1>4, <2>1
    <2> QED
      BY <2>1, <2>2, CoreFacts
  <1>6. Core(Q0, ext2, new \cup D0)
    <2>1. PoolOK(Q0)
      BY <1>1, <1>2, PoolIsShaped DEF PoolOK
    <2>2. Linked(Q0)
      BY <1>2 DEF Core, Linked, LinkOK
    <2>3. \A x \in Item : Edges(Q0, x) = Edges(P, x)
      BY <1>2 DEF Edges
    <2>4. Held(Q0) = Held(P)
      BY <1>2 DEF Held
    <2>5. Counted(Q0, ext2)
      <3> SUFFICES ASSUME NEW x \in Item PROVE Q0.refcnt[x] = Edges(Q0, x) + ext2[x]
        BY DEF Counted
      <3>1. P.refcnt[x] = Edges(P, x) + ext[x] /\ Edges(P, x) \in Nat /\ ext[x] \in Nat
        BY CoreFacts
      <3>2. ext2[x] = ext[x] - One(i, x) /\ One(i, x) \in {0, 1}
        BY <1>4
      <3> QED
        BY <1>2, <2>3, <3>1, <3>2
    <2>6. Owned(Q0, new \cup D0)
      <3>1. new \cup D0 \subseteq Q0.used
        BY <1>2, <1>5 DEF Core, Owned
      <3>2. ASSUME NEW x \in Item PROVE Q0.refcnt[x] = 0 <=> x \notin Q0.used \/ x \in new \cup D0
        <4>1. P.refcnt \in [Item -> Nat] /\ (x \in P.used /\ x \notin new <=> P.refcnt[x] > 0)
          BY CoreFacts
        <4>2. CASE x = i
          <5>1. ext[x] >= 1 /\ x \in P.used /\ x \notin new
            BY <1>4, <4>2, CoreFacts
          <5> QED
            BY <1>2, <1>3, <4>2, <5>1
        <4>3. CASE x # i
          <5>1. Q0.refcnt[x] = P.refcnt[x] /\ x \notin D0
            BY <1>2, <1>3, <4>1, <4>3 DEF One
          <5> QED
            BY <1>2, <4>1, <5>1
        <4> QED
          BY <4>2, <4>3
      <3> QED
        BY <3>1, <3>2 DEF Owned
    <2> QED
      BY <1>2, <2>1, <2>2, <2>4, <2>5, <2>6 DEF Core, Weighed
  <1>7. ReleaseInv(P, start, ext2, new, m)
    <2>1. Pruned(P, Q0, new, m)
      BY <1>2 DEF Pruned, Core, Owned
    <2>2. \A x \in D0 : Len(P.item[x].prefix) >= m
      <3>1. \A x \in Item : Len(P.item[x].prefix) \in Nat /\ x # Null
        BY <1>1, ChildType, TreeAssumption DEF PoolOK
      <3> QED
        BY <1>3, <3>1
    <2>3. D0 \cap new = {}
      BY <1>5
    <2> QED
      BY <1>3, <1>6, <2>1, <2>2, <2>3 DEF ReleaseInv
  <1>8. PICK f : /\ f = [q \in 0 .. n |-> IF q = 0 THEN start ELSE ReleaseOne(f[q - 1])]
                 /\ Steps(ReleaseOne, start, n) = f[n]
    BY <1>1, ReleaseRuns
  <1>9. DecrRef(P, i) = f[n].pool
    BY <1>8 DEF DecrRef, Q0, D0
  <1> DEFINE A == {q \in Nat : q <= n => /\ ReleaseInv(P, f[q], ext2, new, m)
                                         /\ f[q].dead = {} \/ Cardinality(f[q].pool.used) = n - q}
  <1>10. 0 \in A
    <2>1. f[0] = start
      BY <1>1, <1>8
    <2>2. start.pool.used = P.used
      BY <1>2
    <2> QED
      BY <1>1, <1>7, <2>1, <2>2
  <1> HIDE DEF start, n
  <1>11. ASSUME NEW q \in Nat, q \in A PROVE q + 1 \in A
    <2> SUFFICES ASSUME q + 1 <= n
                 PROVE  /\ ReleaseInv(P, f[q + 1], ext2, new, m)
                        /\ f[q + 1].dead = {} \/ Cardinality(f[q + 1].pool.used) = n - (q + 1)
      OBVIOUS
    <2>1. f[q + 1] = ReleaseOne(f[q])
      BY <1>1, <1>8
    <2>2. ReleaseInv(P, f[q], ext2, new, m) /\ (f[q].dead = {} \/ Cardinality(f[q].pool.used) = n - q)
      BY <1>1, <1>11
    <2>3. \A x \in Item : Len(P.item[x].prefix) \in Nat
      BY <1>1, ChildType DEF PoolOK
    <2>4. /\ ReleaseInv(P, ReleaseOne(f[q]), ext2, new, m)
          /\ f[q].dead # {} => Cardinality(ReleaseOne(f[q]).pool.used) = Cardinality(f[q].pool.used) - 1
          /\ f[q].dead = {} => ReleaseOne(f[q]) = f[q]
      BY <1>1, <2>2, <2>3, ReleaseStep
    <2> QED
      BY <1>1, <2>1, <2>2, <2>4
  <1> HIDE DEF A
  <1>12. n \in A
    BY <1>1, <1>10, <1>11, AllNaturals
  <1>13. ReleaseInv(P, f[n], ext2, new, m) /\ (f[n].dead = {} \/ Cardinality(f[n].pool.used) = 0)
    BY <1>1, <1>12 DEF A
  <1>14. f[n].dead = {}
    <2>1. IsFiniteSet(f[n].pool.used) /\ f[n].dead \subseteq f[n].pool.used
      <3>1. Core(f[n].pool, ext2, new \cup f[n].dead)
        BY <1>13 DEF ReleaseInv
      <3>2. new \cup f[n].dead \subseteq f[n].pool.used
        BY <3>1 DEF Core, Owned
      <3>3. f[n].pool.used \subseteq Item
        BY <3>1, CoreFacts
      <3> QED
        BY <3>2, <3>3, ItemFinite, FS_Subset
    <2> QED
      BY <1>13, <2>1, FS_EmptySet
  <1>15. new \cup {} = new
    OBVIOUS
  <1> QED
    BY <1>9, <1>13, <1>14, <1>15 DEF ReleaseInv

-----------------------------------------------------------------------------
(* Children *)

WithChild(n, s, c) == [n EXCEPT !.child[s] = c]

LEMMA ChildChanged ==
    ASSUME NEW n, NodeOK(n), NEW s \in {1, 2}, NEW c \in Item \cup {Null},
           NEW new, new = WithChild(n, s, c)
    PROVE  /\ NodeOK(new) /\ new.child[s] = c /\ new.child[3 - s] = n.child[3 - s]
           /\ new.prefix = n.prefix /\ new.bucket = n.bucket /\ new.leaf = n.leaf /\ new.dirty = n.dirty
           /\ new.count = n.count /\ new.hashes = n.hashes
  <1>1. 3 - s \in {1, 2} /\ 3 - s # s
    OBVIOUS
  <1> QED
    BY <1>1 DEF NodeOK, WithChild

LEMMA Balance ==
    ASSUME NEW a \in Int, NEW b \in Int, NEW e \in Int, NEW r \in Int, NEW w \in Int
    PROVE  (r + b) - (b + w) - (e + a) = r - (a + w) - e
  OBVIOUS

ChildSet(P, Q, j, side, c, ext, new) ==
    /\ Core(Q, ext, new \ {c}) /\ Q.used \subseteq P.used /\ j \in Q.used
    /\ Q.item[j] = WithChild(P.item[j], side + 1, c)
    /\ \A x \in Q.used \ {j} : Q.item[x] = P.item[x]
    /\ \A x \in P.used \ Q.used : Len(P.item[x].prefix) > Len(P.item[j].prefix)
    /\ new \ {c} \subseteq Q.used

MayLink(P, j, side, c) ==
    /\ j \in P.used /\ side \in {Left, Right} /\ c \in Item \cup {Null}
    /\ c # Null => c \in P.used /\ P.item[c].prefix = Append(P.item[j].prefix, side)

\* set_left and set_right keep the books; nothing at or above the parent goes.
LEMMA SetChildRight ==
    ASSUME NEW P, NEW ext, NEW new, Core(P, ext, new), NEW j, NEW side, NEW c, MayLink(P, j, side, c)
    PROVE  ChildSet(P, SetChild(P, j, side, c), j, side, c, ext, new)
  <1>0. /\ j \in P.used /\ side \in {Left, Right} /\ c \in Item \cup {Null}
        /\ c # Null => c \in P.used /\ P.item[c].prefix = Append(P.item[j].prefix, side)
    BY DEF MayLink
  <1> USE <1>0
  <1> DEFINE s == side + 1
             old == P.item[j].child[s]
             linked == [P EXCEPT !.item[j].child[s] = c]
             M == IncrRef(linked, c)
             Q == SetChild(P, j, side, c)
             ext2 == [x \in Item |-> ext[x] + One(old, x)]
  <1>1. s \in {1, 2} /\ s - 1 = side /\ 3 - s \in {1, 2}
    BY DEF Left, Right
  <1> HIDE DEF s
  <1>2. /\ PoolOK(P) /\ PoolShaped(P) /\ P.used \subseteq Item /\ j \in Item /\ NodeOK(P.item[j])
        /\ \A x \in Item : NodeOK(P.item[x])
    BY PoolIsShaped DEF Core, PoolOK
  <1>3. old \in Item \cup {Null}
    BY <1>1, <1>2, ChildType
  <1>4. CASE old = c
    <2>1. Q = P
      BY <1>4 DEF SetChild, s
    <2>2. new \ {c} = new
      <3>1. c # Null => P.refcnt[c] > 0
        BY <1>1, <1>4, CoreFacts
      <3>2. Null \notin P.used
        BY <1>2, TreeAssumption
      <3> QED
        BY <3>1, <3>2 DEF Core, Owned
    <2>3. [P.item[j] EXCEPT !.child[s] = c] = P.item[j]
      BY <1>1, <1>2, <1>4 DEF NodeOK
    <2>4. new \subseteq P.used
      BY DEF Core, Owned
    <2> QED
      BY <1>1, <2>1, <2>2, <2>3, <2>4 DEF s, ChildSet, WithChild
  <1>5. CASE old # c
    <2> DEFINE node == [P.item[j] EXCEPT !.child[s] = c]
    <2>1. Q = DecrRef(M, old)
      BY <1>5 DEF SetChild, s
    <2>2. /\ NodeOK(node) /\ node.child[s] = c /\ node.child[3 - s] = P.item[j].child[3 - s]
          /\ node.prefix = P.item[j].prefix /\ node.bucket = P.item[j].bucket
      <3>1. NodeOK(P.item[j]) /\ s \in {1, 2}
        BY <1>1, <1>2
      <3>2. node = WithChild(P.item[j], s, c)
        BY DEF WithChild
      <3> HIDE DEF node
      <3> QED
        BY <3>1, <3>2, ChildChanged
    <2>3. /\ PoolShaped(linked) /\ linked.used = P.used /\ linked.item = [P.item EXCEPT ![j] = node]
          /\ linked.refcnt = P.refcnt /\ linked.pairs = P.pairs
      BY <1>2 DEF PoolShaped
    <2> HIDE DEF linked
    <2>4. /\ PoolShaped(M) /\ M.used = P.used /\ M.item = [P.item EXCEPT ![j] = node] /\ M.pairs = P.pairs
          /\ \A x \in Item : M.refcnt[x] = P.refcnt[x] + One(c, x)
      BY <2>3, IncrRight
    <2> HIDE DEF M, node
    <2>5. M.item[j] = node /\ \A x \in Item \ {j} : M.item[x] = P.item[x]
      BY <1>2, <2>4 DEF PoolOK
    <2>6. PoolOK(M)
      <3>1. M.item = [x \in Item |-> M.item[x]] /\ \A x \in Item : NodeOK(M.item[x])
        BY <1>2, <2>2, <2>4, <2>5 DEF PoolOK
      <3> QED
        BY <1>2, <2>4, <3>1, PoolIsShaped
    <2>7. ButOne(P, M, j)
      BY <2>4, <2>5 DEF ButOne
    <2>8. \A x \in Item : M.item[x].prefix = P.item[x].prefix
      BY <2>2, <2>5
    <2>9. Linked(M)
      <3> SUFFICES ASSUME NEW i \in M.used, NEW t \in {1, 2} PROVE LinkOK(M, i, t)
        BY DEF Linked
      <3>1. i \in P.used /\ LinkOK(P, i, t) /\ i \in Item
        BY <1>2, <2>4, CoreFacts
      <3>2. CASE i = j /\ t = s
        BY <1>1, <1>2, <2>2, <2>4, <2>5, <2>8, <3>2 DEF LinkOK
      <3>3. CASE i # j \/ t # s
        <4>1. M.item[i].child[t] = P.item[i].child[t]
          BY <1>1, <2>2, <2>5, <3>1, <3>3
        <4> QED
          BY <1>2, <2>4, <2>8, <3>1, <4>1 DEF LinkOK
      <3> QED
        BY <3>2, <3>3
    <2>10. Owned(M, new \ {c})
      <3>1. new \ {c} \subseteq M.used
        BY <2>4 DEF Core, Owned
      <3>2. ASSUME NEW x \in Item PROVE M.refcnt[x] = 0 <=> x \notin M.used \/ x \in new \ {c}
        <4>1. P.refcnt[x] \in Nat /\ (x \in P.used /\ x \notin new <=> P.refcnt[x] > 0)
          <5>1. P.refcnt \in [Item -> Nat]
            BY CoreFacts
          <5> QED
            BY <5>1, CoreFacts
        <4>2. CASE x = c
          <5>1. c # Null
            BY <4>2, TreeAssumption
          <5> QED
            BY <2>4, <4>1, <4>2, <5>1 DEF One
        <4>3. CASE x # c
          <5>1. M.refcnt[x] = P.refcnt[x]
            BY <2>4, <4>1, <4>3 DEF One
          <5> QED
            BY <2>4, <4>1, <4>3, <5>1
        <4> QED
          BY <4>2, <4>3
      <3> QED
        BY <3>1, <3>2 DEF Owned
    <2>11. \A x \in Item : /\ One(old, x) \in {0, 1} /\ One(c, x) \in {0, 1} /\ ext[x] \in Nat
                           /\ P.refcnt[x] \in Nat
      <3>1. P.refcnt \in [Item -> Nat]
        BY CoreFacts
      <3> QED
        BY <3>1, CoreFacts DEF One
    <2>12. ext2 \in [Item -> Nat] /\ \A x \in Item : ext2[x] = ext[x] + One(old, x)
      BY <2>11
    <2> HIDE DEF ext2
    <2>13. ASSUME NEW x \in Item
           PROVE  M.refcnt[x] - Own(M, j, x) - ext2[x] = P.refcnt[x] - Own(P, j, x) - ext[x]
      <3>1. PICK w \in Int : w = IF P.item[j].child[3 - s] = x THEN 1 ELSE 0
        OBVIOUS
      <3>2. Own(P, j, x) = One(old, x) + w
        <4>1. CASE s = 1
          BY <3>1, <4>1 DEF Own, One
        <4>2. CASE s = 2
          BY <3>1, <4>2 DEF Own, One
        <4> QED
          BY <1>1, <4>1, <4>2
      <3>3. Own(M, j, x) = One(c, x) + w
        <4>1. CASE s = 1
          BY <2>2, <2>4, <2>5, <3>1, <4>1 DEF Own, One
        <4>2. CASE s = 2
          BY <2>2, <2>4, <2>5, <3>1, <4>2 DEF Own, One
        <4> QED
          BY <1>1, <4>1, <4>2
      <3>4. PICK a \in Int, b \in Int : a = One(old, x) /\ b = One(c, x)
        BY <2>11
      <3>8. PICK e \in Int, r \in Int : e = ext[x] /\ r = P.refcnt[x]
        BY <2>11
      <3>5. M.refcnt[x] = r + b /\ ext2[x] = e + a
        BY <2>4, <2>12, <3>4, <3>8
      <3>6. Own(P, j, x) = a + w /\ Own(M, j, x) = b + w
        BY <3>2, <3>3, <3>4
      <3>7. (r + b) - (b + w) - (e + a) = r - (a + w) - e
        BY Balance
      <3> QED
        BY <3>4, <3>5, <3>6, <3>7, <3>8
    <2>14. M.pairs - Weight(M, j) = P.pairs - Weight(P, j)
      BY <2>2, <2>4, <2>5 DEF Weight
    <2>15. Core(M, ext2, new \ {c})
      BY <1>2, <2>6, <2>7, <2>9, <2>10, <2>12, <2>13, <2>14, CoreOfOne
    <2>16. PICK m \in Nat : m = Len(P.item[j].prefix) + 1
      BY <1>2, ChildType
    <2>17. old # Null => m <= Len(M.item[old].prefix)
      <3> SUFFICES ASSUME old # Null PROVE m <= Len(M.item[old].prefix)
        OBVIOUS
      <3>1. LinkOK(P, j, s)
        BY <1>1, CoreFacts
      <3>2. P.item[old].prefix = Append(P.item[j].prefix, s - 1) /\ P.item[j].prefix \in Seq(Side2)
            /\ s - 1 \in Side2
        BY <1>1, <1>2, <3>1, ChildType, Zenon DEF LinkOK, Bits, Side2
      <3>3. Len(P.item[old].prefix) = Len(P.item[j].prefix) + 1
        BY <3>2
      <3> QED
        BY <1>3, <2>8, <2>16, <3>3
    <2>18. \A x \in Item : ext[x] = ext2[x] - One(old, x)
      BY <2>11, <2>12
    <2>19. Core(Q, ext, new \ {c}) /\ Pruned(M, Q, new \ {c}, m)
      <3>1. ext \in [Item -> Nat]
        BY DEF Core
      <3> HIDE DEF old, Q
      <3> QED
        BY <1>3, <2>1, <2>15, <2>17, <2>18, <3>1, DecrRight
    <2> HIDE DEF Q
    <2>20. \A x \in P.used \ Q.used : Len(P.item[x].prefix) > Len(P.item[j].prefix)
      <3>1. \A x \in P.used \ Q.used : Len(M.item[x].prefix) >= m /\ x \in Item
        BY <1>2, <2>4, <2>19 DEF Pruned
      <3>2. \A x \in Item : Len(P.item[x].prefix) \in Nat
        BY <1>2, ChildType
      <3>3. Len(P.item[j].prefix) \in Nat
        BY <1>2, <3>2
      <3>4. \A x \in P.used \ Q.used : M.item[x].prefix = P.item[x].prefix
        BY <2>8, <3>1
      <3> QED
        BY <2>16, <3>1, <3>2, <3>3, <3>4
    <2>21. j \in Q.used
      <3>1. Len(P.item[j].prefix) \in Nat
        BY <1>2, ChildType
      <3> QED
        BY <2>20, <3>1
    <2>22. Q.used \subseteq P.used /\ Q.item[j] = node /\ \A x \in Q.used \ {j} : Q.item[x] = P.item[x]
      BY <1>2, <2>4, <2>5, <2>19, <2>21 DEF Pruned
    <2> QED
      BY <2>19, <2>20, <2>21, <2>22 DEF node, s, Pruned, Q, ChildSet, WithChild
  <1> QED
    BY <1>4, <1>5

-----------------------------------------------------------------------------
(* Contents and copies of nodes *)

\* Q is P but for what node j says.
Alters(P, Q, j, n) ==
    /\ NodeOK(n) /\ n.child = P.item[j].child /\ n.prefix = P.item[j].prefix
    /\ PoolShaped(Q) /\ Q.used = P.used /\ Q.refcnt = P.refcnt /\ Q.item = [P.item EXCEPT ![j] = n]
    /\ Q.pairs - Cardinality(Keys(n.bucket)) = P.pairs - Cardinality(Keys(P.item[j].bucket))

Altered(P, Q, j, n) ==
    /\ Q.used = P.used /\ Q.refcnt = P.refcnt /\ Q.item[j] = n
    /\ \A x \in Item \ {j} : Q.item[x] = P.item[x]

\* A node whose edges stay as they are may change its contents.
LEMMA CoreNode ==
    ASSUME NEW P, NEW ext, NEW new, Core(P, ext, new), NEW j \in P.used, NEW n, NEW Q, Alters(P, Q, j, n)
    PROVE  Core(Q, ext, new) /\ Altered(P, Q, j, n)
  <1> USE DEF Alters
  <1>1. PoolOK(P) /\ P.used \subseteq Item /\ j \in Item
    BY DEF Core, PoolOK
  <1>2. Q.item[j] = n /\ \A x \in Item \ {j} : Q.item[x] = P.item[x]
    BY <1>1 DEF PoolOK
  <1>3. \A x \in Item : Q.item[x].prefix = P.item[x].prefix /\ Q.item[x].child = P.item[x].child
    BY <1>2
  <1>4. PoolOK(Q)
    <2>1. Q.item = [x \in Item |-> Q.item[x]] /\ \A x \in Item : NodeOK(Q.item[x])
      BY <1>1, <1>2 DEF PoolOK
    <2> QED
      BY <1>1, <2>1, PoolIsShaped
  <1>5. ButOne(P, Q, j)
    BY <1>2 DEF ButOne
  <1>6. Linked(Q)
    <2> SUFFICES ASSUME NEW i \in Q.used, NEW s \in {1, 2} PROVE LinkOK(Q, i, s)
      BY DEF Linked
    <2>1. i \in Item /\ LinkOK(P, i, s)
      BY <1>1, CoreFacts
    <2> QED
      BY <1>1, <1>3, <2>1 DEF LinkOK
  <1>7. Owned(Q, new)
    BY DEF Core, Owned
  <1>8. \A i \in Item : Own(Q, j, i) = Own(P, j, i)
    BY <1>1, <1>3 DEF Own
  <1>9. \A i \in Item : Q.refcnt[i] - Own(Q, j, i) - ext[i] = P.refcnt[i] - Own(P, j, i) - ext[i]
    BY <1>8
  <1>10. Q.pairs - Weight(Q, j) = P.pairs - Weight(P, j)
    BY <1>2 DEF Weight
  <1>11. ext \in [Item -> Nat]
    BY DEF Core
  <1>12. Altered(P, Q, j, n)
    BY <1>2 DEF Altered
  <1> QED
    BY <1>1, <1>2, <1>3, <1>4, <1>5, <1>6, <1>7, <1>9, <1>10, <1>11, <1>12, CoreOfOne

Dirtied(n) == [n EXCEPT !.dirty = TRUE]

LEMMA DirtiedOK ==
    ASSUME NEW n, NodeOK(n), NEW m, m = Dirtied(n)
    PROVE  /\ NodeOK(m) /\ m.dirty = TRUE /\ m.leaf = n.leaf /\ m.hashes = n.hashes /\ m.count = n.count
           /\ m.prefix = n.prefix /\ m.bucket = n.bucket /\ m.child = n.child
  BY DEF NodeOK, Dirtied

\* A copy has counted references to the children of its original.
LEMMA CloneRight ==
    ASSUME NEW P, NEW ext, NEW new, Core(P, ext, new), NEW i \in P.used, Places(P) > 0
    PROVE  LET f == FreeItem(P)
               Q == CloneForFork(P, i)
           IN  /\ f \in Item \ P.used /\ Core(Q, ext, new \cup {f}) /\ Q.used = P.used \cup {f}
               /\ Q.item[f] = Dirtied(P.item[i]) /\ \A x \in Item \ {f} : Q.item[x] = P.item[x]
               /\ \A x \in Item : Q.refcnt[x] >= P.refcnt[x]
               /\ Places(P) \in Nat /\ Places(Q) = Places(P) - 1
  <1> DEFINE f == FreeItem(P)
             A1 == AllocLeaf(P)
             node == P.item[i]
             copied == [A1 EXCEPT !.item[f] = [node EXCEPT !.dirty = TRUE],
                                  !.pairs = @ + Cardinality(Keys(node.bucket))]
             Q1 == IncrRef(copied, node.child[1])
             Q == IncrRef(Q1, node.child[2])
  <1>1. /\ f \in Item \ P.used /\ Core(A1, ext, new \cup {f})
        /\ A1.used = P.used \cup {f} /\ A1.item = [P.item EXCEPT ![f] = NewItem]
        /\ A1.refcnt = P.refcnt /\ A1.pairs = P.pairs
        /\ Places(P) \in Nat /\ Places(A1) = Places(P) - 1
    BY AllocRight
  <1>2. CloneForFork(P, i) = Q
    BY DEF CloneForFork
  <1> HIDE DEF f, A1
  <1>3. /\ P.used \subseteq Item /\ i \in Item /\ i # f /\ NodeOK(node) /\ PoolOK(A1) /\ PoolShaped(A1)
        /\ \A x \in Item : NodeOK(P.item[x])
        /\ P.refcnt \in [Item -> Nat]
    BY <1>1, CoreFacts, PoolIsShaped DEF Core
  <1>4. PICK w \in Nat : w = Cardinality(Keys(node.bucket))
    BY <1>3, BucketFinite DEF NodeOK, Keys
  <1>5. /\ PoolShaped(copied) /\ copied.used = A1.used /\ copied.item = [A1.item EXCEPT ![f] = Dirtied(node)]
        /\ copied.refcnt = A1.refcnt /\ copied.pairs = A1.pairs + w
    <2>1. copied = [A1 EXCEPT !.item[f] = Dirtied(node), !.pairs = @ + w]
      BY <1>4 DEF Dirtied
    <2> HIDE DEF copied
    <2>2. /\ copied.used = A1.used /\ copied.item = [A1.item EXCEPT ![f] = Dirtied(node)]
          /\ copied.refcnt = A1.refcnt /\ copied.pairs = A1.pairs + w
          /\ copied \in [used : {copied.used}, item : {copied.item}, refcnt : {copied.refcnt}, pairs : {copied.pairs}]
      BY <1>3, <2>1 DEF PoolOK
    <2> QED
      BY <1>3, <2>2 DEF PoolShaped
  <1> HIDE DEF copied
  <1>6. node.child[1] \in Item \cup {Null} /\ node.child[2] \in Item \cup {Null}
    BY <1>3, ChildType
  <1>7. /\ PoolShaped(Q1) /\ Q1.used = copied.used /\ Q1.item = copied.item /\ Q1.pairs = copied.pairs
        /\ \A x \in Item : Q1.refcnt[x] = copied.refcnt[x] + One(node.child[1], x)
    BY <1>5, <1>6, IncrRight
  <1> HIDE DEF Q1
  <1>8. /\ PoolShaped(Q) /\ Q.used = Q1.used /\ Q.item = Q1.item /\ Q.pairs = Q1.pairs
        /\ \A x \in Item : Q.refcnt[x] = Q1.refcnt[x] + One(node.child[2], x)
    BY <1>6, <1>7, IncrRight
  <1> HIDE DEF Q
  <1>9. /\ Q.used = A1.used /\ Q.item = [A1.item EXCEPT ![f] = Dirtied(node)] /\ Q.pairs = A1.pairs + w
        /\ \A x \in Item : Q.refcnt[x] = (A1.refcnt[x] + One(node.child[1], x)) + One(node.child[2], x)
    BY <1>5, <1>7, <1>8
  <1>10. Q.item[f] = Dirtied(node) /\ \A x \in Item \ {f} : Q.item[x] = A1.item[x]
    BY <1>1, <1>3, <1>9 DEF PoolOK
  <1>11. NodeOK(Dirtied(node)) /\ Dirtied(node).child = node.child /\ Dirtied(node).prefix = node.prefix
         /\ Dirtied(node).bucket = node.bucket
    BY <1>3, DirtiedOK
  <1>12. PoolOK(Q)
    <2>1. Q.item = [x \in Item |-> Q.item[x]] /\ \A x \in Item : NodeOK(Q.item[x])
      BY <1>3, <1>9, <1>10, <1>11 DEF PoolOK
    <2>2. Q.used \subseteq Item
      BY <1>3, <1>9 DEF PoolOK
    <2> QED
      BY <1>8, <2>1, <2>2, PoolIsShaped
  <1>13. \A x \in Item \ {f} : A1.item[x] = P.item[x]
    BY <1>1, <1>3 DEF PoolOK
  <1>14. A1.item[f] = NewItem
    <2>1. P.item = [x \in Item |-> P.item[x]]
      BY DEF Core, PoolOK
    <2> QED
      BY <1>1, <2>1
  <1>15. ButOne(A1, Q, f)
    BY <1>9, <1>10 DEF ButOne
  <1>16. ASSUME NEW s \in {1, 2}, node.child[s] # Null
         PROVE  /\ node.child[s] \in P.used /\ node.child[s] # f /\ node.child[s] \in Item
                /\ P.refcnt[node.child[s]] > 0
                /\ P.item[node.child[s]].prefix = Append(node.prefix, s - 1)
    <2>1. LinkOK(P, i, s) /\ P.refcnt[node.child[s]] > 0
      BY <1>16, CoreFacts
    <2> QED
      BY <1>1, <1>3, <1>16, <2>1, Zenon DEF LinkOK
  <1>17. Linked(Q)
    <2> SUFFICES ASSUME NEW j \in Q.used, NEW s \in {1, 2} PROVE LinkOK(Q, j, s)
      BY DEF Linked
    <2>1. CASE j = f
      <3>1. Q.item[j].child[s] = node.child[s] /\ Q.item[j].prefix = node.prefix
        BY <1>10, <1>11, <2>1
      <3>2. CASE node.child[s] # Null
        <4>1. node.child[s] \in Q.used /\ Q.item[node.child[s]] = P.item[node.child[s]]
          BY <1>1, <1>9, <1>10, <1>13, <1>16, <3>2
        <4> QED
          BY <1>16, <3>1, <3>2, <4>1, Zenon DEF LinkOK
      <3> QED
        BY <3>1, <3>2 DEF LinkOK
    <2>2. CASE j # f
      <3>1. j \in P.used /\ j \in Item /\ LinkOK(P, j, s) /\ Q.item[j] = P.item[j]
        <4>1. j \in P.used /\ j \in Item
          BY <1>1, <1>3, <1>9, <2>2
        <4> QED
          BY <1>10, <1>13, <2>2, <4>1, CoreFacts
      <3>2. P.item[j].child[s] # Null => P.item[j].child[s] \in Item \ {f}
        BY <1>1, <1>3, <3>1 DEF LinkOK
      <3> QED
        BY <1>1, <1>9, <1>10, <1>13, <3>1, <3>2 DEF LinkOK
    <2> QED
      BY <2>1, <2>2
  <1>18. \A x \in Item : P.refcnt[x] \in Nat /\ One(node.child[1], x) \in {0, 1} /\ One(node.child[2], x) \in {0, 1}
    BY <1>3 DEF One
  <1>19. Owned(Q, new \cup {f})
    <2>1. new \cup {f} \subseteq Q.used
      BY <1>1, <1>9 DEF Core, Owned
    <2>2. ASSUME NEW x \in Item PROVE Q.refcnt[x] = 0 <=> x \notin Q.used \/ x \in new \cup {f}
      <3>1. A1.refcnt[x] = 0 <=> x \notin A1.used \/ x \in new \cup {f}
        BY <1>1 DEF Core, Owned
      <3>2. CASE node.child[1] = x \/ node.child[2] = x
        <4>1. x # Null
          BY TreeAssumption
        <4>2. P.refcnt[x] > 0
          BY <1>16, <3>2, <4>1
        <4>3. Q.refcnt[x] > 0
          BY <1>1, <1>9, <1>18, <4>2
        <4> QED
          BY <1>1, <1>9, <3>1, <4>2, <4>3
      <3>3. CASE ~(node.child[1] = x \/ node.child[2] = x)
        <4>1. Q.refcnt[x] = A1.refcnt[x]
          BY <1>1, <1>9, <1>18, <3>3 DEF One
        <4> QED
          BY <1>9, <3>1, <4>1
      <3> QED
        BY <3>2, <3>3
    <2> QED
      BY <2>1, <2>2 DEF Owned
  <1>20. ASSUME NEW x \in Item
         PROVE  /\ Q.refcnt[x] - Own(Q, f, x) - ext[x] = A1.refcnt[x] - Own(A1, f, x) - ext[x]
                /\ Q.refcnt[x] >= P.refcnt[x]
    <2>1. Own(Q, f, x) = One(node.child[1], x) + One(node.child[2], x)
      BY <1>1, <1>9, <1>10, <1>11 DEF Own, One
    <2>2. Own(A1, f, x) = 0
      BY <1>1, <1>14, TreeAssumption DEF Own, NewItem
    <2>3. PICK a \in Nat, b \in Nat : a = One(node.child[1], x) /\ b = One(node.child[2], x)
      BY <1>18
    <2>4. PICK e \in Nat, r \in Nat : e = ext[x] /\ r = P.refcnt[x]
      BY <1>18, CoreFacts
    <2>5. Q.refcnt[x] = r + a + b /\ A1.refcnt[x] = r
      BY <1>1, <1>9, <2>3, <2>4
    <2> QED
      BY <2>1, <2>2, <2>3, <2>4, <2>5
  <1>21. Q.pairs - Weight(Q, f) = A1.pairs - Weight(A1, f)
    <2>1. Weight(Q, f) = w
      BY <1>1, <1>4, <1>9, <1>10, <1>11 DEF Weight
    <2>2. Weight(A1, f) = 0
      <3>1. Keys(A1.item[f].bucket) = {}
        BY <1>14 DEF Keys, NewItem
      <3> QED
        BY <3>1, FS_EmptySet DEF Weight
    <2>3. A1.pairs \in Int
      BY <1>3 DEF PoolOK
    <2> QED
      BY <1>4, <1>9, <2>1, <2>2, <2>3
  <1>22. Core(Q, ext, new \cup {f})
    <2>1. ext \in [Item -> Nat] /\ f \in Item
      BY <1>1 DEF Core
    <2> QED
      BY <1>1, <1>12, <1>15, <1>17, <1>19, <1>20, <1>21, <2>1, CoreOfOne
  <1>23. Places(Q) = Places(P) - 1
    BY <1>1, <1>9 DEF Places
  <1> QED
    BY <1>1, <1>2, <1>9, <1>10, <1>13, <1>20, <1>22, <1>23 DEF f

-----------------------------------------------------------------------------
(* What every node holds, and what a node that is not dirty says *)

\* A key belongs below a prefix.
Agrees(k, p) == \A n \in DOMAIN p : KeyBits[k][n] = p[n]

\* The pairs of a bucket that go to one side, as a bucket.
Part(bucket, prefix, side) == Only(bucket, {k \in Keys(bucket) : Side(k, prefix) = side})

IsBucket(A) == A = [k \in DOMAIN A |-> A[k]] /\ DOMAIN A \subseteq Key

\* A is what is below node n, if its children have l and r below them.
NodeHolds(n, A, l, r) ==
    /\ IsBucket(A) /\ \A k \in Keys(A) : Agrees(k, n.prefix) /\ A[k] \in Val
    /\ Len(n.prefix) <= HashBits
    /\ n.leaf => n.child[1] = Null /\ n.child[2] = Null /\ A = n.bucket
    /\ ~n.leaf => /\ n.child[1] # Null /\ n.child[2] # Null
                  /\ Keys(n.bucket) = {} /\ Len(n.prefix) < HashBits
                  /\ l = Part(A, n.prefix, Left) /\ r = Part(A, n.prefix, Right)

HoldsAt(P, F, j) ==
    LET n == P.item[j]
    IN  NodeHolds(n, F[j], F[n.child[1]], F[n.child[2]])

HoldsBut(P, F, X) == \A j \in P.used \ X : HoldsAt(P, F, j)

\* F is what is below every node.
Holds(P, F) == \A j \in P.used : HoldsAt(P, F, j)

\* A node that is not dirty says of itself what is right.
NodeRight(n, A) ==
    ~n.dirty => /\ n.count = Cardinality(Keys(A)) /\ n.hashes = Hashes(n.prefix, A)
                /\ n.leaf \/ ~Few(A)

\* Below a node that is not dirty none is.
ChildrenClean(P, i) == ~P.item[P.item[i].child[1]].dirty /\ ~P.item[P.item[i].child[2]].dirty
SealedAt(P, i) == ~P.item[i].leaf /\ ~P.item[i].dirty => ChildrenClean(P, i)

Settled(P, F) == \A j \in P.used : Few(P.item[j].bucket) /\ NodeRight(P.item[j], F[j]) /\ SealedAt(P, j)

-----------------------------------------------------------------------------
(* A leaf becomes the parent of two *)

\* A new node without children may become anything without children.
LEMMA FreshRight ==
    ASSUME NEW P, NEW ext, NEW new, Core(P, ext, new), NEW j \in new,
           P.item[j].child[1] = Null, P.item[j].child[2] = Null,
           NEW n, NodeOK(n), n.child[1] = Null, n.child[2] = Null,
           NEW Q, PoolShaped(Q), Q.used = P.used, Q.refcnt = P.refcnt, Q.item = [P.item EXCEPT ![j] = n],
           Q.pairs - Cardinality(Keys(n.bucket)) = P.pairs - Cardinality(Keys(P.item[j].bucket))
    PROVE  Core(Q, ext, new)
  <1>1. PoolOK(P) /\ P.used \subseteq Item /\ j \in Item /\ j \in P.used
    BY DEF Core, PoolOK, Owned
  <1>2. Q.item[j] = n /\ \A x \in Item \ {j} : Q.item[x] = P.item[x]
    BY <1>1 DEF PoolOK
  <1>3. PoolOK(Q)
    <2>1. Q.item = [x \in Item |-> Q.item[x]] /\ \A x \in Item : NodeOK(Q.item[x])
      BY <1>1, <1>2 DEF PoolOK
    <2> QED
      BY <1>1, <2>1, PoolIsShaped
  <1>4. ButOne(P, Q, j)
    BY <1>2 DEF ButOne
  <1>5. Linked(Q)
    <2> SUFFICES ASSUME NEW i \in Q.used, NEW s \in {1, 2} PROVE LinkOK(Q, i, s)
      BY DEF Linked
    <2>1. CASE i = j
      BY <1>2, <2>1 DEF LinkOK
    <2>2. CASE i # j
      <3>1. LinkOK(P, i, s) /\ i \in P.used /\ i \in Item
        BY <1>1, CoreFacts
      <3>2. P.refcnt[j] = 0
        BY <1>1 DEF Core, Owned
      <3>3. PICK c : c = P.item[i].child[s]
        OBVIOUS
      <3>4. c # Null => P.refcnt[c] > 0
        BY <3>1, <3>3, CoreFacts
      <3>5. c # Null /\ c \in P.used => c \in Q.used /\ Q.item[c] = P.item[c]
        BY <1>1, <1>2, <3>2, <3>4
      <3>6. Q.item[i] = P.item[i]
        BY <1>2, <2>2, <3>1
      <3> QED
        BY <3>1, <3>3, <3>5, <3>6, LinkKept
    <2> QED
      BY <2>1, <2>2
  <1>6. Owned(Q, new)
    BY DEF Core, Owned
  <1>7. \A i \in Item : Own(Q, j, i) = 0 /\ Own(P, j, i) = 0
    BY <1>1, <1>2, TreeAssumption DEF Own
  <1>8. \A i \in Item : Q.refcnt[i] - Own(Q, j, i) - ext[i] = P.refcnt[i] - Own(P, j, i) - ext[i]
    BY <1>7
  <1>9. Q.pairs - Weight(Q, j) = P.pairs - Weight(P, j)
    BY <1>1, <1>2 DEF Weight
  <1>10. ext \in [Item -> Nat]
    BY DEF Core
  <1> QED
    BY <1>1, <1>2, <1>3, <1>4, <1>5, <1>6, <1>8, <1>9, <1>10, CoreOfOne

\* Q is P but for node j, which has become the parent of l and r.
Adopts(P, Q, j, n, l, r) ==
    /\ l # r /\ j # l /\ j # r /\ P.item[j].child[1] = Null /\ P.item[j].child[2] = Null
    /\ NodeOK(n) /\ n.child[1] = l /\ n.child[2] = r /\ n.prefix = P.item[j].prefix
    /\ P.item[l].prefix = Append(n.prefix, Left) /\ P.item[r].prefix = Append(n.prefix, Right)
    /\ PoolShaped(Q) /\ Q.used = P.used /\ Q.refcnt[l] = 1 /\ Q.refcnt[r] = 1
    /\ \A x \in Item \ {l, r} : Q.refcnt[x] = P.refcnt[x]
    /\ Q.item = [P.item EXCEPT ![j] = n]
    /\ Q.pairs - Cardinality(Keys(n.bucket)) = P.pairs - Cardinality(Keys(P.item[j].bucket))

\* A node without children takes two new ones.
LEMMA AdoptRight ==
    ASSUME NEW P, NEW ext, NEW new, Core(P, ext, new), NEW j \in P.used, NEW l \in new, NEW r \in new,
           NEW n, NEW Q, Adopts(P, Q, j, n, l, r)
    PROVE  Core(Q, ext, new \ {l, r})
  <1> USE DEF Adopts
  <1>1. PoolOK(P) /\ P.used \subseteq Item /\ j \in Item /\ l \in P.used /\ r \in P.used /\ l \in Item /\ r \in Item
        /\ P.refcnt \in [Item -> Nat]
    <2>1. PoolOK(P) /\ P.used \subseteq Item /\ P.refcnt \in [Item -> Nat]
      BY CoreFacts DEF Core
    <2>2. new \subseteq P.used
      BY DEF Core, Owned
    <2> QED
      BY <2>1, <2>2
  <1>2. Q.item[j] = n /\ \A x \in Item \ {j} : Q.item[x] = P.item[x]
    BY <1>1 DEF PoolOK
  <1>3. PoolOK(Q)
    <2>1. Q.item = [x \in Item |-> Q.item[x]] /\ \A x \in Item : NodeOK(Q.item[x])
      BY <1>1, <1>2 DEF PoolOK
    <2> QED
      BY <1>1, <2>1, PoolIsShaped
  <1>4. ButOne(P, Q, j)
    BY <1>2 DEF ButOne
  <1>5. \A x \in Item : Q.item[x].prefix = P.item[x].prefix
    BY <1>2
  <1>6. Linked(Q)
    <2> SUFFICES ASSUME NEW i \in Q.used, NEW s \in {1, 2} PROVE LinkOK(Q, i, s)
      BY DEF Linked
    <2>1. CASE i = j
      <3>1. CASE s = 1
        <4>1. Q.item[i].child[s] = l /\ s - 1 = Left /\ Q.item[i].prefix = n.prefix
          BY <1>2, <2>1, <3>1 DEF Left
        <4>2. Q.item[l].prefix = Append(n.prefix, Left)
          BY <1>1, <1>5
        <4> QED
          BY <1>1, <4>1, <4>2 DEF LinkOK
      <3>2. CASE s = 2
        <4>1. Q.item[i].child[s] = r /\ s - 1 = Right /\ Q.item[i].prefix = n.prefix
          BY <1>2, <2>1, <3>2 DEF Right
        <4>2. Q.item[r].prefix = Append(n.prefix, Right)
          BY <1>1, <1>5
        <4> QED
          BY <1>1, <4>1, <4>2 DEF LinkOK
      <3> QED
        BY <3>1, <3>2
    <2>2. CASE i # j
      <3>1. LinkOK(P, i, s) /\ i \in P.used /\ i \in Item
        BY <1>1, CoreFacts
      <3>2. PICK c : c = P.item[i].child[s]
        OBVIOUS
      <3>3. c \in P.used => c \in Q.used /\ Q.item[c].prefix = P.item[c].prefix
        BY <1>1, <1>5
      <3>4. Q.item[i].child[s] = c /\ Q.item[i].prefix = P.item[i].prefix
        BY <1>2, <2>2, <3>1, <3>2
      <3>5. c # Null /\ c \in P.used => c \in Q.used /\ Q.item[c].prefix = P.item[c].prefix
        BY <3>3
      <3> QED
        <4>1. c # Null => c \in P.used /\ P.item[c].prefix = Append(P.item[i].prefix, s - 1)
          BY <3>1, <3>2 DEF LinkOK
        <4>2. c # Null => c \in Q.used /\ Q.item[c].prefix = Append(Q.item[i].prefix, s - 1)
          BY <3>4, <3>5, <4>1
        <4> QED
          BY <3>4, <4>2 DEF LinkOK
    <2> QED
      BY <2>1, <2>2
  <1>7. P.refcnt[l] = 0 /\ P.refcnt[r] = 0
    BY <1>1 DEF Core, Owned
  <1>8. Q.refcnt[l] = 1 /\ Q.refcnt[r] = 1 /\ \A x \in Item \ {l, r} : Q.refcnt[x] = P.refcnt[x]
    OBVIOUS
  <1>9. Owned(Q, new \ {l, r})
    <2>1. new \ {l, r} \subseteq Q.used
      BY DEF Core, Owned
    <2>2. ASSUME NEW x \in Item PROVE Q.refcnt[x] = 0 <=> x \notin Q.used \/ x \in new \ {l, r}
      <3>1. P.refcnt[x] = 0 <=> x \notin P.used \/ x \in new
        BY DEF Core, Owned
      <3> QED
        BY <1>1, <1>8, <3>1
    <2> QED
      BY <2>1, <2>2 DEF Owned
  <1>10. ASSUME NEW x \in Item
         PROVE  Q.refcnt[x] - Own(Q, j, x) - ext[x] = P.refcnt[x] - Own(P, j, x) - ext[x]
    <2>1. Own(P, j, x) = 0
      BY TreeAssumption DEF Own
    <2>2. Own(Q, j, x) = IF x \in {l, r} THEN 1 ELSE 0
      BY <1>2 DEF Own
    <2>3. P.refcnt[x] \in Nat /\ ext[x] \in Nat
      BY <1>1 DEF Core
    <2>4. Q.refcnt[x] = P.refcnt[x] + (IF x \in {l, r} THEN 1 ELSE 0)
      <3>1. CASE x \in {l, r}
        BY <1>7, <1>8, <3>1
      <3>2. CASE x \notin {l, r}
        BY <1>8, <2>3, <3>2
      <3> QED
        BY <3>1, <3>2
    <2> QED
      BY <2>1, <2>2, <2>3, <2>4
  <1>11. Q.pairs - Weight(Q, j) = P.pairs - Weight(P, j)
    BY <1>2 DEF Weight
  <1>12. ext \in [Item -> Nat]
    BY DEF Core
  <1>13. PICK kept : kept = new \ {l, r}
    OBVIOUS
  <1>14. Core(Q, ext, kept)
    <2>1. Owned(Q, kept)
      BY <1>9, <1>13
    <2>2. \A x \in Item : Q.refcnt[x] - Own(Q, j, x) - ext[x] = P.refcnt[x] - Own(P, j, x) - ext[x]
      BY <1>10
    <2>3. OneChanges(P, Q, j, ext, ext, kept)
      BY <1>1, <1>3, <1>4, <1>6, <1>11, <1>12, <2>1, <2>2, Zenon DEF OneChanges
    <2> QED
      BY <2>3, CoreByOne
  <1> QED
    BY <1>2, <1>13, <1>14

LEMMA AgreesNext ==
    ASSUME NEW p \in Bits, NEW k \in Key, NEW s
    PROVE  Agrees(k, Append(p, s)) <=> Agrees(k, p) /\ Side(k, p) = s
  <1> DEFINE q == Append(p, s)
  <1>1. p \in Seq(Side2) /\ Len(p) \in Nat /\ DOMAIN p = 1 .. Len(p)
    BY DEF Bits
  <1>2. DOMAIN q = 1 .. Len(p) + 1 /\ q[Len(p) + 1] = s /\ \A n \in 1 .. Len(p) : q[n] = p[n]
    BY <1>1
  <1> HIDE DEF q
  <1>3. Agrees(k, q) <=> (\A n \in 1 .. Len(p) : KeyBits[k][n] = p[n]) /\ KeyBits[k][Len(p) + 1] = s
    BY <1>1, <1>2 DEF Agrees
  <1> QED
    BY <1>1, <1>3 DEF Agrees, Side, q

LEMMA SideType ==
    ASSUME NEW p \in Bits, Len(p) < HashBits, NEW k \in Key
    PROVE  Side(k, p) \in {Left, Right} /\ Len(p) \in Nat
  <1>1. Len(p) \in Nat /\ Len(p) + 1 \in 1 .. HashBits
    BY TreeAssumption DEF Bits
  <1>2. KeyBits[k] \in [1 .. HashBits -> {Left, Right}]
    BY TreeAssumption
  <1> QED
    BY <1>1, <1>2 DEF Side

\* All bits of a hash are those of one key.
LEMMA OneKey ==
    ASSUME NEW p \in Bits, Len(p) >= HashBits, NEW K \in SUBSET Key, \A k \in K : Agrees(k, p)
    PROVE  Cardinality(K) <= 1 /\ Cardinality(K) <= LeafSize
  <1>1. \A j, k \in K : j = k
    <2> SUFFICES ASSUME NEW j \in K, NEW k \in K PROVE j = k
      OBVIOUS
    <2>1. HashBits \in Nat /\ Len(p) \in Nat /\ DOMAIN p = 1 .. Len(p)
      BY TreeAssumption DEF Bits
    <2>2. \A n \in 1 .. HashBits : KeyBits[j][n] = p[n] /\ KeyBits[k][n] = p[n]
      BY <2>1 DEF Agrees
    <2>3. KeyBits[j] \in [1 .. HashBits -> {Left, Right}] /\ KeyBits[k] \in [1 .. HashBits -> {Left, Right}]
      BY TreeAssumption
    <2>4. PICK a \in [1 .. HashBits -> {Left, Right}], b \in [1 .. HashBits -> {Left, Right}] :
              a = KeyBits[j] /\ b = KeyBits[k]
      BY <2>3
    <2>5. \A n \in 1 .. HashBits : a[n] = b[n]
      BY <2>2, <2>4
    <2>6. a = b
      <3>1. a = [n \in 1 .. HashBits |-> a[n]] /\ b = [n \in 1 .. HashBits |-> b[n]]
        OBVIOUS
      <3>2. [n \in 1 .. HashBits |-> a[n]] = [n \in 1 .. HashBits |-> b[n]]
        BY <2>5, Zenon
      <3> QED
        BY <3>1, <3>2, Zenon
    <2> QED
      BY <2>4, <2>6, TreeAssumption
  <1>2. ASSUME K # {} PROVE \E k : K = {k}
    <2>1. PICK k \in K : TRUE
      BY <1>2
    <2>2. K = {k}
      BY <1>1, <2>1
    <2> QED
      BY <2>2
  <1>3. LeafSize \in Nat /\ LeafSize >= 1
    BY TreeAssumption
  <1>4. CASE K = {}
    BY <1>3, <1>4, FS_EmptySet
  <1>5. CASE K # {}
    <2>1. PICK k : K = {k}
      BY <1>2, <1>5
    <2>2. Cardinality({k}) = 1
      BY FS_Singleton
    <2> QED
      BY <1>3, <2>1, <2>2
  <1> QED
    BY <1>4, <1>5

PartNode(t, side) == [NewItem EXCEPT !.prefix = Extended(t.prefix, side),
                                     !.bucket = Part(t.bucket, t.prefix, side)]
InnerNode(t, l, r) == [t EXCEPT !.bucket = <<>>, !.leaf = FALSE, !.dirty = TRUE, !.child = <<l, r>>]

LEMMA PartOK ==
    ASSUME NEW t, NodeOK(t), NEW side \in {Left, Right}, NEW n, n = PartNode(t, side)
    PROVE  /\ NodeOK(n) /\ n.leaf = TRUE /\ n.dirty = TRUE /\ n.child[1] = Null /\ n.child[2] = Null
           /\ n.prefix = Append(t.prefix, side) /\ n.bucket = Part(t.bucket, t.prefix, side)
           /\ Keys(n.bucket) = {k \in Keys(t.bucket) : Side(k, t.prefix) = side}
           /\ \A k \in Keys(n.bucket) : n.bucket[k] = t.bucket[k]
  <1> DEFINE part == Part(t.bucket, t.prefix, side)
  <1>1. n = [leaf |-> TRUE, dirty |-> TRUE, hashes |-> <<>>, count |-> 0, prefix |-> Append(t.prefix, side),
             bucket |-> part, child |-> <<Null, Null>>]
    BY DEF PartNode, NewItem, Extended
  <1>2. Keys(part) = {k \in Keys(t.bucket) : Side(k, t.prefix) = side} /\ part = [k \in DOMAIN part |-> part[k]]
        /\ \A k \in Keys(part) : part[k] = t.bucket[k]
    BY DEF Part, Only, Keys
  <1>3. Append(t.prefix, side) \in Bits
    <2>1. t.prefix \in Seq(Side2) /\ side \in Side2
      BY ChildType DEF Bits, Side2
    <2> QED
      BY <2>1 DEF Bits
  <1>4. DOMAIN part \subseteq Key
    BY <1>2 DEF NodeOK, Keys
  <1> HIDE DEF part
  <1>5. <<Null, Null>> \in [1 .. 2 -> Item \cup {Null}]
    OBVIOUS
  <1>6. NodeOK(n)
    BY <1>1, <1>2, <1>3, <1>4, <1>5 DEF NodeOK
  <1> QED
    BY <1>1, <1>2, <1>6 DEF part

PartFacts(t, side, n) ==
    /\ n.leaf = TRUE /\ n.dirty = TRUE /\ n.child[1] = Null /\ n.child[2] = Null
    /\ n.prefix = Append(t.prefix, side) /\ n.bucket = Part(t.bucket, t.prefix, side)

LEMMA PartIs ==
    ASSUME NEW t, NodeOK(t), NEW side \in {Left, Right}
    PROVE  PartFacts(t, side, PartNode(t, side))
  <1>1. PICK n : n = PartNode(t, side)
    OBVIOUS
  <1>2. PartFacts(t, side, n)
    BY <1>1, PartOK DEF PartFacts
  <1> QED
    BY <1>1, <1>2

IsInner(n, t, l, r) == n = InnerNode(t, l, r)
InnerFacts(n, t, l, r) ==
    /\ NodeOK(n) /\ n.leaf = FALSE /\ n.dirty = TRUE /\ n.prefix = t.prefix
    /\ Keys(n.bucket) = {} /\ Cardinality(Keys(n.bucket)) = 0
    /\ n.child[1] = l /\ n.child[2] = r

LEMMA InnerOK ==
    ASSUME NEW t, NodeOK(t), NEW l \in Item, NEW r \in Item, NEW n, IsInner(n, t, l, r)
    PROVE  InnerFacts(n, t, l, r)
  <1> USE DEF IsInner, InnerFacts
  <1>1. n = [leaf |-> FALSE, dirty |-> TRUE, hashes |-> t.hashes, count |-> t.count, prefix |-> t.prefix,
             bucket |-> <<>>, child |-> <<l, r>>]
    BY DEF InnerNode, NodeOK
  <1>2. <<l, r>> \in [1 .. 2 -> Item \cup {Null}] /\ <<l, r>>[1] = l /\ <<l, r>>[2] = r
    OBVIOUS
  <1>3. Keys(<<>>) = {} /\ <<>> = [k \in DOMAIN <<>> |-> <<>>[k]]
    BY DEF Keys
  <1>4. t.count \in Nat /\ t.prefix \in Bits
    BY DEF NodeOK
  <1>5. NodeOK(n)
    BY <1>1, <1>2, <1>3, <1>4 DEF NodeOK, Keys
  <1> QED
    BY <1>1, <1>2, <1>3, <1>5, FS_EmptySet

\* A pool with another node at one place and other numbers of pairs.
Placed(P, j, n, q) == [P EXCEPT !.item[j] = n, !.pairs = q]

LEMMA PlacedOK ==
    ASSUME NEW P, PoolOK(P), NEW j \in Item, NEW n, NEW q \in Int, NEW Q, Q = Placed(P, j, n, q)
    PROVE  /\ PoolShaped(Q) /\ Q.used = P.used /\ Q.refcnt = P.refcnt /\ Q.item = [P.item EXCEPT ![j] = n]
           /\ Q.pairs = q
  BY DEF Placed, PoolOK, PoolShaped

LEMMA PartsAdd ==
    ASSUME NEW t, NodeOK(t), Len(t.prefix) < HashBits
    PROVE  LET l == Keys(Part(t.bucket, t.prefix, Left))
               r == Keys(Part(t.bucket, t.prefix, Right))
           IN  /\ Cardinality(Keys(t.bucket)) = Cardinality(l) + Cardinality(r)
               /\ Cardinality(l) \in Nat /\ Cardinality(r) \in Nat /\ Cardinality(Keys(t.bucket)) \in Nat
  <1> DEFINE K == Keys(t.bucket)
             l == Keys(Part(t.bucket, t.prefix, Left))
             r == Keys(Part(t.bucket, t.prefix, Right))
  <1>1. K \in SUBSET Key /\ t.prefix \in Bits
    BY DEF NodeOK, Keys
  <1>2. l = {k \in K : Side(k, t.prefix) = Left} /\ r = {k \in K : Side(k, t.prefix) = Right}
    BY DEF Part, Only, Keys
  <1>3. \A k \in K : Side(k, t.prefix) \in {Left, Right}
    BY <1>1, SideType
  <1>4. Left # Right
    BY DEF Left, Right
  <1> HIDE DEF K, l, r
  <1>5. l \in SUBSET Key /\ r \in SUBSET Key /\ l \cup r = K /\ l \cap r = {}
    BY <1>1, <1>2, <1>3, <1>4
  <1>6. /\ IsFiniteSet(l) /\ Cardinality(l) \in Nat /\ IsFiniteSet(r) /\ Cardinality(r) \in Nat
        /\ Cardinality(K) \in Nat
    BY <1>1, <1>5, BucketFinite
  <1>7. Cardinality(l \cup r) = Cardinality(l) + Cardinality(r) - Cardinality(l \cap r)
    BY <1>6, FS_Union
  <1>8. Cardinality(l \cap r) = 0
    BY <1>5, FS_EmptySet
  <1>9. Cardinality(K) = Cardinality(l) + Cardinality(r)
    <2>1. PICK x \in Nat, y \in Nat : x = Cardinality(l) /\ y = Cardinality(r)
      BY <1>6
    <2>2. Cardinality(K) = x + y - 0
      BY <1>5, <1>7, <1>8, <2>1
    <2> QED
      BY <2>1, <2>2
  <1> QED
    BY <1>6, <1>9 DEF K, l, r

Split(Q, A, i, l, r, x, y, z) ==
           Q = [A EXCEPT !.item[i] = x, !.item[l] = y, !.item[r] = z, !.refcnt[l] = 1, !.refcnt[r] = 1]

LEMMA SplitRecord ==
    ASSUME NEW A, PoolOK(A), NEW i \in Item, NEW l \in Item, NEW r \in Item, NEW x, NEW y, NEW z, NEW Q,
           Split(Q, A, i, l, r, x, y, z)
    PROVE  /\ Q.used = A.used /\ Q.pairs = A.pairs /\ PoolShaped(Q)
           /\ Q.item = [u \in Item |-> IF u = r THEN z ELSE IF u = l THEN y ELSE IF u = i THEN x ELSE A.item[u]]
           /\ Q.refcnt = [u \in Item |-> IF u = l \/ u = r THEN 1 ELSE A.refcnt[u]]
  <1> USE DEF Split
  <1>1. A \in [used : {A.used}, item : {A.item}, refcnt : [Item -> Int], pairs : Int]
    BY DEF PoolOK
  <1>2. Q.used = A.used
    BY <1>1
  <1>3. Q.pairs = A.pairs
    BY <1>1
  <1>4. Q.item = [[[A.item EXCEPT ![i] = x] EXCEPT ![l] = y] EXCEPT ![r] = z]
    BY <1>1
  <1>5. Q.refcnt = [[A.refcnt EXCEPT ![l] = 1] EXCEPT ![r] = 1]
    BY <1>1
  <1>6. Q \in [used : {Q.used}, item : {Q.item}, refcnt : {Q.refcnt}, pairs : {Q.pairs}]
    BY <1>1
  <1>7. [[A.refcnt EXCEPT ![l] = 1] EXCEPT ![r] = 1] \in [Item -> Int] /\ A.pairs \in Int
    BY <1>1
  <1>8. PoolShaped(Q)
    BY <1>3, <1>5, <1>6, <1>7 DEF PoolShaped
  <1>9. A.item = [u \in Item |-> A.item[u]]
    BY DEF PoolOK
  <1>10. Q.item = [u \in Item |-> IF u = r THEN z ELSE IF u = l THEN y ELSE IF u = i THEN x ELSE A.item[u]]
    BY <1>4, <1>9
  <1>11. Q.refcnt = [u \in Item |-> IF u = l \/ u = r THEN 1 ELSE A.refcnt[u]]
    BY <1>1, <1>5
  <1> QED
    BY <1>2, <1>3, <1>8, <1>10, <1>11

\* A node that is to be split.
SplitAt(P, i, t) ==
    /\ i \in P.used /\ t = P.item[i] /\ t.child[1] = Null /\ t.child[2] = Null
    /\ Len(t.prefix) < HashBits /\ Places(P) >= 2 /\ ~Few(t.bucket)

\* What a step of a split leaves: a leaf t of P has become the parent of L and R.
SplitDone(P, i, t, s, L, R) ==
    /\ L \in Item \ P.used /\ R \in Item \ P.used /\ L # R /\ i # L /\ i # R
    /\ s.pool.used = P.used \cup {L, R}
    /\ IsInner(s.pool.item[i], t, L, R)
    /\ s.pool.item[L] = PartNode(t, Left) /\ s.pool.item[R] = PartNode(t, Right)
    /\ \A x \in P.used \ {i} : s.pool.item[x] = P.item[x]
    /\ s.at = IF Few(Part(t.bucket, t.prefix, Left)) THEN R ELSE L
    /\ Places(P) \in Nat /\ Places(s.pool) = Places(P) - 2

LEMMA SplitPool ==
    ASSUME NEW P, NEW i, NEW t, NEW ext, NEW new, Core(P, ext, new), SplitAt(P, i, t),
           NEW s, s.pool = P, s.at = i
    PROVE  Core(SplitOne(s).pool, ext, new) /\ \E l, r : SplitDone(P, i, t, SplitOne(s), l, r)
  <1> DEFINE L == FreeItem(P)
             A1 == AllocLeaf(P)
             R == FreeItem(A1)
             A2 == AllocLeaf(A1)
             Q == SplitOne(s).pool
  <1>0. /\ i \in P.used /\ t = P.item[i] /\ t.child[1] = Null /\ t.child[2] = Null
        /\ Len(t.prefix) < HashBits /\ Places(P) >= 2 /\ ~Few(t.bucket)
    BY DEF SplitAt
  <1>1. P.used \subseteq Item /\ i \in Item /\ NodeOK(t) /\ Len(t.prefix) < HashBits
    BY <1>0, CoreFacts
  <1>2. /\ L \in Item \ P.used /\ Core(A1, ext, new \cup {L})
        /\ A1.used = P.used \cup {L} /\ A1.item = [P.item EXCEPT ![L] = NewItem]
        /\ A1.refcnt = P.refcnt /\ A1.pairs = P.pairs
        /\ Places(P) \in Nat /\ Places(A1) = Places(P) - 1
    <2>1. Places(P) > 0
      BY <1>0, PlacesType
    <2> QED
      BY <2>1, AllocRight
  <1> HIDE DEF L, A1
  <1>3. /\ R \in Item \ A1.used /\ Core(A2, ext, (new \cup {L}) \cup {R})
        /\ A2.used = A1.used \cup {R} /\ A2.item = [A1.item EXCEPT ![R] = NewItem]
        /\ A2.refcnt = A1.refcnt /\ A2.pairs = A1.pairs
        /\ Places(A2) = Places(A1) - 1
    <2>1. Places(A1) > 0
      BY <1>0, <1>2
    <2> QED
      BY <1>2, <2>1, AllocRight
  <1> HIDE DEF R, A2
  <1>4. L \in Item \ P.used /\ R \in Item \ P.used /\ L # R /\ i # L /\ i # R /\ A2.used = P.used \cup {L, R}
    BY <1>0, <1>2, <1>3
  <1>5. /\ A2.item[L] = NewItem /\ A2.item[R] = NewItem
        /\ \A x \in Item \ {L, R} : A2.item[x] = P.item[x]
    <2>1. P.item = [x \in Item |-> P.item[x]]
      BY DEF Core, PoolOK
    <2>2. A1.item[L] = NewItem /\ \A x \in Item \ {L} : A1.item[x] = P.item[x]
      BY <1>2, <2>1
    <2>3. A1.item = [x \in Item |-> A1.item[x]]
      BY <1>2 DEF Core, PoolOK
    <2>4. A2.item[R] = NewItem /\ \A x \in Item \ {R} : A2.item[x] = A1.item[x]
      BY <1>3, <2>3
    <2> QED
      BY <1>4, <2>2, <2>4
  <1>6. PoolOK(A2) /\ A2.pairs = P.pairs /\ P.pairs \in Int
    BY <1>2, <1>3 DEF Core, PoolOK
  <1>7. NewItem.child[1] = Null /\ NewItem.child[2] = Null /\ Cardinality(Keys(NewItem.bucket)) = 0
    <2>1. Keys(<<>>) = {}
      BY DEF Keys
    <2> QED
      BY <2>1, FS_EmptySet DEF NewItem
  <1> DEFINE both == (new \cup {L}) \cup {R}
  <1>24. Core(A2, ext, both) /\ L \in both /\ R \in both
    BY <1>3
  <1>19. both \ {L, R} = new
    <2>1. new \subseteq P.used
      BY DEF Core, Owned
    <2> QED
      BY <1>4, <2>1
  <1> HIDE DEF both
  <1>25. PICK nl : nl = PartNode(t, Left)
    OBVIOUS
  <1>26. PICK nr : nr = PartNode(t, Right)
    OBVIOUS
  <1>27. PICK ni : ni = InnerNode(t, L, R)
    OBVIOUS
  <1> DEFINE a == Cardinality(Keys(nl.bucket))
             b == Cardinality(Keys(nr.bucket))
             B1 == Placed(A2, L, nl, A2.pairs + a)
             B2 == Placed(B1, R, nr, B1.pairs + b)
  <1>8. /\ NodeOK(nl) /\ nl.child[1] = Null /\ nl.child[2] = Null /\ nl.prefix = Append(t.prefix, Left)
        /\ nl.bucket = Part(t.bucket, t.prefix, Left)
    BY <1>1, <1>25, PartOK
  <1>9. /\ NodeOK(nr) /\ nr.child[1] = Null /\ nr.child[2] = Null /\ nr.prefix = Append(t.prefix, Right)
        /\ nr.bucket = Part(t.bucket, t.prefix, Right)
    BY <1>1, <1>26, PartOK
  <1>10. /\ NodeOK(ni) /\ ni.child[1] = L /\ ni.child[2] = R /\ ni.prefix = t.prefix
         /\ Cardinality(Keys(ni.bucket)) = 0
    <2>1. L \in Item /\ R \in Item
      BY <1>4
    <2>2. IsInner(ni, t, L, R)
      BY <1>27 DEF IsInner
    <2>3. NodeOK(t)
      BY <1>1
    <2>4. InnerFacts(ni, t, L, R)
      BY <2>1, <2>2, <2>3, InnerOK
    <2> QED
      BY <2>4 DEF InnerFacts
  <1>11. a \in Nat /\ b \in Nat /\ Cardinality(Keys(t.bucket)) = a + b
    BY <1>1, <1>8, <1>9, PartsAdd
  <1>12. /\ Q = [A2 EXCEPT !.item[i] = ni, !.item[L] = nl, !.item[R] = nr, !.refcnt[L] = 1, !.refcnt[R] = 1]
         /\ SplitOne(s).at = IF Few(nl.bucket) THEN R ELSE L
    BY <1>0, <1>25, <1>26, <1>27 DEF SplitOne, L, R, A1, A2, PartNode, InnerNode, Part
  <1> HIDE DEF a, b, Q
  <1>13. /\ PoolShaped(B1) /\ B1.used = A2.used /\ B1.refcnt = A2.refcnt /\ B1.item = [A2.item EXCEPT ![L] = nl]
         /\ B1.pairs = P.pairs + a
    BY <1>4, <1>6, <1>11, PlacedOK
  <1> HIDE DEF B1
  <1>14. Core(B1, ext, both) /\ B1.item[L] = nl /\ \A x \in Item \ {L} : B1.item[x] = A2.item[x]
    <2>1. B1.pairs - Cardinality(Keys(nl.bucket)) = A2.pairs - Cardinality(Keys(A2.item[L].bucket))
      BY <1>5, <1>6, <1>7, <1>11, <1>13 DEF a
    <2>2. A2.item[L].child[1] = Null /\ A2.item[L].child[2] = Null
      BY <1>5, <1>7
    <2>3. NodeOK(nl) /\ nl.child[1] = Null /\ nl.child[2] = Null
      BY <1>8
    <2>4. PoolShaped(B1) /\ B1.used = A2.used /\ B1.refcnt = A2.refcnt /\ B1.item = [A2.item EXCEPT ![L] = nl]
      BY <1>13
    <2>5. Core(B1, ext, both)
      BY <1>24, <2>1, <2>2, <2>3, <2>4, FreshRight
    <2>6. L \in Item /\ A2.item = [x \in Item |-> A2.item[x]]
      BY <1>4, <1>6 DEF PoolOK
    <2> QED
      BY <2>4, <2>5, <2>6
  <1>15. /\ PoolShaped(B2) /\ B2.used = B1.used /\ B2.refcnt = B1.refcnt /\ B2.item = [B1.item EXCEPT ![R] = nr]
         /\ B2.pairs = (P.pairs + a) + b
    <2>1. PoolOK(B1)
      BY <1>14 DEF Core
    <2> QED
      BY <1>4, <1>6, <1>11, <1>13, <2>1, PlacedOK
  <1> HIDE DEF B2
  <1>16. Core(B2, ext, both) /\ B2.item[R] = nr /\ \A x \in Item \ {R} : B2.item[x] = B1.item[x]
    <2>0. B1.item[R] = NewItem
      BY <1>4, <1>5, <1>14
    <2>1. B2.pairs - Cardinality(Keys(nr.bucket)) = B1.pairs - Cardinality(Keys(B1.item[R].bucket))
      BY <1>6, <1>7, <1>11, <1>13, <1>15, <2>0 DEF b
    <2>2. B1.item[R].child[1] = Null /\ B1.item[R].child[2] = Null
      BY <1>7, <2>0
    <2>3. NodeOK(nr) /\ nr.child[1] = Null /\ nr.child[2] = Null
      BY <1>9
    <2>4. PoolShaped(B2) /\ B2.used = B1.used /\ B2.refcnt = B1.refcnt /\ B2.item = [B1.item EXCEPT ![R] = nr]
      BY <1>15
    <2>5. Core(B1, ext, both)
      BY <1>14
    <2>6. Core(B2, ext, both)
      BY <1>24, <2>1, <2>2, <2>3, <2>4, <2>5, FreshRight
    <2>7. R \in Item /\ B1.item = [x \in Item |-> B1.item[x]]
      BY <1>4, <2>5 DEF Core, PoolOK
    <2> QED
      BY <2>4, <2>6, <2>7
  <1>17. B2.item[i] = t /\ B2.item[L] = nl /\ \A x \in Item \ {L, R} : B2.item[x] = P.item[x]
    BY <1>0, <1>1, <1>4, <1>5, <1>14, <1>16
  <1>18. /\ PoolShaped(Q) /\ Q.used = B2.used /\ Q.item = [B2.item EXCEPT ![i] = ni] /\ Q.pairs = P.pairs
         /\ Q.refcnt[L] = 1 /\ Q.refcnt[R] = 1 /\ \A x \in Item \ {L, R} : Q.refcnt[x] = B2.refcnt[x]
    <2>1. A2.item = [x \in Item |-> A2.item[x]] /\ B1.item = [x \in Item |-> B1.item[x]]
          /\ B2.item = [x \in Item |-> B2.item[x]]
      BY <1>6, <1>14, <1>16 DEF Core, PoolOK
    <2>2. /\ Q.used = A2.used /\ Q.pairs = A2.pairs /\ PoolShaped(Q)
          /\ Q.item = [u \in Item |-> IF u = R THEN nr ELSE IF u = L THEN nl ELSE IF u = i THEN ni ELSE A2.item[u]]
          /\ Q.refcnt = [u \in Item |-> IF u = L \/ u = R THEN 1 ELSE A2.refcnt[u]]
      <3>1. i \in Item /\ L \in Item /\ R \in Item
        BY <1>1, <1>4
      <3>2. Q = [A2 EXCEPT !.item[i] = ni, !.item[L] = nl, !.item[R] = nr, !.refcnt[L] = 1, !.refcnt[R] = 1]
        BY <1>12
      <3>3. PoolOK(A2) /\ Split(Q, A2, i, L, R, ni, nl, nr)
        BY <1>6, <3>2 DEF Split
      <3> QED
        BY <3>1, <3>3, SplitRecord
    <2>3. Q.item = [x \in Item |-> IF x = i THEN ni ELSE B2.item[x]]
      BY <1>1, <1>4, <1>5, <1>14, <1>16, <2>1, <2>2
    <2>4. Q.item = [B2.item EXCEPT ![i] = ni]
      BY <2>1, <2>3
    <2>5. A2.refcnt \in [Item -> Int] /\ B2.refcnt = A2.refcnt
      BY <1>6, <1>13, <1>15 DEF PoolOK
    <2> QED
      BY <1>4, <1>6, <1>13, <1>15, <2>2, <2>4, <2>5
  <1>20. Core(Q, ext, new) /\ Q.item[i] = ni /\ \A x \in Item \ {i} : Q.item[x] = B2.item[x]
    <2>1. Q.pairs - Cardinality(Keys(ni.bucket)) = B2.pairs - Cardinality(Keys(B2.item[i].bucket))
      BY <1>6, <1>10, <1>11, <1>15, <1>17, <1>18
    <2>2. i \in B2.used
      BY <1>0, <1>4, <1>13, <1>15
    <2>3. B2.item[i].child[1] = Null /\ B2.item[i].child[2] = Null /\ B2.item[L].prefix = Append(ni.prefix, Left)
          /\ B2.item[R].prefix = Append(ni.prefix, Right) /\ ni.prefix = B2.item[i].prefix
      BY <1>0, <1>8, <1>9, <1>10, <1>16, <1>17
    <2>4. i # L /\ i # R /\ L # R
      BY <1>4
    <2>6. NodeOK(ni) /\ ni.child[1] = L /\ ni.child[2] = R /\ Core(B2, ext, both) /\ L \in both /\ R \in both
      BY <1>10, <1>16, <1>24
    <2>8. PoolShaped(Q) /\ Q.used = B2.used /\ Q.item = [B2.item EXCEPT ![i] = ni]
      BY <1>18
    <2>9. Q.refcnt[L] = 1 /\ Q.refcnt[R] = 1 /\ \A x \in Item \ {L, R} : Q.refcnt[x] = B2.refcnt[x]
      BY <1>18
    <2>10. NodeOK(ni) /\ ni.prefix = B2.item[i].prefix
      BY <2>3, <2>6
    <2>11. B2.item[L].prefix = Append(ni.prefix, Left) /\ B2.item[R].prefix = Append(ni.prefix, Right)
      BY <2>3
    <2>12. B2.item[i].child[1] = Null /\ B2.item[i].child[2] = Null
      BY <2>3
    <2>13. Adopts(B2, Q, i, ni, L, R)
      BY <2>1, <2>4, <2>6, <2>8, <2>9, <2>10, <2>11, <2>12 DEF Adopts
    <2>5. Core(Q, ext, both \ {L, R})
      BY <2>2, <2>6, <2>13, AdoptRight
    <2>7. B2.item = [x \in Item |-> B2.item[x]]
      BY <1>16 DEF Core, PoolOK
    <2> QED
      BY <1>1, <1>18, <1>19, <2>5, <2>7
  <1>21. Q.used = P.used \cup {L, R} /\ Places(Q) = Places(P) - 2
    <2>1. Q.used = A2.used
      BY <1>13, <1>15, <1>18
    <2>2. Places(Q) = Places(A2)
      BY <2>1 DEF Places
    <2> QED
      BY <1>2, <1>3, <1>4, <2>1, <2>2
  <1>22. Q.item[L] = nl /\ Q.item[R] = nr /\ \A x \in P.used \ {i} : Q.item[x] = P.item[x]
    BY <1>1, <1>4, <1>16, <1>17, <1>20
  <1>23. SplitOne(s).at = IF Few(Part(t.bucket, t.prefix, Left)) THEN R ELSE L
    BY <1>8, <1>12
  <1>28. SplitDone(P, i, t, SplitOne(s), L, R)
    <2>1. Q.item[i] = ni /\ IsInner(ni, t, L, R)
      BY <1>20, <1>27 DEF IsInner
    <2> QED
      BY <1>2, <1>4, <1>21, <1>22, <1>23, <1>25, <1>26, <2>1 DEF SplitDone, Q
  <1> QED
    BY <1>20, <1>28 DEF Q

-----------------------------------------------------------------------------
(* The hashes of a set of pairs *)

Under(A, p) == Only(A, {k \in Keys(A) : Agrees(k, p)})

HashRow(A, n, below) ==
    [p \in [1 .. HashBits - n -> {Left, Right}] |->
        IF Few(Under(A, p)) THEN LeafHashes(p, Under(A, p))
        ELSE NodeHashes(below[Extended(p, Left)], below[Extended(p, Right)])]

HashTable(A, f) == f = [n \in 0 .. HashBits |-> HashRow(A, n, f[n - 1])]

\* A function on bits that starts like a prefix is one.
LEMMA BitsOfRow ==
    ASSUME NEW m \in Nat, NEW p \in [1 .. m -> {Left, Right}]
    PROVE  p \in Bits /\ Len(p) = m
  BY DEF Bits, Side2

\* All bits are enough for few pairs.
LEMMA LastRow ==
    ASSUME NEW A, Keys(A) \subseteq Key, NEW b
    PROVE  HashRow(A, 0, b) = [p \in [1 .. HashBits - 0 -> {Left, Right}] |-> LeafHashes(p, Under(A, p))]
  <1>1. HashBits \in Nat
    BY TreeAssumption
  <1>2. ASSUME NEW p \in [1 .. HashBits - 0 -> {Left, Right}] PROVE Few(Under(A, p))
    <2>1. p \in Bits /\ Len(p) >= HashBits
      BY <1>1, BitsOfRow
    <2>2. Keys(Under(A, p)) = {k \in Keys(A) : Agrees(k, p)}
      BY DEF Under, Only, Keys
    <2>3. Keys(Under(A, p)) \in SUBSET Key /\ \A k \in Keys(Under(A, p)) : Agrees(k, p)
      BY <2>2
    <2> QED
      BY <2>1, <2>3, OneKey DEF Few
  <1> QED
    BY <1>2 DEF HashRow

LEMMA HashTables ==
    ASSUME NEW A, Keys(A) \subseteq Key
    PROVE  \E f : HashTable(A, f) /\ \A p : Hashes(p, A) = f[HashBits - Len(p)][p]
  <1> DEFINE Fits(f, q) == f = [n \in 0 .. q |-> HashRow(A, n, f[n - 1])]
             G == {q \in Nat : \E f : Fits(f, q)}
  <1>1. 0 \in G
    <2> DEFINE f == [n \in 0 .. 0 |-> HashRow(A, 0, <<>>)]
    <2>1. HashRow(A, 0, <<>>) = HashRow(A, 0, f[0 - 1])
      BY LastRow
    <2>2. \A n \in 0 .. 0 : f[n] = HashRow(A, n, f[n - 1])
      BY <2>1
    <2>3. f = [n \in 0 .. 0 |-> f[n]]
      OBVIOUS
    <2> HIDE DEF f
    <2>4. Fits(f, 0)
      BY <2>2, <2>3
    <2> QED
      BY <2>4
  <1>2. ASSUME NEW q \in Nat, q \in G PROVE q + 1 \in G
    <2>1. PICK f : Fits(f, q)
      BY <1>2
    <2> DEFINE g == [n \in 0 .. q + 1 |-> IF n = q + 1 THEN HashRow(A, q + 1, f[q]) ELSE f[n]]
    <2>2. \A n \in 0 .. q : g[n] = f[n]
      OBVIOUS
    <2>3. ASSUME NEW n \in 0 .. q + 1 PROVE g[n] = HashRow(A, n, g[n - 1])
      <3>1. CASE n = q + 1
        BY <2>2, <3>1
      <3>2. CASE n = 0
        <4>1. g[0] = f[0] /\ f[0] = HashRow(A, 0, f[0 - 1])
          BY <2>1, <2>2
        <4>2. HashRow(A, 0, f[0 - 1]) = HashRow(A, 0, g[0 - 1])
          <5> HIDE DEF g
          <5> QED
            BY LastRow
        <4> QED
          BY <3>2, <4>1, <4>2
      <3>3. CASE n # q + 1 /\ n # 0
        <4>1. n \in 0 .. q /\ n - 1 \in 0 .. q
          BY <3>3
        <4> HIDE DEF g
        <4> QED
          BY <2>1, <2>2, <4>1
      <3> QED
        BY <3>1, <3>2, <3>3
    <2>4. g = [n \in 0 .. q + 1 |-> g[n]]
      OBVIOUS
    <2> HIDE DEF g
    <2>5. Fits(g, q + 1)
      BY <2>3, <2>4
    <2> QED
      BY <2>5
  <1> HIDE DEF G
  <1>3. HashBits \in G
    BY <1>1, <1>2, AllNaturals, TreeAssumption
  <1>4. \E f : Fits(f, HashBits)
    BY <1>3 DEF G
  <1> DEFINE h == CHOOSE f : Fits(f, HashBits)
  <1>5. Fits(h, HashBits)
    BY <1>4
  <1>6. ASSUME NEW p PROVE Hashes(p, A) = h[HashBits - Len(p)][p]
    BY Zenon DEF Hashes, HashRow, Under, Agrees, h
  <1> HIDE DEF h
  <1> QED
    BY <1>5, <1>6 DEF HashTable

LEMMA UnderKeys ==
    ASSUME NEW A, NEW p
    PROVE  /\ Keys(Under(A, p)) = {k \in Keys(A) : Agrees(k, p)}
           /\ Under(A, p) = [k \in {j \in Keys(A) : Agrees(j, p)} |-> A[k]]
  BY DEF Under, Only, Keys

LEMMA BitsAppend ==
    ASSUME NEW p \in Bits, NEW s \in {Left, Right}
    PROVE  Append(p, s) \in Bits /\ Len(Append(p, s)) = Len(p) + 1 /\ Len(p) \in Nat
  <1>1. p \in Seq(Side2) /\ s \in Side2
    BY DEF Bits, Side2
  <1> QED
    BY <1>1 DEF Bits

\* The hashes below a prefix from the hashes one bit further down.
LEMMA HashesAt ==
    ASSUME NEW A, Keys(A) \subseteq Key, NEW p \in Bits, Len(p) <= HashBits
    PROVE  /\ Few(Under(A, p)) => Hashes(p, A) = LeafHashes(p, Under(A, p))
           /\ ~Few(Under(A, p)) => /\ Len(p) < HashBits
                                  /\ Hashes(p, A) = NodeHashes(Hashes(Append(p, Left), A), Hashes(Append(p, Right), A))
  <1>1. PICK f : HashTable(A, f) /\ \A q : Hashes(q, A) = f[HashBits - Len(q)][q]
    BY HashTables
  <1>10. HashBits \in Nat /\ Len(p) \in Nat
    BY TreeAssumption DEF Bits
  <1>2. PICK n \in 0 .. HashBits : n = HashBits - Len(p)
    BY <1>10
  <1>3. HashBits \in Nat /\ Len(p) \in Nat /\ Len(p) = HashBits - n
    BY <1>2, TreeAssumption DEF Bits
  <1>4. p \in [1 .. HashBits - n -> {Left, Right}]
    <2>1. p \in [1 .. Len(p) -> {Left, Right}]
      BY DEF Bits, Side2
    <2> QED
      BY <1>3, <2>1
  <1>5. f[n] = HashRow(A, n, f[n - 1])
    BY <1>1 DEF HashTable
  <1>6. Hashes(p, A) = IF Few(Under(A, p)) THEN LeafHashes(p, Under(A, p))
                       ELSE NodeHashes(f[n - 1][Append(p, Left)], f[n - 1][Append(p, Right)])
    <2>1. Hashes(p, A) = f[n][p]
      BY <1>1, <1>2
    <2> QED
      BY <1>4, <1>5, <2>1 DEF HashRow, Extended
  <1>7. CASE Few(Under(A, p))
    BY <1>6, <1>7
  <1>8. CASE ~Few(Under(A, p))
    <2>1. Len(p) < HashBits
      <3> SUFFICES ASSUME Len(p) >= HashBits PROVE FALSE
        BY <1>3
      <3>1. Keys(Under(A, p)) \in SUBSET Key /\ \A k \in Keys(Under(A, p)) : Agrees(k, p)
        BY UnderKeys
      <3> QED
        BY <1>8, <3>1, OneKey DEF Few
    <2>2. ASSUME NEW s \in {Left, Right} PROVE f[n - 1][Append(p, s)] = Hashes(Append(p, s), A)
      <3>1. Len(Append(p, s)) = Len(p) + 1
        BY BitsAppend
      <3>2. HashBits - Len(Append(p, s)) = n - 1
        BY <1>2, <1>3, <3>1
      <3> QED
        BY <1>1, <3>2
    <2> QED
      BY <1>6, <1>8, <2>1, <2>2
  <1> QED
    BY <1>7, <1>8

\* What is below a longer prefix is below the shorter one.
LEMMA UnderNext ==
    ASSUME NEW A, Keys(A) \subseteq Key, NEW p \in Bits, NEW s \in {Left, Right}
    PROVE  /\ Under(A, Append(p, s)) = Under(Under(A, p), Append(p, s))
           /\ Under(A, Append(p, s)) = Part(Under(A, p), p, s)
  <1> DEFINE q == Append(p, s)
             B == Under(A, p)
  <1>1. \A k \in Key : Agrees(k, q) <=> Agrees(k, p) /\ Side(k, p) = s
    BY AgreesNext
  <1> HIDE DEF q
  <1>2. Keys(B) = {k \in Keys(A) : Agrees(k, p)} /\ \A k \in Keys(B) : B[k] = A[k]
    BY UnderKeys
  <1> HIDE DEF B
  <1>3. {k \in Keys(B) : Agrees(k, q)} = {k \in Keys(A) : Agrees(k, q)}
        /\ {k \in Keys(B) : Side(k, p) = s} = {k \in Keys(A) : Agrees(k, q)}
    BY <1>1, <1>2
  <1>4. Under(A, q) = [k \in {j \in Keys(A) : Agrees(j, q)} |-> A[k]]
        /\ Under(B, q) = [k \in {j \in Keys(B) : Agrees(j, q)} |-> B[k]]
    BY UnderKeys
  <1>5. Part(B, p, s) = [k \in {j \in Keys(B) : Side(j, p) = s} |-> B[k]]
    BY DEF Part, Only
  <1>6. \A k \in {j \in Keys(A) : Agrees(j, q)} : B[k] = A[k]
    BY <1>1, <1>2
  <1>7. [k \in {j \in Keys(A) : Agrees(j, q)} |-> A[k]] = [k \in {j \in Keys(A) : Agrees(j, q)} |-> B[k]]
    BY <1>6, Zenon
  <1> QED
    BY <1>3, <1>4, <1>5, <1>7 DEF q, B

\* The hashes below a prefix depend on the pairs below it alone.
LEMMA HashesLocal ==
    ASSUME NEW A, Keys(A) \subseteq Key, NEW B, Keys(B) \subseteq Key
    PROVE  \A p \in Bits : Len(p) <= HashBits /\ Under(A, p) = Under(B, p) => Hashes(p, A) = Hashes(p, B)
  <1> DEFINE Same(p) == Hashes(p, A) = Hashes(p, B)
             Eq(p) == Under(A, p) = Under(B, p)
             G == {n \in Nat : \A p \in Bits : Len(p) <= HashBits /\ HashBits - Len(p) = n /\ Eq(p) => Same(p)}
  <1>1. HashBits \in Nat /\ \A p \in Bits : Len(p) \in Nat
    BY TreeAssumption DEF Bits
  <1>2. ASSUME NEW p \in Bits, Len(p) <= HashBits, Eq(p),
               Len(p) < HashBits => Same(Append(p, Left)) /\ Same(Append(p, Right))
        PROVE  Same(p)
    <2>1. CASE Few(Under(A, p))
      <3>1. Hashes(p, A) = LeafHashes(p, Under(A, p)) /\ Hashes(p, B) = LeafHashes(p, Under(B, p))
        BY <1>2, <2>1, HashesAt
      <3> QED
        BY <1>2, <3>1
    <2>2. CASE ~Few(Under(A, p))
      <3>1. /\ Len(p) < HashBits
            /\ Hashes(p, A) = NodeHashes(Hashes(Append(p, Left), A), Hashes(Append(p, Right), A))
        BY <1>2, <2>2, HashesAt
      <3>2. Hashes(p, B) = NodeHashes(Hashes(Append(p, Left), B), Hashes(Append(p, Right), B))
        BY <1>2, <2>2, HashesAt
      <3> QED
        BY <1>2, <3>1, <3>2
    <2> QED
      BY <2>1, <2>2
  <1>3. ASSUME NEW p \in Bits, Eq(p), NEW s \in {Left, Right} PROVE Eq(Append(p, s))
    BY <1>3, UnderNext
  <1> HIDE DEF Same, Eq
  <1>4. 0 \in G
    BY <1>1, <1>2
  <1>5. ASSUME NEW n \in Nat, n \in G PROVE n + 1 \in G
    <2> SUFFICES ASSUME NEW p \in Bits, Len(p) <= HashBits, HashBits - Len(p) = n + 1, Eq(p) PROVE Same(p)
      OBVIOUS
    <2>1. ASSUME NEW s \in {Left, Right} PROVE Same(Append(p, s))
      <3>1. Append(p, s) \in Bits /\ Len(Append(p, s)) = Len(p) + 1 /\ Eq(Append(p, s))
        BY <1>3, BitsAppend
      <3>2. Len(Append(p, s)) <= HashBits /\ HashBits - Len(Append(p, s)) = n
        BY <1>1, <3>1
      <3> QED
        BY <1>5, <3>1, <3>2
    <2> QED
      BY <1>2, <2>1
  <1> HIDE DEF G
  <1>6. Nat \subseteq G
    BY <1>4, <1>5, AllNaturals
  <1> SUFFICES ASSUME NEW p \in Bits, Len(p) <= HashBits, Eq(p) PROVE Same(p)
    BY DEF Same, Eq
  <1>7. HashBits - Len(p) \in Nat
    BY <1>1
  <1> QED
    BY <1>6, <1>7 DEF G

LEMMA HashesOfFew ==
    ASSUME NEW A, IsBucket(A), NEW p \in Bits, Len(p) <= HashBits, \A k \in Keys(A) : Agrees(k, p), Few(A)
    PROVE  Hashes(p, A) = LeafHashes(p, A)
  <1>1. Keys(A) \subseteq Key /\ A = [k \in Keys(A) |-> A[k]]
    BY DEF IsBucket, Keys
  <1>2. Under(A, p) = A
    <2>1. {k \in Keys(A) : Agrees(k, p)} = Keys(A)
      OBVIOUS
    <2> QED
      BY <1>1, <2>1, UnderKeys
  <1> QED
    BY <1>1, <1>2, HashesAt

LEMMA HashesOfMany ==
    ASSUME NEW A, IsBucket(A), NEW p \in Bits, Len(p) <= HashBits, \A k \in Keys(A) : Agrees(k, p), ~Few(A)
    PROVE  Hashes(p, A) = NodeHashes(Hashes(Append(p, Left), Part(A, p, Left)),
                                     Hashes(Append(p, Right), Part(A, p, Right)))
  <1>1. Keys(A) \subseteq Key /\ A = [k \in Keys(A) |-> A[k]]
    BY DEF IsBucket, Keys
  <1>2. Under(A, p) = A
    <2>1. {k \in Keys(A) : Agrees(k, p)} = Keys(A)
      OBVIOUS
    <2> QED
      BY <1>1, <2>1, UnderKeys
  <1>3. Hashes(p, A) = NodeHashes(Hashes(Append(p, Left), A), Hashes(Append(p, Right), A)) /\ Len(p) < HashBits
    BY <1>1, <1>2, HashesAt
  <1>4. ASSUME NEW s \in {Left, Right} PROVE Hashes(Append(p, s), A) = Hashes(Append(p, s), Part(A, p, s))
    <2> DEFINE q == Append(p, s)
               B == Part(A, p, s)
    <2>1. q \in Bits /\ Len(q) <= HashBits
      <3>1. HashBits \in Nat
        BY TreeAssumption
      <3> QED
        BY <1>3, <3>1, BitsAppend
    <2>2. Under(A, q) = B
      BY <1>1, <1>2, UnderNext
    <2>3. B = [k \in Keys(B) |-> B[k]] /\ Keys(B) \subseteq Key /\ \A k \in Keys(B) : Agrees(k, q)
      <3>1. Keys(B) = {k \in Keys(A) : Side(k, p) = s} /\ B = [k \in Keys(B) |-> B[k]]
        BY DEF Part, Only, Keys
      <3> HIDE DEF B
      <3> QED
        BY <1>1, <3>1, AgreesNext
    <2> HIDE DEF q, B
    <2>4. Under(B, q) = B
      <3>1. {k \in Keys(B) : Agrees(k, q)} = Keys(B)
        BY <2>3
      <3> QED
        BY <2>3, <3>1, UnderKeys
    <2> QED
      <3>1. \A p2 \in Bits : Len(p2) <= HashBits /\ Under(A, p2) = Under(B, p2) => Hashes(p2, A) = Hashes(p2, B)
        <4>1. Keys(A) \subseteq Key /\ Keys(B) \subseteq Key
          BY <1>1, <2>3
        <4> QED
          BY <4>1, HashesLocal
      <3>2. Hashes(q, A) = Hashes(q, B)
        BY <2>1, <2>2, <2>4, <3>1
      <3> QED
        BY <3>2 DEF q, B
  <1> QED
    BY <1>3, <1>4

-----------------------------------------------------------------------------
(* The enumeration of a subtree *)

LEMMA PartKeys ==
    ASSUME NEW A, NEW p, NEW s
    PROVE  /\ Keys(Part(A, p, s)) = {k \in Keys(A) : Side(k, p) = s}
           /\ \A k \in Keys(Part(A, p, s)) : Part(A, p, s)[k] = A[k]
           /\ Part(A, p, s) = [k \in Keys(Part(A, p, s)) |-> Part(A, p, s)[k]]
  BY DEF Part, Only, Keys

\* An inner node has a child on every side, with the pairs of that side.
Down(P, F, x, s) ==
    LET c == P.item[x].child[s + 1]
    IN  /\ c \in P.used /\ c \in Item /\ P.item[c].prefix = Append(P.item[x].prefix, s)
        /\ Len(P.item[c].prefix) = Len(P.item[x].prefix) + 1 /\ Len(P.item[x].prefix) \in Nat
        /\ F[c] = Part(F[x], P.item[x].prefix, s)

LEMMA DownRight ==
    ASSUME NEW P, NEW ext, NEW new, Core(P, ext, new), NEW F, NEW x \in P.used, HoldsAt(P, F, x),
           ~P.item[x].leaf, NEW s \in {Left, Right}
    PROVE  Down(P, F, x, s)
  <1> DEFINE c == P.item[x].child[s + 1]
  <1>1. s + 1 \in {1, 2} /\ (s + 1) - 1 = s
    BY DEF Left, Right
  <1>2. P.used \subseteq Item /\ NodeOK(P.item[x]) /\ LinkOK(P, x, s + 1)
    BY <1>1, CoreFacts
  <1>3. HoldsAt(P, F, x)
    OBVIOUS
  <1>4. c # Null /\ F[c] = Part(F[x], P.item[x].prefix, s)
    BY <1>1, <1>3 DEF HoldsAt, NodeHolds, Left, Right
  <1>5. c \in P.used /\ P.item[c].prefix = Append(P.item[x].prefix, s)
    BY <1>1, <1>2, <1>4 DEF LinkOK
  <1>6. Len(P.item[c].prefix) = Len(P.item[x].prefix) + 1 /\ Len(P.item[x].prefix) \in Nat
    <2>1. P.item[x].prefix \in Bits
      BY <1>2 DEF NodeOK
    <2> QED
      BY <1>5, <2>1, BitsAppend
  <1> QED
    BY <1>2, <1>4, <1>5, <1>6 DEF Down

\* The sets that Below runs through.
Spreads(f, P, i, n) == f = [m \in 0 .. n |-> IF m = 0 THEN {i} ELSE WithChildren(P, f[m - 1])]

LEMMA BelowRuns ==
    ASSUME NEW P, NEW i
    PROVE  \E f : Spreads(f, P, i, HashBits) /\ Below(P, i) = f[HashBits]
  <1> DEFINE A == {q \in Nat : \E f : Spreads(f, P, i, q)}
  <1>1. 0 \in A
    <2>1. Spreads([m \in 0 .. 0 |-> {i}], P, i, 0)
      BY DEF Spreads
    <2> QED
      BY <2>1
  <1>2. ASSUME NEW q \in Nat, q \in A PROVE q + 1 \in A
    <2>1. PICK f : Spreads(f, P, i, q)
      BY <1>2
    <2> DEFINE g == [m \in 0 .. q + 1 |-> IF m = q + 1 THEN WithChildren(P, f[q]) ELSE f[m]]
    <2>2. \A m \in 0 .. q : g[m] = f[m]
      OBVIOUS
    <2>3. ASSUME NEW m \in 0 .. q + 1 PROVE g[m] = IF m = 0 THEN {i} ELSE WithChildren(P, g[m - 1])
      <3>1. CASE m = q + 1
        BY <2>2, <3>1
      <3>2. CASE m # q + 1
        <4>1. m \in 0 .. q /\ (m # 0 => m - 1 \in 0 .. q)
          BY <3>2
        <4> HIDE DEF g
        <4> QED
          BY <2>1, <2>2, <4>1 DEF Spreads
      <3> QED
        BY <3>1, <3>2
    <2>4. g = [m \in 0 .. q + 1 |-> g[m]]
      OBVIOUS
    <2> HIDE DEF g
    <2>5. Spreads(g, P, i, q + 1)
      BY <2>3, <2>4 DEF Spreads
    <2> QED
      BY <2>5
  <1> HIDE DEF A
  <1>3. HashBits \in A
    BY <1>1, <1>2, AllNaturals, TreeAssumption
  <1>4. \E f : Spreads(f, P, i, HashBits)
    BY <1>3 DEF A
  <1> DEFINE after == CHOOSE f : Spreads(f, P, i, HashBits)
  <1>5. Spreads(after, P, i, HashBits)
    BY <1>4
  <1>6. Below(P, i) = after[HashBits]
    BY Zenon DEF Below, Steps, Spreads, after
  <1> HIDE DEF after
  <1> QED
    BY <1>5, <1>6

\* Everything that A holds is in B.
Within(A, B) == \A k \in Keys(A) : k \in Keys(B) /\ A[k] = B[k]

\* What is reached is below, whatever the number of steps.
LEMMA BelowWithin ==
    ASSUME NEW P, NEW ext, NEW new, Core(P, ext, new), NEW F, Holds(P, F), NEW i \in P.used,
           NEW f, Spreads(f, P, i, HashBits)
    PROVE  \A x \in f[HashBits] : x \in P.used /\ Within(F[x], F[i])
  <1> DEFINE In(x) == x \in P.used /\ Within(F[x], F[i])
             A == {m \in Nat : m <= HashBits => \A x \in f[m] : In(x)}
  <1>1. HashBits \in Nat
    BY TreeAssumption
  <1>2. 0 \in A
    BY <1>1 DEF Spreads, Within
  <1>3. ASSUME NEW m \in Nat, m \in A PROVE m + 1 \in A
    <2> SUFFICES ASSUME m + 1 <= HashBits, NEW y \in f[m + 1] PROVE In(y)
      OBVIOUS
    <2>0. m + 1 \in 0 .. HashBits /\ m + 1 # 0 /\ (m + 1) - 1 = m /\ m <= HashBits
      BY <1>1
    <2>4. f[m + 1] = WithChildren(P, f[m])
      BY <2>0 DEF Spreads
    <2>1. f[m + 1] = WithChildren(P, f[m]) /\ \A x \in f[m] : In(x)
      BY <1>3, <2>0, <2>4
    <2>2. CASE y \in f[m]
      BY <2>1, <2>2
    <2>3. CASE y \notin f[m]
      <3>1. PICK x \in f[m] : ~P.item[x].leaf /\ (y = P.item[x].child[1] \/ y = P.item[x].child[2])
        BY <2>1, <2>3 DEF WithChildren
      <3>2. PICK s \in {Left, Right} : y = P.item[x].child[s + 1]
        BY <3>1 DEF Left, Right
      <3>6. In(x) /\ HoldsAt(P, F, x)
        BY <2>1, <3>1 DEF Holds
      <3>3. In(x) /\ Down(P, F, x, s)
        BY <3>1, <3>6, DownRight
      <3>4. y \in P.used /\ F[y] = Part(F[x], P.item[x].prefix, s)
        BY <3>2, <3>3 DEF Down
      <3>5. Within(F[y], F[x])
        BY <3>4, PartKeys DEF Within
      <3> QED
        BY <3>3, <3>4, <3>5 DEF Within
    <2> QED
      BY <2>2, <2>3
  <1> HIDE DEF A
  <1>4. HashBits \in A
    BY <1>1, <1>2, <1>3, AllNaturals
  <1> QED
    BY <1>1, <1>4 DEF A

\* Every pair is in a leaf that is reached.
LEMMA BelowHas ==
    ASSUME NEW P, NEW ext, NEW new, Core(P, ext, new), NEW F, Holds(P, F), NEW i \in P.used,
           NEW f, Spreads(f, P, i, HashBits), NEW k \in Keys(F[i])
    PROVE  \E x \in f[HashBits] : P.item[x].leaf /\ k \in Keys(P.item[x].bucket)
  <1> DEFINE At(x, m) == x \in P.used /\ k \in Keys(F[x]) /\ (P.item[x].leaf \/ Len(P.item[x].prefix) >= m)
             A == {m \in Nat : m <= HashBits => \E x \in f[m] : At(x, m)}
  <1>1. HashBits \in Nat /\ k \in Key /\ \A x \in P.used : NodeOK(P.item[x]) /\ HoldsAt(P, F, x)
    <2>1. HoldsAt(P, F, i)
      BY DEF Holds
    <2>2. k \in Key
      BY <2>1 DEF HoldsAt, NodeHolds, IsBucket, Keys
    <2> QED
      BY <2>2, CoreFacts, TreeAssumption DEF Holds
  <1>2. 0 \in A
    <2>1. Len(P.item[i].prefix) \in Nat
      BY <1>1, ChildType
    <2>2. i \in f[0]
      BY <1>1 DEF Spreads
    <2> QED
      BY <2>1, <2>2
  <1>3. ASSUME NEW m \in Nat, m \in A PROVE m + 1 \in A
    <2> SUFFICES ASSUME m + 1 <= HashBits PROVE \E y \in f[m + 1] : At(y, m + 1)
      OBVIOUS
    <2>0. m + 1 \in 0 .. HashBits /\ m + 1 # 0 /\ (m + 1) - 1 = m
      BY <1>1
    <2>1. f[m + 1] = WithChildren(P, f[m])
      BY <2>0 DEF Spreads
    <2>2. PICK x \in f[m] : At(x, m)
      BY <1>1, <1>3
    <2>3. CASE P.item[x].leaf
      <3>1. x \in f[m + 1]
        BY <2>1 DEF WithChildren
      <3> QED
        BY <2>2, <2>3, <3>1
    <2>4. CASE ~P.item[x].leaf
      <3>1. P.item[x].prefix \in Bits /\ Len(P.item[x].prefix) < HashBits
        BY <1>1, <2>2, <2>4 DEF HoldsAt, NodeHolds, NodeOK
      <3>2. PICK s \in {Left, Right} : s = Side(k, P.item[x].prefix)
        BY <1>1, <3>1, SideType
      <3>3. PICK y : y = P.item[x].child[s + 1]
        OBVIOUS
      <3>4. Down(P, F, x, s)
        BY <1>1, <2>2, <2>4, DownRight
      <3>5. /\ y \in P.used /\ Len(P.item[y].prefix) = Len(P.item[x].prefix) + 1 /\ Len(P.item[x].prefix) \in Nat
            /\ F[y] = Part(F[x], P.item[x].prefix, s)
        BY <3>3, <3>4 DEF Down
      <3>6. k \in Keys(F[y])
        BY <2>2, <3>2, <3>5, PartKeys
      <3>7. y \in f[m + 1]
        BY <2>1, <2>4, <3>3 DEF WithChildren, Left, Right
      <3>8. Len(P.item[y].prefix) >= m + 1
        BY <2>2, <2>4, <3>5
      <3> QED
        BY <3>5, <3>6, <3>7, <3>8
    <2> QED
      BY <2>3, <2>4
  <1> HIDE DEF A
  <1>4. HashBits \in A
    BY <1>1, <1>2, <1>3, AllNaturals
  <1>5. PICK x \in f[HashBits] : At(x, HashBits)
    BY <1>1, <1>4 DEF A
  <1>6. P.item[x].leaf /\ F[x] = P.item[x].bucket
    <2>1. HoldsAt(P, F, x) /\ Len(P.item[x].prefix) \in Nat
      BY <1>1, <1>5, ChildType
    <2> QED
      BY <1>1, <1>5, <2>1 DEF HoldsAt, NodeHolds
  <1> QED
    BY <1>5, <1>6

LEMMA EachRight ==
    ASSUME NEW P, NEW ext, NEW new, Core(P, ext, new), NEW F, Holds(P, F), NEW i \in P.used
    PROVE  Each(P, i) = F[i]
  <1>1. PICK f : Spreads(f, P, i, HashBits) /\ Below(P, i) = f[HashBits]
    BY BelowRuns
  <1> DEFINE leaves == {j \in Below(P, i) : P.item[j].leaf}
             pairs == UNION {{<<k, P.item[j].bucket[k]>> : k \in Keys(P.item[j].bucket)} : j \in leaves}
  <1>2. Each(P, i) = [k \in {p[1] : p \in pairs} |-> (CHOOSE p \in pairs : p[1] = k)[2]]
    BY DEF Each
  <1>3. ASSUME NEW j \in leaves
        PROVE  j \in P.used /\ F[j] = P.item[j].bucket /\ Within(F[j], F[i])
    <2>1. j \in P.used /\ Within(F[j], F[i])
      BY <1>1, BelowWithin
    <2>2. HoldsAt(P, F, j)
      BY <2>1 DEF Holds
    <2> QED
      BY <2>1, <2>2 DEF HoldsAt, NodeHolds
  <1>4. ASSUME NEW p \in pairs PROVE p = <<p[1], p[2]>> /\ p[1] \in Keys(F[i]) /\ p[2] = F[i][p[1]]
    <2>1. PICK j \in leaves : \E k \in Keys(P.item[j].bucket) : p = <<k, P.item[j].bucket[k]>>
      OBVIOUS
    <2>2. PICK k \in Keys(P.item[j].bucket) : p = <<k, P.item[j].bucket[k]>>
      BY <2>1
    <2>3. k \in Keys(F[i]) /\ F[i][k] = P.item[j].bucket[k]
      BY <1>3 DEF Within
    <2> QED
      BY <2>2, <2>3
  <1>5. ASSUME NEW k \in Keys(F[i]) PROVE \E p \in pairs : p[1] = k
    <2>1. PICK j \in f[HashBits] : P.item[j].leaf /\ k \in Keys(P.item[j].bucket)
      BY <1>1, BelowHas
    <2>2. j \in leaves
      BY <1>1, <2>1
    <2>3. <<k, P.item[j].bucket[k]>> \in pairs
      BY <2>1, <2>2
    <2> QED
      BY <2>3
  <1> HIDE DEF pairs
  <1>6. {p[1] : p \in pairs} = Keys(F[i])
    BY <1>4, <1>5
  <1>7. ASSUME NEW k \in Keys(F[i]) PROVE (CHOOSE p \in pairs : p[1] = k)[2] = F[i][k]
    <2> DEFINE p == CHOOSE q \in pairs : q[1] = k
    <2>1. p \in pairs /\ p[1] = k
      BY <1>5
    <2> QED
      BY <1>4, <2>1
  <1> DEFINE h == [k \in Keys(F[i]) |-> (CHOOSE p \in pairs : p[1] = k)[2]]
  <1>10. h = [k \in Keys(F[i]) |-> h[k]] /\ \A k \in Keys(F[i]) : h[k] = F[i][k]
    BY <1>7
  <1>8. F[i] = [k \in Keys(F[i]) |-> F[i][k]]
    <2>1. HoldsAt(P, F, i)
      BY DEF Holds
    <2> QED
      BY <2>1 DEF HoldsAt, NodeHolds, IsBucket, Keys
  <1>11. Each(P, i) = h
    BY <1>2, <1>6
  <1> HIDE DEF h
  <1>9. [k \in Keys(F[i]) |-> h[k]] = [k \in Keys(F[i]) |-> F[i][k]]
    BY <1>10, Zenon
  <1> QED
    BY <1>8, <1>9, <1>10, <1>11

-----------------------------------------------------------------------------
(* What a split leaves below *)

SameNode(n, m) == n.prefix = m.prefix /\ n.child = m.child /\ n.leaf = m.leaf /\ n.bucket = m.bucket

LEMMA HoldsKept ==
    ASSUME NEW P, NEW F, NEW j, HoldsAt(P, F, j), NEW Q, NEW G, SameNode(P.item[j], Q.item[j]), G[j] = F[j],
           ~P.item[j].leaf => /\ G[P.item[j].child[1]] = F[P.item[j].child[1]]
                              /\ G[P.item[j].child[2]] = F[P.item[j].child[2]]
    PROVE  HoldsAt(Q, G, j)
  BY DEF HoldsAt, NodeHolds, SameNode

\* What is right of all nodes stays right of those that are left.
LEMMA PrunedRight ==
    ASSUME NEW P, NEW F, Holds(P, F), Settled(P, F), NEW ext, NEW new, NEW Q, Core(Q, ext, new),
           Q.used \subseteq P.used, \A x \in Q.used : Q.item[x] = P.item[x]
    PROVE  Holds(Q, F) /\ Settled(Q, F)
  <1>1. ASSUME NEW x \in Q.used PROVE HoldsAt(Q, F, x) /\ Few(Q.item[x].bucket) /\ NodeRight(Q.item[x], F[x])
    BY <1>1 DEF Holds, HoldsAt, Settled
  <1>2. ASSUME NEW x \in Q.used PROVE SealedAt(Q, x)
    <2>1. Q.item[x] = P.item[x] /\ SealedAt(P, x)
      BY <1>2 DEF Settled
    <2>2. ASSUME NEW c \in {1, 2}, ~Q.item[x].leaf
          PROVE  Q.item[Q.item[x].child[c]] = P.item[Q.item[x].child[c]]
      <3> DEFINE y == Q.item[x].child[c]
      <3>1. y # Null
        BY <1>1, <2>2 DEF HoldsAt, NodeHolds
      <3>2. LinkOK(Q, x, c)
        BY CoreFacts
      <3>3. y \in Q.used
        BY <3>1, <3>2 DEF LinkOK
      <3> HIDE DEF y
      <3>4. Q.item[y] = P.item[y]
        BY <3>3
      <3> QED
        BY <3>4 DEF y
    <2>3. ~Q.item[x].leaf => /\ Q.item[Q.item[x].child[1]] = P.item[Q.item[x].child[1]]
                             /\ Q.item[Q.item[x].child[2]] = P.item[Q.item[x].child[2]]
      BY <2>2
    <2> QED
      BY <2>1, <2>3 DEF SealedAt, ChildrenClean
  <1> QED
    BY <1>1, <1>2 DEF Holds, Settled

LEMMA PartHolds ==
    ASSUME NEW t, NodeOK(t), NEW A, NEW l, NEW r, NodeHolds(t, A, l, r), t.leaf, Len(t.prefix) < HashBits,
           NEW side \in {Left, Right}, NEW n, n = PartNode(t, side), NEW l2, NEW r2
    PROVE  NodeHolds(n, Part(A, t.prefix, side), l2, r2)
  <1> DEFINE B == Part(A, t.prefix, side)
  <1>1. A = t.bucket /\ IsBucket(A) /\ (\A k \in Keys(A) : Agrees(k, t.prefix) /\ A[k] \in Val) /\ t.prefix \in Bits
    BY DEF NodeHolds, NodeOK
  <1>2. /\ n.leaf = TRUE /\ n.child[1] = Null /\ n.child[2] = Null
        /\ n.prefix = Append(t.prefix, side) /\ n.bucket = B
    <2>1. PartFacts(t, side, PartNode(t, side))
      BY PartIs
    <2>2. B = Part(t.bucket, t.prefix, side)
      BY <1>1
    <2> QED
      BY <2>1, <2>2 DEF PartFacts
  <1>3. /\ Keys(B) = {k \in Keys(A) : Side(k, t.prefix) = side}
        /\ \A k \in Keys(B) : B[k] = A[k]
        /\ B = [k \in Keys(B) |-> B[k]]
    BY PartKeys
  <1> HIDE DEF B
  <1>4. IsBucket(B)
    BY <1>1, <1>3 DEF IsBucket, Keys
  <1>5. \A k \in Keys(B) : Agrees(k, n.prefix) /\ B[k] \in Val
    <2> SUFFICES ASSUME NEW k \in Keys(B) PROVE Agrees(k, n.prefix) /\ B[k] \in Val
      OBVIOUS
    <2>1. k \in Key /\ Agrees(k, t.prefix) /\ Side(k, t.prefix) = side /\ B[k] \in Val
      BY <1>1, <1>3 DEF IsBucket, Keys
    <2> QED
      BY <1>1, <1>2, <2>1, AgreesNext
  <1>6. Len(n.prefix) <= HashBits
    <2>1. HashBits \in Nat /\ Len(n.prefix) = Len(t.prefix) + 1 /\ Len(t.prefix) \in Nat
      BY <1>1, <1>2, BitsAppend, TreeAssumption
    <2> QED
      BY <2>1
  <1> QED
    BY <1>2, <1>4, <1>5, <1>6 DEF NodeHolds, B

LEMMA InnerHolds ==
    ASSUME NEW t, NodeOK(t), NEW A, NEW l, NEW r, NodeHolds(t, A, l, r), Len(t.prefix) < HashBits,
           NEW l2 \in Item, NEW r2 \in Item, NEW n, IsInner(n, t, l2, r2)
    PROVE  NodeHolds(n, A, Part(A, t.prefix, Left), Part(A, t.prefix, Right))
  <1>1. InnerFacts(n, t, l2, r2)
    BY InnerOK
  <1>2. l2 # Null /\ r2 # Null
    BY TreeAssumption
  <1> QED
    BY <1>1, <1>2 DEF InnerFacts, NodeHolds

\* The pairs of a split leaf are below as they were.
LEMMA SplitHolds ==
    ASSUME NEW P, NEW i, NEW t, NEW ext, NEW new, Core(P, ext, new), NodeOK(t), SplitAt(P, i, t), t.leaf,
           NEW F, NEW X, HoldsBut(P, F, X), X \subseteq P.used, i \notin X,
           NEW s, NEW L, NEW R, SplitDone(P, i, t, s, L, R)
    PROVE  \E G : HoldsBut(s.pool, G, X) /\ \A x \in P.used : G[x] = F[x]
  <1> DEFINE Q == s.pool
             A == F[i]
             G == [x \in Item \cup {Null} |-> IF x = L THEN Part(A, t.prefix, Left)
                                              ELSE IF x = R THEN Part(A, t.prefix, Right) ELSE F[x]]
  <1>1. /\ L \in Item \ P.used /\ R \in Item \ P.used /\ L # R /\ i # L /\ i # R
        /\ Q.used = P.used \cup {L, R} /\ IsInner(Q.item[i], t, L, R)
        /\ Q.item[L] = PartNode(t, Left) /\ Q.item[R] = PartNode(t, Right)
        /\ \A x \in P.used \ {i} : Q.item[x] = P.item[x]
    BY DEF SplitDone
  <1>2. i \in P.used /\ t = P.item[i] /\ Len(t.prefix) < HashBits
    BY DEF SplitAt
  <1>3. P.used \subseteq Item
    BY CoreFacts
  <1>4. G[L] = Part(A, t.prefix, Left) /\ G[R] = Part(A, t.prefix, Right) /\ \A x \in P.used : G[x] = F[x]
    BY <1>1, <1>3
  <1>5. PICK l, r : NodeHolds(t, A, l, r)
    BY <1>2 DEF HoldsBut, HoldsAt
  <1> HIDE DEF G, A, Q
  <1>6. HoldsAt(Q, G, i)
    <2>1. NodeHolds(Q.item[i], A, G[L], G[R])
      BY <1>1, <1>2, <1>4, <1>5, InnerHolds
    <2>2. G[i] = A /\ Q.item[i].child[1] = L /\ Q.item[i].child[2] = R
      <3>1. InnerFacts(Q.item[i], t, L, R)
        BY <1>1, InnerOK
      <3> QED
        BY <1>2, <1>4, <3>1 DEF InnerFacts, A
    <2> QED
      BY <2>1, <2>2 DEF HoldsAt
  <1>7. HoldsAt(Q, G, L) /\ HoldsAt(Q, G, R)
    BY <1>1, <1>2, <1>4, <1>5, PartHolds DEF HoldsAt
  <1>8. ASSUME NEW x \in P.used \ X, x # i PROVE HoldsAt(Q, G, x)
    <2>1. HoldsAt(P, F, x)
      BY DEF HoldsBut
    <2>2. ~P.item[x].leaf => P.item[x].child[1] \in P.used /\ P.item[x].child[2] \in P.used
      <3>1. ~P.item[x].leaf => Down(P, F, x, Left) /\ Down(P, F, x, Right)
        BY <2>1, DownRight
      <3> QED
        BY <3>1 DEF Down, Left, Right
    <2>3. SameNode(P.item[x], Q.item[x])
      BY <1>1, <1>8 DEF SameNode
    <2> QED
      BY <1>4, <2>1, <2>2, <2>3, HoldsKept
  <1>9. HoldsBut(Q, G, X)
    BY <1>1, <1>6, <1>7, <1>8 DEF HoldsBut
  <1> QED
    BY <1>4, <1>9 DEF Q

\* After some steps of a split of node i of P: what was there is as it was, what
\* is new is dirty, and only the node that is looked at may have a pair too many.
SplitInv(P, i, F, X, ext, new, s, m) ==
    /\ Core(s.pool, ext, new) /\ P.used \subseteq s.pool.used /\ i \in P.used /\ X \subseteq P.used \ {i}
    /\ \A x \in P.used \ {i} : s.pool.item[x] = P.item[x]
    /\ s.pool.item[i].prefix = P.item[i].prefix
    /\ s.at \in s.pool.used /\ (s.at \in P.used => s.at = i)
    /\ s.pool.item[s.at].leaf /\ Cardinality(Keys(s.pool.item[s.at].bucket)) <= LeafSize + 1
    /\ \A x \in s.pool.used : x # s.at /\ (x \in P.used => x = i) => Few(s.pool.item[x].bucket)
    /\ \A x \in s.pool.used \ P.used : s.pool.item[x].dirty /\ Len(s.pool.item[x].prefix) > Len(P.item[i].prefix)
    /\ \E G : HoldsBut(s.pool, G, X) /\ \A x \in P.used : G[x] = F[x]
    /\ Places(s.pool) >= 2 * (HashBits - Len(s.pool.item[s.at].prefix))
    /\ Few(s.pool.item[s.at].bucket) \/ Len(s.pool.item[s.at].prefix) >= m

\* Some bits are left to split by.
LEMMA SplitPossible ==
    ASSUME NEW n, NodeOK(n), NEW A, NEW l, NEW r, NodeHolds(n, A, l, r), n.leaf, ~Few(n.bucket)
    PROVE  Len(n.prefix) < HashBits
  <1>1. n.prefix \in Bits /\ HashBits \in Nat /\ Len(n.prefix) \in Nat
    BY TreeAssumption, ChildType
  <1>2. Keys(n.bucket) \in SUBSET Key /\ \A k \in Keys(n.bucket) : Agrees(k, n.prefix)
    BY DEF NodeHolds, NodeOK, Keys
  <1> SUFFICES ASSUME Len(n.prefix) >= HashBits PROVE FALSE
    BY <1>1
  <1> QED
    BY <1>1, <1>2, OneKey DEF Few

\* The two parts of a leaf with a pair too many: one is full at most.
LEMMA PartsFew ==
    ASSUME NEW t, NodeOK(t), Len(t.prefix) < HashBits, Cardinality(Keys(t.bucket)) <= LeafSize + 1
    PROVE  /\ \A s \in {Left, Right} : Cardinality(Keys(Part(t.bucket, t.prefix, s))) <= LeafSize + 1
           /\ Few(Part(t.bucket, t.prefix, Left)) \/ Few(Part(t.bucket, t.prefix, Right))
  <1>1. PICK a \in Int, b \in Int, c \in Int :
            /\ a = Cardinality(Keys(Part(t.bucket, t.prefix, Left)))
            /\ b = Cardinality(Keys(Part(t.bucket, t.prefix, Right)))
            /\ c = Cardinality(Keys(t.bucket)) /\ c = a + b /\ a >= 0 /\ b >= 0
    BY PartsAdd
  <1>2. LeafSize \in Nat /\ LeafSize >= 1 /\ c <= LeafSize + 1
    BY <1>1, TreeAssumption
  <1>3. a <= LeafSize + 1 /\ b <= LeafSize + 1 /\ (a <= LeafSize \/ b <= LeafSize)
    BY <1>1, <1>2
  <1> QED
    BY <1>1, <1>3 DEF Few

LEMMA SplitStep ==
    ASSUME NEW P, NEW i, NEW F, NEW X, NEW ext, NEW new, NEW s, NEW m \in Nat, SplitInv(P, i, F, X, ext, new, s, m)
    PROVE  SplitInv(P, i, F, X, ext, new, SplitOne(s), m + 1)
  <1>1. PICK t : t = s.pool.item[s.at]
    OBVIOUS
  <1>2. CASE Few(t.bucket)
    <2>1. SplitOne(s) = s
      BY <1>1, <1>2 DEF SplitOne
    <2> QED
      BY <1>1, <1>2, <2>1 DEF SplitInv
  <1>3. CASE ~Few(t.bucket)
    <2> DEFINE D == s.pool
               z == SplitOne(s)
    <2>1. /\ Core(D, ext, new) /\ P.used \subseteq D.used /\ i \in P.used
          /\ \A x \in P.used \ {i} : D.item[x] = P.item[x]
          /\ D.item[i].prefix = P.item[i].prefix
          /\ s.at \in D.used /\ (s.at \in P.used => s.at = i)
          /\ t.leaf /\ Cardinality(Keys(t.bucket)) <= LeafSize + 1 /\ X \subseteq P.used \ {i}
      BY <1>1 DEF SplitInv
    <2>2. /\ \A x \in D.used : x # s.at /\ (x \in P.used => x = i) => Few(D.item[x].bucket)
          /\ \A x \in D.used \ P.used : D.item[x].dirty /\ Len(D.item[x].prefix) > Len(P.item[i].prefix)
          /\ Places(D) >= 2 * (HashBits - Len(t.prefix)) /\ Len(t.prefix) >= m
      BY <1>1, <1>3 DEF SplitInv
    <2>3. PICK G : HoldsBut(D, G, X) /\ \A x \in P.used : G[x] = F[x]
      BY DEF SplitInv
    <2>4. D.used \subseteq Item /\ NodeOK(t) /\ HoldsAt(D, G, s.at) /\ X \subseteq D.used /\ s.at \notin X
      BY <1>1, <2>1, <2>3, CoreFacts DEF HoldsBut
    <2>5. PICK l, r : NodeHolds(t, G[s.at], l, r)
      BY <1>1, <2>4 DEF HoldsAt
    <2>6. t.child[1] = Null /\ t.child[2] = Null /\ Len(t.prefix) < HashBits /\ Len(t.prefix) \in Nat
      BY <1>3, <2>1, <2>4, <2>5, SplitPossible, ChildType DEF NodeHolds
    <2>7. HashBits \in Nat /\ Places(D) \in Int
      BY PlacesType, TreeAssumption
    <2>8. Places(D) >= 2
      BY <2>2, <2>6, <2>7
    <2>9. SplitAt(D, s.at, t)
      BY <1>1, <1>3, <2>1, <2>6, <2>8 DEF SplitAt
    <2>10. Core(z.pool, ext, new) /\ \E L, R : SplitDone(D, s.at, t, z, L, R)
      BY <2>1, <2>9, SplitPool
    <2>11. PICK L, R : SplitDone(D, s.at, t, z, L, R)
      BY <2>10
    <2> HIDE DEF z
    <2>12. \E H : HoldsBut(z.pool, H, X) /\ \A x \in P.used : H[x] = F[x]
      <3>1. PICK H : HoldsBut(z.pool, H, X) /\ \A x \in D.used : H[x] = G[x]
        BY <2>1, <2>3, <2>4, <2>9, <2>11, SplitHolds
      <3> QED
        BY <2>1, <2>3, <3>1
    <2> HIDE DEF D
    <2>13. /\ L \in Item \ D.used /\ R \in Item \ D.used /\ L # R /\ s.at # L /\ s.at # R
           /\ z.pool.used = D.used \cup {L, R}
           /\ IsInner(z.pool.item[s.at], t, L, R)
           /\ z.pool.item[L] = PartNode(t, Left) /\ z.pool.item[R] = PartNode(t, Right)
           /\ \A x \in D.used \ {s.at} : z.pool.item[x] = D.item[x]
      BY <2>11 DEF SplitDone
    <2>14. /\ z.at = IF Few(Part(t.bucket, t.prefix, Left)) THEN R ELSE L
           /\ Places(z.pool) = Places(D) - 2
      BY <2>11 DEF SplitDone
    <2>15. InnerFacts(z.pool.item[s.at], t, L, R)
      BY <2>4, <2>13, InnerOK
    <2>16. /\ z.pool.item[L].leaf /\ z.pool.item[L].dirty /\ z.pool.item[L].prefix = Append(t.prefix, Left)
           /\ z.pool.item[L].bucket = Part(t.bucket, t.prefix, Left)
      <3>1. PartFacts(t, Left, PartNode(t, Left))
        BY <2>4, PartIs
      <3> QED
        BY <2>13, <3>1 DEF PartFacts
    <2>17. /\ z.pool.item[R].leaf /\ z.pool.item[R].dirty /\ z.pool.item[R].prefix = Append(t.prefix, Right)
           /\ z.pool.item[R].bucket = Part(t.bucket, t.prefix, Right)
      <3>1. PartFacts(t, Right, PartNode(t, Right))
        BY <2>4, PartIs
      <3> QED
        BY <2>13, <3>1 DEF PartFacts
    <2>18. \A x \in P.used \ {i} : z.pool.item[x] = P.item[x]
      BY <2>1, <2>13
    <2>19. z.pool.item[i].prefix = P.item[i].prefix
      <3>1. i # s.at => z.pool.item[i] = D.item[i]
        BY <2>1, <2>13
      <3> QED
        BY <1>1, <2>1, <2>15, <3>1 DEF InnerFacts, D
    <2>20. z.at \in z.pool.used /\ z.at \notin P.used /\ z.pool.item[z.at].leaf
      BY <2>1, <2>13, <2>14, <2>16, <2>17
    <2>21. Cardinality(Keys(z.pool.item[z.at].bucket)) <= LeafSize + 1
      BY <2>1, <2>4, <2>6, <2>14, <2>16, <2>17, PartsFew
    <2>22. ASSUME NEW x \in z.pool.used, x # z.at, x \in P.used => x = i PROVE Few(z.pool.item[x].bucket)
      <3>1. CASE x = s.at
        <4>1. Cardinality(Keys(z.pool.item[x].bucket)) = 0 /\ LeafSize \in Nat
          BY <2>15, <3>1, TreeAssumption DEF InnerFacts
        <4> QED
          BY <4>1 DEF Few
      <3>2. CASE x = L \/ x = R
        BY <2>1, <2>4, <2>6, <2>14, <2>16, <2>17, <2>22, <3>2, PartsFew
      <3>3. CASE x # s.at /\ x # L /\ x # R
        BY <2>2, <2>13, <2>22, <3>3
      <3> QED
        BY <3>1, <3>2, <3>3
    <2>27. t.prefix \in Bits
      BY <2>4 DEF NodeOK
    <2>23. ASSUME NEW x \in z.pool.used \ P.used
           PROVE  z.pool.item[x].dirty /\ Len(z.pool.item[x].prefix) > Len(P.item[i].prefix)
      <3>1. CASE x = s.at
        <4>1. x \in D.used \ P.used
          BY <2>1, <2>23, <3>1
        <4> QED
          BY <1>1, <2>2, <2>15, <3>1, <4>1 DEF InnerFacts, D
      <3>2. CASE x = L \/ x = R
        <4>1. Len(z.pool.item[x].prefix) = Len(t.prefix) + 1
          BY <2>16, <2>17, <2>27, <3>2, BitsAppend
        <4>2. Len(P.item[i].prefix) <= Len(t.prefix) /\ Len(P.item[i].prefix) \in Nat
          <5>1. P.item[i].prefix = D.item[i].prefix /\ Len(D.item[i].prefix) \in Nat
            BY <2>1, <2>4, CoreFacts, ChildType
          <5>2. s.at = i \/ s.at \in D.used \ P.used
            BY <2>1
          <5>3. CASE s.at = i
            BY <1>1, <2>6, <5>1, <5>3 DEF D
          <5>4. CASE s.at \in D.used \ P.used
            <6>1. Len(t.prefix) > Len(P.item[i].prefix)
              BY <1>1, <2>2, <5>4 DEF D
            <6>2. Len(P.item[i].prefix) \in Nat
              BY <5>1
            <6> QED
              BY <2>6, <6>1, <6>2
          <5> QED
            BY <5>2, <5>3, <5>4
        <4> QED
          BY <2>6, <2>16, <2>17, <3>2, <4>1, <4>2
      <3>3. CASE x # s.at /\ x # L /\ x # R
        BY <2>2, <2>13, <3>3
      <3> QED
        BY <3>1, <3>2, <3>3
    <2>24. Len(z.pool.item[z.at].prefix) = Len(t.prefix) + 1
      <3>1. z.pool.item[z.at].prefix = Append(t.prefix, Left) \/ z.pool.item[z.at].prefix = Append(t.prefix, Right)
        BY <2>14, <2>16, <2>17
      <3>2. t.prefix \in Bits
        BY <2>4 DEF NodeOK
      <3> QED
        BY <3>1, <3>2, BitsAppend
    <2>25. Places(z.pool) >= 2 * (HashBits - Len(z.pool.item[z.at].prefix))
      BY <2>2, <2>6, <2>7, <2>14, <2>24
    <2>26. Len(z.pool.item[z.at].prefix) >= m + 1
      BY <2>2, <2>6, <2>24
    <2> QED
      BY <2>1, <2>10, <2>12, <2>13, <2>18, <2>19, <2>20, <2>21, <2>22, <2>23, <2>25, <2>26 DEF SplitInv, z
  <1> QED
    BY <1>2, <1>3

\* The states that a split runs through.
Splits(f, start, n) == f = [m \in 0 .. n |-> IF m = 0 THEN start ELSE SplitOne(f[m - 1])]

LEMMA SplitRuns ==
    ASSUME NEW start, NEW n \in Nat
    PROVE  \E f : Splits(f, start, n) /\ Steps(SplitOne, start, n) = f[n]
  <1> DEFINE A == {q \in Nat : \E f : Splits(f, start, q)}
  <1>1. 0 \in A
    <2>1. Splits([m \in 0 .. 0 |-> start], start, 0)
      BY DEF Splits
    <2> QED
      BY <2>1
  <1>2. ASSUME NEW q \in Nat, q \in A PROVE q + 1 \in A
    <2>1. PICK f : Splits(f, start, q)
      BY <1>2
    <2> DEFINE g == [m \in 0 .. q + 1 |-> IF m = q + 1 THEN SplitOne(f[q]) ELSE f[m]]
    <2>2. \A m \in 0 .. q : g[m] = f[m]
      OBVIOUS
    <2>3. ASSUME NEW m \in 0 .. q + 1 PROVE g[m] = IF m = 0 THEN start ELSE SplitOne(g[m - 1])
      <3>1. CASE m = q + 1
        BY <2>2, <3>1
      <3>2. CASE m # q + 1
        <4>1. m \in 0 .. q /\ (m # 0 => m - 1 \in 0 .. q)
          BY <3>2
        <4> HIDE DEF g
        <4> QED
          BY <2>1, <2>2, <4>1 DEF Splits
      <3> QED
        BY <3>1, <3>2
    <2>4. g = [m \in 0 .. q + 1 |-> g[m]]
      OBVIOUS
    <2> HIDE DEF g
    <2>5. Splits(g, start, q + 1)
      BY <2>3, <2>4 DEF Splits
    <2> QED
      BY <2>5
  <1> HIDE DEF A
  <1>3. n \in A
    BY <1>1, <1>2, AllNaturals
  <1>4. \E f : Splits(f, start, n)
    BY <1>3 DEF A
  <1> DEFINE after == CHOOSE f : Splits(f, start, n)
  <1>5. Splits(after, start, n)
    BY <1>4
  <1>6. Steps(SplitOne, start, n) = after[n]
    BY Zenon DEF Steps, Splits, after
  <1> HIDE DEF after
  <1> QED
    BY <1>5, <1>6

\* What a split of node i of P leaves.
SplitOut(P, i, F, X, ext, new, Q) ==
    /\ Core(Q, ext, new) /\ P.used \subseteq Q.used /\ i \in P.used
    /\ \A x \in P.used \ {i} : Q.item[x] = P.item[x]
    /\ Q.item[i].prefix = P.item[i].prefix
    /\ \A x \in Q.used : (x \in P.used => x = i) => Few(Q.item[x].bucket)
    /\ \A x \in Q.used \ P.used : Q.item[x].dirty /\ Len(Q.item[x].prefix) > Len(P.item[i].prefix)
    /\ \E G : HoldsBut(Q, G, X) /\ \A x \in P.used : G[x] = F[x]

LEMMA SplitRight ==
    ASSUME NEW P, NEW ext, NEW new, Core(P, ext, new), NEW F, NEW X, HoldsBut(P, F, X),
           NEW i \in P.used, X \subseteq P.used \ {i}, P.item[i].leaf,
           Cardinality(Keys(P.item[i].bucket)) <= LeafSize + 1,
           Places(P) >= 2 * (HashBits - Len(P.item[i].prefix))
    PROVE  SplitOut(P, i, F, X, ext, new, SplitNode(P, i))
  <1> DEFINE start == [pool |-> P, at |-> i]
  <1>1. HashBits \in Nat /\ HashBits + 1 \in Nat /\ P.used \subseteq Item /\ Len(P.item[i].prefix) \in Nat
    BY CoreFacts, ChildType, TreeAssumption
  <1>2. SplitInv(P, i, F, X, ext, new, start, 0)
    BY <1>1 DEF SplitInv
  <1>3. SplitNode(P, i) = Steps(SplitOne, start, HashBits + 1).pool
    BY DEF SplitNode
  <1> HIDE DEF start
  <1>4. PICK f : Splits(f, start, HashBits + 1) /\ Steps(SplitOne, start, HashBits + 1) = f[HashBits + 1]
    BY <1>1, SplitRuns
  <1> DEFINE A == {m \in Nat : m <= HashBits + 1 => SplitInv(P, i, F, X, ext, new, f[m], m)}
  <1>5. 0 \in A
    BY <1>1, <1>2, <1>4 DEF Splits
  <1>6. ASSUME NEW m \in Nat, m \in A PROVE m + 1 \in A
    <2> SUFFICES ASSUME m + 1 <= HashBits + 1 PROVE SplitInv(P, i, F, X, ext, new, f[m + 1], m + 1)
      OBVIOUS
    <2>1. m + 1 \in 0 .. HashBits + 1 /\ m + 1 # 0 /\ (m + 1) - 1 = m /\ m <= HashBits + 1
      BY <1>1
    <2>2. f[m + 1] = SplitOne(f[m])
      BY <1>4, <2>1 DEF Splits
    <2>3. SplitInv(P, i, F, X, ext, new, f[m], m)
      BY <1>6, <2>1
    <2> QED
      BY <2>2, <2>3, SplitStep
  <1> HIDE DEF A
  <1>7. HashBits + 1 \in A
    BY <1>1, <1>5, <1>6, AllNaturals
  <1>8. PICK s : s = f[HashBits + 1] /\ SplitInv(P, i, F, X, ext, new, s, HashBits + 1)
    BY <1>1, <1>7 DEF A
  <1>9. s.pool = SplitNode(P, i)
    BY <1>3, <1>4, <1>8
  <1>10. Few(s.pool.item[s.at].bucket)
    <2>1. PICK G : HoldsBut(s.pool, G, X)
      BY <1>8 DEF SplitInv
    <2>2. s.at \in s.pool.used /\ Core(s.pool, ext, new) /\ s.at \notin X
      BY <1>8 DEF SplitInv
    <2>3. HoldsAt(s.pool, G, s.at) /\ s.pool.used \subseteq Item /\ Len(s.pool.item[s.at].prefix) \in Nat
      BY <2>1, <2>2, CoreFacts, ChildType DEF HoldsBut
    <2>4. Len(s.pool.item[s.at].prefix) <= HashBits
      BY <2>3 DEF HoldsAt, NodeHolds
    <2>5. Few(s.pool.item[s.at].bucket) \/ Len(s.pool.item[s.at].prefix) >= HashBits + 1
      BY <1>8 DEF SplitInv
    <2> QED
      BY <1>1, <2>3, <2>4, <2>5
  <1>11. SplitOut(P, i, F, X, ext, new, s.pool)
    BY <1>8, <1>10 DEF SplitInv, SplitOut
  <1> QED
    BY <1>9, <1>11

-----------------------------------------------------------------------------
(* A pair is written or deleted in a leaf *)

WithBucket(n, B) == [n EXCEPT !.bucket = B]

\* What a write leaves of a set of pairs; the null value deletes.
Written(A, k, v) == IF v = Null THEN Only(A, Keys(A) \ {k}) ELSE With(A, k, v)

LEMMA WithBucketOK ==
    ASSUME NEW n, NodeOK(n), NEW B, IsBucket(B), NEW m, m = WithBucket(n, B)
    PROVE  /\ NodeOK(m) /\ m.bucket = B /\ m.leaf = n.leaf /\ m.dirty = n.dirty /\ m.prefix = n.prefix
           /\ m.child = n.child
  BY DEF NodeOK, IsBucket, WithBucket

LEMMA WrittenKeys ==
    ASSUME NEW A, IsBucket(A), NEW k \in Key, NEW v
    PROVE  /\ IsBucket(Written(A, k, v))
           /\ v = Null => /\ Keys(Written(A, k, v)) = Keys(A) \ {k}
                          /\ \A j \in Keys(A) \ {k} : Written(A, k, v)[j] = A[j]
           /\ v # Null => /\ Keys(Written(A, k, v)) = Keys(A) \cup {k} /\ Written(A, k, v)[k] = v
                          /\ \A j \in Keys(A) \ {k} : Written(A, k, v)[j] = A[j]
  <1>1. CASE v = Null
    BY <1>1 DEF Written, Only, Keys, IsBucket
  <1>2. CASE v # Null
    BY <1>2 DEF Written, With, Keys, IsBucket
  <1> QED
    BY <1>1, <1>2

\* map_put and map_delete: the bucket, and the pairs in use.
LEMMA MapRight ==
    ASSUME NEW P, NEW ext, NEW new, Core(P, ext, new), NEW i \in P.used, NEW k \in Key, NEW v \in Val \cup {Null},
           NEW Q, Q = (IF v = Null THEN MapDelete(P, i, k) ELSE MapPut(P, i, k, v))
    PROVE  Core(Q, ext, new) /\ Altered(P, Q, i, WithBucket(P.item[i], Written(P.item[i].bucket, k, v)))
  <1> DEFINE b == P.item[i].bucket
             B == Written(b, k, v)
             n == WithBucket(P.item[i], B)
  <1>1. PoolOK(P) /\ i \in Item /\ NodeOK(P.item[i]) /\ P.used \subseteq Item
    BY CoreFacts DEF Core
  <1>2. IsBucket(b) /\ Keys(b) \in SUBSET Key
    BY <1>1 DEF NodeOK, IsBucket, Keys
  <1>3. IsBucket(B)
    BY <1>2, WrittenKeys
  <1>4. NodeOK(n) /\ n.bucket = B /\ n.prefix = P.item[i].prefix /\ n.child = P.item[i].child
    BY <1>1, <1>3, WithBucketOK
  <1> DEFINE q == IF v = Null THEN (IF k \in Keys(b) THEN P.pairs - 1 ELSE P.pairs)
                  ELSE (IF k \in Keys(b) THEN P.pairs ELSE P.pairs + 1)
  <1>5. Q = [P EXCEPT !.item[i].bucket = B, !.pairs = q]
    <2>1. CASE v = Null
      BY <2>1 DEF MapDelete, Written
    <2>2. CASE v # Null
      BY <2>2 DEF MapPut, Written
    <2> QED
      BY <2>1, <2>2
  <1>6. IsFiniteSet(Keys(b)) /\ Cardinality(Keys(b)) \in Nat /\ P.pairs \in Int
    BY <1>1, <1>2, BucketFinite DEF PoolOK
  <1>7. q \in Int
    BY <1>6
  <1>8. q - Cardinality(Keys(B)) = P.pairs - Cardinality(Keys(b))
    <2>1. CASE k \in Keys(b) /\ v = Null
      <3>1. Keys(B) = Keys(b) \ {k}
        BY <1>2, <2>1, WrittenKeys
      <3>2. Cardinality(Keys(b) \ {k}) = Cardinality(Keys(b)) - 1
        BY <1>6, <2>1, FS_RemoveElement
      <3> QED
        BY <1>6, <2>1, <3>1, <3>2
    <2>2. CASE k \notin Keys(b) /\ v = Null
      <3>2. Keys(B) = Keys(b) \ {k}
        BY <1>2, <2>2, WrittenKeys
      <3>3. Keys(b) \ {k} = Keys(b)
        BY <2>2
      <3>1. Keys(B) = Keys(b)
        BY <3>2, <3>3
      <3> QED
        BY <2>2, <3>1
    <2>3. CASE k \in Keys(b) /\ v # Null
      <3>2. Keys(B) = Keys(b) \cup {k}
        BY <1>2, <2>3, WrittenKeys
      <3>3. Keys(b) \cup {k} = Keys(b)
        BY <2>3
      <3>1. Keys(B) = Keys(b)
        BY <3>2, <3>3
      <3> QED
        BY <2>3, <3>1
    <2>4. CASE k \notin Keys(b) /\ v # Null
      <3>1. Keys(B) = Keys(b) \cup {k}
        BY <1>2, <2>4, WrittenKeys
      <3>2. Cardinality(Keys(b) \cup {k}) = Cardinality(Keys(b)) + 1
        BY <1>6, <2>4, FS_AddElement
      <3> QED
        BY <1>6, <2>4, <3>1, <3>2
    <2> QED
      BY <2>1, <2>2, <2>3, <2>4
  <1> HIDE DEF q, B
  <1>9. Q = Placed(P, i, n, q)
    BY <1>1, <1>5 DEF Placed, WithBucket, PoolOK
  <1> HIDE DEF n
  <1>10. /\ PoolShaped(Q) /\ Q.used = P.used /\ Q.refcnt = P.refcnt /\ Q.item = [P.item EXCEPT ![i] = n]
         /\ Q.pairs = q
    BY <1>1, <1>7, <1>9, PlacedOK
  <1>11. Alters(P, Q, i, n)
    BY <1>4, <1>8, <1>10 DEF Alters
  <1> QED
    BY <1>11, CoreNode DEF n, B

LEMMA DirtyRight ==
    ASSUME NEW P, NEW ext, NEW new, Core(P, ext, new), NEW i \in P.used,
           NEW Q, Q = [P EXCEPT !.item[i].dirty = TRUE]
    PROVE  Core(Q, ext, new) /\ Altered(P, Q, i, Dirtied(P.item[i]))
  <1> DEFINE n == Dirtied(P.item[i])
  <1>1. PoolOK(P) /\ i \in Item /\ NodeOK(P.item[i]) /\ P.pairs \in Int
    BY CoreFacts DEF Core, PoolOK
  <1>2. NodeOK(n) /\ n.bucket = P.item[i].bucket /\ n.prefix = P.item[i].prefix /\ n.child = P.item[i].child
    BY <1>1, DirtiedOK
  <1>3. Q = Placed(P, i, n, P.pairs)
    BY <1>1 DEF Placed, Dirtied, PoolOK
  <1>6. PICK q \in Int : q = P.pairs
    BY <1>1
  <1> HIDE DEF n
  <1>7. Q = Placed(P, i, n, q)
    BY <1>3, <1>6
  <1>4. /\ PoolShaped(Q) /\ Q.used = P.used /\ Q.refcnt = P.refcnt /\ Q.item = [P.item EXCEPT ![i] = n]
        /\ Q.pairs = P.pairs
    BY <1>1, <1>6, <1>7 DEF Placed, PoolOK, PoolShaped
  <1>5. Alters(P, Q, i, n)
    BY <1>2, <1>4 DEF Alters
  <1> QED
    BY <1>5, CoreNode DEF n

LEMMA DirtySame ==
    ASSUME NEW n, NodeOK(n)
    PROVE  SameNode(n, Dirtied(n)) /\ Dirtied(n).dirty = TRUE
  BY DirtiedOK DEF SameNode

\* The leaf that is written holds what it did, and what is written.
LEMMA WrittenHolds ==
    ASSUME NEW n, NodeOK(n), NEW A, NEW l, NEW r, NodeHolds(n, A, l, r), NEW k \in Key, Agrees(k, n.prefix),
           NEW v \in Val \cup {Null}, NEW l2, NEW r2,
           NEW m, n.leaf => m = WithBucket(n, Written(A, k, v)), ~n.leaf => SameNode(n, m),
           ~n.leaf => /\ l2 = Part(Written(A, k, v), n.prefix, Left)
                      /\ r2 = Part(Written(A, k, v), n.prefix, Right)
    PROVE  NodeHolds(m, Written(A, k, v), l2, r2)
  <1> DEFINE B == Written(A, k, v)
  <1>1. IsBucket(A) /\ \A j \in Keys(A) : Agrees(j, n.prefix) /\ A[j] \in Val
    BY DEF NodeHolds
  <1>2. /\ IsBucket(B)
        /\ v = Null => /\ Keys(B) = Keys(A) \ {k}
                       /\ \A j \in Keys(A) \ {k} : B[j] = A[j]
        /\ v # Null => /\ Keys(B) = Keys(A) \cup {k} /\ B[k] = v
                       /\ \A j \in Keys(A) \ {k} : B[j] = A[j]
    BY <1>1, WrittenKeys
  <1> HIDE DEF B
  <1>3. \A j \in Keys(B) : Agrees(j, n.prefix) /\ B[j] \in Val
    <2>1. CASE v = Null
      BY <1>1, <1>2, <2>1
    <2>2. CASE v # Null
      BY <1>1, <1>2, <2>2
    <2> QED
      BY <2>1, <2>2
  <1>4. CASE n.leaf
    <2>2. m = WithBucket(n, B)
      BY <1>4 DEF B
    <2>1. m.leaf = n.leaf /\ m.prefix = n.prefix /\ m.child = n.child /\ m.bucket = B
      BY <1>2, <2>2, WithBucketOK
    <2> QED
      BY <1>2, <1>3, <1>4, <2>1 DEF NodeHolds, B
  <1>5. CASE ~n.leaf
    BY <1>2, <1>3, <1>5 DEF NodeHolds, SameNode, B
  <1> QED
    BY <1>4, <1>5

LEMMA WrittenFew ==
    ASSUME NEW A, IsBucket(A), Few(A), NEW k \in Key, NEW v
    PROVE  /\ Cardinality(Keys(Written(A, k, v))) <= LeafSize + 1
           /\ v = Null => Few(Written(A, k, v))
  <1>1. Keys(A) \in SUBSET Key /\ LeafSize \in Nat
    BY TreeAssumption DEF IsBucket, Keys
  <1>2. IsFiniteSet(Keys(A)) /\ Cardinality(Keys(A)) \in Nat /\ Cardinality(Keys(A)) <= LeafSize
    BY <1>1, BucketFinite DEF Few
  <1>3. CASE v = Null
    <2>1. Keys(Written(A, k, v)) = Keys(A) \ {k}
      BY <1>3, WrittenKeys
    <2>2. Cardinality(Keys(A) \ {k}) <= Cardinality(Keys(A)) /\ Cardinality(Keys(A) \ {k}) \in Nat
      <3>1. Keys(A) \ {k} \subseteq Keys(A)
        OBVIOUS
      <3> QED
        BY <1>2, <3>1, FS_Subset, FS_CardinalityType
    <2> QED
      BY <1>1, <1>2, <2>1, <2>2 DEF Few
  <1>4. CASE v # Null
    <2>1. Keys(Written(A, k, v)) = Keys(A) \cup {k}
      BY <1>4, WrittenKeys
    <2>2. Cardinality(Keys(A) \cup {k}) = IF k \in Keys(A) THEN Cardinality(Keys(A)) ELSE Cardinality(Keys(A)) + 1
      BY <1>2, FS_AddElement
    <2> QED
      BY <1>1, <1>2, <1>4, <2>1, <2>2
  <1> QED
    BY <1>3, <1>4

\* What writing at leaf i of P leaves.
LeafOut(P, i, k, v, F, ext, new, Q) ==
    /\ Core(Q, ext, new) /\ P.used \subseteq Q.used /\ i \in P.used
    /\ \A x \in P.used \ {i} : Q.item[x] = P.item[x]
    /\ Q.item[i].prefix = P.item[i].prefix
    /\ \A x \in Q.used : (x \in P.used => x = i) => Few(Q.item[x].bucket) /\ Q.item[x].dirty
    /\ \A x \in Q.used \ P.used : Len(Q.item[x].prefix) > Len(P.item[i].prefix)
    /\ \E G : /\ HoldsBut(Q, G, P.used \ {i}) /\ G[i] = Written(F[i], k, v)
              /\ \A x \in P.used \ {i} : G[x] = F[x]

LEMMA WriteLeafRight ==
    ASSUME NEW P, NEW ext, NEW new, Core(P, ext, new), NEW i \in P.used, NEW F, HoldsAt(P, F, i), P.item[i].leaf,
           Few(P.item[i].bucket), NEW k \in Key, Agrees(k, P.item[i].prefix), NEW v \in Val \cup {Null},
           Places(P) >= 2 * HashBits
    PROVE  LeafOut(P, i, k, v, F, ext, new, WriteLeaf(P, i, k, v))
  <1> DEFINE M == IF v = Null THEN MapDelete(P, i, k) ELSE MapPut(P, i, k, v)
             S == IF v = Null THEN MapDelete(P, i, k) ELSE SplitNode(MapPut(P, i, k, v), i)
             Q == WriteLeaf(P, i, k, v)
             X == P.used \ {i}
             B == Written(F[i], k, v)
             G == [x \in Item |-> IF x = i THEN B ELSE F[x]]
             t == P.item[i]
  <1>1. P.used \subseteq Item /\ i \in Item /\ NodeOK(t) /\ t.prefix \in Bits /\ Len(t.prefix) \in Nat
        /\ HashBits \in Nat /\ Places(P) \in Nat
    BY CoreFacts, ChildType, PlacesType, TreeAssumption
  <1>2. NodeHolds(t, F[i], F[t.child[1]], F[t.child[2]])
    BY DEF HoldsAt
  <1>3. F[i] = t.bucket /\ IsBucket(F[i])
    BY <1>2 DEF NodeHolds
  <1>4. Q = [S EXCEPT !.item[i].dirty = TRUE]
    BY DEF WriteLeaf
  <1>5. S = IF v = Null THEN M ELSE SplitNode(M, i)
    OBVIOUS
  <1>6. Core(M, ext, new) /\ Altered(P, M, i, WithBucket(t, B))
    BY <1>3, MapRight
  <1> HIDE DEF M, S, Q, B
  <1>7. M.used = P.used /\ M.item[i] = WithBucket(t, B) /\ \A x \in Item \ {i} : M.item[x] = P.item[x]
    BY <1>6 DEF Altered
  <1>8. IsBucket(B) /\ Cardinality(Keys(B)) <= LeafSize + 1 /\ (v = Null => Few(B))
    BY <1>3, WrittenKeys, WrittenFew DEF B
  <1>9. /\ M.item[i].prefix = t.prefix /\ M.item[i].leaf /\ M.item[i].bucket = B
        /\ M.item[i].child = t.child
    BY <1>1, <1>7, <1>8, WithBucketOK
  <1>10. G[i] = B /\ \A x \in P.used \ {i} : G[x] = F[x]
    BY <1>1
  <1> HIDE DEF G
  <1>11. HoldsAt(M, G, i)
    <2>1. NodeHolds(M.item[i], B, G[M.item[i].child[1]], G[M.item[i].child[2]])
      BY <1>1, <1>2, <1>7, WrittenHolds DEF B
    <2> QED
      BY <1>10, <2>1 DEF HoldsAt
  <1>12. HoldsBut(M, G, X)
    BY <1>7, <1>11 DEF HoldsBut
  <1>13. SplitOut(M, i, G, X, ext, new, S)
    <2>1. CASE v = Null
      <3>1. S = M
        BY <1>5, <2>1
      <3>2. \A x \in M.used : (x \in M.used => x = i) => Few(M.item[x].bucket)
        BY <1>8, <1>9, <2>1
      <3> QED
        BY <1>6, <1>7, <1>12, <3>1, <3>2 DEF SplitOut
    <2>2. CASE v # Null
      <3>1. S = SplitNode(M, i)
        BY <1>5, <2>2
      <3>2. Places(M) >= 2 * (HashBits - Len(M.item[i].prefix))
        <4>1. Places(M) = Places(P)
          BY <1>7 DEF Places
        <4> QED
          BY <1>1, <1>9, <4>1
      <3>3. i \in M.used /\ X \subseteq M.used \ {i}
        BY <1>7
      <3>4. Cardinality(Keys(M.item[i].bucket)) <= LeafSize + 1
        BY <1>8, <1>9
      <3> QED
        BY <1>6, <1>9, <1>12, <3>1, <3>2, <3>3, <3>4, SplitRight
    <2> QED
      BY <2>1, <2>2
  <1>14. /\ Core(S, ext, new) /\ P.used \subseteq S.used /\ i \in S.used
         /\ \A x \in P.used \ {i} : S.item[x] = P.item[x]
         /\ S.item[i].prefix = t.prefix
         /\ \A x \in S.used : (x \in P.used => x = i) => Few(S.item[x].bucket)
         /\ \A x \in S.used \ P.used : S.item[x].dirty /\ Len(S.item[x].prefix) > Len(t.prefix)
    BY <1>1, <1>7, <1>9, <1>13 DEF SplitOut
  <1>15. PICK H : HoldsBut(S, H, X) /\ \A x \in P.used : H[x] = G[x]
    BY <1>7, <1>13 DEF SplitOut
  <1>16. Core(Q, ext, new) /\ Altered(S, Q, i, Dirtied(S.item[i]))
    BY <1>4, <1>14, DirtyRight
  <1>17. /\ Q.used = S.used /\ Q.item[i] = Dirtied(S.item[i]) /\ \A x \in Item \ {i} : Q.item[x] = S.item[x]
         /\ S.used \subseteq Item /\ NodeOK(S.item[i])
    BY <1>1, <1>14, <1>16, CoreFacts DEF Altered
  <1>18. \A x \in S.used : SameNode(S.item[x], Q.item[x])
    <2>1. SameNode(S.item[i], Q.item[i])
      BY <1>17, DirtySame
    <2> QED
      BY <1>17, <2>1 DEF SameNode
  <1>19. HoldsBut(Q, H, X)
    <2> SUFFICES ASSUME NEW x \in Q.used \ X PROVE HoldsAt(Q, H, x)
      BY DEF HoldsBut
    <2>1. HoldsAt(S, H, x) /\ SameNode(S.item[x], Q.item[x])
      BY <1>15, <1>17, <1>18 DEF HoldsBut
    <2> QED
      BY <2>1, HoldsKept
  <1>20. H[i] = B /\ \A x \in P.used \ {i} : H[x] = F[x]
    BY <1>10, <1>15
  <1>21. \A x \in P.used \ {i} : Q.item[x] = P.item[x]
    BY <1>1, <1>14, <1>17
  <1>22. Q.item[i].dirty /\ Q.item[i].prefix = t.prefix
    BY <1>14, <1>17, <1>18, DirtySame DEF SameNode
  <1>23. \A x \in Q.used : (x \in P.used => x = i) => Few(Q.item[x].bucket) /\ Q.item[x].dirty
    <2> SUFFICES ASSUME NEW x \in Q.used, x \in P.used => x = i PROVE Few(Q.item[x].bucket) /\ Q.item[x].dirty
      OBVIOUS
    <2>1. Few(S.item[x].bucket) /\ SameNode(S.item[x], Q.item[x])
      BY <1>14, <1>17, <1>18
    <2>2. Q.item[x].dirty
      BY <1>14, <1>17, <1>22
    <2> QED
      BY <2>1, <2>2 DEF SameNode
  <1>24. P.used \subseteq Q.used /\ i \in P.used /\ HoldsBut(Q, H, P.used \ {i}) /\ H[i] = Written(F[i], k, v)
    BY <1>14, <1>17, <1>19, <1>20 DEF B
  <1>25. \A x \in Q.used \ P.used : Len(Q.item[x].prefix) > Len(P.item[i].prefix)
    BY <1>14, <1>17
  <1> QED
    BY <1>16, <1>20, <1>21, <1>22, <1>23, <1>24, <1>25 DEF LeafOut, Q

-----------------------------------------------------------------------------
(* The way down: every node of the path is the writer's own *)

LEMMA TwoEdges ==
    ASSUME NEW P, P.used \subseteq Item, NEW j1 \in P.used, NEW j2 \in P.used, j1 # j2,
           NEW s1 \in {1, 2}, NEW s2 \in {1, 2}, NEW i,
           P.item[j1].child[s1] = i, P.item[j2].child[s2] = i
    PROVE  Edges(P, i) >= 2
  <1> DEFINE a == <<j1, s1>>
             b == <<j2, s2>>
  <1>1. a \in EdgeSet(P, i) /\ b \in EdgeSet(P, i) /\ a # b
    BY DEF EdgeSet
  <1>2. IsFiniteSet(EdgeSet(P, i)) /\ Edges(P, i) = Cardinality(EdgeSet(P, i)) /\ Edges(P, i) \in Nat
    BY EdgesFinite
  <1> HIDE DEF a, b
  <1>3. Cardinality({a, b}) = 2
    <2>1. Cardinality({a}) = 1 /\ IsFiniteSet({a}) /\ b \notin {a}
      BY <1>1, FS_Singleton
    <2>2. Cardinality({a} \cup {b}) = Cardinality({a}) + 1
      BY <2>1, FS_AddElement
    <2>3. {a} \cup {b} = {a, b}
      OBVIOUS
    <2> QED
      BY <2>1, <2>2, <2>3
  <1>4. {a, b} \subseteq EdgeSet(P, i)
    BY <1>1
  <1>5. Cardinality({a, b}) <= Cardinality(EdgeSet(P, i))
    BY <1>2, <1>4, FS_Subset
  <1> QED
    BY <1>2, <1>3, <1>5

\* Node d of the path p is node o[d] of the tree, or a copy of it; as long as
\* nothing is shared, nothing is copied.
TrailAt(P, D, k, r, p, o, d) ==
    /\ o[d] \in P.used /\ p[d] \in D.used
    /\ Len(P.item[o[d]].prefix) = d - 1 /\ Agrees(k, P.item[o[d]].prefix)
    /\ p[d] \in P.used => p[d] = o[d] /\ P.refcnt[o[d]] <= 1
    /\ p[d] \notin P.used => D.item[p[d]] = Dirtied(P.item[o[d]])
    /\ d = 1 => o[d] = r
    /\ d > 1 => /\ ~P.item[o[d - 1]].leaf /\ o[d] = NextFor(P, o[d - 1], k)
                /\ p[d] \in P.used => p[d - 1] \in P.used

Trail(P, D, k, r, p, o) ==
    /\ p \in Seq(Item) /\ o \in Seq(Item) /\ Len(o) = Len(p)
    /\ \A d \in 1 .. Len(p) : TrailAt(P, D, k, r, p, o, d)

\* On the way down from root r of P.
DescendInv(P, k, r, ext, s, o) ==
    /\ P.refcnt \in [Item -> Nat]
    /\ Core(s.pool, ext, s.pool.used \ P.used) /\ P.used \subseteq s.pool.used
    /\ \A x \in P.used : s.pool.item[x] = P.item[x] /\ s.pool.refcnt[x] >= P.refcnt[x]
    /\ Trail(P, s.pool, k, r, s.path, o)
    /\ \A x \in s.pool.used \ P.used : \E d \in 1 .. Len(s.path) : x = s.path[d]
    /\ Places(s.pool) >= Places(P) - Len(s.path)

\* Node i comes next.
IsNext(P, k, r, s, o, i) ==
    LET n == Len(s.path)
    IN  /\ i \in P.used /\ Len(P.item[i].prefix) = n /\ Agrees(k, P.item[i].prefix)
        /\ n = 0 => i = r
        /\ n > 0 => ~P.item[o[n]].leaf /\ i = NextFor(P, o[n], k) /\ Side(k, P.item[o[n]].prefix) \in {Left, Right}

\* A child of a node that was copied is shared.
LEMMA SharedChild ==
    ASSUME NEW P, NEW k, NEW r, NEW ext, NEW s, NEW o, DescendInv(P, k, r, ext, s, o), NEW i, IsNext(P, k, r, s, o, i),
           Len(s.path) > 0, s.path[Len(s.path)] \notin P.used
    PROVE  s.pool.refcnt[i] >= 2
  <1> DEFINE D == s.pool
             n == Len(s.path)
             a == o[n]
             b == s.path[n]
  <1>1. Core(D, ext, D.used \ P.used) /\ P.used \subseteq D.used /\ \A x \in P.used : D.item[x] = P.item[x]
    BY DEF DescendInv
  <1>2. D.used \subseteq Item
    BY <1>1, CoreFacts
  <1>3. s.path \in Seq(Item) /\ n \in 1 .. n /\ TrailAt(P, D, k, r, s.path, o, n)
    BY DEF DescendInv, Trail
  <1>4. a \in P.used /\ b \in D.used /\ b \notin P.used /\ D.item[b] = Dirtied(P.item[a])
    BY <1>3 DEF TrailAt
  <1>5. PICK c \in {1, 2} : i = P.item[a].child[c]
    BY DEF IsNext, NextFor, Left, Right
  <1>6. i \in P.used
    BY DEF IsNext
  <1> HIDE DEF D, a, b
  <1>7. D.item[b].child[c] = i /\ D.item[a].child[c] = i
    <2>1. NodeOK(P.item[a])
      BY <1>1, <1>2, <1>4, CoreFacts
    <2> QED
      <3>1. PICK y, m : y = P.item[a] /\ m = Dirtied(y)
        OBVIOUS
      <3>2. NodeOK(y)
        BY <2>1, <3>1
      <3>3. m.child = y.child
        BY <3>1, <3>2, DirtiedOK
      <3> QED
        BY <1>1, <1>4, <1>5, <3>1, <3>3
  <1>8. Edges(D, i) >= 2
    BY <1>1, <1>2, <1>4, <1>7, TwoEdges
  <1>9. i \in Item /\ Edges(D, i) \in Nat /\ ext[i] \in Nat /\ D.refcnt[i] = Edges(D, i) + ext[i]
    BY <1>1, <1>2, <1>6, CoreFacts
  <1> QED
    BY <1>8, <1>9 DEF D

\* The path grows by a node.
LEMMA TrailGrows ==
    ASSUME NEW P, NEW D, NEW Q, NEW k, NEW r, NEW p, NEW o, Trail(P, D, k, r, p, o), NEW x \in Item, NEW i \in Item,
           D.used \subseteq Q.used, P.used \subseteq D.used, \A y \in D.used : Q.item[y] = D.item[y],
           TrailAt(P, Q, k, r, Append(p, x), Append(o, i), Len(p) + 1)
    PROVE  Trail(P, Q, k, r, Append(p, x), Append(o, i))
  <1> DEFINE n == Len(p)
             p2 == Append(p, x)
             o2 == Append(o, i)
  <1>1. p \in Seq(Item) /\ o \in Seq(Item) /\ Len(o) = n /\ n \in Nat
    BY DEF Trail
  <1>2. p2 \in Seq(Item) /\ o2 \in Seq(Item) /\ Len(p2) = n + 1 /\ Len(o2) = n + 1
    BY <1>1
  <1>3. \A d \in 1 .. n : p2[d] = p[d] /\ o2[d] = o[d]
    BY <1>1
  <1> HIDE DEF p2, o2, n
  <1>4. ASSUME NEW d \in 1 .. n PROVE TrailAt(P, Q, k, r, p2, o2, d)
    <2>1. TrailAt(P, D, k, r, p, o, d)
      BY DEF Trail, n
    <2>2. d > 1 => d - 1 \in 1 .. n
      BY <1>1
    <2>3. p2[d] = p[d] /\ o2[d] = o[d] /\ (d > 1 => p2[d - 1] = p[d - 1] /\ o2[d - 1] = o[d - 1])
      BY <1>3, <2>2
    <2> QED
      BY <2>1, <2>3 DEF TrailAt
  <1>5. \A d \in 1 .. n + 1 : d \in 1 .. n \/ d = n + 1
    BY <1>1
  <1>6. \A d \in 1 .. Len(p2) : TrailAt(P, Q, k, r, p2, o2, d)
    BY <1>2, <1>4, <1>5 DEF n, p2, o2
  <1> QED
    BY <1>1, <1>2, <1>6 DEF Trail, p2, o2

LEMMA EnterRight ==
    ASSUME NEW P, NEW k, NEW r, NEW ext, NEW s, NEW o, DescendInv(P, k, r, ext, s, o), NEW i, IsNext(P, k, r, s, o, i),
           Places(s.pool) > 0
    PROVE  DescendInv(P, k, r, ext, Enter(s, i), Append(o, i)) /\ Len(Enter(s, i).path) = Len(s.path) + 1
  <1> DEFINE D == s.pool
             p == s.path
             n == Len(p)
             own == ForkForWrite(D, i)
             Q == own.pool
             x == own.id
             p2 == Append(p, x)
             o2 == Append(o, i)
  <1>1. /\ Core(D, ext, D.used \ P.used) /\ P.used \subseteq D.used
        /\ \A y \in P.used : D.item[y] = P.item[y] /\ D.refcnt[y] >= P.refcnt[y]
        /\ Trail(P, D, k, r, p, o)
        /\ \A y \in D.used \ P.used : \E d \in 1 .. n : y = p[d]
        /\ Places(D) >= Places(P) - n
    BY DEF DescendInv
  <1>2. /\ i \in P.used /\ Len(P.item[i].prefix) = n /\ Agrees(k, P.item[i].prefix)
        /\ n = 0 => i = r
        /\ n > 0 => ~P.item[o[n]].leaf /\ i = NextFor(P, o[n], k)
    BY DEF IsNext
  <1>3. D.used \subseteq Item /\ D.refcnt \in [Item -> Nat] /\ i \in Item /\ i \in D.used
    BY <1>1, <1>2, CoreFacts
  <1>4. p \in Seq(Item) /\ o \in Seq(Item) /\ Len(o) = n /\ n \in Nat
    BY <1>1 DEF Trail
  <1>5. Enter(s, i) = [pool |-> Q, path |-> p2]
    BY DEF Enter
  <1>6. n > 0 /\ p[n] \notin P.used => D.refcnt[i] >= 2
    BY SharedChild
  <1>7. o2[n + 1] = i /\ p2[n + 1] = x /\ (n > 0 => o2[n] = o[n] /\ p2[n] = p[n]) /\ Len(p2) = n + 1
        /\ \A d \in 1 .. n : p2[d] = p[d]
    BY <1>4
  <1>8. Places(P) \in Nat /\ Places(D) \in Nat /\ Places(Q) \in Nat
    BY PlacesType
  <1>10. P.refcnt \in [Item -> Nat]
    BY DEF DescendInv
  <1>9. ASSUME x \in Item, D.used \subseteq Q.used, \A y \in D.used : Q.item[y] = D.item[y],
               \A y \in D.used : Q.refcnt[y] >= D.refcnt[y], Core(Q, ext, Q.used \ P.used),
               \A y \in Q.used \ P.used : y \in D.used \/ y = x, Places(Q) >= Places(D) - 1,
               TrailAt(P, Q, k, r, p2, o2, n + 1)
        PROVE  DescendInv(P, k, r, ext, Enter(s, i), o2)
    <2> HIDE DEF D, own, x, Q
    <2>1. Trail(P, Q, k, r, p2, o2)
      BY <1>1, <1>3, <1>9, TrailGrows
    <2>2. P.used \subseteq Q.used /\ \A y \in P.used : Q.item[y] = P.item[y]
      BY <1>1, <1>9
    <2>3. ASSUME NEW y \in P.used PROVE Q.refcnt[y] >= P.refcnt[y]
      <3>1. Q.refcnt[y] >= D.refcnt[y] /\ D.refcnt[y] >= P.refcnt[y] /\ y \in Item
        BY <1>1, <1>3, <1>9
      <3>2. Q.refcnt[y] \in Nat /\ D.refcnt[y] \in Nat /\ P.refcnt[y] \in Nat
        BY <1>3, <1>9, <1>10, <3>1, CoreFacts
      <3> QED
        BY <3>1, <3>2
    <2>4. \A y \in Q.used \ P.used : \E d \in 1 .. n + 1 : y = p2[d]
      <3> SUFFICES ASSUME NEW y \in Q.used \ P.used PROVE \E d \in 1 .. n + 1 : y = p2[d]
        OBVIOUS
      <3>1. CASE y \in D.used
        <4>1. PICK d \in 1 .. n : y = p[d]
          BY <1>1, <3>1
        <4>2. d \in 1 .. n + 1 /\ y = p2[d]
          BY <1>4, <1>7, <4>1
        <4> QED
          BY <4>2
      <3>2. CASE y = x
        <4>1. n + 1 \in 1 .. n + 1
          BY <1>4
        <4> QED
          BY <1>7, <3>2, <4>1
      <3> QED
        BY <1>9, <3>1, <3>2
    <2>5. Places(Q) >= Places(P) - (n + 1)
      BY <1>1, <1>4, <1>8, <1>9
    <2>6. Enter(s, i).pool = Q /\ Enter(s, i).path = p2
      BY <1>5
    <2> HIDE DEF p2, o2
    <2> QED
      BY <1>7, <1>9, <1>10, <2>1, <2>2, <2>3, <2>4, <2>5, <2>6 DEF DescendInv
  <1>11. ASSUME x \in P.used => x = i /\ P.refcnt[i] <= 1 /\ (n > 0 => p[n] \in P.used),
                x \notin P.used => Q.item[x] = Dirtied(P.item[i]), x \in Q.used
         PROVE  TrailAt(P, Q, k, r, p2, o2, n + 1)
    <2> HIDE DEF D, own, x, Q, p2, o2
    <2>1. (n + 1) - 1 = n /\ (n + 1 > 1 <=> n > 0) /\ (n + 1 = 1 <=> n = 0)
      BY <1>4
    <2> QED
      BY <1>2, <1>7, <1>11, <2>1 DEF TrailAt
  <1>12. Len(Enter(s, i).path) = n + 1
    BY <1>5, <1>7
  <1>13. CASE D.refcnt[i] <= 1
    <2>1. x = i /\ Q = D
      BY <1>13 DEF ForkForWrite
    <2>2. n > 0 => p[n] \in P.used
      <3>1. D.refcnt[i] \in Nat
        BY <1>3
      <3> QED
        BY <1>6, <1>13, <3>1
    <2>3. P.refcnt[i] <= 1
      <3>1. D.refcnt[i] \in Nat /\ P.refcnt[i] \in Nat /\ D.refcnt[i] >= P.refcnt[i]
        BY <1>1, <1>2, <1>3, <1>10
      <3> QED
        BY <1>13, <3>1
    <2> HIDE DEF D, own, x, Q, p2, o2
    <2>4. TrailAt(P, Q, k, r, p2, o2, n + 1)
      BY <1>2, <1>3, <1>11, <2>1, <2>2, <2>3
    <2>5. \A y \in D.used : Q.refcnt[y] >= D.refcnt[y]
      BY <1>3, <2>1
    <2>6. Places(Q) >= Places(D) - 1
      BY <1>8, <2>1
    <2>7. Core(Q, ext, Q.used \ P.used)
      BY <1>1, <2>1
    <2>8. DescendInv(P, k, r, ext, Enter(s, i), o2)
      BY <1>3, <1>9, <2>1, <2>4, <2>5, <2>6, <2>7
    <2> QED
      BY <1>12, <2>8 DEF o2
  <1>14. CASE ~(D.refcnt[i] <= 1)
    <2>1. x = FreeItem(D) /\ Q = CloneForFork(D, i)
      BY <1>14 DEF ForkForWrite
    <2>2. /\ x \in Item \ D.used /\ Core(Q, ext, (D.used \ P.used) \cup {x}) /\ Q.used = D.used \cup {x}
          /\ Q.item[x] = Dirtied(D.item[i]) /\ \A y \in Item \ {x} : Q.item[y] = D.item[y]
          /\ \A y \in Item : Q.refcnt[y] >= D.refcnt[y]
          /\ Places(Q) = Places(D) - 1
      <3> DEFINE f == FreeItem(D)
                 C == CloneForFork(D, i)
      <3>1. Places(D) > 0 /\ Core(D, ext, D.used \ P.used) /\ i \in D.used
        BY <1>1, <1>3
      <3> HIDE DEF D
      <3>2. /\ f \in Item \ D.used /\ Core(C, ext, (D.used \ P.used) \cup {f}) /\ C.used = D.used \cup {f}
            /\ C.item[f] = Dirtied(D.item[i]) /\ \A y \in Item \ {f} : C.item[y] = D.item[y]
            /\ \A y \in Item : C.refcnt[y] >= D.refcnt[y]
            /\ Places(C) = Places(D) - 1
        BY <3>1, CloneRight
      <3>3. x = f /\ Q = C
        BY <2>1
      <3> HIDE DEF f, C, x, Q
      <3> QED
        BY <3>2, <3>3
    <2> HIDE DEF D, own, x, Q, p2, o2
    <2>3. (D.used \ P.used) \cup {x} = Q.used \ P.used
      BY <1>1, <2>2
    <2>4. TrailAt(P, Q, k, r, p2, o2, n + 1)
      BY <1>1, <1>2, <1>11, <2>2
    <2>5. Core(Q, ext, Q.used \ P.used)
      BY <2>2, <2>3
    <2>6. DescendInv(P, k, r, ext, Enter(s, i), o2)
      BY <1>3, <1>8, <1>9, <2>2, <2>4, <2>5
    <2> QED
      BY <1>12, <2>6 DEF o2
  <1> QED
    BY <1>13, <1>14

\* The states that the way down runs through.
Descends(f, P, r, k, n) == f = [m \in 0 .. n |-> IF m = 0 THEN Enter([pool |-> P, path |-> <<>>], r) ELSE EnterNext(f[m - 1], k)]

LEMMA DescendRuns ==
    ASSUME NEW P, NEW r, NEW k
    PROVE  \E f : Descends(f, P, r, k, HashBits) /\ Descend(P, r, k) = f[HashBits]
  <1> DEFINE A == {q \in Nat : \E f : Descends(f, P, r, k, q)}
  <1>1. 0 \in A
    <2>1. Descends([m \in 0 .. 0 |-> Enter([pool |-> P, path |-> <<>>], r)], P, r, k, 0)
      BY DEF Descends
    <2> QED
      BY <2>1
  <1>2. ASSUME NEW q \in Nat, q \in A PROVE q + 1 \in A
    <2>1. PICK f : Descends(f, P, r, k, q)
      BY <1>2
    <2> DEFINE g == [m \in 0 .. q + 1 |-> IF m = q + 1 THEN EnterNext(f[q], k) ELSE f[m]]
    <2>2. \A m \in 0 .. q : g[m] = f[m]
      OBVIOUS
    <2>3. ASSUME NEW m \in 0 .. q + 1 PROVE g[m] = IF m = 0 THEN Enter([pool |-> P, path |-> <<>>], r) ELSE EnterNext(g[m - 1], k)
      <3>1. CASE m = q + 1
        BY <2>2, <3>1
      <3>2. CASE m # q + 1
        <4>1. m \in 0 .. q /\ (m # 0 => m - 1 \in 0 .. q)
          BY <3>2
        <4> HIDE DEF g
        <4> QED
          BY <2>1, <2>2, <4>1 DEF Descends
      <3> QED
        BY <3>1, <3>2
    <2>4. g = [m \in 0 .. q + 1 |-> g[m]]
      OBVIOUS
    <2> HIDE DEF g
    <2>5. Descends(g, P, r, k, q + 1)
      BY <2>3, <2>4 DEF Descends
    <2> QED
      BY <2>5
  <1> HIDE DEF A
  <1>3. HashBits \in A
    BY <1>1, <1>2, AllNaturals, TreeAssumption
  <1>4. \E f : Descends(f, P, r, k, HashBits)
    BY <1>3 DEF A
  <1> DEFINE after == CHOOSE f : Descends(f, P, r, k, HashBits)
  <1>5. Descends(after, P, r, k, HashBits)
    BY <1>4
  <1>6. Descend(P, r, k) = after[HashBits]
    BY Zenon DEF Descend, Steps, Descends, after
  <1> HIDE DEF after
  <1> QED
    BY <1>5, <1>6

\* After m steps.
DescendAt(P, k, r, ext, s, m) ==
    \E o : /\ DescendInv(P, k, r, ext, s, o) /\ Len(s.path) >= 1 /\ Len(s.path) <= m + 1
           /\ P.item[o[Len(s.path)]].leaf \/ Len(s.path) = m + 1

\* A tree that has room for a write.
CanWrite(P, F, ext, r) ==
    /\ Core(P, ext, {}) /\ Holds(P, F) /\ r \in P.used /\ P.item[r].prefix = <<>>
    /\ Places(P) >= 3 * HashBits + 1

LEMMA DescendStarts ==
    ASSUME NEW P, NEW F, NEW ext, NEW r, CanWrite(P, F, ext, r), NEW k
    PROVE  DescendAt(P, k, r, ext, Enter([pool |-> P, path |-> <<>>], r), 0)
  <1> DEFINE s == [pool |-> P, path |-> <<>>]
  <1>1. /\ Core(P, ext, {}) /\ r \in P.used /\ P.item[r].prefix = <<>> /\ Places(P) >= 3 * HashBits + 1
        /\ P.refcnt \in [Item -> Nat] /\ P.used \subseteq Item
    BY CoreFacts DEF CanWrite
  <1>2. s.pool = P /\ s.path = <<>> /\ Len(s.path) = 0 /\ s.path \in Seq(Item)
    OBVIOUS
  <1> HIDE DEF s
  <1>3. Trail(P, P, k, r, s.path, <<>>)
    BY <1>2 DEF Trail
  <1>4. Core(P, ext, P.used \ P.used)
    <2>1. P.used \ P.used = {}
      OBVIOUS
    <2> QED
      BY <1>1, <2>1
  <1>5. \A x \in P.used : P.refcnt[x] >= P.refcnt[x]
    BY <1>1
  <1>6. Places(P) >= Places(P) - 0 /\ Places(P) > 0
    BY <1>1, PlacesType, TreeAssumption
  <1>7. DescendInv(P, k, r, ext, s, <<>>)
    BY <1>1, <1>2, <1>3, <1>4, <1>5, <1>6 DEF DescendInv
  <1>8. IsNext(P, k, r, s, <<>>, r)
    <2>1. Agrees(k, <<>>) /\ Len(<<>>) = 0
      BY DEF Agrees
    <2> QED
      BY <1>1, <1>2, <2>1 DEF IsNext
  <1>11. PICK o : DescendInv(P, k, r, ext, s, o) /\ IsNext(P, k, r, s, o, r)
    BY <1>7, <1>8
  <1>12. Places(s.pool) > 0
    BY <1>2, <1>6
  <1>9. DescendInv(P, k, r, ext, Enter(s, r), Append(o, r)) /\ Len(Enter(s, r).path) = Len(s.path) + 1
    BY <1>11, <1>12, EnterRight
  <1>10. Len(Enter(s, r).path) = 1
    BY <1>2, <1>9
  <1>13. PICK z : z = Enter(s, r)
    OBVIOUS
  <1>14. DescendAt(P, k, r, ext, z, 0)
    <2>1. \E u : DescendInv(P, k, r, ext, z, u)
      BY <1>9, <1>13
    <2>3. Len(z.path) = 1
      BY <1>10, <1>13
    <2>2. Len(z.path) >= 1 /\ Len(z.path) <= 0 + 1 /\ Len(z.path) = 0 + 1
      BY <2>3
    <2> QED
      BY <2>1, <2>2 DEF DescendAt
  <1> QED
    BY <1>13, <1>14 DEF s

LEMMA DescendStep ==
    ASSUME NEW P, NEW F, NEW ext, NEW r, CanWrite(P, F, ext, r), NEW k \in Key, NEW m \in Nat, m < HashBits,
           NEW s, DescendAt(P, k, r, ext, s, m)
    PROVE  DescendAt(P, k, r, ext, EnterNext(s, k), m + 1)
  <1>1. PICK o : /\ DescendInv(P, k, r, ext, s, o) /\ Len(s.path) >= 1 /\ Len(s.path) <= m + 1
                 /\ P.item[o[Len(s.path)]].leaf \/ Len(s.path) = m + 1
    BY DEF DescendAt
  <1>2. PICK n \in Nat : n = Len(s.path) /\ n >= 1 /\ n <= m + 1
    BY <1>1 DEF DescendInv, Trail
  <1>3. PICK a, b : a = o[n] /\ b = s.path[n]
    OBVIOUS
  <1>4. /\ a \in P.used /\ b \in s.pool.used /\ Len(P.item[a].prefix) = n - 1 /\ Agrees(k, P.item[a].prefix)
        /\ b \in P.used => b = a
        /\ b \notin P.used => s.pool.item[b] = Dirtied(P.item[a])
    <2>1. TrailAt(P, s.pool, k, r, s.path, o, n)
      BY <1>1, <1>2 DEF DescendInv, Trail
    <2> QED
      BY <1>3, <2>1 DEF TrailAt
  <1>5. Core(P, ext, {}) /\ Holds(P, F) /\ Places(P) >= 3 * HashBits + 1 /\ HashBits \in Nat
        /\ P.used \subseteq Item /\ NodeOK(P.item[a]) /\ HoldsAt(P, F, a)
    BY <1>4, CoreFacts, TreeAssumption DEF CanWrite, Holds
  <1>6. s.pool.item[b].leaf = P.item[a].leaf /\ s.pool.item[b].child = P.item[a].child
        /\ s.pool.item[b].prefix = P.item[a].prefix
    <2>1. CASE b \in P.used
      BY <1>1, <1>4, <2>1 DEF DescendInv
    <2>2. CASE b \notin P.used
      BY <1>4, <1>5, <2>2, DirtiedOK
    <2> QED
      BY <2>1, <2>2
  <1>7. Last(s.path) = b
    BY <1>2, <1>3 DEF Last
  <1>8. CASE P.item[a].leaf
    <2>1. EnterNext(s, k) = s
      BY <1>6, <1>7, <1>8 DEF EnterNext
    <2>2. Len(s.path) <= (m + 1) + 1
      BY <1>1, <1>2
    <2>3. DescendAt(P, k, r, ext, s, m + 1)
      BY <1>1, <1>2, <1>3, <1>8, <2>2 DEF DescendAt
    <2> QED
      BY <2>1, <2>3
  <1>9. CASE ~P.item[a].leaf
    <2>1. PICK i : i = NextFor(P, a, k)
      OBVIOUS
    <2>2. EnterNext(s, k) = Enter(s, i)
      BY <1>6, <1>7, <1>9, <2>1 DEF EnterNext, NextFor
    <2>3. Len(P.item[a].prefix) < HashBits /\ P.item[a].prefix \in Bits
      BY <1>5, <1>9 DEF HoldsAt, NodeHolds, NodeOK
    <2>4. PICK side \in {Left, Right} : side = Side(k, P.item[a].prefix)
      BY <2>3, SideType
    <2>5. Down(P, F, a, side)
      BY <1>4, <1>5, <1>9, DownRight
    <2>16. i = P.item[a].child[side + 1]
      BY <2>1, <2>4 DEF NextFor
    <2>17. /\ i \in P.used /\ P.item[i].prefix = Append(P.item[a].prefix, side)
           /\ Len(P.item[i].prefix) = Len(P.item[a].prefix) + 1
      BY <2>5, <2>16 DEF Down
    <2>6. i \in P.used /\ P.item[i].prefix = Append(P.item[a].prefix, side) /\ Len(P.item[i].prefix) = n
      BY <1>2, <1>4, <2>17
    <2>7. Agrees(k, P.item[i].prefix)
      BY <1>4, <2>3, <2>4, <2>6, AgreesNext
    <2>18. n > 0 /\ n # 0 /\ ~P.item[o[n]].leaf /\ i = NextFor(P, o[n], k) /\ Side(k, P.item[o[n]].prefix) \in {Left, Right}
      BY <1>2, <1>3, <1>9, <2>1, <2>4
    <2>8. IsNext(P, k, r, s, o, i)
      BY <1>2, <2>6, <2>7, <2>18 DEF IsNext
    <2>9. Places(s.pool) > 0
      <3>1. Places(s.pool) >= Places(P) - n /\ Places(s.pool) \in Nat /\ Places(P) \in Nat
        BY <1>1, <1>2, PlacesType DEF DescendInv
      <3> QED
        BY <1>2, <1>5, <3>1
    <2>10. DescendInv(P, k, r, ext, Enter(s, i), Append(o, i)) /\ Len(Enter(s, i).path) = n + 1
      BY <1>1, <1>2, <2>8, <2>9, EnterRight
    <2>11. n = m + 1
      BY <1>1, <1>2, <1>3, <1>9
    <2>12. PICK z : z = Enter(s, i)
      OBVIOUS
    <2>13. \E u : DescendInv(P, k, r, ext, z, u)
      BY <2>10, <2>12
    <2>14. Len(z.path) >= 1 /\ Len(z.path) <= (m + 1) + 1 /\ Len(z.path) = (m + 1) + 1
      BY <2>10, <2>11, <2>12
    <2>15. DescendAt(P, k, r, ext, z, m + 1)
      BY <2>13, <2>14 DEF DescendAt
    <2> QED
      BY <2>2, <2>12, <2>15
  <1> QED
    BY <1>8, <1>9

DescendOut(P, k, r, ext, s, o) ==
    /\ DescendInv(P, k, r, ext, s, o) /\ Len(s.path) >= 1 /\ Len(s.path) <= HashBits + 1
    /\ P.item[o[Len(s.path)]].leaf

LEMMA DescendRight ==
    ASSUME NEW P, NEW F, NEW ext, NEW r, CanWrite(P, F, ext, r), NEW k \in Key
    PROVE  \E o : DescendOut(P, k, r, ext, Descend(P, r, k), o)
  <1>1. PICK f : Descends(f, P, r, k, HashBits) /\ Descend(P, r, k) = f[HashBits]
    BY DescendRuns
  <1>2. HashBits \in Nat
    BY TreeAssumption
  <1> DEFINE A == {m \in Nat : m <= HashBits => DescendAt(P, k, r, ext, f[m], m)}
  <1>3. 0 \in A
    <2>1. f[0] = Enter([pool |-> P, path |-> <<>>], r)
      BY <1>1, <1>2 DEF Descends
    <2>2. DescendAt(P, k, r, ext, f[0], 0)
      BY <2>1, DescendStarts
    <2> QED
      BY <2>2
  <1>4. ASSUME NEW m \in Nat, m \in A PROVE m + 1 \in A
    <2> SUFFICES ASSUME m + 1 <= HashBits PROVE DescendAt(P, k, r, ext, f[m + 1], m + 1)
      OBVIOUS
    <2>1. m + 1 \in 0 .. HashBits /\ m + 1 # 0 /\ (m + 1) - 1 = m /\ m <= HashBits /\ m < HashBits
      BY <1>2
    <2>2. f[m + 1] = EnterNext(f[m], k)
      BY <1>1, <2>1 DEF Descends
    <2>3. DescendAt(P, k, r, ext, f[m], m)
      BY <1>4, <2>1
    <2> QED
      BY <2>1, <2>2, <2>3, DescendStep
  <1> HIDE DEF A
  <1>5. HashBits \in A
    BY <1>2, <1>3, <1>4, AllNaturals
  <1>6. PICK s : s = f[HashBits] /\ DescendAt(P, k, r, ext, s, HashBits)
    BY <1>2, <1>5 DEF A
  <1>7. PICK o : /\ DescendInv(P, k, r, ext, s, o) /\ Len(s.path) >= 1 /\ Len(s.path) <= HashBits + 1
                 /\ P.item[o[Len(s.path)]].leaf \/ Len(s.path) = HashBits + 1
    BY <1>6 DEF DescendAt
  <1>8. PICK n \in Nat : n = Len(s.path) /\ n >= 1
    BY <1>7 DEF DescendInv, Trail
  <1>9. P.item[o[n]].leaf
    <2>1. TrailAt(P, s.pool, k, r, s.path, o, n)
      BY <1>7, <1>8 DEF DescendInv, Trail
    <2>2. o[n] \in P.used /\ Len(P.item[o[n]].prefix) = n - 1
      BY <2>1 DEF TrailAt
    <2>3. HoldsAt(P, F, o[n])
      BY <2>2 DEF CanWrite, Holds
    <2>4. ~P.item[o[n]].leaf => Len(P.item[o[n]].prefix) < HashBits
      BY <2>3 DEF HoldsAt, NodeHolds
    <2> QED
      BY <1>2, <1>7, <1>8, <2>2, <2>4
  <1>10. DescendOut(P, k, r, ext, s, o)
    BY <1>7, <1>8, <1>9 DEF DescendOut
  <1> QED
    BY <1>1, <1>6, <1>10

-----------------------------------------------------------------------------
(* The way back: every node of the path is linked to its parent *)

\* The nodes of the path are one below the other.
PathOK(W, p, k) ==
    /\ p \in Seq(Item) /\ Len(p) >= 1
    /\ \A d \in 1 .. Len(p) : p[d] \in W.used /\ Len(W.item[p[d]].prefix) = d - 1
    /\ \A d \in 1 .. Len(p) - 1 :
          LET side == Side(k, W.item[p[d]].prefix)
          IN  side \in {Left, Right} /\ W.item[p[d + 1]].prefix = Append(W.item[p[d]].prefix, side)

Relinked(n, k, c) == Dirtied(WithChild(n, Side(k, n.prefix) + 1, c))

\* Those of N that no parent is linked to yet.
Pending(N, p, q) == N \ {p[e] : e \in q + 1 .. Len(p)}

\* Node d of the path when the way back has come to node q.
PathItem(W, p, k, q, d) ==
    IF q <= d /\ d < Len(p) THEN Relinked(W.item[p[d]], k, p[d + 1]) ELSE W.item[p[d]]

AscendInv(W, p, k, ext, N, s, q) ==
    /\ q \in 1 .. Len(p) /\ s.path \in Seq(Item) /\ Len(s.path) = q /\ \A d \in 1 .. q : s.path[d] = p[d]
    /\ Core(s.pool, ext, Pending(N, p, q)) /\ s.pool.used \subseteq W.used
    /\ \A d \in 1 .. q : p[d] \in s.pool.used
    /\ \A x \in s.pool.used : (\A d \in 1 .. Len(p) : x # p[d]) => s.pool.item[x] = W.item[x]
    /\ \A d \in 1 .. Len(p) : p[d] \in s.pool.used => s.pool.item[p[d]] = PathItem(W, p, k, q, d)

LEMMA PathDistinct ==
    ASSUME NEW W, NEW p, NEW k, PathOK(W, p, k)
    PROVE  \A d, e \in 1 .. Len(p) : p[d] = p[e] => d = e
  <1> SUFFICES ASSUME NEW d \in 1 .. Len(p), NEW e \in 1 .. Len(p), p[d] = p[e] PROVE d = e
    OBVIOUS
  <1>1. Len(W.item[p[d]].prefix) = d - 1 /\ Len(W.item[p[e]].prefix) = e - 1 /\ Len(p) \in Nat
    BY DEF PathOK
  <1> QED
    BY <1>1

LEMMA RelinkedOK ==
    ASSUME NEW n, NodeOK(n), NEW k, Side(k, n.prefix) \in {Left, Right}, NEW c \in Item \cup {Null}
    PROVE  LET m == Relinked(n, k, c)
               s == Side(k, n.prefix) + 1
           IN  /\ NodeOK(m) /\ m.dirty /\ m.leaf = n.leaf /\ m.prefix = n.prefix /\ m.bucket = n.bucket
               /\ m.child[s] = c /\ m.child[3 - s] = n.child[3 - s] /\ s \in {1, 2}
  <1> DEFINE s == Side(k, n.prefix) + 1
             w == WithChild(n, s, c)
             m == Relinked(n, k, c)
  <1>1. s \in {1, 2}
    BY DEF Left, Right
  <1> HIDE DEF s
  <1>2. /\ NodeOK(w) /\ w.child[s] = c /\ w.child[3 - s] = n.child[3 - s]
        /\ w.prefix = n.prefix /\ w.bucket = n.bucket /\ w.leaf = n.leaf
    BY <1>1, ChildChanged
  <1>3. m = Dirtied(w)
    BY DEF Relinked, s
  <1> HIDE DEF w, m
  <1>4. NodeOK(m) /\ m.dirty = TRUE /\ m.leaf = w.leaf /\ m.prefix = w.prefix /\ m.bucket = w.bucket /\ m.child = w.child
    BY <1>2, <1>3, DirtiedOK
  <1> QED
    BY <1>1, <1>2, <1>4 DEF m, s

\* A node that two of the path are between.
LEMMA AscendStep ==
    ASSUME NEW W, NEW p, NEW k, PathOK(W, p, k), \A x \in Item : NodeOK(W.item[x]), W.used \subseteq Item,
           NEW ext, NEW N, NEW s, NEW q, AscendInv(W, p, k, ext, N, s, q), q # 1
    PROVE  AscendInv(W, p, k, ext, N, Return(s, k), q - 1)
  <1> DEFINE j == p[q - 1]
             c == p[q]
             side == Side(k, W.item[j].prefix)
             P == s.pool
             L == SetChild(P, j, side, c)
             R == [L EXCEPT !.item[j].dirty = TRUE]
             t == Return(s, k)
             new == Pending(N, p, q)
  <1>1. /\ q \in 1 .. Len(p) /\ s.path \in Seq(Item) /\ Len(s.path) = q /\ \A d \in 1 .. q : s.path[d] = p[d]
        /\ Core(P, ext, new) /\ P.used \subseteq W.used
        /\ \A d \in 1 .. q : p[d] \in P.used
        /\ \A x \in P.used : (\A d \in 1 .. Len(p) : x # p[d]) => P.item[x] = W.item[x]
        /\ \A d \in 1 .. Len(p) : p[d] \in P.used => P.item[p[d]] = PathItem(W, p, k, q, d)
    BY DEF AscendInv
  <1>2. q \in Nat /\ q - 1 \in 1 .. Len(p) /\ q - 1 \in 1 .. q /\ q \in 1 .. q /\ q > 1 /\ q - 1 \in 1 .. Len(p) - 1 /\ (q - 1) + 1 = q
        /\ Len(p) \in Nat /\ p \in Seq(Item) /\ q - 1 \in Nat
    BY <1>1 DEF PathOK
  <1>3. /\ j \in W.used /\ c \in W.used /\ Len(W.item[j].prefix) = (q - 1) - 1 /\ side \in {Left, Right}
        /\ W.item[c].prefix = Append(W.item[j].prefix, side) /\ j \in P.used /\ c \in P.used
        /\ j \in Item /\ c \in Item
    <2>1. j \in W.used /\ c \in W.used /\ Len(W.item[j].prefix) = (q - 1) - 1
      BY <1>1, <1>2 DEF PathOK
    <2>2. LET sd == Side(k, W.item[p[q - 1]].prefix)
          IN  sd \in {Left, Right} /\ W.item[p[(q - 1) + 1]].prefix = Append(W.item[p[q - 1]].prefix, sd)
      BY <1>2 DEF PathOK
    <2> QED
      BY <1>1, <1>2, <2>1, <2>2
  <1>4. P.item[j] = W.item[j]
    BY <1>1, <1>2, <1>3 DEF PathItem
  <1>5. P.item[c].prefix = W.item[c].prefix
    <2>1. P.item[c] = PathItem(W, p, k, q, q)
      BY <1>1, <1>3
    <2>2. CASE q < Len(p)
      <3>1. q \in 1 .. Len(p) - 1 /\ q + 1 \in 1 .. Len(p)
        BY <1>1, <1>2, <2>2
      <3>2. Side(k, W.item[c].prefix) \in {Left, Right} /\ p[q + 1] \in Item \cup {Null} /\ NodeOK(W.item[c])
        BY <1>2, <1>3, <3>1, Zenon DEF PathOK
      <3>3. P.item[c] = Relinked(W.item[c], k, p[q + 1])
        BY <1>2, <2>1, <2>2 DEF PathItem
      <3> QED
        BY <3>2, <3>3, RelinkedOK
    <2>3. CASE ~(q < Len(p))
      BY <2>1, <2>3 DEF PathItem
    <2> QED
      BY <2>2, <2>3
  <1>6. MayLink(P, j, side, c)
    BY <1>3, <1>4, <1>5, Zenon DEF MayLink
  <1>7. t.pool = R /\ t.path = Front(s.path)
    <2>1. Last(s.path) = c
      BY <1>1, <1>2 DEF Last
    <2>2. Front(s.path) \in Seq(Item) /\ Len(Front(s.path)) = q - 1 /\ \A d \in 1 .. q - 1 : Front(s.path)[d] = s.path[d]
      BY <1>1, <1>2 DEF Front
    <2>3. Last(Front(s.path)) = j
      BY <1>1, <1>2, <2>2 DEF Last
    <2>4. ~(Len(s.path) <= 1)
      BY <1>1, <1>2
    <2> QED
      BY <1>4, <2>1, <2>3, <2>4, Zenon DEF Return
  <1>8. Front(s.path) \in Seq(Item) /\ Len(Front(s.path)) = q - 1 /\ \A d \in 1 .. q - 1 : Front(s.path)[d] = p[d]
    BY <1>1, <1>2 DEF Front
  <1> HIDE DEF new, L, R, t
  <1>9. ChildSet(P, L, j, side, c, ext, new)
    <2> HIDE DEF j, c, side, P
    <2> QED
      BY <1>1, <1>6, SetChildRight DEF L
  <1>10. /\ Core(L, ext, new \ {c}) /\ L.used \subseteq P.used /\ j \in L.used
         /\ L.item[j] = WithChild(P.item[j], side + 1, c)
         /\ \A x \in L.used \ {j} : L.item[x] = P.item[x]
         /\ \A x \in P.used \ L.used : Len(P.item[x].prefix) > Len(P.item[j].prefix)
    BY <1>9 DEF ChildSet
  <1>11. Core(R, ext, new \ {c}) /\ Altered(L, R, j, Dirtied(L.item[j]))
    <2> HIDE DEF j, c
    <2> QED
      BY <1>10, DirtyRight DEF R
  <1>12. /\ R.used = L.used /\ R.item[j] = Relinked(W.item[j], k, c)
         /\ \A x \in R.used \ {j} : R.item[x] = P.item[x]
    <2>1. L.used \subseteq Item
      BY <1>10, CoreFacts
    <2> QED
      BY <1>4, <1>10, <1>11, <2>1 DEF Altered, Relinked
  <1>13. new \ {c} = Pending(N, p, q - 1)
    <2>1. \A e : e \in (q - 1) + 1 .. Len(p) <=> e \in q + 1 .. Len(p) \/ e = q
      BY <1>1, <1>2
    <2> QED
      BY <2>1 DEF new, Pending
  <1>14. \A d, e \in 1 .. Len(p) : p[d] = p[e] => d = e
    BY PathDistinct
  <1>15. ASSUME NEW d \in 1 .. q - 1 PROVE p[d] \in R.used
    <2>1. d \in 1 .. q /\ d \in 1 .. Len(p) /\ d \in Nat /\ d <= q - 1
      BY <1>1, <1>2
    <2>2. CASE d = q - 1
      BY <1>10, <1>12, <2>2
    <2>3. CASE d # q - 1
      <3>1. p[d] \in P.used /\ P.item[p[d]] = W.item[p[d]]
        BY <1>1, <1>2, <2>1 DEF PathItem
      <3>2. Len(P.item[p[d]].prefix) = d - 1
        BY <2>1, <3>1 DEF PathOK
      <3>3. Len(P.item[j].prefix) = q - 2 /\ d - 1 < q - 2
        BY <1>2, <1>3, <1>4, <2>1, <2>3
      <3>4. ~(Len(P.item[p[d]].prefix) > Len(P.item[j].prefix))
        BY <1>2, <2>1, <3>2, <3>3
      <3> QED
        BY <1>10, <1>12, <3>1, <3>4
    <2> QED
      BY <2>2, <2>3
  <1>16. ASSUME NEW d \in 1 .. Len(p), p[d] \in R.used PROVE R.item[p[d]] = PathItem(W, p, k, q - 1, d)
    <2>1. CASE d = q - 1
      BY <1>2, <1>12, <2>1 DEF PathItem
    <2>2. CASE d # q - 1
      <3>1. p[d] # j
        BY <1>2, <1>14, <2>2
      <3>2. R.item[p[d]] = PathItem(W, p, k, q, d)
        BY <1>1, <1>10, <1>12, <1>16, <3>1
      <3>3. q - 1 <= d <=> q <= d
        BY <1>2, <2>2
      <3> QED
        BY <3>2, <3>3 DEF PathItem
    <2> QED
      BY <2>1, <2>2
  <1>17. \A x \in R.used : (\A d \in 1 .. Len(p) : x # p[d]) => R.item[x] = W.item[x]
    BY <1>1, <1>2, <1>10, <1>12
  <1>18. /\ q - 1 \in 1 .. Len(p) /\ t.path \in Seq(Item) /\ Len(t.path) = q - 1
         /\ \A d \in 1 .. q - 1 : t.path[d] = p[d]
         /\ Core(t.pool, ext, Pending(N, p, q - 1)) /\ t.pool.used \subseteq W.used
    BY <1>1, <1>2, <1>7, <1>8, <1>10, <1>11, <1>12, <1>13
  <1> QED
    BY <1>7, <1>15, <1>16, <1>17, <1>18 DEF AscendInv, t

\* The steps back.
Ascends(f, P, nodes, k, n) == f = [m \in 0 .. n |-> IF m = 0 THEN [pool |-> P, path |-> nodes] ELSE Return(f[m - 1], k)]

LEMMA AscendRuns ==
    ASSUME NEW P, NEW nodes, NEW k
    PROVE  \E f : Ascends(f, P, nodes, k, HashBits) /\ Ascend(P, nodes, k) = f[HashBits].pool
  <1> DEFINE A == {q \in Nat : \E f : Ascends(f, P, nodes, k, q)}
  <1>1. 0 \in A
    <2>1. Ascends([m \in 0 .. 0 |-> [pool |-> P, path |-> nodes]], P, nodes, k, 0)
      BY DEF Ascends
    <2> QED
      BY <2>1
  <1>2. ASSUME NEW q \in Nat, q \in A PROVE q + 1 \in A
    <2>1. PICK f : Ascends(f, P, nodes, k, q)
      BY <1>2
    <2> DEFINE g == [m \in 0 .. q + 1 |-> IF m = q + 1 THEN Return(f[q], k) ELSE f[m]]
    <2>2. \A m \in 0 .. q : g[m] = f[m]
      OBVIOUS
    <2>3. ASSUME NEW m \in 0 .. q + 1 PROVE g[m] = IF m = 0 THEN [pool |-> P, path |-> nodes] ELSE Return(g[m - 1], k)
      <3>1. CASE m = q + 1
        BY <2>2, <3>1
      <3>2. CASE m # q + 1
        <4>1. m \in 0 .. q /\ (m # 0 => m - 1 \in 0 .. q)
          BY <3>2
        <4> HIDE DEF g
        <4> QED
          BY <2>1, <2>2, <4>1 DEF Ascends
      <3> QED
        BY <3>1, <3>2
    <2>4. g = [m \in 0 .. q + 1 |-> g[m]]
      OBVIOUS
    <2> HIDE DEF g
    <2>5. Ascends(g, P, nodes, k, q + 1)
      BY <2>3, <2>4 DEF Ascends
    <2> QED
      BY <2>5
  <1> HIDE DEF A
  <1>3. HashBits \in A
    BY <1>1, <1>2, AllNaturals, TreeAssumption
  <1>4. \E f : Ascends(f, P, nodes, k, HashBits)
    BY <1>3 DEF A
  <1> DEFINE after == CHOOSE f : Ascends(f, P, nodes, k, HashBits)
  <1>5. Ascends(after, P, nodes, k, HashBits)
    BY <1>4
  <1>6. Ascend(P, nodes, k) = after[HashBits].pool
    BY Zenon DEF Steps, Ascend, Ascends, after
  <1> HIDE DEF after
  <1> QED
    BY <1>5, <1>6

AscendOut(W, p, k, ext, N, Q) ==
    /\ Core(Q, ext, Pending(N, p, 1)) /\ Q.used \subseteq W.used
    /\ \A d \in 1 .. Len(p) : p[d] \in Q.used
    /\ \A x \in Q.used : (\A d \in 1 .. Len(p) : x # p[d]) => Q.item[x] = W.item[x]
    /\ \A d \in 1 .. Len(p) - 1 : Q.item[p[d]] = Relinked(W.item[p[d]], k, p[d + 1])
    /\ Q.item[p[Len(p)]] = W.item[p[Len(p)]]

AscendAt(W, p, k, ext, N, s, m) == \E q : AscendInv(W, p, k, ext, N, s, q) /\ (q = 1 \/ q + m = Len(p))

LEMMA AscendEnd ==
    ASSUME NEW W, NEW p, NEW k, PathOK(W, p, k), \A x \in Item : NodeOK(W.item[x]), W.used \subseteq Item,
           NEW ext, NEW N, NEW s, AscendInv(W, p, k, ext, N, s, 1)
    PROVE  AscendOut(W, p, k, ext, N, s.pool)
  <1> DEFINE Q == s.pool
  <1>1. /\ Core(Q, ext, Pending(N, p, 1)) /\ Q.used \subseteq W.used /\ 1 \in 1 .. Len(p)
        /\ \A d \in 1 .. 1 : p[d] \in Q.used
        /\ \A x \in Q.used : (\A d \in 1 .. Len(p) : x # p[d]) => Q.item[x] = W.item[x]
        /\ \A d \in 1 .. Len(p) : p[d] \in Q.used => Q.item[p[d]] = PathItem(W, p, k, 1, d)
    BY DEF AscendInv
  <1>2. Len(p) \in Nat /\ Len(p) >= 1 /\ p \in Seq(Item)
    BY DEF PathOK
  <1> HIDE DEF Q
  <1>3. ASSUME NEW d \in 1 .. Len(p) - 1, p[d] \in Q.used
        PROVE  Q.item[p[d]] = Relinked(W.item[p[d]], k, p[d + 1]) /\ p[d + 1] \in Q.used
    <2>1. d \in 1 .. Len(p) /\ d < Len(p) /\ 1 <= d /\ d + 1 \in 1 .. Len(p)
      BY <1>2
    <2>2. Q.item[p[d]] = Relinked(W.item[p[d]], k, p[d + 1])
      BY <1>1, <1>3, <2>1 DEF PathItem
    <2> DEFINE n == W.item[p[d]]
               c == p[d + 1]
               t == Side(k, n.prefix) + 1
    <2>3. Side(k, n.prefix) \in {Left, Right} /\ NodeOK(n) /\ c \in Item \cup {Null} /\ c # Null
      <3>1. c \in Item /\ p[d] \in Item
        BY <1>2, <2>1
      <3>2. Side(k, n.prefix) \in {Left, Right}
        BY DEF PathOK
      <3> QED
        BY <3>1, <3>2, TreeAssumption
    <2>4. Relinked(n, k, c).child[t] = c /\ t \in {1, 2}
      <3> HIDE DEF n, c
      <3> QED
        BY <2>3, RelinkedOK
    <2>5. LinkOK(Q, p[d], t)
      <3> HIDE DEF t
      <3> QED
        BY <1>1, <1>3, <2>4, CoreFacts
    <2>6. Q.item[p[d]].child[t] = c
      BY <2>2, <2>4
    <2> QED
      BY <2>2, <2>3, <2>5, <2>6 DEF LinkOK
  <1> DEFINE A == {d \in Nat : d + 1 \in 1 .. Len(p) => p[d + 1] \in Q.used}
  <1>4. 0 \in A
    BY <1>1
  <1>5. ASSUME NEW d \in Nat, d \in A PROVE d + 1 \in A
    <2> SUFFICES ASSUME (d + 1) + 1 \in 1 .. Len(p) PROVE p[(d + 1) + 1] \in Q.used
      OBVIOUS
    <2>1. d + 1 \in 1 .. Len(p) - 1 /\ d + 1 \in 1 .. Len(p)
      BY <1>2
    <2> QED
      BY <1>3, <1>5, <2>1
  <1> HIDE DEF A
  <1>6. \A d \in Nat : d \in A
    BY <1>4, <1>5, AllNaturals
  <1>7. ASSUME NEW d \in 1 .. Len(p) PROVE p[d] \in Q.used
    <2>1. d - 1 \in Nat /\ (d - 1) + 1 = d
      BY <1>2
    <2> QED
      BY <1>6, <2>1 DEF A
  <1>8. \A d \in 1 .. Len(p) - 1 : Q.item[p[d]] = Relinked(W.item[p[d]], k, p[d + 1])
    BY <1>2, <1>3, <1>7
  <1>9. Q.item[p[Len(p)]] = W.item[p[Len(p)]]
    <2>1. Len(p) \in 1 .. Len(p) /\ ~(Len(p) < Len(p))
      BY <1>2
    <2> QED
      BY <1>1, <1>7, <2>1 DEF PathItem
  <1> QED
    BY <1>1, <1>7, <1>8, <1>9 DEF AscendOut, Q

LEMMA AscendRight ==
    ASSUME NEW W, NEW p, NEW k, PathOK(W, p, k), Len(p) <= HashBits + 1, NEW ext, NEW N, Core(W, ext, N)
    PROVE  AscendOut(W, p, k, ext, N, Ascend(W, p, k))
  <1>1. PICK f : Ascends(f, W, p, k, HashBits) /\ Ascend(W, p, k) = f[HashBits].pool
    BY AscendRuns
  <1>2. HashBits \in Nat /\ Len(p) \in Nat /\ Len(p) >= 1 /\ p \in Seq(Item)
    BY TreeAssumption DEF PathOK
  <1>3. W.used \subseteq Item /\ \A x \in Item : NodeOK(W.item[x])
    BY CoreFacts
  <1> DEFINE A == {m \in Nat : m <= HashBits => AscendAt(W, p, k, ext, N, f[m], m)}
  <1>4. 0 \in A
    <2>1. f[0] = [pool |-> W, path |-> p]
      BY <1>1, <1>2 DEF Ascends
    <2>2. PICK s : s = [pool |-> W, path |-> p]
      OBVIOUS
    <2>3. s.pool = W /\ s.path = p
      BY <2>2
    <2>4. Pending(N, p, Len(p)) = N
      <3>1. Len(p) + 1 .. Len(p) = {}
        BY <1>2
      <3> QED
        BY <3>1 DEF Pending
    <2>5. \A d \in 1 .. Len(p) : p[d] \in W.used
      BY DEF PathOK
    <2>6. \A d \in 1 .. Len(p) : W.item[p[d]] = PathItem(W, p, k, Len(p), d)
      BY <1>2 DEF PathItem
    <2>7. Len(p) \in 1 .. Len(p)
      BY <1>2
    <2>8. AscendInv(W, p, k, ext, N, s, Len(p))
      BY <1>2, <2>3, <2>4, <2>5, <2>6, <2>7 DEF AscendInv
    <2>9. AscendAt(W, p, k, ext, N, s, 0)
      BY <1>2, <2>8 DEF AscendAt
    <2> QED
      BY <2>1, <2>2, <2>9
  <1>5. ASSUME NEW m \in Nat, m \in A PROVE m + 1 \in A
    <2> SUFFICES ASSUME m + 1 <= HashBits PROVE AscendAt(W, p, k, ext, N, f[m + 1], m + 1)
      OBVIOUS
    <2>1. m + 1 \in 0 .. HashBits /\ m + 1 # 0 /\ (m + 1) - 1 = m /\ m <= HashBits
      BY <1>2
    <2>2. f[m + 1] = Return(f[m], k)
      BY <1>1, <2>1 DEF Ascends
    <2>3. PICK q : AscendInv(W, p, k, ext, N, f[m], q) /\ (q = 1 \/ q + m = Len(p))
      BY <1>5, <2>1 DEF AscendAt
    <2>4. PICK s : s = f[m]
      OBVIOUS
    <2>5. CASE q = 1
      <3>1. Len(s.path) = 1
        BY <2>3, <2>4, <2>5 DEF AscendInv
      <3>2. Return(s, k) = s
        BY <3>1 DEF Return
      <3> QED
        BY <2>2, <2>3, <2>4, <2>5, <3>2 DEF AscendAt
    <2>6. CASE q # 1
      <3>1. AscendInv(W, p, k, ext, N, Return(f[m], k), q - 1)
        BY <1>3, <2>3, <2>6, AscendStep
      <3>2. (q - 1) + (m + 1) = Len(p)
        <4>1. q \in 1 .. Len(p)
          BY <2>3 DEF AscendInv
        <4> QED
          BY <1>2, <2>3, <2>6, <4>1
      <3> QED
        BY <2>2, <3>1, <3>2 DEF AscendAt
    <2> QED
      BY <2>5, <2>6
  <1> HIDE DEF A
  <1>6. HashBits \in A
    BY <1>2, <1>4, <1>5, AllNaturals
  <1>7. PICK q : AscendInv(W, p, k, ext, N, f[HashBits], q) /\ (q = 1 \/ q + HashBits = Len(p))
    BY <1>2, <1>6 DEF A, AscendAt
  <1>8. q = 1
    <2>1. q \in 1 .. Len(p)
      BY <1>7 DEF AscendInv
    <2> QED
      BY <1>2, <1>7, <2>1
  <1>9. PICK s : s = f[HashBits]
    OBVIOUS
  <1>10. AscendInv(W, p, k, ext, N, s, 1)
    BY <1>7, <1>8, <1>9
  <1>11. AscendOut(W, p, k, ext, N, s.pool)
    BY <1>3, <1>10, AscendEnd
  <1> QED
    BY <1>1, <1>9, <1>11

-----------------------------------------------------------------------------
(* insert_path *)

\* A write that may be made.
MayWrite(P, F, ext, r, k, v) ==
    CanWrite(P, F, ext, r) /\ Settled(P, F) /\ k \in Key /\ v \in Val \cup {Null}

\* Node d of the path is what node o[d] of the tree is, and o[d + 1] hangs on that one.
OnTrail(P, F, D, k, p, o, d) ==
    LET a == P.item[o[d]]
    IN  /\ o[d] \in P.used /\ p[d] \in D.used /\ p[d] \in Item /\ NodeOK(a) /\ NodeOK(D.item[p[d]])
        /\ SameNode(a, D.item[p[d]]) /\ a.prefix \in Bits /\ Len(a.prefix) = d - 1 /\ Agrees(k, a.prefix)
        /\ HoldsAt(P, F, o[d]) /\ Few(a.bucket)
        /\ p[d] \in P.used => p[d] = o[d] /\ P.refcnt[o[d]] <= 1
        /\ d < Len(p) =>
              LET side == Side(k, a.prefix)
              IN  /\ ~a.leaf /\ side \in {Left, Right} /\ a.child[side + 1] = o[d + 1]
                  /\ P.item[o[d + 1]].prefix = Append(a.prefix, side)

LEMMA TrailNode ==
    ASSUME NEW P, NEW F, NEW ext, NEW r, NEW k, NEW v, MayWrite(P, F, ext, r, k, v),
           NEW s, NEW o, DescendOut(P, k, r, ext, s, o), NEW d \in 1 .. Len(s.path)
    PROVE  OnTrail(P, F, s.pool, k, s.path, o, d)
  <1> DEFINE D == s.pool
             p == s.path
             a == P.item[o[d]]
  <1>1. /\ Core(P, ext, {}) /\ Holds(P, F) /\ Settled(P, F) /\ k \in Key
        /\ Core(D, ext, D.used \ P.used) /\ P.used \subseteq D.used /\ \A x \in P.used : D.item[x] = P.item[x]
        /\ p \in Seq(Item) /\ o \in Seq(Item) /\ Len(o) = Len(p) /\ \A e \in 1 .. Len(p) : TrailAt(P, D, k, r, p, o, e)
    BY DEF MayWrite, CanWrite, DescendOut, DescendInv, Trail
  <1>2. /\ o[d] \in P.used /\ p[d] \in D.used /\ Len(a.prefix) = d - 1 /\ Agrees(k, a.prefix)
        /\ p[d] \in P.used => p[d] = o[d] /\ P.refcnt[o[d]] <= 1
        /\ p[d] \notin P.used => D.item[p[d]] = Dirtied(a)
    BY <1>1 DEF TrailAt
  <1>3. P.used \subseteq Item /\ D.used \subseteq Item /\ NodeOK(a) /\ NodeOK(D.item[p[d]]) /\ p[d] \in Item /\ o[d] \in Item
    <2>1. P.used \subseteq Item /\ D.used \subseteq Item /\ (\A x \in Item : NodeOK(P.item[x]) /\ NodeOK(D.item[x]))
      BY <1>1, CoreFacts
    <2> QED
      BY <1>2, <2>1
  <1>4. a.prefix \in Bits
    BY <1>3 DEF NodeOK
  <1>5. HoldsAt(P, F, o[d]) /\ Few(a.bucket)
    BY <1>1, <1>2 DEF Holds, Settled
  <1>6. SameNode(a, D.item[p[d]])
    <2>1. CASE p[d] \in P.used
      BY <1>1, <1>2, <2>1 DEF SameNode
    <2>2. CASE p[d] \notin P.used
      BY <1>2, <1>3, <2>2, DirtySame
    <2> QED
      BY <2>1, <2>2
  <1>7. ASSUME d < Len(p)
        PROVE  LET side == Side(k, a.prefix)
               IN  /\ ~a.leaf /\ side \in {Left, Right} /\ a.child[side + 1] = o[d + 1]
                   /\ P.item[o[d + 1]].prefix = Append(a.prefix, side)
    <2> DEFINE side == Side(k, a.prefix)
    <2>1. d + 1 \in 1 .. Len(p) /\ d + 1 > 1 /\ (d + 1) - 1 = d
      BY <1>1, <1>7
    <2>2. ~a.leaf /\ o[d + 1] = NextFor(P, o[d], k) /\ o[d + 1] \in P.used
      BY <1>1, <2>1 DEF TrailAt
    <2>3. Len(a.prefix) < HashBits
      BY <1>5, <2>2 DEF HoldsAt, NodeHolds
    <2>4. side \in {Left, Right}
      BY <1>1, <1>4, <2>3, SideType
    <2>5. a.child[side + 1] = o[d + 1]
      BY <2>2 DEF NextFor
    <2>6. side + 1 \in {1, 2} /\ (side + 1) - 1 = side
      BY <2>4 DEF Left, Right
    <2> HIDE DEF side
    <2>7. LinkOK(P, o[d], side + 1)
      BY <1>1, <1>2, <2>6, CoreFacts
    <2>8. o[d + 1] # Null
      BY <1>3, <2>2, TreeAssumption
    <2> QED
      BY <2>2, <2>4, <2>5, <2>6, <2>7, <2>8 DEF LinkOK, side
  <1> QED
    BY <1>2, <1>3, <1>4, <1>5, <1>6, <1>7 DEF OnTrail

\* Only the path leads to the nodes of the path that were not copied.
LEMMA TrailSealed ==
    ASSUME NEW P, NEW F, NEW ext, NEW r, NEW k, NEW v, MayWrite(P, F, ext, r, k, v),
           NEW s, NEW o, DescendOut(P, k, r, ext, s, o), NEW d \in 1 .. Len(s.path), s.path[d] \in P.used,
           NEW x \in P.used, NEW c \in {1, 2}, P.item[x].child[c] = s.path[d]
    PROVE  d > 1 /\ x = s.path[d - 1]
  <1> DEFINE p == s.path
             D == s.pool
  <1>1. /\ Core(P, ext, {}) /\ p \in Seq(Item) /\ Len(p) \in Nat /\ TrailAt(P, D, k, r, p, o, d)
    BY DEF MayWrite, CanWrite, DescendOut, DescendInv, Trail
  <1>2. OnTrail(P, F, D, k, p, o, d)
    BY TrailNode
  <1>3. p[d] = o[d] /\ P.refcnt[p[d]] <= 1 /\ Len(P.item[p[d]].prefix) = d - 1 /\ p[d] \in Item
    BY <1>2 DEF OnTrail
  <1>4. P.used \subseteq Item /\ NodeOK(P.item[x]) /\ x \in Item
    BY <1>1, CoreFacts
  <1>5. p[d] # Null
    BY <1>3, TreeAssumption
  <1>6. LinkOK(P, x, c)
    BY <1>1, CoreFacts
  <1>7. P.item[p[d]].prefix = Append(P.item[x].prefix, c - 1) /\ P.item[x].prefix \in Seq(Side2) /\ c - 1 \in Side2
    BY <1>4, <1>5, <1>6 DEF LinkOK, NodeOK, Bits, Side2, Left, Right
  <1>8. d > 1
    <2>1. Len(P.item[p[d]].prefix) = Len(P.item[x].prefix) + 1 /\ Len(P.item[x].prefix) \in Nat
      BY <1>7
    <2> QED
      BY <1>1, <1>3, <2>1
  <1>9. d - 1 \in 1 .. Len(p) /\ d - 1 < Len(p) /\ (d - 1) + 1 = d
    BY <1>1, <1>8
  <1>10. OnTrail(P, F, D, k, p, o, d - 1)
    BY <1>9, TrailNode
  <1>11. p[d - 1] \in P.used
    BY <1>1, <1>8 DEF TrailAt
  <1>12. p[d - 1] = o[d - 1]
    BY <1>10, <1>11 DEF OnTrail
  <1>13. PICK side : side \in {Left, Right} /\ P.item[p[d - 1]].child[side + 1] = p[d]
    BY <1>3, <1>9, <1>10, <1>12 DEF OnTrail
  <1>14. side + 1 \in {1, 2}
    BY <1>13 DEF Left, Right
  <1>15. x # p[d - 1] => Edges(P, p[d]) >= 2
    <2> HIDE DEF p
    <2> QED
      BY <1>4, <1>11, <1>13, <1>14, TwoEdges DEF p
  <1>16. /\ Edges(P, p[d]) \in Nat /\ ext[p[d]] \in Nat /\ P.refcnt[p[d]] = Edges(P, p[d]) + ext[p[d]]
    BY <1>1, <1>3, CoreFacts
  <1> QED
    BY <1>3, <1>8, <1>15, <1>16

\* What the write of the leaf at the end of the path leaves.
LeafDone(P, F, D, p, o, k, v, ext, W) ==
    \E H : /\ H[p[Len(p)]] = F[o[Len(p)]] /\ \A x \in Item \ {p[Len(p)]} : H[x] = F[x]
           /\ LeafOut(D, p[Len(p)], k, v, H, ext, D.used \ P.used, W)

LEMMA LeafReached ==
    ASSUME NEW P, NEW F, NEW ext, NEW r, NEW k, NEW v, MayWrite(P, F, ext, r, k, v),
           NEW s, NEW o, DescendOut(P, k, r, ext, s, o)
    PROVE  LeafDone(P, F, s.pool, s.path, o, k, v, ext, WriteLeaf(s.pool, Last(s.path), k, v))
  <1> DEFINE D == s.pool
             p == s.path
             n == Len(p)
             i == p[n]
             H == [x \in Item |-> IF x = i THEN F[o[n]] ELSE F[x]]
  <1>1. /\ k \in Key /\ v \in Val \cup {Null} /\ p \in Seq(Item) /\ n \in Nat /\ n \in 1 .. n /\ n <= HashBits + 1
        /\ P.item[o[n]].leaf /\ Core(D, ext, D.used \ P.used)
        /\ Places(D) >= Places(P) - n /\ Places(P) >= 3 * HashBits + 1
    BY DEF MayWrite, CanWrite, DescendOut, DescendInv, Trail
  <1>2. OnTrail(P, F, D, k, p, o, n)
    BY <1>1, TrailNode
  <1>3. /\ i \in D.used /\ i \in Item /\ NodeOK(D.item[i]) /\ SameNode(P.item[o[n]], D.item[i])
        /\ Agrees(k, P.item[o[n]].prefix) /\ HoldsAt(P, F, o[n]) /\ Few(P.item[o[n]].bucket)
    BY <1>2, Zenon DEF OnTrail
  <1>4. D.item[i].leaf /\ Few(D.item[i].bucket) /\ Agrees(k, D.item[i].prefix)
    BY <1>1, <1>3 DEF SameNode
  <1>5. H[i] = F[o[n]] /\ \A x \in Item \ {i} : H[x] = F[x]
    BY <1>3
  <1> HIDE DEF H
  <1>6. HoldsAt(D, H, i)
    BY <1>1, <1>3, <1>5, Zenon DEF HoldsAt, NodeHolds, SameNode
  <1>7. Places(D) >= 2 * HashBits
    <2>1. HashBits \in Nat /\ Places(D) \in Nat /\ Places(P) \in Nat
      <3>1. PoolOK(D) /\ PoolOK(P)
        BY <1>1 DEF Core, MayWrite, CanWrite
      <3> QED
        BY <3>1, PlacesType, TreeAssumption
    <2> QED
      BY <1>1, <2>1
  <1>8. LeafOut(D, i, k, v, H, ext, D.used \ P.used, WriteLeaf(D, i, k, v))
    <2> HIDE DEF i, D
    <2> QED
      BY <1>1, <1>3, <1>4, <1>6, <1>7, WriteLeafRight
  <1>9. Last(s.path) = i
    BY DEF Last
  <1> QED
    BY <1>5, <1>8, <1>9 DEF LeafDone

PathKnown(P, D, p, o, k, ext, W) ==
    /\ PathOK(W, p, k) /\ Core(W, ext, D.used \ P.used)
    /\ \A d \in 1 .. Len(p) - 1 : W.item[p[d]] = D.item[p[d]]
    /\ \A d \in 1 .. Len(p) : W.item[p[d]].prefix = P.item[o[d]].prefix

LEMMA PathThere ==
    ASSUME NEW P, NEW F, NEW ext, NEW r, NEW k, NEW v, MayWrite(P, F, ext, r, k, v),
           NEW s, NEW o, DescendOut(P, k, r, ext, s, o), NEW W, LeafDone(P, F, s.pool, s.path, o, k, v, ext, W)
    PROVE  PathKnown(P, s.pool, s.path, o, k, ext, W)
  <1> DEFINE D == s.pool
             p == s.path
             n == Len(p)
             i == p[n]
  <1>1. p \in Seq(Item) /\ n \in Nat /\ n \in 1 .. n
    BY DEF DescendOut, DescendInv, Trail
  <1>2. PICK H : LeafOut(D, i, k, v, H, ext, D.used \ P.used, W)
    BY DEF LeafDone
  <1>3. /\ Core(W, ext, D.used \ P.used) /\ D.used \subseteq W.used /\ i \in D.used
        /\ \A x \in D.used \ {i} : W.item[x] = D.item[x]
        /\ W.item[i].prefix = D.item[i].prefix
    BY <1>2 DEF LeafOut
  <1>4. \A d \in 1 .. n : OnTrail(P, F, D, k, p, o, d)
    BY TrailNode
  <1>5. ASSUME NEW d \in 1 .. n PROVE p[d] \in W.used /\ W.item[p[d]].prefix = P.item[o[d]].prefix
    <2>1. p[d] \in D.used /\ SameNode(P.item[o[d]], D.item[p[d]])
      BY <1>4 DEF OnTrail
    <2> QED
      BY <1>3, <2>1 DEF SameNode
  <1>6. ASSUME NEW d \in 1 .. n PROVE Len(P.item[o[d]].prefix) = d - 1
    BY <1>4 DEF OnTrail
  <1>7. ASSUME NEW d \in 1 .. n - 1 PROVE W.item[p[d]] = D.item[p[d]]
    <2>1. d \in 1 .. n /\ d # n
      BY <1>1
    <2>2. p[d] # i
      <3>1. d - 1 = n - 1 => FALSE
        BY <1>1, <2>1
      <3> QED
        BY <1>1, <1>5, <1>6, <2>1, <3>1
    <2>3. p[d] \in D.used
      BY <1>4, <2>1 DEF OnTrail
    <2> QED
      BY <1>3, <2>2, <2>3
  <1>8. ASSUME NEW d \in 1 .. n - 1
        PROVE  LET side == Side(k, W.item[p[d]].prefix)
               IN  side \in {Left, Right} /\ W.item[p[d + 1]].prefix = Append(W.item[p[d]].prefix, side)
    <2>1. d \in 1 .. n /\ d < n /\ d + 1 \in 1 .. n
      BY <1>1
    <2>2. LET side == Side(k, P.item[o[d]].prefix)
          IN  side \in {Left, Right} /\ P.item[o[d + 1]].prefix = Append(P.item[o[d]].prefix, side)
      BY <1>4, <2>1 DEF OnTrail
    <2> QED
      BY <1>5, <2>1, <2>2, Zenon
  <1>9. PathOK(W, p, k)
    BY <1>1, <1>5, <1>6, <1>8 DEF PathOK
  <1> QED
    BY <1>3, <1>5, <1>7, <1>9 DEF PathKnown

\* What is below the nodes when the leaf has been written.
LeafHeld(F, D, p, o, k, v, W, J) ==
    LET i == p[Len(p)]
    IN  /\ J[i] = Written(F[o[Len(p)]], k, v) /\ \A x \in D.used \ {i} : J[x] = F[x]
        /\ D.used \subseteq W.used /\ \A x \in D.used \ {i} : W.item[x] = D.item[x]
        /\ \A x \in W.used : (x \in D.used => x = i) => HoldsAt(W, J, x) /\ Few(W.item[x].bucket) /\ W.item[x].dirty
        /\ \A x \in W.used \ D.used : Len(W.item[x].prefix) > Len(p) - 1

\* The whole write, from P to Q; G is what is below the nodes of Q.
InsertDone(P, F, ext, r, k, v, s, o, W, Q, J, G) ==
    /\ MayWrite(P, F, ext, r, k, v) /\ DescendOut(P, k, r, ext, s, o)
    /\ LeafDone(P, F, s.pool, s.path, o, k, v, ext, W)
    /\ AscendOut(W, s.path, k, ext, s.pool.used \ P.used, Q)
    /\ LeafHeld(F, s.pool, s.path, o, k, v, W, J)
    /\ \A d \in 1 .. Len(s.path) : G[s.path[d]] = Written(F[o[d]], k, v)
    /\ \A x \in Item : (\A d \in 1 .. Len(s.path) : x # s.path[d]) => G[x] = J[x]

LEMMA LeafIsHeld ==
    ASSUME NEW P, NEW F, NEW ext, NEW r, NEW k, NEW v, MayWrite(P, F, ext, r, k, v),
           NEW s, NEW o, DescendOut(P, k, r, ext, s, o), NEW W, LeafDone(P, F, s.pool, s.path, o, k, v, ext, W)
    PROVE  \E J : LeafHeld(F, s.pool, s.path, o, k, v, W, J)
  <1> DEFINE D == s.pool
             p == s.path
             n == Len(p)
             i == p[n]
  <1>1. PICK H : /\ LeafOut(D, i, k, v, H, ext, D.used \ P.used, W)
                 /\ H[i] = F[o[n]] /\ \A x \in Item \ {i} : H[x] = F[x]
    BY DEF LeafDone
  <1>2. /\ D.used \subseteq W.used /\ i \in D.used
        /\ \A x \in D.used \ {i} : W.item[x] = D.item[x]
        /\ \A x \in W.used : (x \in D.used => x = i) => Few(W.item[x].bucket) /\ W.item[x].dirty
        /\ \A x \in W.used \ D.used : Len(W.item[x].prefix) > Len(D.item[i].prefix)
    BY <1>1 DEF LeafOut
  <1>3. PICK J : /\ HoldsBut(W, J, D.used \ {i}) /\ J[i] = Written(H[i], k, v)
                 /\ \A x \in D.used \ {i} : J[x] = H[x]
    BY <1>1 DEF LeafOut
  <1>4. n \in 1 .. n /\ n \in Nat
    BY DEF DescendOut, DescendInv, Trail
  <1>5. OnTrail(P, F, D, k, p, o, n)
    BY <1>4, TrailNode
  <1>6. Len(D.item[i].prefix) = n - 1
    BY <1>5, Zenon DEF OnTrail, SameNode
  <1>7. D.used \subseteq Item
    <2>1. Core(D, ext, D.used \ P.used)
      BY DEF DescendOut, DescendInv
    <2> QED
      BY <2>1, CoreFacts
  <1>8. \A x \in W.used : (x \in D.used => x = i) => HoldsAt(W, J, x)
    BY <1>3 DEF HoldsBut
  <1>9. LeafHeld(F, D, p, o, k, v, W, J)
    BY <1>1, <1>2, <1>3, <1>6, <1>7, <1>8 DEF LeafHeld
  <1> QED
    BY <1>9

\* The nodes of Q: those of the path, new ones below it, and the others of P as they were.
InsertFacts(P, F, ext, k, v, s, o, W, Q, J, G) ==
    /\ Core(P, ext, {}) /\ Core(Q, ext, Pending(s.pool.used \ P.used, s.path, 1)) /\ Q.used \subseteq Item
    /\ P.used \subseteq Item /\ Len(s.path) \in Nat /\ Len(s.path) >= 1 /\ s.path \in Seq(Item)
    /\ \A x \in Item : NodeOK(P.item[x]) /\ NodeOK(Q.item[x])
    /\ \A d \in 1 .. Len(s.path) :
          /\ OnTrail(P, F, s.pool, k, s.path, o, d) /\ s.path[d] \in Q.used
          /\ Q.item[s.path[d]].prefix = P.item[o[d]].prefix /\ Len(P.item[o[d]].prefix) = d - 1
    /\ \A d \in 1 .. Len(s.path) - 1 : Q.item[s.path[d]] = Relinked(s.pool.item[s.path[d]], k, s.path[d + 1])
    /\ Q.item[s.path[Len(s.path)]] = W.item[s.path[Len(s.path)]]
    /\ \A x \in Q.used : \/ \E d \in 1 .. Len(s.path) : x = s.path[d]
                         \/ x \in W.used \ s.pool.used /\ Q.item[x] = W.item[x]
                         \/ x \in P.used /\ Q.item[x] = P.item[x] /\ G[x] = F[x]
    /\ \A x \in Q.used, c \in {1, 2} : Q.item[x].child[c] # Null =>
          /\ Q.item[x].child[c] \in Q.used
          /\ Len(Q.item[Q.item[x].child[c]].prefix) = Len(Q.item[x].prefix) + 1
          /\ Q.item[Q.item[x].child[c]].prefix = Append(Q.item[x].prefix, c - 1)
    /\ \A x \in P.used : (\A d \in 1 .. Len(s.path) : x # s.path[d]) => G[x] = F[x]
    /\ \A d, e \in 1 .. Len(s.path) : s.path[d] = s.path[e] => d = e

LEMMA InsertIsKnown ==
    ASSUME NEW P, NEW F, NEW ext, NEW r, NEW k, NEW v, NEW s, NEW o, NEW W, NEW Q, NEW J, NEW G,
           InsertDone(P, F, ext, r, k, v, s, o, W, Q, J, G)
    PROVE  InsertFacts(P, F, ext, k, v, s, o, W, Q, J, G)
  <1> DEFINE D == s.pool
             p == s.path
             n == Len(p)
             N == D.used \ P.used
  <1>1. /\ MayWrite(P, F, ext, r, k, v) /\ DescendOut(P, k, r, ext, s, o)
        /\ LeafDone(P, F, D, p, o, k, v, ext, W) /\ AscendOut(W, p, k, ext, N, Q) /\ LeafHeld(F, D, p, o, k, v, W, J)
        /\ \A x \in Item : (\A d \in 1 .. n : x # p[d]) => G[x] = J[x]
    BY DEF InsertDone
  <1>2. /\ Core(P, ext, {}) /\ P.used \subseteq D.used /\ (\A x \in P.used : D.item[x] = P.item[x])
        /\ \A x \in N : \E d \in 1 .. n : x = p[d]
    BY <1>1 DEF MayWrite, CanWrite, DescendOut, DescendInv
  <1>3. /\ PathOK(W, p, k) /\ Core(W, ext, N)
        /\ \A d \in 1 .. n - 1 : W.item[p[d]] = D.item[p[d]]
        /\ \A d \in 1 .. n : W.item[p[d]].prefix = P.item[o[d]].prefix
    <2>1. PathKnown(P, s.pool, s.path, o, k, ext, W)
      BY <1>1, PathThere
    <2> QED
      BY <2>1 DEF PathKnown
  <1>4. n \in Nat /\ n >= 1 /\ p \in Seq(Item)
    BY <1>3 DEF PathOK
  <1>5. \A d \in 1 .. n : OnTrail(P, F, D, k, p, o, d)
    BY <1>1, TrailNode
  <1>6. /\ Core(Q, ext, Pending(N, p, 1)) /\ Q.used \subseteq W.used
        /\ \A d \in 1 .. n : p[d] \in Q.used
        /\ \A x \in Q.used : (\A d \in 1 .. n : x # p[d]) => Q.item[x] = W.item[x]
        /\ \A d \in 1 .. n - 1 : Q.item[p[d]] = Relinked(W.item[p[d]], k, p[d + 1])
        /\ Q.item[p[n]] = W.item[p[n]]
    BY <1>1 DEF AscendOut
  <1>7. /\ P.used \subseteq Item /\ Q.used \subseteq Item /\ W.used \subseteq Item
        /\ \A x \in Item : NodeOK(P.item[x]) /\ NodeOK(Q.item[x]) /\ NodeOK(W.item[x])
    BY <1>2, <1>3, <1>6, CoreFacts
  <1>8. ASSUME NEW d \in 1 .. n PROVE Q.item[p[d]].prefix = P.item[o[d]].prefix /\ Len(P.item[o[d]].prefix) = d - 1
    <2>1. Len(P.item[o[d]].prefix) = d - 1
      BY <1>5 DEF OnTrail
    <2>2. CASE d = n
      BY <1>3, <1>6, <2>1, <2>2
    <2>3. CASE d # n
      <3>1. d \in 1 .. n - 1 /\ d + 1 \in 1 .. n
        BY <1>4, <2>3
      <3>2. Side(k, W.item[p[d]].prefix) \in {Left, Right} /\ p[d] \in Item /\ p[d + 1] \in Item
        BY <1>3, <1>4, <3>1 DEF PathOK
      <3>3. Relinked(W.item[p[d]], k, p[d + 1]).prefix = W.item[p[d]].prefix
        <4>1. NodeOK(W.item[p[d]]) /\ p[d + 1] \in Item \cup {Null}
          BY <1>7, <3>2
        <4> QED
          BY <3>2, <4>1, RelinkedOK
      <3> QED
        BY <1>3, <1>6, <2>1, <3>1, <3>3
    <2> QED
      BY <2>2, <2>3
  <1>9. /\ (\A x \in D.used \ {p[n]} : J[x] = F[x]) /\ D.used \subseteq W.used
        /\ \A x \in D.used \ {p[n]} : W.item[x] = D.item[x]
    BY <1>1 DEF LeafHeld
  <1>10. \A x \in P.used : (\A d \in 1 .. n : x # p[d]) => G[x] = F[x] /\ W.item[x] = P.item[x]
    <2> SUFFICES ASSUME NEW x \in P.used, \A d \in 1 .. n : x # p[d] PROVE G[x] = F[x] /\ W.item[x] = P.item[x]
      OBVIOUS
    <2>1. x # p[n] /\ x \in D.used /\ x \in Item
      BY <1>2, <1>4, <1>7
    <2> QED
      BY <1>1, <1>2, <1>9, <2>1
  <1>11. ASSUME NEW x \in Q.used
         PROVE  \/ \E d \in 1 .. n : x = p[d]
                \/ x \in W.used \ D.used /\ Q.item[x] = W.item[x]
                \/ x \in P.used /\ Q.item[x] = P.item[x] /\ G[x] = F[x]
    <2> SUFFICES ASSUME \A d \in 1 .. n : x # p[d], x \in D.used
                 PROVE  x \in P.used /\ Q.item[x] = P.item[x] /\ G[x] = F[x]
      BY <1>6
    <2>1. x \in P.used
      BY <1>2
    <2> QED
      BY <1>6, <1>10, <2>1
  <1>12. ASSUME NEW x \in Q.used, NEW c \in {1, 2}, Q.item[x].child[c] # Null
         PROVE  /\ Q.item[x].child[c] \in Q.used
                /\ Len(Q.item[Q.item[x].child[c]].prefix) = Len(Q.item[x].prefix) + 1
                /\ Q.item[Q.item[x].child[c]].prefix = Append(Q.item[x].prefix, c - 1)
    <2>1. LinkOK(Q, x, c)
      BY <1>6, CoreFacts
    <2>2. Q.item[x].prefix \in Bits
      <3>1. NodeOK(Q.item[x])
        BY <1>7
      <3> QED
        BY <3>1 DEF NodeOK
    <2>3. c - 1 \in {Left, Right}
      BY DEF Left, Right
    <2> QED
      BY <1>12, <2>1, <2>2, <2>3, BitsAppend, Zenon DEF LinkOK
  <1>13. \A d, e \in 1 .. n : p[d] = p[e] => d = e
    BY <1>3, PathDistinct
  <1>14. \A d \in 1 .. n - 1 : Q.item[p[d]] = Relinked(D.item[p[d]], k, p[d + 1])
    BY <1>3, <1>6
  <1> QED
    BY <1>2, <1>4, <1>5, <1>6, <1>7, <1>8, <1>10, <1>11, <1>12, <1>13, <1>14, Zenon DEF InsertFacts

\* A pair is written on its side.
LEMMA WrittenPart ==
    ASSUME NEW A, IsBucket(A), NEW k \in Key, NEW v, NEW p, NEW t
    PROVE  /\ Side(k, p) = t => Part(Written(A, k, v), p, t) = Written(Part(A, p, t), k, v)
           /\ Side(k, p) # t => Part(Written(A, k, v), p, t) = Part(A, p, t)
  <1> DEFINE B == Written(A, k, v)
             C == Part(A, p, t)
             K == {j \in Keys(A) : Side(j, p) = t}
             KB == {j \in Keys(B) : Side(j, p) = t}
  <1>1. /\ v = Null => Keys(B) = Keys(A) \ {k} /\ \A j \in Keys(A) \ {k} : B[j] = A[j]
        /\ v # Null => Keys(B) = Keys(A) \cup {k} /\ B[k] = v /\ \A j \in Keys(A) \ {k} : B[j] = A[j]
    BY WrittenKeys
  <1>2. Part(B, p, t) = [j \in KB |-> B[j]]
    BY DEF Part, Only
  <1>3. C = [j \in K |-> A[j]] /\ Keys(C) = K
    BY DEF Part, Only, Keys
  <1> HIDE DEF B, C
  <1>4. CASE Side(k, p) # t
    <2>1. KB = K /\ \A j \in K : B[j] = A[j]
      BY <1>1, <1>4
    <2>2. [j \in KB |-> B[j]] = [j \in K |-> A[j]]
      BY <2>1
    <2> QED
      BY <1>2, <1>3, <1>4, <2>2 DEF B, C
  <1>5. CASE Side(k, p) = t /\ v = Null
    <2>1. KB = K \ {k} /\ \A j \in K \ {k} : B[j] = A[j] /\ C[j] = A[j]
      BY <1>1, <1>3, <1>5
    <2>2. Written(C, k, v) = [j \in K \ {k} |-> C[j]]
      BY <1>3, <1>5 DEF Written, Only
    <2>3. [j \in KB |-> B[j]] = [j \in K \ {k} |-> C[j]]
      BY <2>1
    <2> QED
      BY <1>2, <1>5, <2>2, <2>3 DEF B, C
  <1>6. CASE Side(k, p) = t /\ v # Null
    <2>1. KB = K \cup {k} /\ B[k] = v /\ \A j \in K \ {k} : B[j] = A[j] /\ C[j] = A[j]
      BY <1>1, <1>3, <1>6
    <2>2. Written(C, k, v) = [j \in K \cup {k} |-> IF j = k THEN v ELSE C[j]]
      BY <1>3, <1>6 DEF Written, With
    <2>3. [j \in KB |-> B[j]] = [j \in K \cup {k} |-> IF j = k THEN v ELSE C[j]]
      BY <2>1
    <2> QED
      BY <1>2, <1>6, <2>2, <2>3 DEF B, C
  <1> QED
    BY <1>4, <1>5, <1>6

\* A node of the path above the leaf.
LEMMA InnerWritten ==
    ASSUME NEW n, NodeOK(n), NEW A, NEW l, NEW r, NodeHolds(n, A, l, r), ~n.leaf,
           NEW k \in Key, Agrees(k, n.prefix), NEW v \in Val \cup {Null},
           NEW m, m.leaf = n.leaf, m.prefix = n.prefix, m.bucket = n.bucket, m.child[1] # Null, m.child[2] # Null,
           NEW l2, NEW r2, Side(k, n.prefix) \in {Left, Right},
           Side(k, n.prefix) = Left => l2 = Written(l, k, v) /\ r2 = r,
           Side(k, n.prefix) = Right => l2 = l /\ r2 = Written(r, k, v)
    PROVE  NodeHolds(m, Written(A, k, v), l2, r2)
  <1> DEFINE B == Written(A, k, v)
  <1>1. /\ IsBucket(A) /\ (\A j \in Keys(A) : Agrees(j, n.prefix) /\ A[j] \in Val) /\ Len(n.prefix) <= HashBits
        /\ Keys(n.bucket) = {} /\ Len(n.prefix) < HashBits
        /\ l = Part(A, n.prefix, Left) /\ r = Part(A, n.prefix, Right)
    BY DEF NodeHolds
  <1>2. /\ IsBucket(B)
        /\ v = Null => /\ Keys(B) = Keys(A) \ {k}
                       /\ \A j \in Keys(A) \ {k} : B[j] = A[j]
        /\ v # Null => /\ Keys(B) = Keys(A) \cup {k} /\ B[k] = v
                       /\ \A j \in Keys(A) \ {k} : B[j] = A[j]
    BY <1>1, WrittenKeys
  <1>3. l2 = Part(B, n.prefix, Left) /\ r2 = Part(B, n.prefix, Right)
    <2>1. Left # Right
      BY DEF Left, Right
    <2>2. /\ Side(k, n.prefix) = Left => Part(B, n.prefix, Left) = Written(l, k, v) /\ Part(B, n.prefix, Right) = r
          /\ Side(k, n.prefix) = Right => Part(B, n.prefix, Right) = Written(r, k, v) /\ Part(B, n.prefix, Left) = l
      BY <1>1, <2>1, WrittenPart
    <2> QED
      BY <2>2
  <1> HIDE DEF B
  <1>4. \A j \in Keys(B) : Agrees(j, n.prefix) /\ B[j] \in Val
    <2>1. CASE v = Null
      BY <1>1, <1>2, <2>1
    <2>2. CASE v # Null
      BY <1>1, <1>2, <2>2
    <2> QED
      BY <2>1, <2>2
  <1> QED
    BY <1>1, <1>2, <1>3, <1>4 DEF NodeHolds, B

\* The path leads to no child of a node of P that it does not lead to.
LEMMA ChildOffPath ==
    ASSUME NEW P, NEW F, NEW ext, NEW r, NEW k, NEW v, MayWrite(P, F, ext, r, k, v),
           NEW s, NEW o, DescendOut(P, k, r, ext, s, o), Len(s.path) \in Nat,
           NEW x \in P.used, \A d \in 1 .. Len(s.path) : x # s.path[d], ~P.item[x].leaf, NEW c \in {1, 2}
    PROVE  P.item[x].child[c] \in P.used /\ \A d \in 1 .. Len(s.path) : P.item[x].child[c] # s.path[d]
  <1> DEFINE p == s.path
             y == P.item[x].child[c]
  <1>1. Core(P, ext, {}) /\ HoldsAt(P, F, x)
    BY DEF MayWrite, CanWrite, Holds
  <1>2. y # Null
    <2>1. P.item[x].child[1] # Null /\ P.item[x].child[2] # Null
      BY <1>1 DEF HoldsAt, NodeHolds
    <2> QED
      BY <2>1
  <1>3. y \in P.used
    <2>1. LinkOK(P, x, c)
      BY <1>1, CoreFacts
    <2> QED
      BY <1>2, <2>1 DEF LinkOK
  <1>4. ASSUME NEW d \in 1 .. Len(p) PROVE y # p[d]
    <2> SUFFICES ASSUME y = p[d] PROVE FALSE
      OBVIOUS
    <2>1. d > 1 /\ x = p[d - 1]
      <3>1. s.path[d] \in P.used /\ P.item[x].child[c] = s.path[d] /\ d \in 1 .. Len(s.path)
        BY <1>3
      <3> QED
        BY <3>1, TrailSealed
    <2>2. d - 1 \in 1 .. Len(p)
      BY <2>1
    <2> QED
      BY <2>1, <2>2
  <1> QED
    BY <1>3, <1>4

\* What a node of P that the path does not lead to says stays right.
LEMMA InsertKeeps ==
    ASSUME NEW P, NEW F, NEW ext, NEW r, NEW k, NEW v, NEW s, NEW o, NEW W, NEW Q, NEW J, NEW G,
           InsertDone(P, F, ext, r, k, v, s, o, W, Q, J, G), InsertFacts(P, F, ext, k, v, s, o, W, Q, J, G),
           NEW x \in Q.used, x \in P.used, \A d \in 1 .. Len(s.path) : x # s.path[d],
           Q.item[x] = P.item[x], G[x] = F[x]
    PROVE  HoldsAt(Q, G, x) /\ NodeRight(Q.item[x], G[x]) /\ SealedAt(Q, x)
  <1> DEFINE p == s.path
  <1>1. /\ Core(P, ext, {}) /\ Len(p) \in Nat
        /\ \A y \in P.used : (\A d \in 1 .. Len(p) : y # p[d]) => G[y] = F[y]
    BY DEF InsertFacts
  <1>2. MayWrite(P, F, ext, r, k, v) /\ DescendOut(P, k, r, ext, s, o)
    BY DEF InsertDone
  <1>3. HoldsAt(P, F, x)
    BY <1>2 DEF MayWrite, CanWrite, Holds
  <1>4. ASSUME NEW c \in {1, 2}, ~P.item[x].leaf
        PROVE  /\ G[P.item[x].child[c]] = F[P.item[x].child[c]]
               /\ Q.item[P.item[x].child[c]] = P.item[P.item[x].child[c]]
    <2> DEFINE y == P.item[x].child[c]
    <2>1. y \in P.used /\ \A d \in 1 .. Len(p) : y # p[d]
      BY <1>1, <1>2, <1>4, ChildOffPath
    <2>2. y \in Q.used
      <3>1. y \in Item /\ y # Null
        <4>1. P.used \subseteq Item
          BY DEF InsertFacts
        <4> QED
          BY <2>1, <4>1, TreeAssumption
      <3>2. Q.item[x].child[c] # Null => Q.item[x].child[c] \in Q.used
        BY DEF InsertFacts
      <3> QED
        BY <3>1, <3>2
    <2>3. P.used \subseteq s.pool.used
      BY <1>2 DEF DescendOut, DescendInv
    <2> HIDE DEF y
    <2>4. Q.item[y] = P.item[y]
      BY <2>1, <2>2, <2>3 DEF InsertFacts
    <2>5. G[y] = F[y]
      BY <1>1, <2>1
    <2> QED
      BY <2>4, <2>5 DEF y
  <1>5. SameNode(P.item[x], Q.item[x])
    BY DEF SameNode
  <1>6. ~P.item[x].leaf => /\ G[P.item[x].child[1]] = F[P.item[x].child[1]]
                           /\ G[P.item[x].child[2]] = F[P.item[x].child[2]]
    BY <1>4
  <1>7. HoldsAt(Q, G, x)
    BY <1>3, <1>5, <1>6, HoldsKept
  <1>8. NodeRight(P.item[x], F[x]) /\ SealedAt(P, x)
    BY <1>2 DEF MayWrite, Settled
  <1>9. SealedAt(Q, x)
    <2>1. ~P.item[x].leaf => /\ Q.item[P.item[x].child[1]] = P.item[P.item[x].child[1]]
                             /\ Q.item[P.item[x].child[2]] = P.item[P.item[x].child[2]]
      BY <1>4
    <2> QED
      BY <1>8, <2>1 DEF SealedAt, ChildrenClean
  <1> QED
    BY <1>7, <1>8, <1>9

\* The leaf, and the nodes that were split off.
LEMMA InsertLeafHolds ==
    ASSUME NEW P, NEW F, NEW ext, NEW r, NEW k, NEW v, NEW s, NEW o, NEW W, NEW Q, NEW J, NEW G,
           InsertDone(P, F, ext, r, k, v, s, o, W, Q, J, G), InsertFacts(P, F, ext, k, v, s, o, W, Q, J, G),
           NEW x \in Q.used, x \in W.used, Q.item[x] = W.item[x], x \in s.pool.used => x = s.path[Len(s.path)]
    PROVE  HoldsAt(Q, G, x)
  <1> DEFINE p == s.path
             n == Len(p)
  <1>1. /\ n \in Nat /\ n >= 1 /\ Q.used \subseteq Item
        /\ \A d \in 1 .. n : p[d] \in s.pool.used /\ Len(Q.item[p[d]].prefix) = d - 1
        /\ \A y \in Q.used, c \in {1, 2} : Q.item[y].child[c] # Null =>
              /\ Q.item[y].child[c] \in Q.used
              /\ Len(Q.item[Q.item[y].child[c]].prefix) = Len(Q.item[y].prefix) + 1
    BY DEF InsertFacts, OnTrail
  <1>2. /\ LeafHeld(F, s.pool, p, o, k, v, W, J)
        /\ \A d \in 1 .. n : G[p[d]] = Written(F[o[d]], k, v)
        /\ \A y \in Item : (\A d \in 1 .. n : y # p[d]) => G[y] = J[y]
    BY DEF InsertDone
  <1>3. HoldsAt(W, J, x) /\ Len(W.item[x].prefix) >= n - 1 /\ G[x] = J[x]
    <2>1. HoldsAt(W, J, x) /\ (x \notin s.pool.used => Len(W.item[x].prefix) > n - 1) /\ J[p[n]] = Written(F[o[n]], k, v)
      BY <1>2 DEF LeafHeld
    <2>2. CASE x = p[n]
      <3>1. n \in 1 .. n
        BY <1>1
      <3>2. Len(Q.item[p[n]].prefix) = n - 1 /\ G[p[n]] = Written(F[o[n]], k, v)
        BY <1>1, <1>2, <3>1
      <3>3. Len(W.item[x].prefix) = n - 1
        BY <2>2, <3>2
      <3> QED
        BY <1>1, <2>1, <2>2, <3>2, <3>3
    <2>3. CASE x \notin s.pool.used
      <3>1. \A d \in 1 .. n : x # p[d]
        BY <1>1, <2>3
      <3>2. Len(W.item[x].prefix) \in Nat
        <4>1. NodeOK(Q.item[x])
          BY DEF InsertFacts
        <4> QED
          BY <4>1, ChildType
      <3> QED
        BY <1>1, <1>2, <2>1, <2>3, <3>1, <3>2
    <2> QED
      BY <2>1, <2>2, <2>3
  <1>4. ASSUME NEW c \in {1, 2}, ~W.item[x].leaf PROVE G[W.item[x].child[c]] = J[W.item[x].child[c]]
    <2> DEFINE y == W.item[x].child[c]
    <2>1. y # Null
      <3>1. W.item[x].child[1] # Null /\ W.item[x].child[2] # Null
        BY <1>3, <1>4 DEF HoldsAt, NodeHolds
      <3> QED
        BY <3>1
    <2>2. y \in Item /\ Len(Q.item[y].prefix) = Len(W.item[x].prefix) + 1
      BY <1>1, <2>1
    <2>3. Len(W.item[x].prefix) \in Nat
      <3>1. NodeOK(Q.item[x])
        BY DEF InsertFacts
      <3> QED
        BY <3>1, ChildType
    <2>4. ASSUME NEW d \in 1 .. n PROVE y # p[d]
      <3>1. Len(Q.item[y].prefix) >= n
        BY <1>1, <1>3, <2>2, <2>3
      <3>2. Len(Q.item[p[d]].prefix) < n
        BY <1>1
      <3>3. Len(Q.item[y].prefix) \in Nat
        BY <2>2, <2>3
      <3> SUFFICES ASSUME y = p[d] PROVE FALSE
        OBVIOUS
      <3>4. Len(Q.item[y].prefix) < n
        BY <3>2
      <3> HIDE DEF y
      <3> QED
        BY <1>1, <3>1, <3>3, <3>4
    <2> QED
      BY <1>2, <2>2, <2>4
  <1>5. SameNode(W.item[x], Q.item[x])
    BY DEF SameNode
  <1>6. ~W.item[x].leaf => /\ G[W.item[x].child[1]] = J[W.item[x].child[1]]
                           /\ G[W.item[x].child[2]] = J[W.item[x].child[2]]
    BY <1>4
  <1> QED
    BY <1>3, <1>5, <1>6, HoldsKept

\* The nodes of the path above the leaf.
LEMMA InsertPathHolds ==
    ASSUME NEW P, NEW F, NEW ext, NEW r, NEW k, NEW v, NEW s, NEW o, NEW W, NEW Q, NEW J, NEW G,
           InsertDone(P, F, ext, r, k, v, s, o, W, Q, J, G), InsertFacts(P, F, ext, k, v, s, o, W, Q, J, G),
           NEW d \in 1 .. Len(s.path) - 1
    PROVE  HoldsAt(Q, G, s.path[d]) /\ Few(Q.item[s.path[d]].bucket) /\ Q.item[s.path[d]].dirty
  <1> DEFINE p == s.path
             n == Len(p)
             x == p[d]
             y == p[d + 1]
             a == P.item[o[d]]
             b == s.pool.item[x]
             m == Q.item[x]
             side == Side(k, a.prefix)
  <1>1. /\ k \in Key /\ v \in Val \cup {Null}
        /\ \A e \in 1 .. n : G[p[e]] = Written(F[o[e]], k, v)
    BY DEF InsertDone, MayWrite
  <1>2. /\ n \in Nat /\ p \in Seq(Item) /\ Core(P, ext, {}) /\ Q.used \subseteq Item /\ P.used \subseteq Item
        /\ \A e \in 1 .. n : /\ OnTrail(P, F, s.pool, k, p, o, e) /\ p[e] \in Q.used
                             /\ Q.item[p[e]].prefix = P.item[o[e]].prefix /\ Len(P.item[o[e]].prefix) = e - 1
        /\ \A e \in 1 .. n - 1 : Q.item[p[e]] = Relinked(s.pool.item[p[e]], k, p[e + 1])
        /\ \A z \in Q.used, c \in {1, 2} : Q.item[z].child[c] # Null =>
              /\ Q.item[z].child[c] \in Q.used
              /\ Len(Q.item[Q.item[z].child[c]].prefix) = Len(Q.item[z].prefix) + 1
              /\ Q.item[Q.item[z].child[c]].prefix = Append(Q.item[z].prefix, c - 1)
        /\ \A z \in P.used : (\A e \in 1 .. n : z # p[e]) => G[z] = F[z]
    BY Zenon DEF InsertFacts
  <1>3. d \in 1 .. n /\ d + 1 \in 1 .. n /\ d < n /\ d \in Nat
    BY <1>2
  <1>4. /\ o[d] \in P.used /\ NodeOK(a) /\ NodeOK(b) /\ SameNode(a, b) /\ Len(a.prefix) = d - 1 /\ Agrees(k, a.prefix)
        /\ HoldsAt(P, F, o[d]) /\ Few(a.bucket) /\ ~a.leaf /\ side \in {Left, Right} /\ a.child[side + 1] = o[d + 1]
        /\ x \in Item /\ a.prefix \in Bits
    BY <1>2, <1>3 DEF OnTrail
  <1>5. y \in Item /\ y \in Q.used /\ Q.item[y].prefix = P.item[o[d + 1]].prefix /\ Len(P.item[o[d + 1]].prefix) = d
        /\ P.item[o[d + 1]].prefix = Append(a.prefix, side)
    <2>1. P.item[o[d + 1]].prefix = Append(a.prefix, side)
      BY <1>2, <1>3 DEF OnTrail
    <2>2. /\ OnTrail(P, F, s.pool, k, p, o, d + 1) /\ y \in Q.used
          /\ Q.item[y].prefix = P.item[o[d + 1]].prefix /\ Len(P.item[o[d + 1]].prefix) = (d + 1) - 1
      BY <1>2, <1>3
    <2>3. y \in Item
      BY <2>2 DEF OnTrail
    <2>4. (d + 1) - 1 = d
      BY <1>3
    <2> HIDE DEF y, a, side
    <2> QED
      BY <2>1, <2>2, <2>3, <2>4
  <1>6. m = Relinked(b, k, y)
    BY <1>2
  <1>7. b.leaf = a.leaf /\ b.prefix = a.prefix /\ b.bucket = a.bucket /\ b.child = a.child
    BY <1>4 DEF SameNode
  <1> HIDE DEF p, x, y, a, b, m, side, n
  <1>8. /\ m.dirty /\ m.leaf = a.leaf /\ m.prefix = a.prefix /\ m.bucket = a.bucket
        /\ m.child[side + 1] = y /\ m.child[3 - (side + 1)] = a.child[3 - (side + 1)] /\ side + 1 \in {1, 2}
    <2>1. Side(k, b.prefix) = side /\ y \in Item \cup {Null}
      BY <1>5, <1>7 DEF side
    <2> QED
      BY <1>4, <1>6, <1>7, <2>1, RelinkedOK
  <1> DEFINE c == 3 - (side + 1)
             z == a.child[c]
  <1>9. c \in {1, 2} /\ c # side + 1 /\ c - 1 # side
    BY <1>8
  <1>10. z # Null
    <2>1. a.child[1] # Null /\ a.child[2] # Null
      BY <1>4 DEF HoldsAt, NodeHolds, a
    <2> QED
      BY <1>9, <2>1
  <1>11. z \in P.used
    <2>1. LinkOK(P, o[d], c)
      BY <1>2, <1>4, <1>9, CoreFacts
    <2> QED
      BY <1>10, <2>1, Zenon DEF LinkOK, a
  <1>12. x \in Q.used /\ Q.item[x] = m
    BY <1>2, <1>3 DEF x, m, p, n
  <1>13. Q.item[z].prefix = Append(a.prefix, c - 1) /\ Len(Q.item[z].prefix) = (d - 1) + 1
    <2>1. m.child[c] # Null /\ m.child[c] = z
      BY <1>8, <1>10
    <2>2. /\ Q.item[x].child[c] \in Q.used
          /\ Len(Q.item[Q.item[x].child[c]].prefix) = Len(Q.item[x].prefix) + 1
          /\ Q.item[Q.item[x].child[c]].prefix = Append(Q.item[x].prefix, c - 1)
      <3> HIDE DEF c
      <3> QED
        BY <1>2, <1>9, <1>12, <2>1
    <2> QED
      BY <1>4, <1>8, <1>12, <2>1, <2>2
  <1>14. ASSUME NEW e \in 1 .. n PROVE z # p[e]
    <2>1. CASE e = d + 1
      <3>1. Append(a.prefix, c - 1) # Append(a.prefix, side)
        <4>1. a.prefix \in Seq(Side2) /\ side \in Side2 /\ c - 1 \in Side2
          BY <1>4, <1>9 DEF Bits, Side2, Left, Right
        <4>2. Append(a.prefix, c - 1)[Len(a.prefix) + 1] = c - 1 /\ Append(a.prefix, side)[Len(a.prefix) + 1] = side
          BY <4>1
        <4> QED
          BY <1>9, <4>2
      <3> QED
        BY <1>5, <1>13, <2>1, <3>1 DEF y
    <2>2. CASE e # d + 1
      <3>1. Len(Q.item[p[e]].prefix) = e - 1
        BY <1>2 DEF n, p
      <3> QED
        BY <1>3, <1>13, <2>2, <3>1
    <2> QED
      BY <2>1, <2>2
  <1>15. G[z] = F[z] /\ G[x] = Written(F[o[d]], k, v) /\ G[y] = Written(F[o[d + 1]], k, v)
    <2>1. G[z] = F[z]
      BY <1>2, <1>11, <1>14
    <2> QED
      BY <1>1, <1>3, <2>1 DEF x, y
  <1>16. m.child[1] # Null /\ m.child[2] # Null
    BY <1>5, <1>8, <1>9, <1>10, TreeAssumption
  <1>17. NodeHolds(a, F[o[d]], F[a.child[1]], F[a.child[2]])
    BY <1>4 DEF HoldsAt, a
  <1>18. NodeHolds(m, Written(F[o[d]], k, v), G[m.child[1]], G[m.child[2]])
    <2>1. CASE side = Left
      <3>1. side + 1 = 1 /\ c = 2
        BY <2>1 DEF Left
      <3>2. G[m.child[1]] = Written(F[a.child[1]], k, v) /\ G[m.child[2]] = F[a.child[2]]
        BY <1>4, <1>8, <1>15, <3>1
      <3>3. Left # Right
        BY DEF Left, Right
      <3>4. Side(k, a.prefix) = Left
        BY <2>1 DEF side
      <3> QED
        BY <1>1, <1>4, <1>8, <1>16, <1>17, <3>2, <3>3, <3>4, InnerWritten
    <2>2. CASE side = Right
      <3>1. side + 1 = 2 /\ c = 1
        BY <2>2 DEF Right
      <3>2. G[m.child[2]] = Written(F[a.child[2]], k, v) /\ G[m.child[1]] = F[a.child[1]]
        BY <1>4, <1>8, <1>15, <3>1
      <3>3. Left # Right
        BY DEF Left, Right
      <3>4. Side(k, a.prefix) = Right
        BY <2>2 DEF side
      <3> QED
        BY <1>1, <1>4, <1>8, <1>16, <1>17, <3>2, <3>3, <3>4, InnerWritten
    <2> QED
      BY <1>4, <2>1, <2>2
  <1>19. HoldsAt(Q, G, x)
    BY <1>12, <1>15, <1>18 DEF HoldsAt
  <1> QED
    BY <1>4, <1>8, <1>12, <1>19 DEF x, p

\* What insert_path leaves: a root of its own, or the old one if no other tree shares it.
InsertOut(P, F, ext, r, k, v, id, Q) ==
    /\ id \in Q.used /\ Q.item[id].prefix = <<>>
    /\ id \in P.used => id = r /\ P.refcnt[r] <= 1
    /\ Core(Q, ext, {id} \ P.used)
    /\ \A x \in P.used : x \in Q.used => Q.item[x].prefix = P.item[x].prefix
    /\ \E G : /\ Holds(Q, G) /\ Settled(Q, G) /\ G[id] = Written(F[r], k, v)
              /\ \A x \in P.used : P.item[x].prefix = <<>> /\ x # id => G[x] = F[x]

LEMMA InsertHolds ==
    ASSUME NEW P, NEW F, NEW ext, NEW r, NEW k, NEW v, NEW s, NEW o, NEW W, NEW Q, NEW J, NEW G,
           InsertDone(P, F, ext, r, k, v, s, o, W, Q, J, G), InsertFacts(P, F, ext, k, v, s, o, W, Q, J, G)
    PROVE  Holds(Q, G) /\ Settled(Q, G)
  <1> DEFINE p == s.path
             n == Len(p)
  <1>1. /\ n \in Nat /\ n >= 1
        /\ \A x \in Q.used : \/ \E d \in 1 .. n : x = p[d]
                             \/ x \in W.used \ s.pool.used /\ Q.item[x] = W.item[x]
                             \/ x \in P.used /\ Q.item[x] = P.item[x] /\ G[x] = F[x]
        /\ Q.item[p[n]] = W.item[p[n]] /\ p[n] \in s.pool.used
    <2>1. n \in Nat /\ n >= 1
      BY DEF InsertFacts
    <2>2. n \in 1 .. n
      BY <2>1
    <2>3. OnTrail(P, F, s.pool, k, p, o, n)
      BY <2>2 DEF InsertFacts
    <2>4. p[n] \in s.pool.used
      BY <2>3, Zenon DEF OnTrail
    <2> QED
      BY <2>1, <2>4 DEF InsertFacts
  <1>2. Settled(P, F)
    BY DEF InsertDone, MayWrite
  <1>3. /\ \A x \in W.used : (x \in s.pool.used => x = p[n]) => Few(W.item[x].bucket) /\ W.item[x].dirty
        /\ s.pool.used \subseteq W.used
    BY DEF InsertDone, LeafHeld
  <1>4. ASSUME NEW x \in Q.used
        PROVE  HoldsAt(Q, G, x) /\ Few(Q.item[x].bucket) /\ NodeRight(Q.item[x], G[x]) /\ SealedAt(Q, x)
    <2>1. CASE \E d \in 1 .. n - 1 : x = p[d]
      <3>1. PICK d \in 1 .. Len(s.path) - 1 : x = s.path[d]
        BY <2>1
      <3>2. HoldsAt(Q, G, s.path[d]) /\ Few(Q.item[s.path[d]].bucket) /\ Q.item[s.path[d]].dirty
        <4> HIDE DEF p, n
        <4> QED
          BY InsertPathHolds
      <3> QED
        BY <3>1, <3>2 DEF NodeRight, SealedAt
    <2>2. CASE x = p[n] \/ (x \in W.used \ s.pool.used /\ Q.item[x] = W.item[x])
      <3>1. x \in W.used /\ Q.item[x] = W.item[x] /\ (x \in s.pool.used => x = p[n])
        BY <1>1, <1>3, <2>2
      <3>2. Few(Q.item[x].bucket) /\ Q.item[x].dirty
        BY <1>3, <3>1
      <3>3. HoldsAt(Q, G, x)
        BY <3>1, InsertLeafHolds
      <3> QED
        BY <3>2, <3>3 DEF NodeRight, SealedAt
    <2>3. CASE x \in P.used /\ Q.item[x] = P.item[x] /\ G[x] = F[x] /\ \A d \in 1 .. n : x # p[d]
      <3>1. HoldsAt(Q, G, x) /\ NodeRight(Q.item[x], G[x]) /\ SealedAt(Q, x)
        BY <2>3, InsertKeeps
      <3> QED
        BY <1>2, <2>3, <3>1 DEF Settled
    <2>4. \A d \in 1 .. n : d \in 1 .. n - 1 \/ d = n
      BY <1>1
    <2> QED
      BY <1>1, <2>1, <2>2, <2>3, <2>4
  <1> QED
    BY <1>4 DEF Holds, Settled

LEMMA InsertEnds ==
    ASSUME NEW P, NEW F, NEW ext, NEW r, NEW k, NEW v, NEW s, NEW o, NEW W, NEW Q, NEW J, NEW G,
           InsertDone(P, F, ext, r, k, v, s, o, W, Q, J, G)
    PROVE  InsertOut(P, F, ext, r, k, v, s.path[1], Q)
  <1> DEFINE p == s.path
             n == Len(p)
             D == s.pool
             id == p[1]
  <1>1. InsertFacts(P, F, ext, k, v, s, o, W, Q, J, G)
    BY InsertIsKnown
  <1>2. Holds(Q, G) /\ Settled(Q, G)
    BY <1>1, InsertHolds
  <1>3. /\ Core(Q, ext, Pending(D.used \ P.used, p, 1)) /\ n \in Nat /\ n >= 1
        /\ \A d \in 1 .. n : /\ OnTrail(P, F, D, k, p, o, d) /\ p[d] \in Q.used
                             /\ Q.item[p[d]].prefix = P.item[o[d]].prefix /\ Len(P.item[o[d]].prefix) = d - 1
        /\ \A x \in Q.used : \/ \E d \in 1 .. n : x = p[d]
                             \/ x \in W.used \ D.used /\ Q.item[x] = W.item[x]
                             \/ x \in P.used /\ Q.item[x] = P.item[x] /\ G[x] = F[x]
        /\ \A x \in P.used : (\A d \in 1 .. n : x # p[d]) => G[x] = F[x]
        /\ \A d, e \in 1 .. n : p[d] = p[e] => d = e
    BY <1>1 DEF InsertFacts
  <1>4. /\ P.used \subseteq D.used /\ (\A x \in D.used \ P.used : \E d \in 1 .. n : x = p[d])
        /\ \A d \in 1 .. n : TrailAt(P, D, k, r, p, o, d)
        /\ P.item[r].prefix = <<>>
        /\ \A d \in 1 .. n : G[p[d]] = Written(F[o[d]], k, v)
    BY DEF InsertDone, MayWrite, CanWrite, DescendOut, DescendInv, Trail
  <1>5. 1 \in 1 .. n
    BY <1>3
  <1>6. o[1] = r
    BY <1>4, <1>5 DEF TrailAt
  <1>7. id \in D.used /\ (id \in P.used => id = r /\ P.refcnt[r] <= 1)
    <2>1. OnTrail(P, F, D, k, p, o, 1)
      BY <1>3, <1>5
    <2> QED
      BY <1>6, <2>1 DEF OnTrail
  <1>8. id \in Q.used /\ Q.item[id].prefix = <<>> /\ G[id] = Written(F[r], k, v)
    BY <1>3, <1>4, <1>5, <1>6
  <1>9. Pending(D.used \ P.used, p, 1) = {id} \ P.used
    <2>1. ASSUME NEW x \in Pending(D.used \ P.used, p, 1) PROVE x \in {id} \ P.used
      <3>1. x \in D.used \ P.used /\ \A e \in 1 + 1 .. n : x # p[e]
        BY DEF Pending
      <3>2. PICK d \in 1 .. n : x = p[d]
        BY <1>4, <3>1
      <3>3. d = 1 \/ d \in 1 + 1 .. n
        BY <1>3
      <3> QED
        BY <3>1, <3>2, <3>3
    <2>2. ASSUME id \notin P.used PROVE id \in Pending(D.used \ P.used, p, 1)
      <3>1. \A e \in 1 + 1 .. n : e \in 1 .. n /\ e # 1
        BY <1>3
      <3>2. \A e \in 1 + 1 .. n : id # p[e]
        BY <1>3, <1>5, <3>1
      <3> QED
        BY <1>7, <2>2, <3>2 DEF Pending
    <2> QED
      BY <2>1, <2>2
  <1>10. ASSUME NEW x \in P.used, NEW d \in 1 .. n, x = p[d] PROVE x = o[d] /\ Len(P.item[x].prefix) = d - 1
    <2>1. OnTrail(P, F, D, k, p, o, d)
      BY <1>3
    <2> QED
      BY <1>3, <1>10, <2>1 DEF OnTrail
  <1>11. ASSUME NEW x \in P.used, x \in Q.used PROVE Q.item[x].prefix = P.item[x].prefix
    <2>1. CASE \E d \in 1 .. n : x = p[d]
      <3>1. PICK d \in 1 .. n : x = p[d]
        BY <2>1
      <3> QED
        BY <1>3, <1>10, <3>1
    <2>2. CASE ~\E d \in 1 .. n : x = p[d]
      BY <1>3, <1>4, <1>11, <2>2
    <2> QED
      BY <2>1, <2>2
  <1>12. ASSUME NEW x \in P.used, P.item[x].prefix = <<>>, x # id PROVE G[x] = F[x]
    <2>1. ASSUME NEW d \in 1 .. n PROVE x # p[d]
      <3> SUFFICES ASSUME x = p[d] PROVE FALSE
        OBVIOUS
      <3>1. d - 1 = 0
        <4>1. Len(P.item[x].prefix) = d - 1
          BY <1>10
        <4>2. Len(<<>>) = 0
          OBVIOUS
        <4> QED
          BY <1>12, <4>1, <4>2
      <3>2. d = 1
        BY <1>3, <3>1
      <3> QED
        BY <1>12, <3>2
    <2> QED
      BY <1>3, <2>1
  <1>13. \E H : /\ Holds(Q, H) /\ Settled(Q, H) /\ H[id] = Written(F[r], k, v)
                /\ \A x \in P.used : P.item[x].prefix = <<>> /\ x # id => H[x] = F[x]
    BY <1>2, <1>8, <1>12
  <1>14. Core(Q, ext, {id} \ P.used)
    BY <1>3, <1>9
  <1>15. \A x \in P.used : x \in Q.used => Q.item[x].prefix = P.item[x].prefix
    BY <1>11
  <1> HIDE DEF id
  <1>16. InsertOut(P, F, ext, r, k, v, id, Q)
    BY <1>7, <1>8, <1>13, <1>14, <1>15 DEF InsertOut
  <1> QED
    BY <1>16 DEF id

LEMMA InsertPathRight ==
    ASSUME NEW P, NEW F, NEW ext, NEW r, NEW k, NEW v, MayWrite(P, F, ext, r, k, v)
    PROVE  InsertOut(P, F, ext, r, k, v, InsertPath(P, r, k, v).id, InsertPath(P, r, k, v).pool)
  <1>1. CanWrite(P, F, ext, r) /\ k \in Key
    BY DEF MayWrite
  <1>2. PICK s, o : s = Descend(P, r, k) /\ DescendOut(P, k, r, ext, s, o)
    <2>1. PICK o : DescendOut(P, k, r, ext, Descend(P, r, k), o)
      BY <1>1, DescendRight
    <2> QED
      BY <2>1
  <1>3. PICK W : W = WriteLeaf(s.pool, Last(s.path), k, v) /\ LeafDone(P, F, s.pool, s.path, o, k, v, ext, W)
    <2>1. LeafDone(P, F, s.pool, s.path, o, k, v, ext, WriteLeaf(s.pool, Last(s.path), k, v))
      BY <1>2, LeafReached
    <2> QED
      BY <2>1
  <1>4. PICK Q : Q = Ascend(W, s.path, k)
    OBVIOUS
  <1>5. AscendOut(W, s.path, k, ext, s.pool.used \ P.used, Q)
    <2>1. PathKnown(P, s.pool, s.path, o, k, ext, W)
      BY <1>2, <1>3, PathThere
    <2>2. PathOK(W, s.path, k) /\ Core(W, ext, s.pool.used \ P.used)
      BY <2>1 DEF PathKnown
    <2>3. Len(s.path) <= HashBits + 1
      BY <1>2 DEF DescendOut
    <2> QED
      BY <1>4, <2>2, <2>3, AscendRight
  <1>6. PICK J : LeafHeld(F, s.pool, s.path, o, k, v, W, J)
    BY <1>2, <1>3, LeafIsHeld
  <1>7. \A d, e \in 1 .. Len(s.path) : s.path[d] = s.path[e] => d = e
    <2>1. PathKnown(P, s.pool, s.path, o, k, ext, W)
      BY <1>2, <1>3, PathThere
    <2>2. PathOK(W, s.path, k)
      BY <2>1 DEF PathKnown
    <2> QED
      BY <2>2, PathDistinct
  <1> DEFINE G == [x \in Item |-> IF \E d \in 1 .. Len(s.path) : x = s.path[d]
                                  THEN Written(F[o[CHOOSE d \in 1 .. Len(s.path) : x = s.path[d]]], k, v)
                                  ELSE J[x]]
  <1>8. ASSUME NEW d \in 1 .. Len(s.path) PROVE G[s.path[d]] = Written(F[o[d]], k, v)
    <2>1. s.path[d] \in Item
      BY <1>2 DEF DescendOut, DescendInv, Trail
    <2>2. PICK e : e = CHOOSE c \in 1 .. Len(s.path) : s.path[d] = s.path[c]
      OBVIOUS
    <2>3. e \in 1 .. Len(s.path) /\ s.path[d] = s.path[e]
      BY <2>2
    <2>4. e = d
      BY <1>7, <2>3
    <2> QED
      BY <2>1, <2>2, <2>4
  <1>9. \A x \in Item : (\A d \in 1 .. Len(s.path) : x # s.path[d]) => G[x] = J[x]
    OBVIOUS
  <1>10. PICK H : H = G
    OBVIOUS
  <1>11. /\ \A d \in 1 .. Len(s.path) : H[s.path[d]] = Written(F[o[d]], k, v)
         /\ \A x \in Item : (\A d \in 1 .. Len(s.path) : x # s.path[d]) => H[x] = J[x]
    BY <1>8, <1>9, <1>10
  <1> HIDE DEF G
  <1>12. InsertDone(P, F, ext, r, k, v, s, o, W, Q, J, H)
    BY <1>2, <1>3, <1>5, <1>6, <1>11 DEF InsertDone
  <1>13. InsertOut(P, F, ext, r, k, v, s.path[1], Q)
    BY <1>12, InsertEnds
  <1>14. InsertPath(P, r, k, v).id = s.path[1] /\ InsertPath(P, r, k, v).pool = Q
    BY <1>2, <1>3, <1>4 DEF InsertPath
  <1> QED
    BY <1>13, <1>14

-----------------------------------------------------------------------------
(* A root's reference is gained, lost or moved *)

\* A reference more from outside the pool.
Gains(ext, ext2, i) == ext2 \in [Item -> Nat] /\ \A x \in Item : ext2[x] = ext[x] + One(i, x)
Loses(ext, ext2, i) == ext2 \in [Item -> Nat] /\ \A x \in Item : ext2[x] = ext[x] - One(i, x)

LEMMA IncrCore ==
    ASSUME NEW P, NEW ext, NEW new, Core(P, ext, new), NEW i \in P.used, NEW ext2, Gains(ext, ext2, i)
    PROVE  /\ Core(IncrRef(P, i), ext2, new \ {i})
           /\ IncrRef(P, i).used = P.used /\ IncrRef(P, i).item = P.item
  <1> DEFINE Q == IncrRef(P, i)
  <1>1. /\ PoolOK(P) /\ PoolShaped(P) /\ P.used \subseteq Item /\ i \in Item /\ P.refcnt \in [Item -> Nat]
        /\ ext \in [Item -> Nat] /\ ext2 \in [Item -> Nat] /\ P.pairs \in Int
    BY CoreFacts, PoolIsShaped DEF Core, Gains, PoolOK
  <1>2. /\ PoolShaped(Q) /\ Q.used = P.used /\ Q.item = P.item /\ Q.pairs = P.pairs
        /\ \A x \in Item : Q.refcnt[x] = P.refcnt[x] + One(i, x)
    BY <1>1, IncrRight
  <1> HIDE DEF Q
  <1>3. PoolOK(Q)
    BY <1>1, <1>2, PoolIsShaped DEF PoolOK
  <1>4. ButOne(P, Q, i)
    BY <1>2 DEF ButOne
  <1>5. Linked(Q)
    BY <1>2 DEF Core, Linked, LinkOK
  <1>6. Owned(Q, new \ {i})
    <2>1. new \ {i} \subseteq Q.used
      BY <1>2 DEF Core, Owned
    <2>2. ASSUME NEW x \in Item PROVE Q.refcnt[x] = 0 <=> x \notin Q.used \/ x \in new \ {i}
      <3>1. P.refcnt[x] \in Nat /\ (P.refcnt[x] = 0 <=> x \notin P.used \/ x \in new)
        BY <1>1 DEF Core, Owned
      <3>2. CASE x = i
        BY <1>2, <3>1, <3>2 DEF One
      <3>3. CASE x # i
        BY <1>2, <3>1, <3>3 DEF One
      <3> QED
        BY <3>2, <3>3
    <2> QED
      BY <2>1, <2>2 DEF Owned
  <1>7. ASSUME NEW x \in Item
        PROVE  Q.refcnt[x] - Own(Q, i, x) - ext2[x] = P.refcnt[x] - Own(P, i, x) - ext[x]
    <2>1. Own(Q, i, x) = Own(P, i, x) /\ Own(P, i, x) \in Int
      BY <1>2 DEF Own
    <2>2. PICK a \in Int, b \in Int, c \in Int, d \in Int : a = P.refcnt[x] /\ b = One(i, x) /\ c = ext[x] /\ d = Own(P, i, x)
      BY <1>1, <2>1 DEF One
    <2>3. Q.refcnt[x] = a + b /\ ext2[x] = c + b
      BY <1>2, <2>2 DEF Gains
    <2> QED
      BY <2>1, <2>2, <2>3
  <1>8. Q.pairs - Weight(Q, i) = P.pairs - Weight(P, i)
    BY <1>2 DEF Weight
  <1>9. Core(Q, ext2, new \ {i})
    BY <1>1, <1>3, <1>4, <1>5, <1>6, <1>7, <1>8, CoreOfOne
  <1> QED
    BY <1>2, <1>9 DEF Q

\* What insert_item leaves.
ItemOut(P, F, r, k, v, ext2, id, Q) ==
    /\ id \in Q.used /\ Q.item[id].prefix = <<>>
    /\ id \in P.used => id = r /\ P.refcnt[r] <= 1
    /\ Core(Q, ext2, {})
    /\ \A x \in P.used : x \in Q.used => Q.item[x].prefix = P.item[x].prefix
    /\ \E G : /\ Holds(Q, G) /\ Settled(Q, G) /\ G[id] = Written(F[r], k, v)
              /\ \A x \in P.used : P.item[x].prefix = <<>> /\ x # id => G[x] = F[x]

\* ext without the old root, and with the new one.
Moves(ext, ext2, r, id) ==
    /\ ext2 \in [Item -> Nat] /\ \A x \in Item : ext2[x] = ext[x] - One(r, x) + One(id, x)

LEMMA ItemMoves ==
    ASSUME NEW P, NEW F, NEW ext, NEW r, NEW k, NEW v, MayWrite(P, F, ext, r, k, v), ext[r] > 0,
           NEW id, NEW Q, InsertOut(P, F, ext, r, k, v, id, Q), id # r, NEW ext2, Moves(ext, ext2, r, id)
    PROVE  ItemOut(P, F, r, k, v, ext2, id, IncrRef(DecrRef(Q, r), id))
  <1>1. /\ id \in Q.used /\ Q.item[id].prefix = <<>> /\ (id \in P.used => id = r /\ P.refcnt[r] <= 1)
        /\ Core(Q, ext, {id} \ P.used)
        /\ \A x \in P.used : x \in Q.used => Q.item[x].prefix = P.item[x].prefix
    BY DEF InsertOut
  <1>2. PICK G : /\ Holds(Q, G) /\ Settled(Q, G) /\ G[id] = Written(F[r], k, v)
                 /\ \A x \in P.used : P.item[x].prefix = <<>> /\ x # id => G[x] = F[x]
    BY DEF InsertOut
  <1>3. Core(P, ext, {}) /\ r \in P.used /\ P.item[r].prefix = <<>>
    BY DEF MayWrite, CanWrite
  <1>4. P.used \subseteq Item /\ Q.used \subseteq Item /\ ext \in [Item -> Nat] /\ r \in Item /\ id \in Item
    BY <1>1, <1>3, CoreFacts DEF Core
  <1>5. {id} \ P.used = {id}
    BY <1>1
  <1>6. PICK e1 : Loses(ext, e1, r)
    <2> DEFINE e == [x \in Item |-> ext[x] - One(r, x)]
    <2>1. e \in [Item -> Nat]
      BY <1>4 DEF One
    <2>2. Loses(ext, e, r)
      BY <2>1 DEF Loses
    <2> QED
      BY <2>2
  <1>7. PICK R : R = DecrRef(Q, r)
    OBVIOUS
  <1>8. Core(R, e1, {id}) /\ Pruned(Q, R, {id}, 0)
    <2>1. r # Null /\ Len(Q.item[r].prefix) \in Nat
      <3>1. NodeOK(Q.item[r])
        BY <1>1, <1>4, CoreFacts
      <3> QED
        BY <1>4, <3>1, ChildType, TreeAssumption
    <2>2. Core(Q, ext, {id}) /\ r \in Item \cup {Null} /\ 0 <= Len(Q.item[r].prefix) /\ 0 \in Nat
      <3>1. Core(Q, ext, {id})
        BY <1>1, <1>5
      <3>2. 0 <= Len(Q.item[r].prefix)
        BY <2>1
      <3> QED
        BY <1>4, <3>1, <3>2
    <2>3. e1 \in [Item -> Nat] /\ \A x \in Item : e1[x] = ext[x] - One(r, x)
      BY <1>6 DEF Loses
    <2> QED
      BY <1>7, <2>2, <2>3, DecrRight
  <1>9. /\ R.used \subseteq Q.used /\ id \in R.used /\ \A x \in R.used : R.item[x] = Q.item[x]
    BY <1>8 DEF Pruned
  <1>10. Gains(e1, ext2, id)
    <2>1. ASSUME NEW x \in Item PROVE ext2[x] = e1[x] + One(id, x)
      BY <1>6 DEF Moves, Loses
    <2> QED
      BY <2>1 DEF Gains, Moves
  <1>11. PICK S : S = IncrRef(R, id)
    OBVIOUS
  <1>12. Core(S, ext2, {}) /\ S.used = R.used /\ S.item = R.item
    <2>1. {id} \ {id} = {}
      OBVIOUS
    <2>2. Core(S, ext2, {id} \ {id}) /\ S.used = R.used /\ S.item = R.item
      BY <1>8, <1>9, <1>10, <1>11, IncrCore
    <2> QED
      BY <2>1, <2>2
  <1>13. Holds(S, G) /\ Settled(S, G)
    BY <1>2, <1>9, <1>12, PrunedRight
  <1>14. /\ id \in S.used /\ S.item[id].prefix = <<>>
         /\ \A x \in P.used : x \in S.used => S.item[x].prefix = P.item[x].prefix
    BY <1>1, <1>9, <1>12
  <1>15. ItemOut(P, F, r, k, v, ext2, id, S)
    BY <1>1, <1>2, <1>12, <1>13, <1>14 DEF ItemOut
  <1> QED
    BY <1>7, <1>11, <1>15

LEMMA InsertItemRight ==
    ASSUME NEW P, NEW F, NEW ext, NEW r, NEW k, NEW v, MayWrite(P, F, ext, r, k, v), ext[r] > 0,
           NEW ext2, Moves(ext, ext2, r, InsertItem(P, r, k, v).id)
    PROVE  ItemOut(P, F, r, k, v, ext2, InsertItem(P, r, k, v).id, InsertItem(P, r, k, v).pool)
  <1>1. PICK w : w = InsertPath(P, r, k, v)
    OBVIOUS
  <1>2. InsertOut(P, F, ext, r, k, v, w.id, w.pool)
    BY <1>1, InsertPathRight
  <1>3. CASE w.id = r
    <2>1. InsertItem(P, r, k, v) = w
      BY <1>1, <1>3 DEF InsertItem
    <2>2. r \in P.used /\ ext \in [Item -> Nat] /\ r \in Item /\ {r} \ P.used = {}
      <3>1. r \in P.used /\ Core(P, ext, {})
        BY DEF MayWrite, CanWrite
      <3> QED
        BY <3>1, CoreFacts DEF Core
    <2>3. Moves(ext, ext2, r, r)
      BY <1>3, <2>1
    <2>4. ext2 = ext
      <3>1. ext2 \in [Item -> Nat] /\ \A x \in Item : ext2[x] = ext[x] - One(r, x) + One(r, x)
        BY <2>3 DEF Moves
      <3>2. \A x \in Item : One(r, x) \in Int /\ ext[x] \in Int
        BY <2>2 DEF One
      <3>3. \A x \in Item : ext2[x] = ext[x]
        BY <3>1, <3>2
      <3> QED
        BY <2>2, <3>1, <3>3
    <2>5. ItemOut(P, F, r, k, v, ext, w.id, w.pool)
      BY <1>2, <1>3, <2>2 DEF InsertOut, ItemOut
    <2> QED
      BY <2>1, <2>4, <2>5
  <1>4. CASE w.id # r
    <2>1. InsertItem(P, r, k, v).id = w.id /\ InsertItem(P, r, k, v).pool = IncrRef(DecrRef(w.pool, r), w.id)
      BY <1>1, <1>4 DEF InsertItem
    <2>2. Moves(ext, ext2, r, w.id)
      BY <2>1
    <2>3. PICK id, Q : id = w.id /\ Q = w.pool
      OBVIOUS
    <2>4. ItemOut(P, F, r, k, v, ext2, id, IncrRef(DecrRef(Q, r), id))
      BY <1>2, <1>4, <2>2, <2>3, ItemMoves
    <2> QED
      BY <2>1, <2>3, <2>4
  <1> QED
    BY <1>3, <1>4

-----------------------------------------------------------------------------
(* Hashing *)

TreeHeld(P, F, ext) == Core(P, ext, {}) /\ Holds(P, F) /\ Settled(P, F)

\* What hashing node i of P leaves.
HashOut(P, F, ext, i, Q) ==
    /\ TreeHeld(Q, F, ext) /\ Q.used \subseteq P.used /\ i \in Q.used
    /\ Q.item[i].prefix = P.item[i].prefix /\ \A x \in Q.used \ {i} : Q.item[x] = P.item[x]
    /\ \A x \in P.used \ Q.used : Len(P.item[x].prefix) > Len(P.item[i].prefix)

\* A node that has been hashed, with what it says of itself.
Hashed(n, q, h) == [n EXCEPT !.dirty = FALSE, !.count = q, !.hashes = h]

HashedFacts(n, q, h, m) ==
    /\ NodeOK(m) /\ m.dirty = FALSE /\ m.count = q /\ m.hashes = h
    /\ m.leaf = n.leaf /\ m.prefix = n.prefix /\ m.bucket = n.bucket /\ m.child = n.child

LEMMA HashedOK ==
    ASSUME NEW n, NodeOK(n), NEW q \in Nat, NEW h
    PROVE  HashedFacts(n, q, h, Hashed(n, q, h))
  BY DEF NodeOK, Hashed, HashedFacts

\* A node that says what is right.
LEMMA HashedRight ==
    ASSUME NEW P, NEW F, NEW ext, TreeHeld(P, F, ext), NEW i \in P.used, NEW q \in Nat, NEW h,
           q = Cardinality(Keys(F[i])), h = Hashes(P.item[i].prefix, F[i]),
           P.item[i].leaf \/ (~Few(F[i]) /\ ChildrenClean(P, i)),
           NEW Q, Q = [P EXCEPT !.item[i] = Hashed(P.item[i], q, h)]
    PROVE  HashOut(P, F, ext, i, Q)
  <1> DEFINE n == P.item[i]
             m == Hashed(n, q, h)
  <1>1. Core(P, ext, {}) /\ Holds(P, F) /\ Settled(P, F)
    BY DEF TreeHeld
  <1>2. PoolOK(P) /\ PoolShaped(P) /\ i \in Item /\ P.used \subseteq Item /\ NodeOK(n) /\ P.pairs \in Int
    BY <1>1, CoreFacts, PoolIsShaped DEF Core
  <1>3. /\ NodeOK(m) /\ m.dirty = FALSE /\ m.count = q /\ m.hashes = h
        /\ m.leaf = n.leaf /\ m.prefix = n.prefix /\ m.bucket = n.bucket /\ m.child = n.child
    <2>1. HashedFacts(n, q, h, m)
      <3>1. NodeOK(n) /\ q \in Nat
        BY <1>2
      <3> HIDE DEF n
      <3> QED
        BY <3>1, HashedOK
    <2> QED
      BY <2>1 DEF HashedFacts
  <1> HIDE DEF m
  <1>4. Q = [P EXCEPT !.item[i] = m]
    BY DEF m
  <1>5. PoolShaped(Q) /\ Q.used = P.used /\ Q.refcnt = P.refcnt /\ Q.item = [P.item EXCEPT ![i] = m] /\ Q.pairs = P.pairs
    BY <1>2, <1>4 DEF PoolShaped
  <1>6. PICK R : R = Q
    OBVIOUS
  <1>7. Alters(P, R, i, m)
    BY <1>2, <1>3, <1>5, <1>6 DEF Alters
  <1>8. Core(R, ext, {}) /\ Altered(P, R, i, m)
    BY <1>1, <1>7, CoreNode
  <1>9. R.used = P.used /\ R.item[i] = m /\ \A x \in Item \ {i} : R.item[x] = P.item[x]
    BY <1>8 DEF Altered
  <1>10. Holds(R, F)
    <2> SUFFICES ASSUME NEW x \in R.used PROVE HoldsAt(R, F, x)
      BY DEF Holds
    <2>1. SameNode(P.item[x], R.item[x]) /\ HoldsAt(P, F, x)
      BY <1>1, <1>2, <1>3, <1>9 DEF SameNode, Holds
    <2> QED
      BY <2>1, HoldsKept
  <1>11. Settled(R, F)
    <2> SUFFICES ASSUME NEW x \in R.used
                 PROVE  Few(R.item[x].bucket) /\ NodeRight(R.item[x], F[x]) /\ SealedAt(R, x)
      BY DEF Settled
    <2>1. Few(P.item[x].bucket) /\ NodeRight(P.item[x], F[x]) /\ SealedAt(P, x) /\ NodeOK(P.item[x]) /\ HoldsAt(P, F, x)
      BY <1>1, <1>9, CoreFacts DEF Settled, Holds
    <2>4. ~P.item[x].leaf => P.item[x].child[1] \in Item /\ P.item[x].child[2] \in Item
      BY <2>1 DEF HoldsAt, NodeHolds, NodeOK
    <2>5. ~P.item[x].leaf /\ ChildrenClean(P, x) => ~R.item[P.item[x].child[1]].dirty /\ ~R.item[P.item[x].child[2]].dirty
      <3>1. \A y \in Item : R.item[y].dirty => P.item[y].dirty
        BY <1>3, <1>9
      <3> QED
        BY <2>4, <3>1 DEF ChildrenClean
    <2>2. CASE x = i
      <3>1. Few(R.item[x].bucket) /\ NodeRight(R.item[x], F[x])
        BY <1>3, <1>9, <2>1, <2>2 DEF NodeRight
      <3>2. SealedAt(R, x)
        BY <1>3, <1>9, <2>2, <2>5 DEF SealedAt, ChildrenClean
      <3> QED
        BY <3>1, <3>2
    <2>3. CASE x # i
      <3>1. R.item[x] = P.item[x]
        BY <1>2, <1>9, <2>3
      <3>2. SealedAt(R, x)
        BY <2>1, <2>5, <3>1 DEF SealedAt, ChildrenClean
      <3> QED
        BY <2>1, <3>1, <3>2
    <2> QED
      BY <2>2, <2>3
  <1>12. HashOut(P, F, ext, i, R)
    BY <1>2, <1>3, <1>8, <1>9, <1>10, <1>11 DEF HashOut, TreeHeld
  <1> QED
    BY <1>6, <1>12

LEMMA HashLeafRight ==
    ASSUME NEW P, NEW F, NEW ext, TreeHeld(P, F, ext), NEW i \in P.used, P.item[i].leaf
    PROVE  HashOut(P, F, ext, i, HashLeaf(P, i))
  <1> DEFINE n == P.item[i]
             q == Cardinality(Keys(n.bucket))
             h == LeafHashes(n.prefix, n.bucket)
  <1>1. NodeOK(n) /\ HoldsAt(P, F, i) /\ Few(n.bucket)
    <2>1. Core(P, ext, {})
      BY DEF TreeHeld
    <2> QED
      BY <2>1, CoreFacts DEF TreeHeld, Holds, Settled
  <1>2. F[i] = n.bucket /\ IsBucket(F[i]) /\ (\A k \in Keys(F[i]) : Agrees(k, n.prefix)) /\ Len(n.prefix) <= HashBits
    BY <1>1 DEF HoldsAt, NodeHolds
  <1>3. n.prefix \in Bits
    BY <1>1 DEF NodeOK
  <1>4. q \in Nat
    <2>1. Keys(F[i]) \in SUBSET Key
      BY <1>2 DEF IsBucket, Keys
    <2> QED
      BY <1>2, <2>1, BucketFinite
  <1>5. h = Hashes(n.prefix, F[i])
    BY <1>1, <1>2, <1>3, HashesOfFew
  <1>6. HashLeaf(P, i) = [P EXCEPT !.item[i] = Hashed(n, q, h)]
    BY DEF HashLeaf, Hashed
  <1>7. q = Cardinality(Keys(F[i]))
    BY <1>2
  <1> HIDE DEF n, q, h
  <1> QED
    BY <1>4, <1>5, <1>6, <1>7, HashedRight DEF n

\* The pairs of a set of pairs are those of its halves.
LEMMA HalvesAdd ==
    ASSUME NEW A, IsBucket(A), NEW p \in Bits, Len(p) < HashBits
    PROVE  /\ Cardinality(Keys(A)) = Cardinality(Keys(Part(A, p, Left))) + Cardinality(Keys(Part(A, p, Right)))
           /\ Cardinality(Keys(A)) \in Nat
  <1> DEFINE t == [NewItem EXCEPT !.prefix = p]
             u == WithBucket(t, A)
  <1>1. NodeOK(t) /\ t.prefix = p
    BY NewItemOK DEF NodeOK, NewItem
  <1> HIDE DEF t
  <1>2. NodeOK(u) /\ u.bucket = A /\ u.prefix = p
    BY <1>1, WithBucketOK
  <1> HIDE DEF u
  <1> QED
    BY <1>2, PartsAdd

\* A node with other contents in its place, and the pairs in use.
MayPlace(P, j, n, q) ==
    /\ NodeOK(n) /\ n.child = P.item[j].child /\ n.prefix = P.item[j].prefix /\ q \in Int
    /\ q - Cardinality(Keys(n.bucket)) = P.pairs - Cardinality(Keys(P.item[j].bucket))

LEMMA PlaceRight ==
    ASSUME NEW P, NEW ext, NEW new, Core(P, ext, new), NEW j \in P.used, NEW n, NEW q, MayPlace(P, j, n, q)
    PROVE  Core(Placed(P, j, n, q), ext, new) /\ Altered(P, Placed(P, j, n, q), j, n)
  <1>1. PoolOK(P) /\ j \in Item
    BY CoreFacts DEF Core
  <1>2. NodeOK(n) /\ q \in Int
    BY DEF MayPlace
  <1>3. PICK Q : Q = Placed(P, j, n, q)
    OBVIOUS
  <1>4. /\ PoolShaped(Q) /\ Q.used = P.used /\ Q.refcnt = P.refcnt /\ Q.item = [P.item EXCEPT ![j] = n]
        /\ Q.pairs = q
    BY <1>1, <1>2, <1>3, PlacedOK
  <1>5. Alters(P, Q, j, n)
    BY <1>4 DEF Alters, MayPlace
  <1>6. Core(Q, ext, new) /\ Altered(P, Q, j, n)
    BY <1>5, CoreNode
  <1> QED
    BY <1>3, <1>6

\* A node as it becomes a leaf.
Counting(n, q) == [n EXCEPT !.count = q]
Leafed(n, h) == [n EXCEPT !.leaf = TRUE, !.hashes = h, !.dirty = FALSE]

CountingFacts(n, q, m) ==
    /\ NodeOK(m) /\ m.count = q /\ m.leaf = n.leaf /\ m.dirty = n.dirty /\ m.hashes = n.hashes
    /\ m.prefix = n.prefix /\ m.bucket = n.bucket /\ m.child = n.child

LEMMA CountingOK ==
    ASSUME NEW n, NodeOK(n), NEW q \in Nat
    PROVE  CountingFacts(n, q, Counting(n, q))
  BY DEF NodeOK, Counting, CountingFacts

LeafedFacts(n, h, m) ==
    /\ NodeOK(m) /\ m.leaf = TRUE /\ m.dirty = FALSE /\ m.hashes = h /\ m.count = n.count
    /\ m.prefix = n.prefix /\ m.bucket = n.bucket /\ m.child = n.child

LEMMA LeafedOK ==
    ASSUME NEW n, NodeOK(n), NEW h
    PROVE  LeafedFacts(n, h, Leafed(n, h))
  BY DEF NodeOK, Leafed, LeafedFacts

\* What a node says and holds after Collapse.
CollapseFacts(n, q, A, h, m) ==
    /\ NodeOK(m) /\ m.leaf = TRUE /\ m.dirty = FALSE /\ m.hashes = h /\ m.count = q /\ m.bucket = A
    /\ m.prefix = n.prefix /\ m.child[1] = Null /\ m.child[2] = Null

Emptied(n) == WithChild(WithChild(n, 1, Null), 2, Null)

LEMMA CollapsedOK ==
    ASSUME NEW n, NodeOK(n), NEW q \in Nat, NEW A, IsBucket(A), NEW h
    PROVE  CollapseFacts(n, q, A, h, Leafed(Emptied(WithBucket(Counting(n, q), A)), h))
  <1>1. PICK a : a = Counting(n, q) /\ CountingFacts(n, q, a)
    BY CountingOK
  <1>2. NodeOK(a) /\ a.count = q /\ a.prefix = n.prefix
    BY <1>1 DEF CountingFacts
  <1>3. PICK b : b = WithBucket(a, A)
    OBVIOUS
  <1>4. NodeOK(b) /\ b.bucket = A /\ b.prefix = a.prefix
    BY <1>2, <1>3, WithBucketOK
  <1>5. b.count = q
    BY <1>2, <1>3 DEF WithBucket, NodeOK
  <1>6. PICK c : c = WithChild(b, 1, Null)
    OBVIOUS
  <1>7. NodeOK(c) /\ c.child[1] = Null /\ c.bucket = b.bucket /\ c.prefix = b.prefix /\ c.count = b.count
    BY <1>4, <1>6, ChildChanged
  <1>8. PICK d : d = WithChild(c, 2, Null)
    OBVIOUS
  <1>9. NodeOK(d) /\ d.child[2] = Null /\ d.bucket = c.bucket /\ d.prefix = c.prefix /\ d.count = c.count
    BY <1>7, <1>8, ChildChanged
  <1>10. d.child[1] = Null
    <2>1. d.child[3 - 2] = c.child[3 - 2]
      BY <1>7, <1>8, ChildChanged
    <2>2. 3 - 2 = 1
      OBVIOUS
    <2> QED
      BY <1>7, <2>1, <2>2
  <1>11. PICK e : e = Leafed(d, h) /\ LeafedFacts(d, h, e)
    BY <1>9, LeafedOK
  <1>12. CollapseFacts(n, q, A, h, e)
    BY <1>2, <1>4, <1>5, <1>7, <1>9, <1>10, <1>11 DEF CollapseFacts, LeafedFacts
  <1>13. e = Leafed(Emptied(WithBucket(Counting(n, q), A)), h)
    BY <1>1, <1>3, <1>6, <1>8, <1>11 DEF Emptied
  <1> QED
    BY <1>12, <1>13

CollapseWhole(P, i, q) == [Collapse([P EXCEPT !.item[i].count = q], i) EXCEPT !.item[i].dirty = FALSE]

\* Collapse takes the pairs of the subtree.
Takes(P, A, ext, i, q, T) ==
    /\ Core(T, ext, {})
    /\ Altered(P, T, i, WithBucket(Counting(P.item[i], q), A))
    /\ Each([P EXCEPT !.item[i].count = q], i) = A
    /\ T = [[P EXCEPT !.item[i].count = q] EXCEPT !.item[i].bucket = A, !.pairs = @ + Cardinality(Keys(A))]

LEMMA TakesRight ==
    ASSUME NEW P, NEW F, NEW ext, TreeHeld(P, F, ext), NEW i \in P.used, ~P.item[i].leaf,
           NEW q \in Nat, q = Cardinality(Keys(F[i]))
    PROVE  \E T : Takes(P, F[i], ext, i, q, T)
  <1> DEFINE n == P.item[i]
             m == Counting(n, q)
             A == F[i]
             C == [P EXCEPT !.item[i].count = q]
             b == WithBucket(m, A)
             T == Placed(P, i, b, P.pairs + Cardinality(Keys(A)))
  <1>1. Core(P, ext, {}) /\ Holds(P, F)
    BY DEF TreeHeld
  <1>2. PoolOK(P) /\ i \in Item /\ NodeOK(n) /\ P.used \subseteq Item /\ P.pairs \in Int
    BY <1>1, CoreFacts DEF Core
  <1>3. HoldsAt(P, F, i)
    BY <1>1 DEF Holds
  <1>4. IsBucket(A) /\ Keys(n.bucket) = {}
    BY <1>3 DEF HoldsAt, NodeHolds
  <1>5. CountingFacts(n, q, m)
    <2> HIDE DEF n
    <2> QED
      BY <1>2, CountingOK
  <1>6. MayPlace(P, i, m, P.pairs)
    <2> HIDE DEF m
    <2> QED
      BY <1>2, <1>5 DEF MayPlace, CountingFacts
  <1>7. C = Placed(P, i, m, P.pairs)
    BY <1>2 DEF Placed, Counting, PoolOK
  <1>8. Core(C, ext, {}) /\ Altered(P, C, i, m)
    <2> HIDE DEF m, C
    <2> QED
      BY <1>1, <1>6, <1>7, PlaceRight
  <1>9. Each(C, i) = A
    <2> HIDE DEF C, m
    <2>1. C.used = P.used /\ C.item[i] = m /\ \A x \in Item \ {i} : C.item[x] = P.item[x]
      BY <1>8 DEF Altered
    <2>2. ASSUME NEW x \in C.used PROVE HoldsAt(C, F, x)
      <3>1. SameNode(P.item[x], C.item[x]) /\ HoldsAt(P, F, x)
        BY <1>1, <1>2, <1>5, <2>1 DEF SameNode, Holds, CountingFacts
      <3> QED
        BY <3>1, HoldsKept
    <2>3. Holds(C, F)
      BY <2>2 DEF Holds
    <2> QED
      BY <1>8, <2>1, <2>3, EachRight
  <1>10. NodeOK(b) /\ b.bucket = A /\ b.prefix = n.prefix /\ b.child = n.child
    <2>1. NodeOK(m) /\ m.prefix = n.prefix /\ m.child = n.child
      BY <1>5 DEF CountingFacts
    <2> HIDE DEF m
    <2>2. NodeOK(b) /\ b.bucket = A /\ b.prefix = m.prefix /\ b.child = m.child
      BY <1>4, <2>1, WithBucketOK
    <2> QED
      BY <2>1, <2>2
  <1>11. MayPlace(P, i, b, P.pairs + Cardinality(Keys(A)))
    <2>1. Cardinality(Keys(n.bucket)) = 0
      BY <1>4, FS_EmptySet
    <2> HIDE DEF b
    <2> QED
      BY <1>2, <1>10, <2>1 DEF MayPlace
  <1>12. Core(T, ext, {}) /\ Altered(P, T, i, b)
    <2> HIDE DEF b
    <2>1. PICK u : u = P.pairs + Cardinality(Keys(A)) /\ MayPlace(P, i, b, u)
      BY <1>11
    <2>2. Core(Placed(P, i, b, u), ext, {}) /\ Altered(P, Placed(P, i, b, u), i, b)
      BY <1>1, <2>1, PlaceRight
    <2> QED
      BY <2>1, <2>2
  <1>13. T = [C EXCEPT !.item[i].bucket = A, !.pairs = @ + Cardinality(Keys(A))]
    <2>1. C = [P EXCEPT !.item = [@ EXCEPT ![i] = m]]
      BY <1>2 DEF Counting, PoolOK
    <2>2. C.item[i] = m /\ C.pairs = P.pairs /\ C.item = [P.item EXCEPT ![i] = m]
      BY <1>2 DEF PoolOK, Counting
    <2> QED
      BY <1>2, <2>2 DEF Placed, WithBucket, PoolOK
  <1> HIDE DEF T, b, C
  <1> QED
    BY <1>9, <1>12, <1>13 DEF b, C, Takes

LEMMA CollapseRight ==
    ASSUME NEW P, NEW F, NEW ext, TreeHeld(P, F, ext), NEW i \in P.used, ~P.item[i].leaf,
           NEW q \in Nat, q = Cardinality(Keys(F[i])), Few(F[i])
    PROVE  HashOut(P, F, ext, i, CollapseWhole(P, i, q))
  <1> DEFINE n == P.item[i]
             A == F[i]
             b == WithBucket(Counting(n, q), A)
             h == LeafHashes(n.prefix, A)
             m == Leafed(Emptied(b), h)
  <1>1. Core(P, ext, {}) /\ Holds(P, F) /\ Settled(P, F)
    BY DEF TreeHeld
  <1>2. PoolOK(P) /\ i \in Item /\ NodeOK(n) /\ P.used \subseteq Item /\ P.pairs \in Int
    BY <1>1, CoreFacts DEF Core
  <1>3. HoldsAt(P, F, i)
    BY <1>1 DEF Holds
  <1>4. IsBucket(A) /\ (\A k \in Keys(A) : Agrees(k, n.prefix) /\ A[k] \in Val) /\ Len(n.prefix) <= HashBits
    BY <1>3 DEF HoldsAt, NodeHolds
  <1>5. PICK T : /\ Core(T, ext, {})
                 /\ Altered(P, T, i, b)
                 /\ Each([P EXCEPT !.item[i].count = q], i) = A
                 /\ T = [[P EXCEPT !.item[i].count = q] EXCEPT !.item[i].bucket = A,
                             !.pairs = @ + Cardinality(Keys(A))]
    <2>1. PICK T : Takes(P, F[i], ext, i, q, T)
      BY TakesRight
    <2> QED
      BY <2>1 DEF Takes
  <1>6. T.used = P.used /\ T.item[i] = b /\ \A x \in Item \ {i} : T.item[x] = P.item[x]
    <2> HIDE DEF b
    <2> QED
      BY <1>5 DEF Altered
  <1>7. CollapseFacts(n, q, A, h, m)
    <2> HIDE DEF n, A, h
    <2> QED
      BY <1>2, <1>4, CollapsedOK DEF b
  <1>8. NodeOK(b) /\ b.prefix = n.prefix
    <2>1. T.used \subseteq Item /\ NodeOK(T.item[i])
      BY <1>5, <1>6, <1>2, CoreFacts
    <2>2. b.prefix = n.prefix
      <3>1. NodeOK(Counting(n, q)) /\ Counting(n, q).prefix = n.prefix
        <4> HIDE DEF n
        <4>1. CountingFacts(n, q, Counting(n, q))
          BY <1>2, CountingOK
        <4> QED
          BY <4>1 DEF CountingFacts
      <3>2. PICK cc : cc = Counting(n, q)
        OBVIOUS
      <3> HIDE DEF n, A
      <3>3. b.prefix = cc.prefix
        BY <1>4, <3>1, <3>2, WithBucketOK
      <3> QED
        BY <3>1, <3>2, <3>3
    <2> QED
      BY <1>6, <2>1, <2>2
  <1> DEFINE S == SetChild(T, i, Left, Null)
             U == SetChild(S, i, Right, Null)
  <1>9. {} \ {Null} = {}
    OBVIOUS
  <1>10. ChildSet(T, S, i, Left, Null, ext, {})
    <2>1. MayLink(T, i, Left, Null)
      BY <1>6 DEF MayLink
    <2> QED
      BY <1>5, <2>1, SetChildRight
  <1>11. /\ Core(S, ext, {}) /\ S.used \subseteq P.used /\ i \in S.used /\ S.item[i] = WithChild(b, 1, Null)
         /\ \A x \in S.used \ {i} : S.item[x] = T.item[x]
         /\ \A x \in P.used \ S.used : Len(T.item[x].prefix) > Len(b.prefix)
    <2>1. Left + 1 = 1
      BY DEF Left
    <2> HIDE DEF S, b
    <2> QED
      BY <1>6, <1>9, <1>10, <2>1 DEF ChildSet
  <1>12. ChildSet(S, U, i, Right, Null, ext, {})
    <2>1. MayLink(S, i, Right, Null)
      BY <1>11 DEF MayLink
    <2> HIDE DEF S
    <2> QED
      BY <1>11, <2>1, SetChildRight
  <1>13. /\ Core(U, ext, {}) /\ U.used \subseteq S.used /\ i \in U.used /\ U.item[i] = Emptied(b)
         /\ \A x \in U.used \ {i} : U.item[x] = S.item[x]
         /\ \A x \in S.used \ U.used : Len(S.item[x].prefix) > Len(S.item[i].prefix)
    <2>1. Right + 1 = 2
      BY DEF Right
    <2> HIDE DEF S, b, U
    <2> QED
      BY <1>9, <1>11, <1>12, <2>1 DEF ChildSet, Emptied
  <1>14. S.item[i].prefix = n.prefix
    <2>1. PICK bb : bb = b
      OBVIOUS
    <2> HIDE DEF b, S
    <2>2. PICK cc : cc = WithChild(bb, 1, Null)
      OBVIOUS
    <2>3. cc.prefix = bb.prefix
      BY <1>8, <2>1, <2>2, ChildChanged
    <2> QED
      BY <1>8, <1>11, <2>1, <2>2, <2>3
  <1> DEFINE R == Placed(U, i, m, U.pairs)
  <1>15. MayPlace(U, i, m, U.pairs)
    <2>1. NodeOK(Emptied(b)) /\ U.pairs \in Int
      <3> HIDE DEF U, b
      <3> QED
        BY <1>2, <1>13, CoreFacts
    <2>2. LeafedFacts(Emptied(b), h, m)
      <3> HIDE DEF b, h
      <3> QED
        BY <2>1, LeafedOK
    <2> HIDE DEF m, U, b
    <2> QED
      BY <1>13, <2>1, <2>2 DEF MayPlace, LeafedFacts
  <1>16. Core(R, ext, {}) /\ Altered(U, R, i, m)
    <2> HIDE DEF m, U
    <2>1. PICK u : u = U.pairs /\ MayPlace(U, i, m, u)
      BY <1>15
    <2>2. Core(Placed(U, i, m, u), ext, {}) /\ Altered(U, Placed(U, i, m, u), i, m)
      BY <1>13, <2>1, PlaceRight
    <2> QED
      BY <2>1, <2>2
  <1>17. R = CollapseWhole(P, i, q)
    <2> DEFINE C == [P EXCEPT !.item[i].count = q]
    <2>1. C.item[i].prefix = n.prefix
      BY <1>2 DEF PoolOK, NodeOK
    <2>2. Collapse(C, i) = [U EXCEPT !.item[i].leaf = TRUE, !.item[i].hashes = h]
      <3> HIDE DEF n, C
      <3>1. T = [C EXCEPT !.item[i].bucket = A, !.pairs = @ + Cardinality(Keys(A))] /\ Each(C, i) = A
        BY <1>5 DEF C
      <3> HIDE DEF A
      <3> QED
        BY <2>1, <3>1 DEF Collapse
    <2>3. CollapseWhole(P, i, q) = [Collapse(C, i) EXCEPT !.item[i].dirty = FALSE]
      BY DEF CollapseWhole
    <2>4. PoolOK(U)
      BY <1>13 DEF Core
    <2> HIDE DEF C, U, h, b
    <2>5. [[U EXCEPT !.item[i].leaf = TRUE, !.item[i].hashes = h] EXCEPT !.item[i].dirty = FALSE] = R
      BY <1>2, <1>13, <2>4 DEF PoolOK, Placed, Leafed
    <2> QED
      BY <2>2, <2>3, <2>5
  <1> HIDE DEF R, U, S, b, m
  <1>18. R.used = U.used /\ R.item[i] = m /\ \A x \in Item \ {i} : R.item[x] = U.item[x]
    BY <1>16 DEF Altered
  <1>19. R.used \subseteq P.used /\ \A x \in R.used \ {i} : R.item[x] = P.item[x]
    BY <1>2, <1>6, <1>11, <1>13, <1>18
  <1>20. \A x \in P.used \ R.used : Len(P.item[x].prefix) > Len(n.prefix)
    <2> SUFFICES ASSUME NEW x \in P.used \ R.used PROVE Len(P.item[x].prefix) > Len(n.prefix)
      OBVIOUS
    <2>1. x \in Item /\ x # i
      BY <1>2, <1>13, <1>18
    <2>2. CASE x \notin S.used
      BY <1>6, <1>8, <1>11, <2>1, <2>2
    <2>3. CASE x \in S.used
      BY <1>6, <1>11, <1>13, <1>14, <1>18, <2>1, <2>3
    <2> QED
      BY <2>2, <2>3
  <1>21. /\ NodeOK(m) /\ m.leaf = TRUE /\ m.dirty = FALSE /\ m.hashes = h /\ m.count = q /\ m.bucket = A
         /\ m.prefix = n.prefix /\ m.child[1] = Null /\ m.child[2] = Null
    BY <1>7 DEF CollapseFacts
  <1>22. Holds(R, F)
    <2> SUFFICES ASSUME NEW x \in R.used PROVE HoldsAt(R, F, x)
      BY DEF Holds
    <2>1. CASE x = i
      <3>1. NodeHolds(m, A, F[m.child[1]], F[m.child[2]])
        BY <1>4, <1>21 DEF NodeHolds
      <3> QED
        BY <1>18, <2>1, <3>1 DEF HoldsAt
    <2>2. CASE x # i
      <3>1. R.item[x] = P.item[x] /\ HoldsAt(P, F, x)
        BY <1>1, <1>19, <2>2 DEF Holds
      <3> QED
        BY <3>1, HoldsKept DEF SameNode
    <2> QED
      BY <2>1, <2>2
  <1>23. Settled(R, F)
    <2> SUFFICES ASSUME NEW x \in R.used
                 PROVE  Few(R.item[x].bucket) /\ NodeRight(R.item[x], F[x]) /\ SealedAt(R, x)
      BY DEF Settled
    <2>1. CASE x = i
      <3>1. n.prefix \in Bits
        BY <1>2 DEF NodeOK
      <3>2. h = Hashes(n.prefix, A)
        <4> HIDE DEF n, A
        <4> QED
          BY <1>4, <3>1, HashesOfFew DEF A
      <3> QED
        BY <1>18, <1>21, <2>1, <3>2 DEF NodeRight, SealedAt
    <2>2. CASE x # i
      <3>1. R.item[x] = P.item[x] /\ Few(P.item[x].bucket) /\ NodeRight(P.item[x], F[x]) /\ SealedAt(P, x)
        BY <1>1, <1>19, <2>2 DEF Settled
      <3>2. ASSUME NEW c \in {1, 2}, ~P.item[x].leaf, ChildrenClean(P, x) PROVE ~R.item[P.item[x].child[c]].dirty
        <4> DEFINE y == P.item[x].child[c]
        <4>1. y # Null
          BY <1>22, <3>1, <3>2 DEF Holds, HoldsAt, NodeHolds
        <4>2. LinkOK(R, x, c)
          BY <1>16, CoreFacts
        <4>3. y \in R.used
          BY <3>1, <4>1, <4>2 DEF LinkOK
        <4> HIDE DEF y
        <4>4. ~P.item[y].dirty
          BY <3>2 DEF ChildrenClean, y
        <4>5. ~R.item[y].dirty
          BY <1>18, <1>19, <1>21, <4>3, <4>4
        <4> QED
          BY <4>5 DEF y
      <3>3. SealedAt(R, x)
        BY <3>1, <3>2 DEF SealedAt, ChildrenClean
      <3> QED
        BY <3>1, <3>3
    <2> QED
      BY <2>1, <2>2
  <1>24. HashOut(P, F, ext, i, R)
    BY <1>13, <1>16, <1>18, <1>19, <1>20, <1>21, <1>22, <1>23 DEF HashOut, TreeHeld
  <1> QED
    BY <1>17, <1>24

LEMMA HashInnerRight ==
    ASSUME NEW P, NEW F, NEW ext, TreeHeld(P, F, ext), NEW i \in P.used, ~P.item[i].leaf, ChildrenClean(P, i)
    PROVE  HashOut(P, F, ext, i, HashInner(P, i))
  <1> DEFINE n == P.item[i]
             A == F[i]
             l == P.item[n.child[1]]
             r == P.item[n.child[2]]
             q == l.count + r.count
             h == NodeHashes(l.hashes, r.hashes)
  <1>1. Core(P, ext, {}) /\ Holds(P, F) /\ Settled(P, F)
    BY DEF TreeHeld
  <1>13. PoolOK(P) /\ i \in Item /\ NodeOK(n)
    BY <1>1, CoreFacts DEF Core
  <1>2. PoolOK(P) /\ i \in Item /\ NodeOK(n) /\ n.prefix \in Bits
    BY <1>13 DEF NodeOK
  <1>3. HoldsAt(P, F, i)
    BY <1>1 DEF Holds
  <1>4. IsBucket(A) /\ (\A k \in Keys(A) : Agrees(k, n.prefix)) /\ Len(n.prefix) < HashBits /\ Len(n.prefix) <= HashBits
    BY <1>3 DEF HoldsAt, NodeHolds
  <1>5. Left \in {Left, Right} /\ Right \in {Left, Right} /\ Left + 1 = 1 /\ Right + 1 = 2
    BY DEF Left, Right
  <1>6. Down(P, F, i, Left) /\ Down(P, F, i, Right)
    BY <1>1, <1>3, <1>5, DownRight
  <1>7. /\ n.child[1] \in P.used /\ l.prefix = Append(n.prefix, Left) /\ F[n.child[1]] = Part(A, n.prefix, Left)
        /\ n.child[2] \in P.used /\ r.prefix = Append(n.prefix, Right) /\ F[n.child[2]] = Part(A, n.prefix, Right)
    BY <1>5, <1>6, Zenon DEF Down
  <1>8. /\ l.count = Cardinality(Keys(Part(A, n.prefix, Left))) /\ l.hashes = Hashes(l.prefix, Part(A, n.prefix, Left))
        /\ r.count = Cardinality(Keys(Part(A, n.prefix, Right))) /\ r.hashes = Hashes(r.prefix, Part(A, n.prefix, Right))
    <2>1. NodeRight(l, F[n.child[1]]) /\ NodeRight(r, F[n.child[2]])
      BY <1>1, <1>7, Zenon DEF Settled
    <2>2. ~l.dirty /\ ~r.dirty
      BY DEF ChildrenClean
    <2> QED
      BY <1>7, <2>1, <2>2, Zenon DEF NodeRight
  <1>9. q = Cardinality(Keys(A)) /\ q \in Nat
    <2>1. /\ Cardinality(Keys(A)) = Cardinality(Keys(Part(A, n.prefix, Left))) + Cardinality(Keys(Part(A, n.prefix, Right)))
          /\ Cardinality(Keys(A)) \in Nat
      <3> HIDE DEF n, A
      <3> QED
        BY <1>2, <1>4, HalvesAdd
    <2> HIDE DEF n, A
    <2> QED
      BY <1>8, <2>1
  <1>10. LeafSize \in Nat
    BY TreeAssumption
  <1>11. CASE q <= LeafSize
    <2>1. Few(A)
      BY <1>9, <1>11 DEF Few
    <2>2. HashInner(P, i) = CollapseWhole(P, i, q)
      BY <1>11 DEF HashInner, CollapseWhole
    <2>3. PICK u \in Nat : u = q /\ u = Cardinality(Keys(F[i]))
      BY <1>9
    <2>4. HashOut(P, F, ext, i, CollapseWhole(P, i, u))
      BY <2>1, <2>3, CollapseRight
    <2> QED
      BY <2>2, <2>3, <2>4, Zenon
  <1>12. CASE ~(q <= LeafSize)
    <2>1. ~Few(A)
      BY <1>9, <1>12 DEF Few
    <2>2. h = Hashes(n.prefix, A)
      <3>1. Hashes(n.prefix, A) = NodeHashes(Hashes(Append(n.prefix, Left), Part(A, n.prefix, Left)),
                                             Hashes(Append(n.prefix, Right), Part(A, n.prefix, Right)))
        <4> HIDE DEF n, A
        <4> QED
          BY <1>2, <1>4, <2>1, HashesOfMany
      <3> HIDE DEF n, A
      <3> QED
        BY <1>7, <1>8, <3>1
    <2>3. HashInner(P, i) = [[[P EXCEPT !.item[i].count = q] EXCEPT !.item[i].hashes = h] EXCEPT !.item[i].dirty = FALSE]
      BY <1>12 DEF HashInner
    <2>9. PICK u \in Nat : u = q
      BY <1>9
    <2>10. PICK g : g = h
      OBVIOUS
    <2>4. u = q /\ g = h
      BY <2>9, <2>10
    <2>5. HashInner(P, i) = [P EXCEPT !.item[i] = Hashed(n, u, g)]
      <3> DEFINE B == [P EXCEPT !.item[i].count = u]
                 C == [B EXCEPT !.item[i].hashes = g]
      <3>1. HashInner(P, i) = [C EXCEPT !.item[i].dirty = FALSE]
        BY <2>3, <2>4, Zenon
      <3>2. P.item = [x \in Item |-> P.item[x]]
        BY <1>2 DEF PoolOK
      <3>3. B = [P EXCEPT !.item = B.item] /\ B.item[i] = [n EXCEPT !.count = u] /\ B.item = [P.item EXCEPT ![i] = [n EXCEPT !.count = u]]
        BY <1>2 DEF PoolOK
      <3>4. C.item[i] = [[n EXCEPT !.count = u] EXCEPT !.hashes = g]
            /\ C = [P EXCEPT !.item[i] = [[n EXCEPT !.count = u] EXCEPT !.hashes = g]]
        BY <1>2 DEF PoolOK
      <3>5. [C EXCEPT !.item[i].dirty = FALSE]
                = [P EXCEPT !.item[i] = [[[n EXCEPT !.count = u] EXCEPT !.hashes = g] EXCEPT !.dirty = FALSE]]
        <4> HIDE DEF n
        <4>1. PICK m : m = [[n EXCEPT !.count = u] EXCEPT !.hashes = g]
          OBVIOUS
        <4>2. C.item[i] = m /\ C = [P EXCEPT !.item[i] = m]
          BY <3>4, <4>1
        <4> HIDE DEF C
        <4>3. [C EXCEPT !.item[i].dirty = FALSE] = [P EXCEPT !.item[i] = [m EXCEPT !.dirty = FALSE]]
          BY <1>2, <4>2 DEF PoolOK
        <4> QED
          BY <4>1, <4>3
      <3>6. [[[n EXCEPT !.count = u] EXCEPT !.hashes = g] EXCEPT !.dirty = FALSE] = Hashed(n, u, g)
        BY <1>2 DEF Hashed, NodeOK
      <3> QED
        BY <3>1, <3>5, <3>6
    <2>6. u = Cardinality(Keys(F[i])) /\ g = Hashes(P.item[i].prefix, F[i])
      BY <1>9, <2>2, <2>4
    <2>7. PICK Q : Q = [P EXCEPT !.item[i] = Hashed(P.item[i], u, g)]
      OBVIOUS
    <2>8. HashOut(P, F, ext, i, Q)
      BY <2>1, <2>6, <2>7, HashedRight
    <2> QED
      BY <2>5, <2>7, <2>8
  <1> QED
    BY <1>11, <1>12

\* Hashing in post-order: what is right stays right, and the nodes of the path
\* stay, as only longer prefixes go.
HashInv(P, F, ext, s) ==
    /\ s = [pool |-> s.pool, path |-> s.path] /\ s.path \in Seq(Item)
    /\ TreeHeld(s.pool, F, ext) /\ s.pool.used \subseteq P.used
    /\ \A x \in s.pool.used : s.pool.item[x].prefix = P.item[x].prefix
    /\ \A d \in 1 .. Len(s.path) :
          s.path[d] \in s.pool.used /\ Len(s.pool.item[s.path[d]].prefix) = d - 1

LEMMA HashDeeper ==
    ASSUME NEW P, NEW F, NEW ext, NEW s, HashInv(P, F, ext, s), s.path # <<>>, NEW side \in {Left, Right},
           ~s.pool.item[Last(s.path)].leaf
    PROVE  HashInv(P, F, ext, [s EXCEPT !.path = Append(@, s.pool.item[Last(s.path)].child[side + 1])])
  <1> DEFINE i == Last(s.path)
             c == s.pool.item[i].child[side + 1]
             t == [s EXCEPT !.path = Append(@, c)]
  <1>1. /\ s = [pool |-> s.pool, path |-> s.path] /\ s.path \in Seq(Item) /\ TreeHeld(s.pool, F, ext)
        /\ s.pool.used \subseteq P.used
        /\ \A x \in s.pool.used : s.pool.item[x].prefix = P.item[x].prefix
        /\ \A d \in 1 .. Len(s.path) : s.path[d] \in s.pool.used /\ Len(s.pool.item[s.path[d]].prefix) = d - 1
    BY DEF HashInv
  <1>2. PICK q \in Nat : q = Len(s.path) /\ q # 0 /\ q \in 1 .. q
    BY <1>1
  <1>3. i = s.path[q] /\ i \in s.pool.used /\ Len(s.pool.item[i].prefix) = q - 1
    BY <1>1, <1>2 DEF Last
  <1>4. Core(s.pool, ext, {}) /\ HoldsAt(s.pool, F, i)
    BY <1>1, <1>3 DEF TreeHeld, Holds
  <1>5. Down(s.pool, F, i, side)
    <2> HIDE DEF i
    <2>1. ~s.pool.item[i].leaf
      BY DEF i
    <2> QED
      BY <1>3, <1>4, <2>1, DownRight
  <1>6. c \in s.pool.used /\ c \in Item /\ Len(s.pool.item[c].prefix) = q
    <2>1. c \in s.pool.used /\ c \in Item /\ Len(s.pool.item[c].prefix) = Len(s.pool.item[i].prefix) + 1
      BY <1>5, Zenon DEF Down
    <2>2. (q - 1) + 1 = q
      OBVIOUS
    <2> QED
      BY <1>3, <2>1, <2>2
  <1> HIDE DEF c, i
  <1>7. t = [pool |-> s.pool, path |-> Append(s.path, c)]
    <2>1. PICK a : a = s.pool
      OBVIOUS
    <2>2. PICK b : b = s.path
      OBVIOUS
    <2>3. s = [pool |-> a, path |-> b]
      BY <1>1, <2>1, <2>2
    <2>4. [s EXCEPT !.path = Append(@, c)] = [pool |-> a, path |-> Append(b, c)]
      BY <2>3
    <2> QED
      BY <2>1, <2>2, <2>4 DEF t
  <1>8. t.pool = s.pool /\ t.path = Append(s.path, c)
    BY <1>7
  <1>9. t = [pool |-> t.pool, path |-> t.path]
    BY <1>7, <1>8
  <1> HIDE DEF t
  <1>10. t.path \in Seq(Item) /\ Len(t.path) = q + 1 /\ t.path[q + 1] = c /\ \A d \in 1 .. q : t.path[d] = s.path[d]
    BY <1>1, <1>2, <1>6, <1>8
  <1>11. ASSUME NEW d \in 1 .. Len(t.path)
         PROVE  t.path[d] \in t.pool.used /\ Len(t.pool.item[t.path[d]].prefix) = d - 1
    <2>1. CASE d = q + 1
      <3>1. d - 1 = q
        BY <2>1
      <3> QED
        BY <1>6, <1>8, <1>10, <2>1, <3>1
    <2>2. CASE d # q + 1
      <3>1. d \in 1 .. q
        BY <1>10, <2>2
      <3> QED
        BY <1>1, <1>2, <1>8, <1>10, <3>1
    <2> QED
      BY <2>1, <2>2
  <1>12. HashInv(P, F, ext, t)
    BY <1>1, <1>8, <1>9, <1>10, <1>11 DEF HashInv
  <1> QED
    BY <1>12 DEF t, c, i

LEMMA HashBack ==
    ASSUME NEW P, NEW F, NEW ext, NEW s, HashInv(P, F, ext, s), s.path # <<>>,
           NEW Q, HashOut(s.pool, F, ext, Last(s.path), Q)
    PROVE  HashInv(P, F, ext, [pool |-> Q, path |-> Front(s.path)])
  <1> DEFINE i == Last(s.path)
             t == [pool |-> Q, path |-> Front(s.path)]
  <1>1. /\ s.path \in Seq(Item) /\ TreeHeld(s.pool, F, ext) /\ s.pool.used \subseteq P.used
        /\ \A x \in s.pool.used : s.pool.item[x].prefix = P.item[x].prefix
        /\ \A d \in 1 .. Len(s.path) : s.path[d] \in s.pool.used /\ Len(s.pool.item[s.path[d]].prefix) = d - 1
    BY DEF HashInv
  <1>2. PICK q \in Nat : q = Len(s.path) /\ q # 0 /\ q \in 1 .. q
    BY <1>1
  <1>3. i = s.path[q] /\ Len(s.pool.item[i].prefix) = q - 1
    BY <1>1, <1>2 DEF Last
  <1>4. /\ TreeHeld(Q, F, ext) /\ Q.used \subseteq s.pool.used /\ i \in Q.used
        /\ Q.item[i].prefix = s.pool.item[i].prefix /\ \A x \in Q.used \ {i} : Q.item[x] = s.pool.item[x]
        /\ \A x \in s.pool.used \ Q.used : Len(s.pool.item[x].prefix) > Len(s.pool.item[i].prefix)
    BY DEF HashOut
  <1>5. t.pool = Q /\ t.path = Front(s.path) /\ t = [pool |-> t.pool, path |-> t.path]
    OBVIOUS
  <1> HIDE DEF i, t
  <1>6. Front(s.path) \in Seq(Item) /\ Len(Front(s.path)) = q - 1 /\ \A d \in 1 .. q - 1 : Front(s.path)[d] = s.path[d]
    BY <1>1, <1>2 DEF Front
  <1>7. \A x \in Q.used : Q.item[x].prefix = s.pool.item[x].prefix
    BY <1>4
  <1>8. ASSUME NEW d \in 1 .. Len(t.path)
        PROVE  t.path[d] \in t.pool.used /\ Len(t.pool.item[t.path[d]].prefix) = d - 1
    <2>1. d \in 1 .. q - 1 /\ d \in 1 .. Len(s.path) /\ d \in Nat /\ d < q
      BY <1>2, <1>5, <1>6
    <2>2. t.path[d] = s.path[d] /\ s.path[d] \in s.pool.used /\ Len(s.pool.item[s.path[d]].prefix) = d - 1
      BY <1>1, <1>5, <1>6, <2>1
    <2>3. s.path[d] \in Q.used
      <3> SUFFICES ASSUME s.path[d] \notin Q.used PROVE FALSE
        OBVIOUS
      <3>1. Len(s.pool.item[s.path[d]].prefix) > Len(s.pool.item[i].prefix)
        BY <1>4, <2>2
      <3>2. d - 1 > q - 1
        BY <1>3, <2>2, <3>1
      <3> QED
        BY <2>1, <3>2
    <2> QED
      BY <1>5, <1>7, <2>2, <2>3
  <1>9. HashInv(P, F, ext, t)
    BY <1>1, <1>4, <1>5, <1>6, <1>7, <1>8 DEF HashInv
  <1> QED
    BY <1>9 DEF t

LEMMA HashStep ==
    ASSUME NEW P, NEW F, NEW ext, NEW s, HashInv(P, F, ext, s)
    PROVE  HashInv(P, F, ext, HashOne(s))
  <1> DEFINE i == Last(s.path)
             node == s.pool.item[i]
             Dirty(side) == ~node.leaf /\ s.pool.item[node.child[side + 1]].dirty
             Deep(side) == [s EXCEPT !.path = Append(@, node.child[side + 1])]
             Q == IF node.leaf THEN HashLeaf(s.pool, i) ELSE HashInner(s.pool, i)
  <1>1. HashOne(s) = IF s.path = <<>> THEN s
                     ELSE IF Dirty(Left) THEN Deep(Left) ELSE IF Dirty(Right) THEN Deep(Right)
                     ELSE [pool |-> Q, path |-> Front(s.path)]
    BY DEF HashOne
  <1>2. CASE s.path = <<>>
    BY <1>1, <1>2
  <1>3. CASE s.path # <<>>
    <2>1. CASE Dirty(Left)
      <3>1. HashInv(P, F, ext, Deep(Left))
        BY <1>3, <2>1, HashDeeper
      <3> HIDE DEF Deep, Dirty, Q
      <3> QED
        BY <1>1, <1>3, <2>1, <3>1
    <2>2. CASE ~Dirty(Left) /\ Dirty(Right)
      <3>1. HashInv(P, F, ext, Deep(Right))
        BY <1>3, <2>2, HashDeeper
      <3> HIDE DEF Deep, Dirty, Q
      <3> QED
        BY <1>1, <1>3, <2>2, <3>1
    <2>3. CASE ~Dirty(Left) /\ ~Dirty(Right)
      <3>1. /\ s.path \in Seq(Item) /\ TreeHeld(s.pool, F, ext)
            /\ \A d \in 1 .. Len(s.path) : s.path[d] \in s.pool.used
        BY DEF HashInv
      <3>2. i \in s.pool.used
        <4>1. Len(s.path) \in 1 .. Len(s.path)
          BY <1>3, <3>1
        <4> QED
          BY <3>1, <4>1 DEF Last
      <3>3. HashOut(s.pool, F, ext, i, Q)
        <4>1. CASE node.leaf
          <5>1. HashOut(s.pool, F, ext, i, HashLeaf(s.pool, i))
            BY <3>1, <3>2, <4>1, HashLeafRight
          <5> QED
            BY <4>1, <5>1
        <4>2. CASE ~node.leaf
          <5>1. ChildrenClean(s.pool, i)
            <6>1. Left + 1 = 1 /\ Right + 1 = 2
              BY DEF Left, Right
            <6> QED
              BY <2>3, <4>2, <6>1 DEF ChildrenClean
          <5>2. HashOut(s.pool, F, ext, i, HashInner(s.pool, i))
            BY <3>1, <3>2, <4>2, <5>1, HashInnerRight
          <5> QED
            BY <4>2, <5>2
        <4> QED
          BY <4>1, <4>2
      <3> HIDE DEF Q, Dirty, Deep
      <3>4. HashInv(P, F, ext, [pool |-> Q, path |-> Front(s.path)])
        BY <1>3, <3>3, HashBack
      <3> QED
        BY <1>1, <1>3, <2>3, <3>4
    <2> QED
      BY <2>1, <2>2, <2>3
  <1> QED
    BY <1>2, <1>3

\* The steps that hashing runs through.
Hashings(f, start, n) == f = [m \in 0 .. n |-> IF m = 0 THEN start ELSE HashOne(f[m - 1])]

LEMMA HashRuns ==
    ASSUME NEW start, NEW n \in Nat
    PROVE  \E f : Hashings(f, start, n) /\ Steps(HashOne, start, n) = f[n]
  <1> DEFINE A == {q \in Nat : \E f : Hashings(f, start, q)}
  <1>1. 0 \in A
    <2>1. Hashings([m \in 0 .. 0 |-> start], start, 0)
      BY DEF Hashings
    <2> QED
      BY <2>1
  <1>2. ASSUME NEW q \in Nat, q \in A PROVE q + 1 \in A
    <2>1. PICK f : Hashings(f, start, q)
      BY <1>2
    <2> DEFINE g == [m \in 0 .. q + 1 |-> IF m = q + 1 THEN HashOne(f[q]) ELSE f[m]]
    <2>2. \A m \in 0 .. q : g[m] = f[m]
      OBVIOUS
    <2>3. ASSUME NEW m \in 0 .. q + 1 PROVE g[m] = IF m = 0 THEN start ELSE HashOne(g[m - 1])
      <3>1. CASE m = q + 1
        BY <2>2, <3>1
      <3>2. CASE m # q + 1
        <4>1. m \in 0 .. q /\ (m # 0 => m - 1 \in 0 .. q)
          BY <3>2
        <4> HIDE DEF g
        <4> QED
          BY <2>1, <2>2, <4>1 DEF Hashings
      <3> QED
        BY <3>1, <3>2
    <2>4. g = [m \in 0 .. q + 1 |-> g[m]]
      OBVIOUS
    <2> HIDE DEF g
    <2>5. Hashings(g, start, q + 1)
      BY <2>3, <2>4 DEF Hashings
    <2> QED
      BY <2>5
  <1> HIDE DEF A
  <1>3. n \in A
    BY <1>1, <1>2, AllNaturals
  <1>4. \E f : Hashings(f, start, n)
    BY <1>3 DEF A
  <1> DEFINE after == CHOOSE f : Hashings(f, start, n)
  <1>5. Hashings(after, start, n)
    BY <1>4
  <1>6. Steps(HashOne, start, n) = after[n]
    BY Zenon DEF Steps, Hashings, after
  <1> HIDE DEF after
  <1> QED
    BY <1>5, <1>6

\* What hashing the tree of root r leaves.
UpdateOut(P, F, ext, Q) ==
    /\ TreeHeld(Q, F, ext) /\ Q.used \subseteq P.used
    /\ \A x \in Q.used : Q.item[x].prefix = P.item[x].prefix

LEMMA UpdateRight ==
    ASSUME NEW P, NEW F, NEW ext, TreeHeld(P, F, ext), NEW r \in P.used, P.item[r].prefix = <<>>
    PROVE  UpdateOut(P, F, ext, UpdateHashes(P, r))
  <1> DEFINE start == [pool |-> P, path |-> <<r>>]
             n == 2 * Cardinality(P.used)
  <1>1. P.used \subseteq Item /\ r \in Item
    BY CoreFacts DEF TreeHeld
  <1>2. n \in Nat
    <2>1. Cardinality(P.used) \in Nat
      BY <1>1, ItemFinite, FS_Subset, FS_CardinalityType
    <2> QED
      BY <2>1
  <1>3. HashInv(P, F, ext, start)
    <2>1. start.pool = P /\ start.path = <<r>> /\ <<r>> \in Seq(Item) /\ Len(<<r>>) = 1 /\ <<r>>[1] = r
      BY <1>1
    <2>2. Len(P.item[r].prefix) = 1 - 1
      OBVIOUS
    <2> QED
      BY <2>1, <2>2 DEF HashInv
  <1>4. CASE P.item[r].dirty
    <2>1. UpdateHashes(P, r) = Steps(HashOne, start, n).pool
      BY <1>4 DEF UpdateHashes
    <2> HIDE DEF start, n
    <2>2. PICK f : Hashings(f, start, n) /\ Steps(HashOne, start, n) = f[n]
      BY <1>2, HashRuns
    <2> DEFINE A == {m \in Nat : m <= n => HashInv(P, F, ext, f[m])}
    <2>3. 0 \in A
      BY <1>2, <1>3, <2>2 DEF Hashings
    <2>4. ASSUME NEW m \in Nat, m \in A PROVE m + 1 \in A
      <3> SUFFICES ASSUME m + 1 <= n PROVE HashInv(P, F, ext, f[m + 1])
        OBVIOUS
      <3>1. m + 1 \in 0 .. n /\ m + 1 # 0 /\ (m + 1) - 1 = m /\ m <= n
        BY <1>2
      <3>2. f[m + 1] = HashOne(f[m])
        BY <2>2, <3>1 DEF Hashings
      <3>3. HashInv(P, F, ext, f[m])
        BY <2>4, <3>1
      <3> QED
        BY <3>2, <3>3, HashStep
    <2> HIDE DEF A
    <2>5. n \in A
      BY <1>2, <2>3, <2>4, AllNaturals
    <2>6. PICK s : s = f[n] /\ HashInv(P, F, ext, s)
      BY <1>2, <2>5 DEF A
    <2>7. UpdateOut(P, F, ext, s.pool)
      BY <2>6 DEF HashInv, UpdateOut
    <2> QED
      BY <2>1, <2>2, <2>6, <2>7
  <1>5. CASE ~P.item[r].dirty
    BY <1>5 DEF UpdateHashes, UpdateOut
  <1> QED
    BY <1>4, <1>5

-----------------------------------------------------------------------------
(* The roots of the trees *)

RootSet(f, x) == {t \in Tree : f[t] = x}
Refs(f) == [x \in Item |-> Cardinality(RootSet(f, x))]

LEMMA RootsFinite ==
    ASSUME NEW f
    PROVE  Refs(f) \in [Item -> Nat] /\ \A x : IsFiniteSet(RootSet(f, x)) /\ Cardinality(RootSet(f, x)) \in Nat
  <1>1. ASSUME NEW x PROVE IsFiniteSet(RootSet(f, x)) /\ Cardinality(RootSet(f, x)) \in Nat
    BY TreeAssumption, FS_Subset, FS_CardinalityType DEF RootSet
  <1> QED
    BY <1>1 DEF Refs

\* A tree that gets another root.
Reroots(f, g, t, c) == \A u \in Tree : g[u] = IF u = t THEN c ELSE f[u]

LEMMA RootMoves ==
    ASSUME NEW f, NEW t \in Tree, NEW c, NEW g, Reroots(f, g, t, c), NEW x \in Item
    PROVE  Refs(g)[x] = Refs(f)[x] - One(f[t], x) + One(c, x)
  <1> DEFINE Rest == {u \in Tree \ {t} : f[u] = x}
  <1>1. IsFiniteSet(Rest) /\ Cardinality(Rest) \in Nat /\ t \notin Rest
    BY TreeAssumption, FS_Subset, FS_CardinalityType
  <1>2. Cardinality(Rest \cup {t}) = Cardinality(Rest) + 1
    BY <1>1, FS_AddElement
  <1>3. ASSUME NEW h, \A u \in Tree \ {t} : h[u] = f[u]
        PROVE  Refs(h)[x] = Cardinality(Rest) + One(h[t], x)
    <2>1. CASE h[t] = x
      <3>1. RootSet(h, x) = Rest \cup {t}
        BY <1>3, <2>1 DEF RootSet
      <3> HIDE DEF Rest
      <3> QED
        BY <1>2, <2>1, <3>1 DEF Refs, One
    <2>2. CASE h[t] # x
      <3>1. RootSet(h, x) = Rest
        BY <1>3, <2>2 DEF RootSet
      <3> HIDE DEF Rest
      <3> QED
        BY <1>1, <2>2, <3>1 DEF Refs, One
    <2> QED
      BY <2>1, <2>2
  <1> HIDE DEF Rest
  <1>7. \A u \in Tree : g[u] = IF u = t THEN c ELSE f[u]
    BY DEF Reroots
  <1>4. Refs(f)[x] = Cardinality(Rest) + One(f[t], x)
    BY <1>3
  <1>5. g[t] = c /\ Refs(g)[x] = Cardinality(Rest) + One(g[t], x)
    BY <1>3, <1>7
  <1>6. One(f[t], x) \in Nat /\ One(c, x) \in Nat
    BY DEF One
  <1> QED
    BY <1>1, <1>4, <1>5, <1>6

LEMMA RootCounts ==
    ASSUME NEW f, NEW t \in Tree, NEW x \in Item, f[t] = x
    PROVE  /\ Refs(f)[x] > 0
           /\ \A u \in Tree : u # t /\ f[u] = x => Refs(f)[x] > 1
  <1>1. IsFiniteSet(RootSet(f, x)) /\ Cardinality(RootSet(f, x)) \in Nat /\ t \in RootSet(f, x)
    BY RootsFinite DEF RootSet
  <1>2. Cardinality(RootSet(f, x)) # 0
    BY <1>1, FS_EmptySet
  <1>3. ASSUME NEW u \in Tree, u # t, f[u] = x PROVE Cardinality(RootSet(f, x)) # 1
    <2>1. u \in RootSet(f, x)
      BY <1>3 DEF RootSet
    <2> QED
      BY <1>1, <1>3, <2>1, FS_Singleton
  <1> QED
    BY <1>1, <1>2, <1>3 DEF Refs

\* Trees with roots f in pool P are right, with F below the nodes.
TreesRight(f, P, F) ==
    /\ f \in [Tree -> Item \cup {Null}]
    /\ TreeHeld(P, F, Refs(f))
    /\ \A t \in Tree : f[t] # Null => P.item[f[t]].prefix = <<>>

\* The inductive invariant
IInv == \E F : TreesRight(root, pool, F)

\* What a tree holds.
Holding(f, F, t) == IF f[t] = Null THEN Null ELSE F[f[t]]

LEMMA RootUsed ==
    ASSUME NEW f, NEW P, NEW F, TreesRight(f, P, F), NEW t \in Tree, f[t] # Null
    PROVE  f[t] \in Item /\ f[t] \in P.used /\ P.item[f[t]].prefix = <<>> /\ Refs(f)[f[t]] > 0
  <1>1. f[t] \in Item /\ P.item[f[t]].prefix = <<>> /\ Core(P, Refs(f), {})
    BY DEF TreesRight, TreeHeld
  <1>2. Refs(f)[f[t]] > 0
    BY <1>1, RootCounts
  <1> QED
    BY <1>1, <1>2, CoreFacts

\* The calls, with what they leave in every tree.
CopyOut(f, F, t, u, g, Q) ==
    /\ TreesRight(g, Q, F)
    /\ \A w \in Tree : Holding(g, F, w) = Holding(f, F, IF w = u THEN t ELSE w)

LEMMA CopyRight ==
    ASSUME NEW f, NEW P, NEW F, TreesRight(f, P, F), NEW t \in Tree, NEW u \in Tree, f[t] # Null, f[u] = Null,
           NEW g, g = [f EXCEPT ![u] = f[t]]
    PROVE  CopyOut(f, F, t, u, g, IncrRef(P, f[t]))
  <1> DEFINE r == f[t]
             Q == IncrRef(P, r)
  <1>1. f \in [Tree -> Item \cup {Null}] /\ Core(P, Refs(f), {}) /\ Holds(P, F) /\ Settled(P, F)
    BY DEF TreesRight, TreeHeld
  <1>2. r \in Item /\ r \in P.used /\ P.item[r].prefix = <<>>
    BY RootUsed
  <1>3. \A w \in Tree : g[w] = IF w = u THEN r ELSE f[w]
    BY <1>1
  <1>4. Gains(Refs(f), Refs(g), r)
    <2>1. Refs(g) \in [Item -> Nat] /\ Refs(f) \in [Item -> Nat]
      BY RootsFinite
    <2>2. ASSUME NEW x \in Item PROVE Refs(g)[x] = Refs(f)[x] + One(r, x)
      <3>1. Refs(g)[x] = Refs(f)[x] - One(f[u], x) + One(r, x)
        <4>1. Reroots(f, g, u, r)
          BY <1>3 DEF Reroots
        <4> HIDE DEF r
        <4> QED
          BY <4>1, RootMoves
      <3>2. One(f[u], x) = 0
        BY TreeAssumption DEF One
      <3>3. Refs(f)[x] \in Nat /\ One(r, x) \in Nat
        BY <2>1 DEF One
      <3> QED
        BY <3>1, <3>2, <3>3
    <2> QED
      BY <2>1, <2>2 DEF Gains
  <1>5. Core(Q, Refs(g), {}) /\ Q.used = P.used /\ Q.item = P.item
    <2>1. {} \ {r} = {}
      OBVIOUS
    <2>2. Core(Q, Refs(g), {} \ {r}) /\ Q.used = P.used /\ Q.item = P.item
      BY <1>1, <1>2, <1>4, IncrCore
    <2> QED
      BY <2>1, <2>2
  <1> HIDE DEF Q
  <1>6. Holds(Q, F) /\ Settled(Q, F)
    BY <1>1, <1>5, PrunedRight
  <1>7. g \in [Tree -> Item \cup {Null}]
    BY <1>1, <1>2
  <1>8. \A w \in Tree : g[w] # Null => Q.item[g[w]].prefix = <<>>
    BY <1>2, <1>3, <1>5 DEF TreesRight
  <1>9. \A w \in Tree : Holding(g, F, w) = Holding(f, F, IF w = u THEN t ELSE w)
    BY <1>3 DEF Holding
  <1> QED
    BY <1>5, <1>6, <1>7, <1>8, <1>9 DEF CopyOut, TreesRight, TreeHeld, Q

DestroyOut(f, F, t, g, Q) ==
    /\ TreesRight(g, Q, F)
    /\ \A w \in Tree : Holding(g, F, w) = IF w = t THEN Null ELSE Holding(f, F, w)

LEMMA DestroyRight ==
    ASSUME NEW f, NEW P, NEW F, TreesRight(f, P, F), NEW t \in Tree, f[t] # Null,
           NEW g, g = [f EXCEPT ![t] = Null]
    PROVE  DestroyOut(f, F, t, g, DecrRef(P, f[t]))
  <1> DEFINE r == f[t]
             Q == DecrRef(P, r)
  <1>1. f \in [Tree -> Item \cup {Null}] /\ Core(P, Refs(f), {}) /\ Holds(P, F) /\ Settled(P, F)
    BY DEF TreesRight, TreeHeld
  <1>2. r \in Item /\ r \in P.used /\ P.item[r].prefix = <<>>
    BY RootUsed
  <1>3. \A w \in Tree : g[w] = IF w = t THEN Null ELSE f[w]
    BY <1>1
  <1>4. Refs(g) \in [Item -> Nat] /\ \A x \in Item : Refs(g)[x] = Refs(f)[x] - One(r, x)
    <2>1. Refs(g) \in [Item -> Nat] /\ Refs(f) \in [Item -> Nat]
      BY RootsFinite
    <2>2. ASSUME NEW x \in Item PROVE Refs(g)[x] = Refs(f)[x] - One(r, x)
      <3>1. Refs(g)[x] = Refs(f)[x] - One(r, x) + One(Null, x)
        <4>1. Reroots(f, g, t, Null)
          BY <1>3 DEF Reroots
        <4> QED
          BY <4>1, RootMoves
      <3>2. One(Null, x) = 0
        BY TreeAssumption DEF One
      <3>3. Refs(f)[x] \in Nat /\ One(r, x) \in Nat
        BY <2>1 DEF One
      <3> QED
        BY <3>1, <3>2, <3>3
    <2> QED
      BY <2>1, <2>2
  <1>5. Core(Q, Refs(g), {}) /\ Pruned(P, Q, {}, 0)
    <2>1. 0 <= Len(P.item[r].prefix)
      BY <1>2
    <2>2. PICK m \in Nat : m = 0
      OBVIOUS
    <2>3. PICK e \in [Item -> Nat] : e = Refs(g)
      BY <1>4
    <2>4. (\A x \in Item : e[x] = Refs(f)[x] - One(r, x)) /\ m <= Len(P.item[r].prefix) /\ r \in Item \cup {Null}
      BY <1>2, <1>4, <2>1, <2>2, <2>3
    <2>5. Core(Q, e, {}) /\ Pruned(P, Q, {}, m)
      <3> HIDE DEF r
      <3> QED
        BY <1>1, <2>4, DecrRight
    <2> QED
      BY <2>2, <2>3, <2>5
  <1> HIDE DEF Q
  <1>6. Q.used \subseteq P.used /\ \A x \in Q.used : Q.item[x] = P.item[x]
    BY <1>5 DEF Pruned
  <1>7. Holds(Q, F) /\ Settled(Q, F)
    BY <1>1, <1>5, <1>6, PrunedRight
  <1>8. g \in [Tree -> Item \cup {Null}]
    BY <1>1
  <1>9. ASSUME NEW w \in Tree, g[w] # Null PROVE Q.item[g[w]].prefix = <<>>
    <2>1. g[w] = f[w] /\ f[w] # Null /\ w # t
      BY <1>3, <1>9
    <2>2. f[w] \in Item /\ P.item[f[w]].prefix = <<>>
      BY <2>1, RootUsed
    <2>3. Refs(g)[g[w]] > 0
      BY <1>9, <2>1, <2>2, RootCounts
    <2>4. g[w] \in Q.used
      BY <1>5, <2>1, <2>2, <2>3, CoreFacts
    <2> QED
      BY <1>6, <2>1, <2>2, <2>4
  <1>10. \A w \in Tree : Holding(g, F, w) = IF w = t THEN Null ELSE Holding(f, F, w)
    BY <1>3 DEF Holding
  <1> QED
    BY <1>5, <1>7, <1>8, <1>9, <1>10 DEF DestroyOut, TreesRight, TreeHeld, Q

LEMMA HashTreeRight ==
    ASSUME NEW f, NEW P, NEW F, TreesRight(f, P, F), NEW t \in Tree, f[t] # Null
    PROVE  TreesRight(f, UpdateHashes(P, f[t]), F)
  <1> DEFINE Q == UpdateHashes(P, f[t])
  <1>1. f \in [Tree -> Item \cup {Null}] /\ TreeHeld(P, F, Refs(f))
    BY DEF TreesRight
  <1>2. f[t] \in P.used /\ P.item[f[t]].prefix = <<>>
    BY RootUsed
  <1>3. UpdateOut(P, F, Refs(f), Q)
    BY <1>1, <1>2, UpdateRight
  <1> HIDE DEF Q
  <1>4. TreeHeld(Q, F, Refs(f)) /\ \A x \in Q.used : Q.item[x].prefix = P.item[x].prefix
    BY <1>3 DEF UpdateOut
  <1>5. ASSUME NEW w \in Tree, f[w] # Null PROVE Q.item[f[w]].prefix = <<>>
    <2>1. f[w] \in Item /\ P.item[f[w]].prefix = <<>> /\ Refs(f)[f[w]] > 0
      BY <1>5, RootUsed
    <2>2. f[w] \in Q.used
      BY <1>4, <2>1, CoreFacts DEF TreeHeld
    <2> QED
      BY <1>4, <2>1, <2>2
  <1>6. TreesRight(f, Q, F)
    BY <1>1, <1>4, <1>5 DEF TreesRight
  <1> QED
    BY <1>6 DEF Q

WriteOut(f, F, t, k, v, g, Q, G) ==
    /\ TreesRight(g, Q, G) /\ Holding(g, G, t) = Written(Holding(f, F, t), k, v)
    /\ \A w \in Tree \ {t} : Holding(g, G, w) = Holding(f, F, w)

LEMMA WriteRight ==
    ASSUME NEW f, NEW P, NEW F, TreesRight(f, P, F), NEW t \in Tree, f[t] # Null,
           NEW k \in Key, NEW v \in Val \cup {Null}, Places(P) >= 3 * HashBits + 1,
           NEW g, g = [f EXCEPT ![t] = InsertItem(P, f[t], k, v).id]
    PROVE  \E G : WriteOut(f, F, t, k, v, g, InsertItem(P, f[t], k, v).pool, G)
  <1>1. PICK r : r = f[t]
    OBVIOUS
  <1>2. PICK id : id = InsertItem(P, r, k, v).id
    OBVIOUS
  <1>3. PICK Q : Q = InsertItem(P, r, k, v).pool
    OBVIOUS
  <1>4. f \in [Tree -> Item \cup {Null}] /\ Core(P, Refs(f), {}) /\ Holds(P, F) /\ Settled(P, F)
    BY DEF TreesRight, TreeHeld
  <1>5. r \in Item /\ r \in P.used /\ P.item[r].prefix = <<>> /\ Refs(f)[r] > 0
    BY <1>1, RootUsed
  <1>6. g = [f EXCEPT ![t] = id] /\ \A w \in Tree : g[w] = IF w = t THEN id ELSE f[w]
    BY <1>1, <1>2, <1>4
  <1>7. Moves(Refs(f), Refs(g), r, id)
    <2>1. Reroots(f, g, t, id)
      BY <1>6 DEF Reroots
    <2>2. ASSUME NEW x \in Item PROVE Refs(g)[x] = Refs(f)[x] - One(r, x) + One(id, x)
      BY <1>1, <2>1, RootMoves
    <2>3. Refs(g) \in [Item -> Nat]
      BY RootsFinite
    <2> QED
      BY <2>2, <2>3 DEF Moves
  <1>8. MayWrite(P, F, Refs(f), r, k, v)
    BY <1>4, <1>5 DEF MayWrite, CanWrite
  <1>9. ItemOut(P, F, r, k, v, Refs(g), id, Q)
    <2>1. PICK e : e = Refs(g)
      OBVIOUS
    <2>2. Moves(Refs(f), e, r, InsertItem(P, r, k, v).id)
      BY <1>2, <1>7, <2>1
    <2>3. ItemOut(P, F, r, k, v, e, InsertItem(P, r, k, v).id, InsertItem(P, r, k, v).pool)
      BY <1>5, <1>8, <2>2, InsertItemRight
    <2> QED
      BY <1>2, <1>3, <2>1, <2>3
  <1>10. /\ id \in Q.used /\ Q.item[id].prefix = <<>> /\ (id \in P.used => id = r /\ P.refcnt[r] <= 1)
         /\ Core(Q, Refs(g), {})
         /\ \A x \in P.used : x \in Q.used => Q.item[x].prefix = P.item[x].prefix
    BY <1>9 DEF ItemOut
  <1>11. PICK G : /\ Holds(Q, G) /\ Settled(Q, G) /\ G[id] = Written(F[r], k, v)
                  /\ \A x \in P.used : P.item[x].prefix = <<>> /\ x # id => G[x] = F[x]
    BY <1>9 DEF ItemOut
  <1>12. id \in Item /\ id # Null
    BY <1>10, CoreFacts, TreeAssumption
  <1>13. ASSUME NEW w \in Tree, w # t, f[w] # Null
         PROVE  /\ f[w] # id /\ f[w] \in Q.used /\ Q.item[f[w]].prefix = <<>> /\ G[f[w]] = F[f[w]]
    <2>1. f[w] \in Item /\ f[w] \in P.used /\ P.item[f[w]].prefix = <<>>
      BY <1>13, RootUsed
    <2>2. f[w] # id
      <3> SUFFICES ASSUME f[w] = id PROVE FALSE
        OBVIOUS
      <3>1. id = r /\ P.refcnt[r] <= 1
        BY <1>10, <2>1
      <3>2. Refs(f)[r] > 1
        BY <1>1, <1>5, <1>13, <3>1, RootCounts
      <3>3. Edges(P, r) \in Nat /\ P.refcnt[r] = Edges(P, r) + Refs(f)[r] /\ Refs(f)[r] \in Nat
        BY <1>4, <1>5, CoreFacts
      <3> QED
        BY <3>1, <3>2, <3>3
    <2>3. g[w] = f[w]
      BY <1>6, <1>13
    <2>4. Refs(g)[f[w]] > 0
      BY <2>1, <2>3, RootCounts
    <2>5. f[w] \in Q.used
      BY <1>10, <2>1, <2>4, CoreFacts
    <2> QED
      BY <1>10, <1>11, <2>1, <2>2, <2>5
  <1>14. g \in [Tree -> Item \cup {Null}]
    BY <1>4, <1>6, <1>12
  <1>15. \A w \in Tree : g[w] # Null => Q.item[g[w]].prefix = <<>>
    BY <1>6, <1>10, <1>13
  <1>16. Holding(g, G, t) = Written(Holding(f, F, t), k, v)
    BY <1>1, <1>6, <1>11, <1>12 DEF Holding
  <1>17. \A w \in Tree \ {t} : Holding(g, G, w) = Holding(f, F, w)
    BY <1>6, <1>13 DEF Holding
  <1>18. WriteOut(f, F, t, k, v, g, Q, G)
    BY <1>10, <1>11, <1>14, <1>15, <1>16, <1>17 DEF WriteOut, TreesRight, TreeHeld
  <1> QED
    BY <1>1, <1>3, <1>18

LEMMA EmptyPoolRight ==
    ASSUME NEW ext, ext = [x \in Item |-> 0]
    PROVE  Core(EmptyPool, ext, {}) /\ Places(EmptyPool) = MaxItem
  <1> DEFINE P == EmptyPool
  <1>1. /\ P.used = {} /\ P.item = [i \in Item |-> NewItem] /\ P.refcnt = [i \in Item |-> 0] /\ P.pairs = 0
        /\ P = [used |-> {}, item |-> [i \in Item |-> NewItem], refcnt |-> [i \in Item |-> 0], pairs |-> 0]
    BY DEF EmptyPool
  <1>2. PoolOK(P)
    BY <1>1, NewItemOK DEF PoolOK
  <1> HIDE DEF P
  <1>3. Linked(P)
    BY <1>1 DEF Linked
  <1>4. \A i : Edges(P, i) = 0
    <2>1. \A i : EdgeSet(P, i) = {}
      BY <1>1 DEF EdgeSet
    <2>2. \A i : Edges(P, i) = Cardinality({})
      BY <2>1 DEF Edges, EdgeSet
    <2> QED
      BY <2>2, FS_EmptySet
  <1>5. Counted(P, ext)
    BY <1>1, <1>4 DEF Counted
  <1>6. Owned(P, {})
    BY <1>1 DEF Owned
  <1>7. Weighed(P)
    <2>1. PICK h \in [0 .. MaxItem -> Nat] : WeightSums(P, h) /\ Held(P) = h[MaxItem]
      BY <1>2, HeldSums
    <2> DEFINE A == {n \in Nat : n <= MaxItem => h[n] = 0}
    <2>2. MaxItem \in Nat
      BY TreeAssumption
    <2>3. 0 \in A
      BY <2>1, <2>2 DEF WeightSums
    <2>4. ASSUME NEW n \in Nat, n \in A PROVE n + 1 \in A
      <3> SUFFICES ASSUME n + 1 <= MaxItem PROVE h[n + 1] = 0
        OBVIOUS
      <3>1. n + 1 \in 0 .. MaxItem /\ n + 1 # 0 /\ (n + 1) - 1 = n /\ n <= MaxItem
        BY <2>2
      <3>2. h[n + 1] = h[n] + Weight(P, n + 1)
        BY <2>1, <3>1 DEF WeightSums
      <3>3. Weight(P, n + 1) = 0
        BY <1>1 DEF Weight
      <3>4. h[n] = 0
        BY <2>4, <3>1
      <3> QED
        BY <3>2, <3>3, <3>4
    <2> HIDE DEF A
    <2>5. MaxItem \in A
      BY <2>2, <2>3, <2>4, AllNaturals
    <2>6. h[MaxItem] = 0
      BY <2>2, <2>5 DEF A
    <2> QED
      BY <1>1, <2>1, <2>6 DEF Weighed
  <1>8. ext \in [Item -> Nat]
    OBVIOUS
  <1>9. Places(P) = MaxItem
    <2>1. Item \ P.used = Item
      BY <1>1
    <2> QED
      BY <2>1, ItemFinite DEF Places
  <1>10. Core(P, ext, {})
    BY <1>2, <1>3, <1>5, <1>6, <1>7, <1>8 DEF Core
  <1> QED
    BY <1>9, <1>10 DEF P

CreateOut(g, t, Q, G) ==
    TreesRight(g, Q, G) /\ \A w \in Tree : Holding(g, G, w) = IF w = t THEN <<>> ELSE Null

LEMMA CreateRight ==
    ASSUME NEW f, f \in [Tree -> Item \cup {Null}], \A w \in Tree : f[w] = Null, NEW t \in Tree, MaxItem > 0,
           NEW g, g = [f EXCEPT ![t] = FreeItem(EmptyPool)]
    PROVE  \E G : CreateOut(g, t, IncrRef(AllocLeaf(EmptyPool), FreeItem(EmptyPool)), G)
  <1> DEFINE e == [x \in Item |-> 0]
             i == FreeItem(EmptyPool)
             A == AllocLeaf(EmptyPool)
             Q == IncrRef(A, i)
             G == [x \in Item |-> <<>>]
  <1>1. Core(EmptyPool, e, {}) /\ Places(EmptyPool) > 0 /\ EmptyPool.used = {}
    BY EmptyPoolRight DEF EmptyPool
  <1>2. i \in Item \ {} /\ Core(A, e, {} \cup {i}) /\ A.used = {} \cup {i} /\ A.item = [EmptyPool.item EXCEPT ![i] = NewItem]
    <2> HIDE DEF e
    <2> QED
      BY <1>1, AllocRight
  <1>3. i \in Item /\ Core(A, e, {i}) /\ A.used = {i} /\ A.item[i] = NewItem
    <2>1. {} \cup {i} = {i}
      OBVIOUS
    <2>2. A.item[i] = NewItem
      BY <1>2 DEF EmptyPool
    <2> HIDE DEF A, i, e
    <2> QED
      BY <1>2, <2>1, <2>2
  <1> HIDE DEF A, i
  <1>4. \A w \in Tree : g[w] = IF w = t THEN i ELSE Null
    BY DEF i
  <1>5. Gains(e, Refs(g), i)
    <2>1. Refs(g) \in [Item -> Nat] /\ Refs(f) \in [Item -> Nat]
      BY RootsFinite
    <2>2. ASSUME NEW x \in Item PROVE Refs(g)[x] = e[x] + One(i, x)
      <3>1. Reroots(f, g, t, i)
        BY DEF Reroots, i
      <3>2. Refs(g)[x] = Refs(f)[x] - One(f[t], x) + One(i, x)
        BY <3>1, RootMoves
      <3>3. One(f[t], x) = 0
        BY TreeAssumption DEF One
      <3>4. Refs(f)[x] = 0
        <4>1. RootSet(f, x) = {}
          BY TreeAssumption DEF RootSet
        <4> QED
          BY <4>1, FS_EmptySet DEF Refs
      <3>5. One(i, x) \in Nat
        BY DEF One
      <3> QED
        BY <3>2, <3>3, <3>4, <3>5
    <2> HIDE DEF e
    <2> QED
      BY <2>1, <2>2 DEF Gains
  <1>6. Core(Q, Refs(g), {}) /\ Q.used = {i} /\ Q.item = A.item
    <2>1. {i} \ {i} = {} /\ i \in A.used
      BY <1>3
    <2>2. Core(Q, Refs(g), {i} \ {i}) /\ Q.used = A.used /\ Q.item = A.item
      <3> HIDE DEF e
      <3> QED
        BY <1>3, <1>5, <2>1, IncrCore
    <2> QED
      BY <1>3, <2>1, <2>2
  <1> HIDE DEF Q
  <1>7. Q.item[i] = NewItem /\ NewItem.leaf = TRUE /\ NewItem.dirty = TRUE /\ NewItem.prefix = <<>> /\ NewItem.bucket = <<>>
        /\ NewItem.child[1] = Null /\ NewItem.child[2] = Null
    BY <1>3, <1>6 DEF NewItem
  <1>8. Keys(<<>>) = {} /\ IsBucket(<<>>) /\ Len(<<>>) = 0
    BY DEF Keys, IsBucket
  <1>9. Holds(Q, G)
    <2>1. G[i] = <<>>
      BY <1>3
    <2>2. HashBits \in Nat
      BY TreeAssumption
    <2>3. NodeHolds(NewItem, <<>>, G[NewItem.child[1]], G[NewItem.child[2]])
      BY <1>7, <1>8, <2>2 DEF NodeHolds
    <2> HIDE DEF G
    <2>4. HoldsAt(Q, G, i)
      BY <1>7, <2>1, <2>3 DEF HoldsAt
    <2> QED
      BY <1>6, <2>4 DEF Holds
  <1>10. Settled(Q, G)
    <2>1. Few(<<>>)
      <3>1. Cardinality(Keys(<<>>)) = 0 /\ LeafSize \in Nat
        BY <1>8, FS_EmptySet, TreeAssumption
      <3>2. 0 <= LeafSize
        BY <3>1
      <3> QED
        BY <3>1, <3>2 DEF Few
    <2> QED
      BY <1>6, <1>7, <2>1 DEF Settled, NodeRight, SealedAt
  <1>11. g \in [Tree -> Item \cup {Null}] /\ i # Null
    BY <1>3, TreeAssumption DEF i
  <1>12. G[i] = <<>>
    BY <1>3
  <1> HIDE DEF G
  <1>13. \A w \in Tree : Holding(g, G, w) = IF w = t THEN <<>> ELSE Null
    BY <1>4, <1>11, <1>12 DEF Holding
  <1>14. \A w \in Tree : g[w] # Null => Q.item[g[w]].prefix = <<>>
    BY <1>4, <1>7
  <1>15. CreateOut(g, t, Q, G)
    BY <1>6, <1>9, <1>10, <1>11, <1>13, <1>14 DEF CreateOut, TreesRight, TreeHeld
  <1> QED
    BY <1>15 DEF Q, A, i

-----------------------------------------------------------------------------
(* The inductive invariant, and what a step leaves in the trees *)

Now(f, F) == [t \in Tree |-> Holding(f, F, t)]

\* A tree that is there holds pairs.
LEMMA HeldPairs ==
    ASSUME NEW f, NEW P, NEW F, TreesRight(f, P, F), NEW t \in Tree, f[t] # Null
    PROVE  /\ Holding(f, F, t) = F[f[t]] /\ Holding(f, F, t) # Null /\ Holding(f, F, t) = Each(P, f[t])
           /\ IsBucket(Holding(f, F, t))
  <1>1. f[t] \in P.used
    BY RootUsed
  <1>2. Core(P, Refs(f), {}) /\ Holds(P, F)
    BY DEF TreesRight, TreeHeld
  <1>3. HoldsAt(P, F, f[t])
    BY <1>1, <1>2 DEF Holds
  <1>4. IsBucket(F[f[t]]) /\ \A k \in Keys(F[f[t]]) : F[f[t]][k] \in Val
    BY <1>3 DEF HoldsAt, NodeHolds
  <1>5. PICK A : A = F[f[t]]
    OBVIOUS
  <1>6. A \in [Keys(A) -> Val] /\ Keys(A) \in SUBSET Key
    BY <1>4, <1>5 DEF IsBucket, Keys
  <1>7. A # Null
    BY <1>6, TreeAssumption
  <1>8. Each(P, f[t]) = F[f[t]]
    BY <1>1, <1>2, EachRight
  <1> QED
    BY <1>4, <1>5, <1>7, <1>8 DEF Holding

LEMMA StartRight ==
    ASSUME Init
    PROVE  \E F : TreesRight(root, pool, F) /\ Now(root, F) = [t \in Tree |-> Null]
  <1>1. root \in [Tree -> Item \cup {Null}] /\ (\A t \in Tree : root[t] = Null) /\ pool = EmptyPool
    BY DEF Init
  <1>2. Refs(root) = [x \in Item |-> 0]
    <2>1. ASSUME NEW x \in Item PROVE Cardinality(RootSet(root, x)) = 0
      <3>1. RootSet(root, x) = {}
        BY <1>1, TreeAssumption DEF RootSet
      <3> QED
        BY <3>1, FS_EmptySet
    <2> QED
      BY <2>1 DEF Refs
  <1>3. Core(pool, Refs(root), {})
    BY <1>1, <1>2, EmptyPoolRight
  <1>4. PICK F : F = [x \in Item |-> <<>>]
    OBVIOUS
  <1>5. pool.used = {}
    BY <1>1 DEF EmptyPool
  <1>6. TreesRight(root, pool, F)
    BY <1>1, <1>3, <1>5 DEF TreesRight, TreeHeld, Holds, Settled
  <1>7. Now(root, F) = [t \in Tree |-> Null]
    BY <1>1 DEF Now, Holding
  <1> QED
    BY <1>6, <1>7

\* A step of one tree, as TreeValues has it.
OneStep(now, next, t) ==
    /\ \A u \in Tree \ {t} : next[u] = now[u]
    /\ now[t] = Null => \/ next[t] \in {now[u] : u \in Tree} \ {Null}
                        \/ (\A u \in Tree : now[u] = Null) /\ next[t] = <<>>
    /\ now[t] # Null => \/ next[t] = Null
                        \/ \E k \in Key, v \in Val \cup {Null} : next[t] = Written(now[t], k, v)

LEMMA StepIsOne ==
    ASSUME NEW now, NEW next, NEW t \in Tree, OneStep(now, next, t)
    PROVE  Values!Step(now, next)
  <1>1. \A u \in Tree \ {t} : next[u] = now[u]
    BY DEF OneStep
  <1>2. CASE now[t] = Null
    <2>1. Values!Begun({now[u] : u \in Tree} \ {Null}, next[t])
      <3>1. CASE next[t] \in {now[u] : u \in Tree} \ {Null}
        BY <3>1 DEF Values!Begun
      <3>2. CASE (\A u \in Tree : now[u] = Null) /\ next[t] = <<>>
        <4>1. {now[u] : u \in Tree} \ {Null} = {}
          BY <3>2
        <4> QED
          BY <3>2, <4>1 DEF Values!Begun
      <3> QED
        BY <1>2, <3>1, <3>2 DEF OneStep
    <2> QED
      BY <1>1, <1>2, <2>1 DEF Values!Step
  <1>3. CASE now[t] # Null
    <2>1. Values!Changed(now[t], next[t])
      <3>1. CASE next[t] = Null
        BY <3>1 DEF Values!Changed
      <3>2. CASE \E k \in Key, v \in Val \cup {Null} : next[t] = Written(now[t], k, v)
        <4>1. PICK k \in Key, v \in Val \cup {Null} : next[t] = Written(now[t], k, v)
          BY <3>2
        <4>2. CASE v = Null
          BY <4>1, <4>2 DEF Values!Changed, Written, Only, Keys
        <4>3. CASE v # Null
          BY <4>1, <4>3 DEF Values!Changed, Written, With, Keys
        <4> QED
          BY <4>2, <4>3
      <3> QED
        BY <1>3, <3>1, <3>2 DEF OneStep
    <2> QED
      BY <1>1, <1>3, <2>1 DEF Values!Step
  <1> QED
    BY <1>2, <1>3

\* What a step leaves: right trees, one of them changed as TreeValues has it, if any.
StepOut(F, f, P) ==
    \E G : /\ TreesRight(f, P, G)
           /\ Now(f, G) = Now(root, F) \/ Values!Step(Now(root, F), Now(f, G))

LEMMA CreateStep ==
    ASSUME NEW F, TreesRight(root, pool, F), NEW t \in Tree, Create(t)
    PROVE  StepOut(F, root', pool')
  <1>1. /\ root' = [root EXCEPT ![t] = FreeItem(EmptyPool)]
        /\ pool' = IncrRef(AllocLeaf(EmptyPool), FreeItem(EmptyPool))
        /\ (\A w \in Tree : root[w] = Null) /\ Room
    BY DEF Create, Alive
  <1>2. root \in [Tree -> Item \cup {Null}]
    BY DEF TreesRight
  <1>3. MaxItem > 0
    <2>1. IsFiniteSet(Item) /\ Cardinality(Item) = MaxItem /\ MaxItem \in Nat /\ HashBits \in Nat
      BY ItemFinite, TreeAssumption
    <2>2. Cardinality(Item \ pool.used) <= Cardinality(Item) /\ Cardinality(Item \ pool.used) \in Nat
      BY <2>1, FS_Subset, FS_CardinalityType
    <2>3. Cardinality(Item \ pool.used) >= 3 * HashBits + 1
      BY <1>1 DEF Room
    <2> QED
      BY <2>1, <2>2, <2>3
  <1>4. PICK f : f = root
    OBVIOUS
  <1>5. PICK g : g = [f EXCEPT ![t] = FreeItem(EmptyPool)]
    OBVIOUS
  <1>6. \E G : CreateOut(g, t, IncrRef(AllocLeaf(EmptyPool), FreeItem(EmptyPool)), G)
    <2>1. f \in [Tree -> Item \cup {Null}] /\ \A w \in Tree : f[w] = Null
      BY <1>1, <1>2, <1>4
    <2> QED
      BY <1>3, <1>5, <2>1, CreateRight
  <1>7. PICK G : CreateOut(root', t, pool', G)
    BY <1>1, <1>4, <1>5, <1>6
  <1>8. /\ TreesRight(root', pool', G)
        /\ \A w \in Tree : Holding(root', G, w) = IF w = t THEN <<>> ELSE Null
    BY <1>7 DEF CreateOut
  <1>9. \A w \in Tree : Holding(root, F, w) = Null
    BY <1>1 DEF Holding
  <1>10. OneStep(Now(root, F), Now(root', G), t)
    BY <1>8, <1>9 DEF OneStep, Now
  <1>11. Values!Step(Now(root, F), Now(root', G))
    BY <1>10, StepIsOne
  <1> QED
    BY <1>8, <1>11 DEF StepOut

LEMMA CopyStep ==
    ASSUME NEW F, TreesRight(root, pool, F), NEW t \in Tree, NEW u \in Tree, Copy(t, u)
    PROVE  StepOut(F, root', pool')
  <1>1. /\ root' = [root EXCEPT ![u] = root[t]] /\ pool' = IncrRef(pool, root[t])
        /\ root[t] # Null /\ root[u] = Null
    BY DEF Copy, Alive
  <1>2. CopyOut(root, F, t, u, root', pool')
    <2>1. PICK f, P : f = root /\ P = pool
      OBVIOUS
    <2>2. PICK g : g = [f EXCEPT ![u] = f[t]]
      OBVIOUS
    <2>3. TreesRight(f, P, F) /\ f[t] # Null /\ f[u] = Null
      BY <1>1, <2>1
    <2>4. CopyOut(f, F, t, u, g, IncrRef(P, f[t]))
      BY <2>2, <2>3, CopyRight
    <2> QED
      BY <1>1, <2>1, <2>2, <2>4
  <1>3. /\ TreesRight(root', pool', F)
        /\ \A w \in Tree : Holding(root', F, w) = Holding(root, F, IF w = u THEN t ELSE w)
    BY <1>2 DEF CopyOut
  <1>4. Holding(root, F, t) # Null /\ Holding(root, F, u) = Null
    BY <1>1, HeldPairs DEF Holding
  <1>5. OneStep(Now(root, F), Now(root', F), u)
    <2>1. ASSUME NEW w \in Tree \ {u} PROVE Now(root', F)[w] = Now(root, F)[w]
      BY <1>3 DEF Now
    <2>2. Now(root', F)[u] = Holding(root, F, t) /\ Now(root, F)[t] = Holding(root, F, t) /\ Now(root, F)[u] = Null
      BY <1>3, <1>4 DEF Now
    <2> QED
      BY <1>4, <2>1, <2>2 DEF OneStep
  <1>6. Values!Step(Now(root, F), Now(root', F))
    BY <1>5, StepIsOne
  <1> QED
    BY <1>3, <1>6 DEF StepOut

LEMMA DestroyStep ==
    ASSUME NEW F, TreesRight(root, pool, F), NEW t \in Tree, Destroy(t)
    PROVE  StepOut(F, root', pool')
  <1>1. root' = [root EXCEPT ![t] = Null] /\ pool' = DecrRef(pool, root[t]) /\ root[t] # Null
    BY DEF Destroy, Alive
  <1>2. DestroyOut(root, F, t, root', pool')
    <2>1. PICK f, P : f = root /\ P = pool
      OBVIOUS
    <2>2. PICK g : g = [f EXCEPT ![t] = Null]
      OBVIOUS
    <2>3. TreesRight(f, P, F) /\ f[t] # Null
      BY <1>1, <2>1
    <2>4. DestroyOut(f, F, t, g, DecrRef(P, f[t]))
      BY <2>2, <2>3, DestroyRight
    <2> QED
      BY <1>1, <2>1, <2>2, <2>4
  <1>3. /\ TreesRight(root', pool', F)
        /\ \A w \in Tree : Holding(root', F, w) = IF w = t THEN Null ELSE Holding(root, F, w)
    BY <1>2 DEF DestroyOut
  <1>4. Holding(root, F, t) # Null
    BY <1>1, HeldPairs
  <1>5. OneStep(Now(root, F), Now(root', F), t)
    <2>1. ASSUME NEW w \in Tree \ {t} PROVE Now(root', F)[w] = Now(root, F)[w]
      BY <1>3 DEF Now
    <2>2. Now(root', F)[t] = Null /\ Now(root, F)[t] # Null
      BY <1>3, <1>4 DEF Now
    <2> QED
      BY <2>1, <2>2 DEF OneStep
  <1>6. Values!Step(Now(root, F), Now(root', F))
    BY <1>5, StepIsOne
  <1> QED
    BY <1>3, <1>6 DEF StepOut

LEMMA WriteStep ==
    ASSUME NEW F, TreesRight(root, pool, F), NEW t \in Tree, NEW k \in Key, NEW v \in Val \cup {Null}, Write(t, k, v)
    PROVE  StepOut(F, root', pool')
  <1>1. /\ root' = [root EXCEPT ![t] = InsertItem(pool, root[t], k, v).id]
        /\ pool' = InsertItem(pool, root[t], k, v).pool /\ root[t] # Null /\ Room
    BY DEF Write, Alive
  <1>2. \E G : WriteOut(root, F, t, k, v, root', pool', G)
    <2>1. PICK f, P : f = root /\ P = pool
      OBVIOUS
    <2>2. PICK g : g = [f EXCEPT ![t] = InsertItem(P, f[t], k, v).id]
      OBVIOUS
    <2>3. TreesRight(f, P, F) /\ f[t] # Null /\ Places(P) >= 3 * HashBits + 1
      BY <1>1, <2>1 DEF Places, Room
    <2>4. \E G : WriteOut(f, F, t, k, v, g, InsertItem(P, f[t], k, v).pool, G)
      BY <2>2, <2>3, WriteRight
    <2> QED
      BY <1>1, <2>1, <2>2, <2>4
  <1>3. PICK G : WriteOut(root, F, t, k, v, root', pool', G)
    BY <1>2
  <1>4. /\ TreesRight(root', pool', G) /\ Holding(root', G, t) = Written(Holding(root, F, t), k, v)
        /\ \A w \in Tree \ {t} : Holding(root', G, w) = Holding(root, F, w)
    BY <1>3 DEF WriteOut
  <1>5. Holding(root, F, t) # Null
    BY <1>1, HeldPairs
  <1>6. OneStep(Now(root, F), Now(root', G), t)
    <2>1. ASSUME NEW w \in Tree \ {t} PROVE Now(root', G)[w] = Now(root, F)[w]
      BY <1>4 DEF Now
    <2>2. Now(root', G)[t] = Written(Now(root, F)[t], k, v) /\ Now(root, F)[t] # Null
      BY <1>4, <1>5 DEF Now
    <2> QED
      BY <2>1, <2>2 DEF OneStep
  <1>7. Values!Step(Now(root, F), Now(root', G))
    BY <1>6, StepIsOne
  <1> QED
    BY <1>4, <1>7 DEF StepOut

LEMMA RootHashStep ==
    ASSUME NEW F, TreesRight(root, pool, F), NEW t \in Tree, RootHash(t)
    PROVE  StepOut(F, root', pool')
  <1>1. root' = root /\ pool' = UpdateHashes(pool, root[t]) /\ root[t] # Null
    BY DEF RootHash, Alive
  <1>2. TreesRight(root, UpdateHashes(pool, root[t]), F)
    BY <1>1, HashTreeRight
  <1> QED
    BY <1>1, <1>2 DEF StepOut

LEMMA NextRight ==
    ASSUME NEW F, TreesRight(root, pool, F), [Next]_vars
    PROVE  StepOut(F, root', pool')
  <1>1. CASE UNCHANGED vars
    BY <1>1 DEF vars, StepOut
  <1>2. CASE Next
    <2> PICK t \in Tree : Create(t) \/ Destroy(t) \/ Insert(t) \/ DeleteItem(t) \/ RootHash(t) \/ \E u \in Tree : Copy(t, u)
      BY <1>2 DEF Next
    <2>1. CASE Create(t)
      BY <2>1, CreateStep
    <2>2. CASE Destroy(t)
      BY <2>2, DestroyStep
    <2>3. CASE Insert(t)
      <3>1. PICK p \in Pair : Write(t, p[1], p[2])
        BY <2>3 DEF Insert
      <3>2. p[1] \in Key /\ p[2] \in Val \cup {Null}
        BY DEF Key, Val
      <3> QED
        BY <3>1, <3>2, WriteStep
    <2>4. CASE DeleteItem(t)
      <3>1. PICK k \in Key : Write(t, k, Null)
        BY <2>4 DEF DeleteItem
      <3>2. Null \in Val \cup {Null}
        OBVIOUS
      <3> QED
        BY <3>1, <3>2, WriteStep
    <2>5. CASE RootHash(t)
      BY <2>5, RootHashStep
    <2>6. CASE \E u \in Tree : Copy(t, u)
      BY <2>6, CopyStep
    <2> QED
      BY <2>1, <2>2, <2>3, <2>4, <2>5, <2>6
  <1> QED
    BY <1>1, <1>2

-----------------------------------------------------------------------------
(* Lookups, proofs and differences *)

\* The leaf that a lookup comes to.
Reached(P, i, k) ==
    LET down(j) == Deeper(P, j, k)
    IN  Steps(down, i, HashBits)


\* The nodes of a lookup.
Lookups(f, P, i, k, n) == f = [m \in 0 .. n |-> IF m = 0 THEN i ELSE Deeper(P, f[m - 1], k)]

LEMMA LookupRuns ==
    ASSUME NEW P, NEW i, NEW k
    PROVE  \E f : Lookups(f, P, i, k, HashBits) /\ Reached(P, i, k) = f[HashBits]
  <1> DEFINE A == {q \in Nat : \E f : Lookups(f, P, i, k, q)}
  <1>1. 0 \in A
    <2>1. Lookups([m \in 0 .. 0 |-> i], P, i, k, 0)
      BY DEF Lookups
    <2> QED
      BY <2>1
  <1>2. ASSUME NEW q \in Nat, q \in A PROVE q + 1 \in A
    <2>1. PICK f : Lookups(f, P, i, k, q)
      BY <1>2
    <2> DEFINE g == [m \in 0 .. q + 1 |-> IF m = q + 1 THEN Deeper(P, f[q], k) ELSE f[m]]
    <2>2. \A m \in 0 .. q : g[m] = f[m]
      OBVIOUS
    <2>3. ASSUME NEW m \in 0 .. q + 1 PROVE g[m] = IF m = 0 THEN i ELSE Deeper(P, g[m - 1], k)
      <3>1. CASE m = q + 1
        BY <2>2, <3>1
      <3>2. CASE m # q + 1
        <4>1. m \in 0 .. q /\ (m # 0 => m - 1 \in 0 .. q)
          BY <3>2
        <4> HIDE DEF g
        <4> QED
          BY <2>1, <2>2, <4>1 DEF Lookups
      <3> QED
        BY <3>1, <3>2
    <2>4. g = [m \in 0 .. q + 1 |-> g[m]]
      OBVIOUS
    <2> HIDE DEF g
    <2>5. Lookups(g, P, i, k, q + 1)
      BY <2>3, <2>4 DEF Lookups
    <2> QED
      BY <2>5
  <1> HIDE DEF A
  <1>3. HashBits \in A
    BY <1>1, <1>2, AllNaturals, TreeAssumption
  <1>4. \E f : Lookups(f, P, i, k, HashBits)
    BY <1>3 DEF A
  <1> DEFINE after == CHOOSE f : Lookups(f, P, i, k, HashBits)
  <1>5. Lookups(after, P, i, k, HashBits)
    BY <1>4
  <1>6. Reached(P, i, k) = after[HashBits]
    BY Zenon DEF Reached, Steps, Lookups, after
  <1> HIDE DEF after
  <1> QED
    BY <1>5, <1>6

\* After m steps on the way of a key from node i, at x.
OnWay(P, F, i, k, x, m) ==
    /\ x \in P.used /\ (k \in Keys(F[x]) <=> k \in Keys(F[i]))
    /\ k \in Keys(F[i]) => F[x][k] = F[i][k]
    /\ P.item[x].leaf \/ Len(P.item[x].prefix) >= m

LEMMA WayStarts ==
    ASSUME NEW P, NEW ext, NEW new, Core(P, ext, new), NEW F, NEW i \in P.used, NEW k
    PROVE  OnWay(P, F, i, k, i, 0)
  <1>1. NodeOK(P.item[i])
    BY CoreFacts
  <1>2. Len(P.item[i].prefix) \in Nat
    BY <1>1, ChildType
  <1> QED
    BY <1>2 DEF OnWay

LEMMA WayGoes ==
    ASSUME NEW P, NEW ext, NEW new, Core(P, ext, new), NEW F, Holds(P, F), NEW i, NEW k \in Key,
           NEW x, NEW m \in Nat, OnWay(P, F, i, k, x, m), ~P.item[x].leaf
    PROVE  /\ Side(k, P.item[x].prefix) \in {Left, Right} /\ Down(P, F, x, Side(k, P.item[x].prefix))
           /\ OnWay(P, F, i, k, NextFor(P, x, k), m + 1)
  <1>1. x \in P.used
    BY DEF OnWay
  <1>2. NodeOK(P.item[x]) /\ HoldsAt(P, F, x)
    BY <1>1, CoreFacts DEF Holds
  <1>3. P.item[x].prefix \in Bits /\ Len(P.item[x].prefix) < HashBits
    BY <1>2 DEF HoldsAt, NodeHolds, NodeOK
  <1>4. PICK s \in {Left, Right} : s = Side(k, P.item[x].prefix)
    BY <1>3, SideType
  <1>5. Down(P, F, x, s)
    BY <1>1, <1>2, DownRight
  <1>6. PICK y : y = P.item[x].child[s + 1]
    OBVIOUS
  <1>7. /\ y \in P.used /\ Len(P.item[y].prefix) = Len(P.item[x].prefix) + 1 /\ Len(P.item[x].prefix) \in Nat
        /\ F[y] = Part(F[x], P.item[x].prefix, s)
    BY <1>5, <1>6 DEF Down
  <1>8. (k \in Keys(F[y]) <=> k \in Keys(F[x])) /\ (k \in Keys(F[x]) => F[y][k] = F[x][k])
    BY <1>4, <1>7, PartKeys
  <1>9. Len(P.item[y].prefix) >= m + 1
    BY <1>7 DEF OnWay
  <1>10. OnWay(P, F, i, k, y, m + 1)
    BY <1>7, <1>8, <1>9 DEF OnWay
  <1> QED
    BY <1>4, <1>5, <1>6, <1>10 DEF NextFor

LEMMA WayEnds ==
    ASSUME NEW P, NEW ext, NEW new, Core(P, ext, new), NEW F, Holds(P, F), NEW i, NEW k, NEW x,
           OnWay(P, F, i, k, x, HashBits)
    PROVE  x \in P.used /\ P.item[x].leaf /\ P.item[x].bucket = F[x]
  <1>1. x \in P.used
    BY DEF OnWay
  <1>2. NodeOK(P.item[x]) /\ HoldsAt(P, F, x)
    BY <1>1, CoreFacts DEF Holds
  <1>3. HashBits \in Nat /\ Len(P.item[x].prefix) \in Nat
    BY <1>2, ChildType, TreeAssumption
  <1>4. P.item[x].leaf
    BY <1>2, <1>3 DEF OnWay, HoldsAt, NodeHolds
  <1> QED
    BY <1>1, <1>2, <1>4 DEF HoldsAt, NodeHolds

\* A lookup finds what is below the node.
LEMMA LookupRight ==
    ASSUME NEW P, NEW ext, NEW new, Core(P, ext, new), NEW F, Holds(P, F), NEW i \in P.used, NEW k \in Key
    PROVE  /\ MapContains(P, i, k) <=> k \in Keys(F[i])
           /\ k \in Keys(F[i]) => GetItem(P, i, k) = F[i][k]
  <1>1. PICK f : Lookups(f, P, i, k, HashBits) /\ Reached(P, i, k) = f[HashBits]
    BY LookupRuns
  <1>2. HashBits \in Nat
    BY TreeAssumption
  <1> DEFINE A == {m \in Nat : m <= HashBits => OnWay(P, F, i, k, f[m], m)}
  <1>3. 0 \in A
    <2>1. f[0] = i
      BY <1>1, <1>2 DEF Lookups
    <2>2. OnWay(P, F, i, k, i, 0)
      BY WayStarts
    <2> QED
      BY <2>1, <2>2
  <1>4. ASSUME NEW m \in Nat, m \in A PROVE m + 1 \in A
    <2> SUFFICES ASSUME m + 1 <= HashBits PROVE OnWay(P, F, i, k, f[m + 1], m + 1)
      OBVIOUS
    <2>1. m + 1 \in 0 .. HashBits /\ m + 1 # 0 /\ (m + 1) - 1 = m /\ m <= HashBits
      BY <1>2
    <2>2. f[m + 1] = Deeper(P, f[m], k)
      BY <1>1, <2>1 DEF Lookups
    <2>3. PICK x : x = f[m]
      OBVIOUS
    <2>4. OnWay(P, F, i, k, x, m)
      BY <1>4, <2>1, <2>3
    <2>5. CASE P.item[x].leaf
      BY <2>2, <2>3, <2>4, <2>5 DEF Deeper, OnWay
    <2>6. CASE ~P.item[x].leaf
      <3>1. OnWay(P, F, i, k, NextFor(P, x, k), m + 1)
        BY <2>4, <2>6, WayGoes
      <3> QED
        BY <2>2, <2>3, <2>6, <3>1 DEF Deeper
    <2> QED
      BY <2>5, <2>6
  <1> HIDE DEF A
  <1>5. HashBits \in A
    BY <1>2, <1>3, <1>4, AllNaturals
  <1>6. PICK x : x = Reached(P, i, k)
    OBVIOUS
  <1>7. OnWay(P, F, i, k, x, HashBits)
    BY <1>1, <1>2, <1>5, <1>6 DEF A
  <1>8. P.item[x].bucket = F[x]
    BY <1>7, WayEnds
  <1>9. Bucket(P, i, k) = P.item[x].bucket
    BY <1>6 DEF Bucket, Reached
  <1> QED
    BY <1>7, <1>8, <1>9 DEF OnWay, MapContains, GetItem

\* A sibling's hash and the hash on the way, in the order of the sides.
Combine(e, h) == IF e.side = Left THEN NodeTerm(h, e.hash) ELSE NodeTerm(e.hash, h)

\* From term h at the end of the siblings to hash r at the root.
FoldsTo(siblings, h, r) ==
    \E g : /\ g = [d \in 0 .. Len(siblings) |-> g[d]] /\ g[0] = r /\ g[Len(siblings)] = h
           /\ \A d \in 1 .. Len(siblings) : g[d - 1] = Combine(siblings[d], g[d])

FoldSteps(p, f) ==
    f = [m \in 0 .. Len(p.siblings) |->
            IF m = 0 THEN p.term ELSE Combine(p.siblings[Len(p.siblings) + 1 - m], f[m - 1])]

LEMMA FoldedRight ==
    ASSUME NEW p, Len(p.siblings) \in Nat, NEW r, FoldsTo(p.siblings, p.term, r)
    PROVE  Folded(p) = r
  <1> DEFINE n == Len(p.siblings)
  <1>1. PICK g : /\ g[0] = r /\ g[n] = p.term /\ \A d \in 1 .. n : g[d - 1] = Combine(p.siblings[d], g[d])
    BY DEF FoldsTo
  <1> DEFINE e == [m \in 0 .. n |-> g[n - m]]
  <1>2. \A m \in 0 .. n : e[m] = IF m = 0 THEN p.term ELSE Combine(p.siblings[n + 1 - m], e[m - 1])
    <2>1. e[0] = p.term
      BY <1>1
    <2>2. ASSUME NEW m \in 0 .. n, m # 0 PROVE e[m] = Combine(p.siblings[n + 1 - m], e[m - 1])
      <3>1. n + 1 - m \in 1 .. n /\ (n + 1 - m) - 1 = n - m /\ n - (m - 1) = n + 1 - m /\ m - 1 \in 0 .. n
        BY <2>2
      <3>2. g[n - m] = Combine(p.siblings[n + 1 - m], g[n + 1 - m])
        BY <1>1, <3>1
      <3> QED
        BY <3>1, <3>2
    <2> HIDE DEF e
    <2> QED
      BY <2>1, <2>2
  <1>3. e = [m \in 0 .. n |-> e[m]]
    OBVIOUS
  <1>4. e[n] = r
    BY <1>1
  <1> HIDE DEF e
  <1>5. FoldSteps(p, e)
    BY <1>2, <1>3 DEF FoldSteps
  <1> DEFINE up == CHOOSE f : FoldSteps(p, f)
  <1>6. FoldSteps(p, up)
    BY <1>5
  <1>7. Folded(p) = up[n]
    BY Zenon DEF Folded, up, FoldSteps, Combine
  <1> HIDE DEF up
  <1> DEFINE A == {m \in Nat : m <= n => up[m] = e[m]}
  <1>8. 0 \in A
    BY <1>5, <1>6 DEF FoldSteps
  <1>9. ASSUME NEW m \in Nat, m \in A PROVE m + 1 \in A
    <2> SUFFICES ASSUME m + 1 <= n PROVE up[m + 1] = e[m + 1]
      OBVIOUS
    <2>1. m + 1 \in 0 .. n /\ m + 1 # 0 /\ (m + 1) - 1 = m /\ m <= n
      OBVIOUS
    <2>2. up[m + 1] = Combine(p.siblings[n + 1 - (m + 1)], up[m])
      BY <1>6, <2>1 DEF FoldSteps
    <2>3. e[m + 1] = Combine(p.siblings[n + 1 - (m + 1)], e[m])
      BY <1>5, <2>1 DEF FoldSteps
    <2>4. up[m] = e[m]
      BY <1>9, <2>1
    <2> QED
      BY <2>2, <2>3, <2>4
  <1> HIDE DEF A
  <1>10. n \in A
    BY <1>8, <1>9, AllNaturals
  <1> QED
    BY <1>4, <1>7, <1>10 DEF A

LEMMA FoldStarts ==
    ASSUME NEW h
    PROVE  FoldsTo(<<>>, h, h)
  <1> DEFINE g == [d \in 0 .. 0 |-> h]
  <1>1. Len(<<>>) = 0 /\ g = [d \in 0 .. Len(<<>>) |-> g[d]] /\ g[0] = h
    OBVIOUS
  <1> HIDE DEF g
  <1> QED
    BY <1>1 DEF FoldsTo

LEMMA FoldGrows ==
    ASSUME NEW S, NEW siblings \in Seq(S), NEW e \in S, NEW h, NEW r, FoldsTo(siblings, Combine(e, h), r)
    PROVE  FoldsTo(Append(siblings, e), h, r) /\ Append(siblings, e) \in Seq(S)
  <1> DEFINE n == Len(siblings)
             more == Append(siblings, e)
  <1>1. PICK g : /\ g[0] = r /\ g[n] = Combine(e, h) /\ \A d \in 1 .. n : g[d - 1] = Combine(siblings[d], g[d])
    BY DEF FoldsTo
  <1>2. n \in Nat /\ Len(more) = n + 1 /\ more \in Seq(S) /\ more[n + 1] = e
        /\ \A d \in 1 .. n : more[d] = siblings[d]
    OBVIOUS
  <1> DEFINE b == [d \in 0 .. n + 1 |-> IF d = n + 1 THEN h ELSE g[d]]
  <1>3. b = [d \in 0 .. n + 1 |-> b[d]] /\ b[0] = r /\ b[n + 1] = h /\ \A d \in 0 .. n : b[d] = g[d]
    BY <1>1, <1>2
  <1> HIDE DEF b, more
  <1>4. ASSUME NEW d \in 1 .. n + 1 PROVE b[d - 1] = Combine(more[d], b[d])
    <2>1. CASE d = n + 1
      <3>1. d - 1 = n /\ n \in 0 .. n
        BY <1>2, <2>1
      <3> QED
        BY <1>1, <1>2, <1>3, <2>1, <3>1
    <2>2. CASE d # n + 1
      <3>1. d \in 1 .. n /\ d - 1 \in 0 .. n /\ d \in 0 .. n
        BY <1>2, <2>2
      <3> QED
        BY <1>1, <1>2, <1>3, <3>1
    <2> QED
      BY <2>1, <2>2
  <1>5. FoldsTo(more, h, r)
    BY <1>2, <1>3, <1>4 DEF FoldsTo
  <1> QED
    BY <1>2, <1>5 DEF more

\* A clean inner node's hashes are made of its children's, which are clean.
LEMMA CleanInner ==
    ASSUME NEW P, NEW ext, NEW new, Core(P, ext, new), NEW F, Holds(P, F), Settled(P, F), NEW x \in P.used,
           ~P.item[x].leaf, ~P.item[x].dirty, NEW c \in Column
    PROVE  /\ ChildrenClean(P, x)
           /\ P.item[x].hashes[c] = NodeTerm(P.item[P.item[x].child[1]].hashes[c], P.item[P.item[x].child[2]].hashes[c])
  <1> DEFINE n == P.item[x]
             l == n.child[1]
             r == n.child[2]
  <1>1. NodeOK(n) /\ HoldsAt(P, F, x) /\ NodeRight(n, F[x]) /\ ChildrenClean(P, x)
    BY CoreFacts DEF Holds, Settled, SealedAt
  <1>2. Down(P, F, x, Left) /\ Down(P, F, x, Right) /\ Left + 1 = 1 /\ Right + 1 = 2
    BY <1>1, DownRight DEF Left, Right
  <1>3. /\ l \in P.used /\ P.item[l].prefix = Append(n.prefix, Left) /\ F[l] = Part(F[x], n.prefix, Left)
        /\ r \in P.used /\ P.item[r].prefix = Append(n.prefix, Right) /\ F[r] = Part(F[x], n.prefix, Right)
    BY <1>2 DEF Down
  <1>4. NodeRight(P.item[l], F[l]) /\ NodeRight(P.item[r], F[r])
    BY <1>3 DEF Settled
  <1>5. /\ P.item[l].hashes = Hashes(Append(n.prefix, Left), Part(F[x], n.prefix, Left))
        /\ P.item[r].hashes = Hashes(Append(n.prefix, Right), Part(F[x], n.prefix, Right))
    BY <1>1, <1>3, <1>4 DEF NodeRight, ChildrenClean
  <1>6. n.hashes = Hashes(n.prefix, F[x]) /\ ~Few(F[x])
    BY <1>1 DEF NodeRight
  <1>7. n.prefix \in Bits /\ Len(n.prefix) <= HashBits /\ IsBucket(F[x]) /\ \A k \in Keys(F[x]) : Agrees(k, n.prefix)
    BY <1>1, ChildType DEF HoldsAt, NodeHolds
  <1>8. n.hashes = NodeHashes(P.item[l].hashes, P.item[r].hashes)
    <2>1. Hashes(n.prefix, F[x]) = NodeHashes(Hashes(Append(n.prefix, Left), Part(F[x], n.prefix, Left)),
                                              Hashes(Append(n.prefix, Right), Part(F[x], n.prefix, Right)))
      BY <1>6, <1>7, HashesOfMany
    <2> QED
      BY <1>5, <1>6, <2>1
  <1> QED
    BY <1>1, <1>8 DEF NodeHashes

\* Where the collection of a proof ends.
Collected(P, k, c, i) ==
    LET nearer(s) == Nearer(P, k, c, s)
    IN  Steps(nearer, [at |-> i, siblings |-> <<>>], HashBits)


\* The states of a collection.
Collects(f, P, k, c, i, n) == f = [m \in 0 .. n |-> IF m = 0 THEN [at |-> i, siblings |-> <<>>] ELSE Nearer(P, k, c, f[m - 1])]

LEMMA CollectRuns ==
    ASSUME NEW P, NEW k, NEW c, NEW i
    PROVE  \E f : Collects(f, P, k, c, i, HashBits) /\ Collected(P, k, c, i) = f[HashBits]
  <1> DEFINE A == {q \in Nat : \E f : Collects(f, P, k, c, i, q)}
  <1>1. 0 \in A
    <2>1. Collects([m \in 0 .. 0 |-> [at |-> i, siblings |-> <<>>]], P, k, c, i, 0)
      BY DEF Collects
    <2> QED
      BY <2>1
  <1>2. ASSUME NEW q \in Nat, q \in A PROVE q + 1 \in A
    <2>1. PICK f : Collects(f, P, k, c, i, q)
      BY <1>2
    <2> DEFINE g == [m \in 0 .. q + 1 |-> IF m = q + 1 THEN Nearer(P, k, c, f[q]) ELSE f[m]]
    <2>2. \A m \in 0 .. q : g[m] = f[m]
      OBVIOUS
    <2>3. ASSUME NEW m \in 0 .. q + 1 PROVE g[m] = IF m = 0 THEN [at |-> i, siblings |-> <<>>] ELSE Nearer(P, k, c, g[m - 1])
      <3>1. CASE m = q + 1
        BY <2>2, <3>1
      <3>2. CASE m # q + 1
        <4>1. m \in 0 .. q /\ (m # 0 => m - 1 \in 0 .. q)
          BY <3>2
        <4> HIDE DEF g
        <4> QED
          BY <2>1, <2>2, <4>1 DEF Collects
      <3> QED
        BY <3>1, <3>2
    <2>4. g = [m \in 0 .. q + 1 |-> g[m]]
      OBVIOUS
    <2> HIDE DEF g
    <2>5. Collects(g, P, k, c, i, q + 1)
      BY <2>3, <2>4 DEF Collects
    <2> QED
      BY <2>5
  <1> HIDE DEF A
  <1>3. HashBits \in A
    BY <1>1, <1>2, AllNaturals, TreeAssumption
  <1>4. \E f : Collects(f, P, k, c, i, HashBits)
    BY <1>3 DEF A
  <1> DEFINE after == CHOOSE f : Collects(f, P, k, c, i, HashBits)
  <1>5. Collects(after, P, k, c, i, HashBits)
    BY <1>4
  <1>6. Collected(P, k, c, i) = after[HashBits]
    BY Zenon DEF Collected, Steps, Collects, after
  <1> HIDE DEF after
  <1> QED
    BY <1>5, <1>6

Sibling(P, c) == [side : {Left, Right}, hash : {P.item[j].hashes[c] : j \in Item}]

\* After m steps of a collection from node i.
Collecting(P, F, i, k, c, s, m) ==
    /\ s.siblings \in Seq(Sibling(P, c)) /\ OnWay(P, F, i, k, s.at, m) /\ ~P.item[s.at].dirty
    /\ FoldsTo(s.siblings, P.item[s.at].hashes[c], P.item[i].hashes[c])

LEMMA CollectStep ==
    ASSUME NEW P, NEW ext, NEW new, Core(P, ext, new), NEW F, Holds(P, F), Settled(P, F),
           NEW i, NEW k \in Key, NEW c \in Column, NEW s, NEW m \in Nat, Collecting(P, F, i, k, c, s, m)
    PROVE  Collecting(P, F, i, k, c, Nearer(P, k, c, s), m + 1)
  <1>1. PICK x, siblings : x = s.at /\ siblings = s.siblings
    OBVIOUS
  <1>2. /\ siblings \in Seq(Sibling(P, c)) /\ OnWay(P, F, i, k, x, m) /\ ~P.item[x].dirty /\ x \in P.used
        /\ FoldsTo(siblings, P.item[x].hashes[c], P.item[i].hashes[c])
    BY <1>1 DEF Collecting, OnWay
  <1>3. CASE P.item[x].leaf
    <2>1. Nearer(P, k, c, s) = s
      BY <1>1, <1>3 DEF Nearer
    <2>2. OnWay(P, F, i, k, x, m + 1)
      BY <1>2, <1>3 DEF OnWay
    <2> QED
      BY <1>1, <1>2, <2>1, <2>2 DEF Collecting
  <1>4. CASE ~P.item[x].leaf
    <2>1. PICK t : t = Side(k, P.item[x].prefix)
      OBVIOUS
    <2>2. t \in {Left, Right} /\ OnWay(P, F, i, k, NextFor(P, x, k), m + 1)
      BY <1>2, <1>4, <2>1, WayGoes
    <2>3. PICK y, z : y = P.item[x].child[t + 1] /\ z = P.item[x].child[2 - t]
      OBVIOUS
    <2>4. NextFor(P, x, k) = y
      BY <2>1, <2>3 DEF NextFor
    <2>5. HoldsAt(P, F, x)
      BY <1>2 DEF Holds
    <2>6. Down(P, F, x, Left) /\ Down(P, F, x, Right) /\ Left + 1 = 1 /\ Right + 1 = 2
      BY <1>2, <1>4, <2>5, DownRight DEF Left, Right
    <2>7. z \in Item
      <3>1. P.item[x].child[1] \in Item /\ P.item[x].child[2] \in Item
        BY <2>6 DEF Down
      <3> QED
        BY <2>2, <2>3, <3>1 DEF Left, Right
    <2>8. /\ ChildrenClean(P, x)
          /\ P.item[x].hashes[c] = NodeTerm(P.item[P.item[x].child[1]].hashes[c], P.item[P.item[x].child[2]].hashes[c])
      BY <1>2, <1>4, CleanInner
    <2>9. PICK e : e = [side |-> t, hash |-> P.item[z].hashes[c]]
      OBVIOUS
    <2>10. e \in Sibling(P, c)
      BY <2>2, <2>7, <2>9 DEF Sibling
    <2>11. P.item[x].hashes[c] = Combine(e, P.item[y].hashes[c]) /\ ~P.item[y].dirty
      BY <2>2, <2>3, <2>8, <2>9 DEF Combine, ChildrenClean, Left, Right
    <2>12. FoldsTo(Append(siblings, e), P.item[y].hashes[c], P.item[i].hashes[c])
           /\ Append(siblings, e) \in Seq(Sibling(P, c))
      <3>1. FoldsTo(siblings, Combine(e, P.item[y].hashes[c]), P.item[i].hashes[c])
        BY <1>2, <2>11
      <3> QED
        BY <1>2, <2>10, <3>1, FoldGrows
    <2>13. Nearer(P, k, c, s) = [at |-> y, siblings |-> Append(siblings, e)]
      BY <1>1, <1>4, <2>1, <2>3, <2>4, <2>9 DEF Nearer
    <2>14. Nearer(P, k, c, s).at = y /\ Nearer(P, k, c, s).siblings = Append(siblings, e)
      BY <2>13
    <2> QED
      BY <2>2, <2>4, <2>11, <2>12, <2>14 DEF Collecting
  <1> QED
    BY <1>3, <1>4

LEMMA CollectedRight ==
    ASSUME NEW P, NEW ext, NEW new, Core(P, ext, new), NEW F, Holds(P, F), Settled(P, F),
           NEW i \in P.used, ~P.item[i].dirty, NEW k \in Key, NEW c \in Column
    PROVE  Collecting(P, F, i, k, c, Collected(P, k, c, i), HashBits)
  <1>1. PICK f : Collects(f, P, k, c, i, HashBits) /\ Collected(P, k, c, i) = f[HashBits]
    BY CollectRuns
  <1>2. HashBits \in Nat
    BY TreeAssumption
  <1> DEFINE A == {m \in Nat : m <= HashBits => Collecting(P, F, i, k, c, f[m], m)}
  <1>3. 0 \in A
    <2>1. f[0] = [at |-> i, siblings |-> <<>>]
      BY <1>1, <1>2 DEF Collects
    <2>2. f[0].at = i /\ f[0].siblings = <<>>
      BY <2>1
    <2>3. OnWay(P, F, i, k, i, 0)
      BY WayStarts
    <2>4. FoldsTo(<<>>, P.item[i].hashes[c], P.item[i].hashes[c])
      BY FoldStarts
    <2>5. <<>> \in Seq(Sibling(P, c))
      OBVIOUS
    <2> QED
      BY <2>2, <2>3, <2>4, <2>5 DEF Collecting
  <1>4. ASSUME NEW m \in Nat, m \in A PROVE m + 1 \in A
    <2> SUFFICES ASSUME m + 1 <= HashBits PROVE Collecting(P, F, i, k, c, f[m + 1], m + 1)
      OBVIOUS
    <2>1. m + 1 \in 0 .. HashBits /\ m + 1 # 0 /\ (m + 1) - 1 = m /\ m <= HashBits
      BY <1>2
    <2>2. f[m + 1] = Nearer(P, k, c, f[m])
      BY <1>1, <2>1 DEF Collects
    <2>3. Collecting(P, F, i, k, c, f[m], m)
      BY <1>4, <2>1
    <2>4. Collecting(P, F, i, k, c, Nearer(P, k, c, f[m]), m + 1)
      BY <2>3, CollectStep
    <2> QED
      BY <2>2, <2>4
  <1> HIDE DEF A
  <1>5. HashBits \in A
    BY <1>2, <1>3, <1>4, AllNaturals
  <1> QED
    BY <1>1, <1>2, <1>5 DEF A

\* What a proof is for.
Proves(P, F, i, k, p) ==
    /\ Folded(p) = P.item[i].hashes[KeyColumn[k]]
    /\ \A v \in Val : <<k, v>> \in p.term.pairs <=> Has(F[i], k, v)

LEMMA ProofRight ==
    ASSUME NEW P, NEW ext, NEW new, Core(P, ext, new), NEW F, Holds(P, F), Settled(P, F),
           NEW i \in P.used, ~P.item[i].dirty, NEW k \in Key
    PROVE  Proves(P, F, i, k, Proof(P, i, k))
  <1>1. PICK c \in Column : c = KeyColumn[k]
    BY TreeAssumption
  <1>2. PICK s : s = Collected(P, k, c, i)
    OBVIOUS
  <1>3. Collecting(P, F, i, k, c, s, HashBits)
    BY <1>2, CollectedRight
  <1>4. PICK x, siblings, p : x = s.at /\ siblings = s.siblings /\ p = Proof(P, i, k)
    OBVIOUS
  <1>5. /\ siblings \in Seq(Sibling(P, c)) /\ OnWay(P, F, i, k, x, HashBits) /\ ~P.item[x].dirty
        /\ FoldsTo(siblings, P.item[x].hashes[c], P.item[i].hashes[c])
    BY <1>3, <1>4 DEF Collecting
  <1>6. x \in P.used /\ P.item[x].leaf /\ P.item[x].bucket = F[x]
    BY <1>5, WayEnds
  <1>7. NodeOK(P.item[x]) /\ HoldsAt(P, F, x) /\ NodeRight(P.item[x], F[x]) /\ Few(F[x])
    BY <1>6, CoreFacts DEF Holds, Settled
  <1>8. P.item[x].hashes = LeafHashes(P.item[x].prefix, F[x])
    <2>1. P.item[x].hashes = Hashes(P.item[x].prefix, F[x])
      BY <1>5, <1>7 DEF NodeRight
    <2>2. /\ P.item[x].prefix \in Bits /\ Len(P.item[x].prefix) <= HashBits /\ IsBucket(F[x])
          /\ \A j \in Keys(F[x]) : Agrees(j, P.item[x].prefix)
      BY <1>7, ChildType DEF HoldsAt, NodeHolds
    <2> QED
      BY <1>7, <2>1, <2>2, HashesOfFew
  <1>9. p = [siblings |-> siblings, term |-> LeafHashes(P.item[x].prefix, P.item[x].bucket)[c]]
    BY <1>1, <1>2, <1>4 DEF Proof, ProofWith, Collected
  <1>10. p.siblings = siblings /\ p.term = P.item[x].hashes[c]
    BY <1>6, <1>8, <1>9
  <1>11. Folded(p) = P.item[i].hashes[c]
    <2>1. Len(p.siblings) \in Nat /\ FoldsTo(p.siblings, p.term, P.item[i].hashes[c])
      BY <1>5, <1>10
    <2> QED
      BY <2>1, FoldedRight
  <1>12. p.term.pairs = {<<j, F[x][j]>> : j \in {j \in Keys(F[x]) : KeyColumn[j] = c}}
    BY <1>8, <1>10 DEF LeafHashes, LeafTerm
  <1>13. ASSUME NEW v \in Val PROVE <<k, v>> \in p.term.pairs <=> Has(F[i], k, v)
    <2>1. <<k, v>> \in p.term.pairs <=> k \in Keys(F[x]) /\ F[x][k] = v
      BY <1>1, <1>12
    <2> QED
      BY <1>5, <2>1 DEF OnWay, Has
  <1> QED
    BY <1>1, <1>4, <1>11, <1>13 DEF Proves

\* The keys that two trees disagree on.
LEMMA DifferenceRight ==
    ASSUME NEW P, NEW ext, NEW new, Core(P, ext, new), NEW F, Holds(P, F), NEW i \in P.used, NEW j \in P.used
    PROVE  DifferenceKeys(P, i, j) = {k \in Key : \E v \in Val : Has(F[i], k, v) # Has(F[j], k, v)}
  <1>1. ASSUME NEW x \in P.used, NEW y \in P.used
        PROVE  Missed(P, x, y) = {k \in Keys(F[x]) : ~(k \in Keys(F[y]) /\ F[y][k] = F[x][k])}
    <2>1. Each(P, x) = F[x]
      BY EachRight
    <2>2. Keys(F[x]) \subseteq Key
      BY DEF Holds, HoldsAt, NodeHolds, IsBucket, Keys
    <2>3. ASSUME NEW k \in Keys(F[x])
          PROVE  (~MapContains(P, y, k) \/ GetItem(P, y, k) # F[x][k]) <=> ~(k \in Keys(F[y]) /\ F[y][k] = F[x][k])
      BY <2>2, LookupRight
    <2> QED
      BY <2>1, <2>3 DEF Missed
  <1>2. ASSUME NEW x \in P.used
        PROVE  Keys(F[x]) \subseteq Key /\ \A k \in Keys(F[x]) : F[x][k] \in Val
    BY DEF Holds, HoldsAt, NodeHolds, IsBucket, Keys
  <1>3. PICK A, B : A = F[i] /\ B = F[j]
    OBVIOUS
  <1>4. /\ Missed(P, i, j) = {k \in Keys(A) : ~(k \in Keys(B) /\ B[k] = A[k])}
        /\ Missed(P, j, i) = {k \in Keys(B) : ~(k \in Keys(A) /\ A[k] = B[k])}
        /\ Keys(A) \subseteq Key /\ Keys(B) \subseteq Key
        /\ (\A k \in Keys(A) : A[k] \in Val) /\ (\A k \in Keys(B) : B[k] \in Val)
    BY <1>1, <1>2, <1>3
  <1>5. ASSUME NEW k \in Key
        PROVE  k \in Missed(P, i, j) \cup Missed(P, j, i) <=> \E v \in Val : Has(A, k, v) # Has(B, k, v)
    BY <1>4 DEF Has
  <1> QED
    BY <1>3, <1>4, <1>5 DEF DifferenceKeys

-----------------------------------------------------------------------------
(* Theorems *)

\* The invariant holds at first and is kept by every call.
THEOREM TreesStayRight == Spec => []IInv
  <1>1. Init => IInv
    BY StartRight DEF IInv
  <1>2. IInv /\ [Next]_vars => IInv'
    <2> SUFFICES ASSUME IInv, [Next]_vars PROVE IInv'
      OBVIOUS
    <2>1. PICK F : TreesRight(root, pool, F)
      BY DEF IInv
    <2>2. StepOut(F, root', pool')
      BY <2>1, NextRight
    <2>3. PICK G : TreesRight(root', pool', G)
      BY <2>2 DEF StepOut
    <2> QED
      BY <2>3 DEF IInv
  <1> QED
    BY <1>1, <1>2, PTL DEF Spec

\* Every edge counts once, no pair_t is lost or given back twice, whatever
\* trees are copied, written, hashed and destroyed in whatever order.
THEOREM EdgesAlwaysCounted == Spec => []EdgesCounted
  <1>1. IInv => EdgesCounted
    <2> SUFFICES ASSUME IInv PROVE EdgesCounted
      OBVIOUS
    <2>1. PICK F : TreesRight(root, pool, F)
      BY DEF IInv
    <2>2. Core(pool, Refs(root), {})
      BY <2>1 DEF TreesRight, TreeHeld
    <2>3. ASSUME NEW i \in Item
          PROVE  pool.refcnt[i] = Roots(i) + Edges(pool, i) /\ (i \in pool.used <=> Roots(i) + Edges(pool, i) > 0)
      <3>1. Refs(root)[i] = Roots(i) /\ Refs(root)[i] \in Nat
        BY RootsFinite DEF Refs, RootSet, Roots
      <3>2. Edges(pool, i) \in Nat /\ pool.refcnt[i] = Edges(pool, i) + Refs(root)[i]
        BY <2>2, CoreFacts
      <3>3. i \in pool.used <=> pool.refcnt[i] > 0
        BY <2>2, CoreFacts
      <3> QED
        BY <3>1, <3>2, <3>3
    <2>4. pool.pairs = Held(pool)
      BY <2>2 DEF Core, Weighed
    <2> QED
      BY <2>3, <2>4 DEF EdgesCounted
  <1> QED
    BY <1>1, TreesStayRight, PTL

\* What a clean node says is what its pairs make: the root hash is a function
\* of the content, whatever writes, deletions and copies led there.
THEOREM CleanHashesAreRight == Spec => []CleanHashesRight
  <1>1. IInv => CleanHashesRight
    <2> SUFFICES ASSUME IInv PROVE CleanHashesRight
      OBVIOUS
    <2>1. PICK F : TreesRight(root, pool, F)
      BY DEF IInv
    <2>2. Core(pool, Refs(root), {}) /\ Holds(pool, F) /\ Settled(pool, F)
      BY <2>1 DEF TreesRight, TreeHeld
    <2>3. ASSUME NEW i \in pool.used, ~pool.item[i].dirty
          PROVE  /\ pool.item[i].hashes = Hashes(pool.item[i].prefix, Each(pool, i))
                 /\ pool.item[i].count = Cardinality(Keys(Each(pool, i)))
      <3>1. Each(pool, i) = F[i]
        BY <2>2, EachRight
      <3>2. NodeRight(pool.item[i], F[i])
        BY <2>2 DEF Settled
      <3> QED
        BY <2>3, <3>1, <3>2 DEF NodeRight
    <2> QED
      BY <2>3 DEF CleanHashesRight
  <1> QED
    BY <1>1, TreesStayRight, PTL

\* Any tree's proofs fold up to its root hash and hold the key's pair exactly when
\* the tree does, lookups find what the enumeration finds, and the difference of
\* two trees is the keys they disagree on, whatever nodes the trees share.
THEOREM ReadsAlwaysAgree == Spec => []ReadsAgree
  <1>1. IInv => ReadsAgree
    <2> SUFFICES ASSUME IInv PROVE ReadsAgree
      OBVIOUS
    <2>1. PICK F : TreesRight(root, pool, F)
      BY DEF IInv
    <2>2. Core(pool, Refs(root), {}) /\ Holds(pool, F) /\ Settled(pool, F)
      BY <2>1 DEF TreesRight, TreeHeld
    <2>3. ASSUME NEW t \in Alive PROVE root[t] \in pool.used /\ Content(t) = F[root[t]]
      <3>1. t \in Tree /\ root[t] # Null
        BY DEF Alive
      <3>2. root[t] \in pool.used
        BY <2>1, <3>1, RootUsed
      <3> QED
        BY <2>2, <3>2, EachRight DEF Content
    <2>4. ASSUME NEW t \in Alive, NEW k \in Key
          PROVE  /\ MapContains(pool, root[t], k) <=> k \in Keys(Content(t))
                 /\ ~pool.item[root[t]].dirty =>
                       LET p == Proof(pool, root[t], k)
                       IN  /\ Folded(p) = pool.item[root[t]].hashes[KeyColumn[k]]
                           /\ \A v \in Val : <<k, v>> \in p.term.pairs <=> Has(Content(t), k, v)
      <3>1. MapContains(pool, root[t], k) <=> k \in Keys(F[root[t]])
        BY <2>2, <2>3, LookupRight
      <3>2. ~pool.item[root[t]].dirty => Proves(pool, F, root[t], k, Proof(pool, root[t], k))
        BY <2>2, <2>3, ProofRight
      <3> QED
        BY <2>3, <3>1, <3>2 DEF Proves
    <2>5. ASSUME NEW t \in Alive, NEW u \in Alive
          PROVE  DifferenceKeys(pool, root[t], root[u]) =
                     {k \in Key : \E v \in Val : Has(Content(t), k, v) # Has(Content(u), k, v)}
      <3>1. DifferenceKeys(pool, root[t], root[u]) =
                {k \in Key : \E v \in Val : Has(F[root[t]], k, v) # Has(F[root[u]], k, v)}
        BY <2>2, <2>3, DifferenceRight
      <3> QED
        BY <2>3, <3>1
    <2> QED
      BY <2>4, <2>5 DEF ReadsAgree
  <1> QED
    BY <1>1, TreesStayRight, PTL

LEMMA NowIsContent ==
    ASSUME NEW f, NEW P, NEW F, TreesRight(f, P, F)
    PROVE  [t \in Tree |-> IF f[t] = Null THEN Null ELSE Each(P, f[t])] = Now(f, F)
  <1>1. ASSUME NEW t \in Tree PROVE (IF f[t] = Null THEN Null ELSE Each(P, f[t])) = Holding(f, F, t)
    <2>1. CASE f[t] = Null
      BY <2>1 DEF Holding
    <2>2. CASE f[t] # Null
      BY <2>2, HeldPairs
    <2> QED
      BY <2>1, <2>2
  <1> QED
    BY <1>1, Zenon DEF Now

\* Trees that share nodes are values of their own: every call changes one tree,
\* as TreeValues says.
THEOREM TreesAreValues == Spec => ImplementsTreeValues
  <1> DEFINE val == [t \in Tree |-> IF root[t] = Null THEN Null ELSE Content(t)]
  <1>1. Init => Values!Init
    <2> SUFFICES ASSUME Init PROVE val = [t \in Tree |-> Null]
      BY DEF Values!Init
    <2>1. PICK F : TreesRight(root, pool, F) /\ Now(root, F) = [t \in Tree |-> Null]
      BY StartRight
    <2> QED
      BY <2>1, NowIsContent DEF Content
  <1>2. IInv /\ [Next]_vars => [Values!Next]_val
    <2> SUFFICES ASSUME IInv, [Next]_vars PROVE val' = val \/ Values!Next
      OBVIOUS
    <2>1. PICK F : TreesRight(root, pool, F)
      BY DEF IInv
    <2>2. StepOut(F, root', pool')
      BY <2>1, NextRight
    <2>3. PICK G : /\ TreesRight(root', pool', G)
                   /\ Now(root', G) = Now(root, F) \/ Values!Step(Now(root, F), Now(root', G))
      BY <2>2 DEF StepOut
    <2>4. val = Now(root, F)
      BY <2>1, NowIsContent DEF Content
    <2>5. val' = Now(root', G)
      BY <2>3, NowIsContent DEF Content
    <2>6. Values!Next <=> Values!Step(val, val')
      BY DEF Values!Next
    <2> QED
      BY <2>3, <2>4, <2>5, <2>6
  <1> QED
    BY <1>1, <1>2, TreesStayRight, PTL DEF Spec, ImplementsTreeValues, Values!Spec
=============================================================================
