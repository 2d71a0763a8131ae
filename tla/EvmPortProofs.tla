---------------------------- MODULE EvmPortProofs ----------------------------
(***************************************************************************)
(* Theorems about EvmPort for any accounts and slots, any depth of calls   *)
(* and any number of steps.                                                *)
(***************************************************************************)
EXTENDS EvmPort, Induction, FiniteSetTheorems

-----------------------------------------------------------------------------
(* Sums of functions.  SumFunction takes the elements of the domain one by  *)
(* one, as CHOOSE has them.                                                 *)

First(s) == CHOOSE x \in s : TRUE

\* h sums f over the subsets of its domain.
Sums(h, f) ==
    h = [s \in SUBSET DOMAIN f |-> IF s = {} THEN 0 ELSE f[First(s)] + h[s \ {First(s)}]]

\* The definition of a sum is the equation of a function; there is one that
\* solves it: add up more and more elements, as many as there are.
LEMMA SumsExist ==
    ASSUME NEW A, IsFiniteSet(A), NEW f \in [A -> Int]
    PROVE  \E h : Sums(h, f)
  <1> DEFINE F == [SUBSET A -> Int]
             Grow(h) == [s \in SUBSET A |-> IF s = {} THEN 0 ELSE f[First(s)] + h[s \ {First(s)}]]
             zero == [s \in SUBSET A |-> 0]
             step == [i \in Nat |-> [h \in F |-> Grow(h)]]
  <1>1. ASSUME NEW s \in SUBSET A, s # {} PROVE First(s) \in s /\ s \ {First(s)} \in SUBSET A
    BY <1>1 DEF First
  <1>2. ASSUME NEW h \in F PROVE Grow(h) \in F
    <2>1. \A s \in SUBSET A : s # {} => f[First(s)] \in Int /\ h[s \ {First(s)}] \in Int
      BY <1>1
    <2> QED BY <2>1
  <1>3. zero \in F /\ step \in [Nat -> [F -> F]]
    <2>1. zero \in F
      OBVIOUS
    <2> HIDE DEF Grow, F
    <2>2. step \in [Nat -> [F -> F]]
      BY <1>2
    <2> QED BY <2>1, <2>2
  <1>4. PICK n \in Nat : n = Cardinality(A) + 1
    BY FS_CardinalityType
  <1>5. PICK g \in [0 .. n -> F] : Iterates(g, zero, step, n)
    <2> HIDE DEF F, zero, step
    <2> QED BY <1>3, <1>4, Recursion
  <1>6. g[0] = zero /\ \A i \in 1 .. n : g[i] = Grow(g[i - 1])
    <2>1. \A i \in 1 .. n : i \in Nat /\ i - 1 \in 0 .. n
      BY <1>4
    <2> QED BY <1>5, <2>1 DEF Iterates
  <1> HIDE DEF Grow
  <1> DEFINE Stable(k) == k < n => \A s \in SUBSET A : Cardinality(s) <= k => g[k][s] = g[k + 1][s]
             K == {k \in Nat : Stable(k)}
  <1>7. \A s \in SUBSET A : IsFiniteSet(s) /\ Cardinality(s) \in Nat /\ (Cardinality(s) = 0 <=> s = {})
    BY FS_Subset, FS_CardinalityType, FS_EmptySet
  <1>8. 0 \in K
    <2> SUFFICES ASSUME 0 < n, NEW s \in SUBSET A, Cardinality(s) <= 0 PROVE g[0][s] = g[1][s]
      OBVIOUS
    <2>1. s = {}
      BY <1>7
    <2>2. g[1] = Grow(g[0])
      <3>1. 1 \in 1 .. n /\ 1 - 1 = 0
        OBVIOUS
      <3> QED BY <1>6, <3>1
    <2> QED BY <1>6, <2>1, <2>2 DEF Grow
  <1>9. ASSUME NEW k \in Nat, k \in K PROVE k + 1 \in K
    <2> SUFFICES ASSUME k + 1 < n, NEW s \in SUBSET A, Cardinality(s) <= k + 1
                 PROVE  g[k + 1][s] = g[k + 1 + 1][s]
      OBVIOUS
    <2>1. g[k + 1] = Grow(g[k]) /\ g[k + 1 + 1] = Grow(g[k + 1])
      <3>1. k + 1 \in 1 .. n /\ k + 1 + 1 \in 1 .. n /\ k + 1 - 1 = k /\ k + 1 + 1 - 1 = k + 1
        BY <1>4
      <3> QED BY <1>6, <3>1
    <2>2. CASE s = {}
      BY <2>1, <2>2 DEF Grow
    <2>3. CASE s # {}
      <3> DEFINE r == s \ {First(s)}
      <3>1. r \in SUBSET A /\ Cardinality(r) = Cardinality(s) - 1
        BY <1>1, <1>7, <2>3, FS_RemoveElement
      <3>2. Cardinality(r) <= k
        BY <1>7, <3>1
      <3>3. g[k][r] = g[k + 1][r]
        <4>1. Stable(k) /\ k < n
          BY <1>4, <1>9
        <4> QED BY <3>1, <3>2, <4>1
      <3> QED BY <2>1, <2>3, <3>3 DEF Grow
    <2> QED BY <2>2, <2>3
  <1>10. PICK k \in Nat : k = Cardinality(A) /\ k + 1 = n /\ k \in K
    <2>1. Nat \subseteq K
      <3> HIDE DEF K
      <3> QED BY <1>8, <1>9, AllNaturals
    <2> QED BY <1>4, <2>1, FS_CardinalityType
  <1>11. \A s \in SUBSET A : g[k][s] = g[k + 1][s]
    <2>1. \A s \in SUBSET A : Cardinality(s) <= k
      BY <1>10, FS_Subset
    <2> QED BY <1>10, <2>1
  <1>12. g[k] \in F /\ g[k + 1] \in F /\ g[k + 1] = Grow(g[k])
    <2>1. k \in 0 .. n /\ k + 1 \in 1 .. n /\ k + 1 \in 0 .. n /\ k + 1 - 1 = k
      BY <1>10
    <2> QED BY <1>5, <1>6, <2>1
  <1>13. g[k] = g[k + 1]
    BY <1>11, <1>12
  <1> QED BY <1>12, <1>13 DEF Sums, Grow

\* All solutions give the whole the same sum.
LEMMA SumIsSums ==
    ASSUME NEW A, IsFiniteSet(A), NEW f \in [A -> Int]
    PROVE  \E h : Sums(h, f) /\ SumFunction(f) = h[A]
  <1> DEFINE h == CHOOSE g : Sums(g, f)
  <1>1. Sums(h, f)
    BY SumsExist
  <1>2. SumFunction(f) = h[A]
    BY DEF SumFunction, SumFunctionOnSet, FoldFunctionOnSet, MapThenFoldSet, Sums, First
  <1> QED BY <1>1, <1>2

\* What one element adds to a sum can be exchanged: both sums take the
\* elements in the same order.
LEMMA SumUpdate ==
    ASSUME NEW A, IsFiniteSet(A), NEW f \in [A -> Int], NEW a \in A, NEW v \in Int
    PROVE  /\ SumFunction(f) \in Int
           /\ SumFunction([f EXCEPT ![a] = v]) = SumFunction(f) - f[a] + v
  <1> DEFINE g == [f EXCEPT ![a] = v]
  <1>1. PICK h : Sums(h, f) /\ SumFunction(f) = h[A]
    BY SumIsSums
  <1>2. PICK k : Sums(k, g) /\ SumFunction(g) = k[A]
    <2>1. g \in [A -> Int]
      OBVIOUS
    <2> HIDE DEF g
    <2> QED BY <2>1, SumIsSums
  <1>3. ASSUME NEW s \in SUBSET A
        PROVE  /\ h[s] = IF s = {} THEN 0 ELSE f[First(s)] + h[s \ {First(s)}]
               /\ k[s] = IF s = {} THEN 0 ELSE g[First(s)] + k[s \ {First(s)}]
    <2>1. s \in SUBSET DOMAIN f /\ s \in SUBSET DOMAIN g
      OBVIOUS
    <2> HIDE DEF g
    <2>2. h[s] = IF s = {} THEN 0 ELSE f[First(s)] + h[s \ {First(s)}]
      BY <1>1, <2>1, Zenon DEF Sums
    <2>3. k[s] = IF s = {} THEN 0 ELSE g[First(s)] + k[s \ {First(s)}]
      BY <1>2, <2>1, Zenon DEF Sums
    <2> QED BY <2>2, <2>3
  <1> DEFINE Good(s) == /\ h[s] \in Int
                        /\ k[s] = IF a \in s THEN h[s] - f[a] + v ELSE h[s]
             K == {n \in Nat : \A s \in SUBSET A : Cardinality(s) = n => Good(s)}
  <1>4. \A s \in SUBSET A : IsFiniteSet(s) /\ Cardinality(s) \in Nat /\ (Cardinality(s) = 0 <=> s = {})
    BY FS_Subset, FS_CardinalityType, FS_EmptySet
  <1>5. 0 \in K
    <2> SUFFICES ASSUME NEW s \in SUBSET A, Cardinality(s) = 0 PROVE Good(s)
      OBVIOUS
    <2>1. s = {} /\ a \notin s
      BY <1>4
    <2>2. h[s] = 0 /\ k[s] = 0
      BY <1>3, <2>1
    <2> QED BY <2>1, <2>2
  <1>6. ASSUME NEW n \in Nat, n \in K PROVE n + 1 \in K
    <2> SUFFICES ASSUME NEW s \in SUBSET A, Cardinality(s) = n + 1 PROVE Good(s)
      OBVIOUS
    <2> DEFINE x == First(s)
               r == s \ {x}
    <2>1. s # {} /\ x \in s
      BY <1>4 DEF First
    <2>2. r \in SUBSET A /\ Cardinality(r) = n
      BY <1>4, <2>1, FS_RemoveElement, SMTT(30)
    <2>3. Good(r)
      BY <1>6, <2>2
    <2>4. h[s] = f[x] + h[r] /\ k[s] = g[x] + k[r]
      BY <1>3, <2>1
    <2>5. f[x] \in Int /\ f[a] \in Int /\ g[x] = IF x = a THEN v ELSE f[x]
      BY <2>1
    <2>6. a \in s <=> a = x \/ a \in r
      BY <2>1
    <2>7. x \notin r
      OBVIOUS
    <2> HIDE DEF x, r, g
    <2>8. h[s] \in Int
      BY <2>3, <2>4, <2>5
    <2>9. CASE a = x
      <3>1. k[r] = h[r] /\ h[r] \in Int
        BY <2>3, <2>7, <2>9
      <3>2. k[s] = v + h[r] /\ h[s] = f[a] + h[r] /\ a \in s
        BY <2>1, <2>4, <2>5, <2>9, <3>1
      <3>3. k[s] = h[s] - f[a] + v
        BY <2>5, <3>1, <3>2
      <3> QED BY <2>8, <3>2, <3>3
    <2>10. CASE a # x
      BY <2>3, <2>4, <2>5, <2>6, <2>8, <2>10
    <2> QED BY <2>9, <2>10
  <1>7. Good(A)
    <2>1. Nat \subseteq K
      <3> HIDE DEF K
      <3> QED BY <1>5, <1>6, AllNaturals
    <2>2. Cardinality(A) \in K
      BY <2>1, FS_CardinalityType
    <2> QED BY <2>2
  <1> QED BY <1>1, <1>2, <1>7

-----------------------------------------------------------------------------
(* Types                                                                    *)

Storages == [Slot -> Val]
Caches == UNION {[D -> Val] : D \in SUBSET Slot}
Hosts == [complete : BOOLEAN, cache : Caches, dirty : Caches]
States == [balance : [Account -> Int], store : [Account -> Storages],
           there : SUBSET Account, coded : SUBSET Account]
Dead == [addr : Account, heir : Account \cup {Nobody}]
Frames == [addr : Account, from : Account, value : Int, port : Port, dead : Seq(Dead), new : BOOLEAN]

Types ==
    /\ state \in States /\ host \in [Port -> Hosts]
    /\ stack \in Seq(Frames) /\ idle \in Seq(Port)
    /\ latest \in [Account -> Storages] /\ burned \in Int

LEMMA Constants ==
    /\ Account \cup {Sender} = Account /\ IsFiniteSet(Account) /\ Coded \subseteq Account
    /\ Nobody \notin Account /\ None \notin Account \cup {Nobody} /\ 0 \in Val
    /\ Heir \subseteq Account \cup {Nobody} /\ Amount \subseteq Nat
    /\ Fee \in Int /\ Used \in Int
    /\ Balances \in [Account -> Int] /\ Stores \in [Account -> Storages]
    /\ MaxFrames \in Nat /\ MaxFrames > 0 /\ Slot \subseteq Nat
  BY PortAssumption DEF Storages, Slot

-----------------------------------------------------------------------------
(* The Host.  It agrees with a storage if what it has written, over what the *)
(* map has, is that storage, and if it is right about a whole account.      *)

HostAgrees(h, store, right) ==
    /\ Over(h.dirty, store) = right
    /\ h.complete => \A s \in Slot : (IF s \in DOMAIN h.cache THEN h.cache[s] ELSE 0) = right[s]

LEMMA CacheFacts ==
    /\ \A f \in Caches : DOMAIN f \subseteq Slot /\ \A s \in DOMAIN f : f[s] \in Val
    /\ \A D \in SUBSET Slot : \A f \in [D -> Val] : f \in Caches
  BY DEF Caches

LEMMA OverTypes ==
    ASSUME NEW f \in Caches
    PROVE  /\ \A g \in Caches : Over(f, g) \in Caches
           /\ \A g \in Storages : Over(f, g) \in Storages
           /\ \A s \in Slot, v \in Val : Put(f, s, v) \in Caches
  <1>1. DOMAIN f \subseteq Slot /\ \A s \in DOMAIN f : f[s] \in Val
    BY CacheFacts
  <1>2. ASSUME NEW g \in Caches PROVE Over(f, g) \in Caches
    <2>1. DOMAIN g \subseteq Slot /\ \A s \in DOMAIN g : g[s] \in Val
      BY CacheFacts
    <2>2. PICK D \in SUBSET Slot : D = DOMAIN f \cup DOMAIN g
      BY <1>1, <2>1
    <2>3. Over(f, g) \in [D -> Val]
      BY <1>1, <2>1, <2>2 DEF Over
    <2> QED BY <2>3, CacheFacts
  <1>3. ASSUME NEW g \in Storages PROVE Over(f, g) \in Storages
    BY <1>1 DEF Over, Storages
  <1>4. ASSUME NEW s \in Slot, NEW v \in Val PROVE Put(f, s, v) \in Caches
    <2>1. PICK D \in SUBSET Slot : D = DOMAIN f \cup {s}
      BY <1>1
    <2>2. Put(f, s, v) \in [D -> Val]
      BY <1>1, <2>1 DEF Put
    <2> QED BY <2>2, CacheFacts
  <1> QED BY <1>2, <1>3, <1>4

\* A Host that has just been told is right.
LEMMA PreloadAgrees ==
    ASSUME NEW h, NEW store \in Storages
    PROVE  Preload(h, store) \in Hosts /\ HostAgrees(Preload(h, store), store, store)
  <1> DEFINE none == [s \in {} |-> 0]
             all == [s \in Filled(store) |-> store[s]]
  <1>1. none \in Caches /\ all \in Caches
    <2>1. none \in [{} -> Val] /\ all \in [Filled(store) -> Val] /\ Filled(store) \in SUBSET Slot
      BY DEF Filled, Storages
    <2> QED BY <2>1, CacheFacts
  <1>2. Over(none, store) = store
    BY DEF Over, Storages
  <1>3. \A s \in Slot : (IF s \in DOMAIN all THEN all[s] ELSE 0) = store[s]
    BY DEF Filled
  <1>4. \/ Preload(h, store) = [complete |-> TRUE, cache |-> all, dirty |-> none]
        \/ Preload(h, store) = [complete |-> FALSE, cache |-> none, dirty |-> none]
    BY DEF Preload, Forgotten
  <1> HIDE DEF none, all
  <1>5. ASSUME NEW full \in BOOLEAN, NEW c \in Caches,
               full => \A s \in Slot : (IF s \in DOMAIN c THEN c[s] ELSE 0) = store[s]
        PROVE  /\ [complete |-> full, cache |-> c, dirty |-> none] \in Hosts
               /\ HostAgrees([complete |-> full, cache |-> c, dirty |-> none], store, store)
    BY <1>1, <1>2, <1>5 DEF Hosts, HostAgrees
  <1> QED BY <1>1, <1>3, <1>4, <1>5

\* Asking for a slot does not disturb what the Host is right about.
LEMMA AskedAgrees ==
    ASSUME NEW h \in Hosts, NEW store \in Storages, NEW s \in Slot
    PROVE  /\ Asked(h, store, s) \in Hosts
           /\ \A right : HostAgrees(h, store, right) => HostAgrees(Asked(h, store, s), store, right)
  <1>1. CASE s \in DOMAIN h.cache \/ h.complete
    BY <1>1 DEF Asked
  <1>2. CASE ~ (s \in DOMAIN h.cache \/ h.complete)
    <2> DEFINE D == {j \in Slot : s <= j /\ j <= s + ReadAhead}
               r == [k \in D |-> store[k]]
    <2>1. r \in Caches
      <3>1. D \in SUBSET Slot /\ r \in [D -> Val]
        BY DEF Storages
      <3> QED BY <3>1, CacheFacts
    <2>2. StoredRange(store, s) = r
      BY DEF StoredRange
    <2> HIDE DEF r, D
    <2>3. PICK c \in Caches : c = Over(r, h.cache)
      BY <2>1, OverTypes DEF Hosts
    <2>4. Asked(h, store, s) = [h EXCEPT !.cache = c]
      BY <1>2, <2>2, <2>3 DEF Asked
    <2>5. /\ [h EXCEPT !.cache = c] \in Hosts /\ [h EXCEPT !.cache = c].dirty = h.dirty
          /\ ~ [h EXCEPT !.cache = c].complete
      BY <1>2 DEF Hosts
    <2> QED BY <2>4, <2>5 DEF HostAgrees
  <1> QED BY <1>1, <1>2

\* A write is remembered for the map and for reads.
LEMMA SetStorageAgrees ==
    ASSUME NEW h \in Hosts, NEW store \in Storages, NEW s \in Slot, NEW v \in Val
    PROVE  /\ SetStorage(h, store, s, v) \in Hosts
           /\ \A right \in Storages : HostAgrees(h, store, right)
                => HostAgrees(SetStorage(h, store, s, v), store, [right EXCEPT ![s] = v])
  <1>1. PICK k \in Hosts : k = Asked(h, store, s)
    BY AskedAgrees
  <1>2. PICK c \in Caches : c = Put(k.cache, s, v)
    BY OverTypes DEF Hosts
  <1>3. PICK d \in Caches : d = Put(k.dirty, s, v)
    BY OverTypes DEF Hosts
  <1>4. PICK w \in Hosts : w = [k EXCEPT !.cache = c, !.dirty = d]
    BY DEF Hosts
  <1>5. SetStorage(h, store, s, v) = w
    BY <1>1, <1>2, <1>3, <1>4 DEF SetStorage
  <1>6. w.cache = c /\ w.dirty = d /\ w.complete = k.complete
    BY <1>4 DEF Hosts
  <1>7. ASSUME NEW right \in Storages, HostAgrees(h, store, right)
        PROVE  HostAgrees(w, store, [right EXCEPT ![s] = v])
    <2>1. HostAgrees(k, store, right)
      BY <1>1, <1>7, AskedAgrees
    <2>2. Over(d, store) = [right EXCEPT ![s] = v]
      <3>1. Over(k.dirty, store) = right /\ k.dirty \in Caches
        BY <2>1 DEF HostAgrees, Hosts
      <3>2. DOMAIN d = DOMAIN k.dirty \cup {s} /\ \A x \in DOMAIN d : d[x] = IF x = s THEN v ELSE k.dirty[x]
        BY <1>3 DEF Put
      <3>3. DOMAIN k.dirty \subseteq Slot
        BY <3>1, CacheFacts
      <3>4. \A x \in Slot : right[x] = IF x \in DOMAIN k.dirty THEN k.dirty[x] ELSE store[x]
        BY <3>1, <3>3 DEF Over, Storages
      <3>5. Over(d, store) \in Storages /\ [right EXCEPT ![s] = v] \in Storages
        BY OverTypes DEF Storages
      <3>6. \A x \in Slot : Over(d, store)[x] = IF x \in DOMAIN d THEN d[x] ELSE store[x]
        BY DEF Over, Storages
      <3>7. \A x \in Slot : Over(d, store)[x] = [right EXCEPT ![s] = v][x]
        BY <3>2, <3>4, <3>6 DEF Storages
      <3> QED BY <3>5, <3>7 DEF Storages
    <2>3. ASSUME w.complete, NEW x \in Slot
          PROVE  (IF x \in DOMAIN c THEN c[x] ELSE 0) = [right EXCEPT ![s] = v][x]
      <3>1. (IF x \in DOMAIN k.cache THEN k.cache[x] ELSE 0) = right[x]
        BY <1>6, <2>1, <2>3 DEF HostAgrees
      <3>2. DOMAIN c = DOMAIN k.cache \cup {s} /\ \A y \in DOMAIN c : c[y] = IF y = s THEN v ELSE k.cache[y]
        BY <1>2 DEF Put
      <3> QED BY <3>1, <3>2 DEF Storages
    <2> QED BY <1>6, <2>2, <2>3 DEF HostAgrees
  <1> QED BY <1>5, <1>7

-----------------------------------------------------------------------------
(* The map                                                                  *)

\* What a Host has written is in the map afterwards.
LEMMA FlushFacts ==
    ASSUME NEW S \in States, NEW a \in Account, NEW h \in Hosts
    PROVE  /\ Flush(S, a, h) \in States
           /\ Flush(S, a, h).balance = S.balance
           /\ Flush(S, a, h).there = S.there /\ Flush(S, a, h).coded = S.coded
           /\ \A b \in Account \ {a} : Flush(S, a, h).store[b] = S.store[b]
           /\ \A right : HostAgrees(h, S.store[a], right) => Flush(S, a, h).store[a] = right
  <1>1. h.dirty \in Caches /\ S.store \in [Account -> Storages]
    BY DEF Hosts, States
  <1>2. PICK u \in Storages : u = Over(h.dirty, S.store[a])
    BY <1>1, OverTypes
  <1>3. PICK m \in [Account -> Storages] : m = [S.store EXCEPT ![a] = u]
    BY <1>1
  <1>4. Flush(S, a, h) = [S EXCEPT !.store = m]
    BY <1>2, <1>3 DEF Flush, States
  <1>5. PICK T \in States : T = [S EXCEPT !.store = m]
    BY DEF States
  <1>6. /\ T.store = m /\ T.balance = S.balance /\ T.there = S.there /\ T.coded = S.coded
    BY <1>5 DEF States
  <1>7. m[a] = u /\ \A b \in Account \ {a} : m[b] = S.store[b]
    BY <1>1, <1>3
  <1> QED BY <1>2, <1>4, <1>5, <1>6, <1>7 DEF HostAgrees

\* g is f but for the value v of a.
Updates(f, g, a, v) ==
    f \in [Account -> Int] /\ a \in Account /\ v \in Int /\ g = [f EXCEPT ![a] = v]

LEMMA BalanceUpdate ==
    ASSUME NEW f, NEW g, NEW a, NEW v, Updates(f, g, a, v)
    PROVE  SumFunction(f) \in Int /\ SumFunction(g) = SumFunction(f) - f[a] + v
  <1>1. IsFiniteSet(Account)
    BY Constants
  <1>2. f \in [Account -> Int] /\ a \in Account /\ v \in Int
    BY DEF Updates
  <1>3. SumFunction(f) \in Int /\ SumFunction([f EXCEPT ![a] = v]) = SumFunction(f) - f[a] + v
    BY ONLY <1>1, <1>2, SumUpdate
  <1> QED BY <1>3 DEF Updates

LEMMA SumIsNumber ==
    ASSUME NEW f \in [Account -> Int]
    PROVE  SumFunction(f) \in Int
  <1>1. PICK a \in Account : TRUE
    BY Constants
  <1>2. Updates(f, [f EXCEPT ![a] = 0], a, 0)
    BY DEF Updates
  <1> QED BY <1>2, BalanceUpdate

Solvent(S) == \A a \in Account : S.balance[a] >= 0

\* Value that moves between two accounts is neither made nor lost, and no
\* account is overdrawn by what it has.
LEMMA MoveFacts ==
    ASSUME NEW S \in States, NEW from \in Account, NEW to \in Account, NEW v \in Int
    PROVE  /\ Move(S, from, to, v) \in States
           /\ Move(S, from, to, v).store = S.store /\ Move(S, from, to, v).coded = S.coded
           /\ Move(S, from, to, v).there = S.there \cup {to}
           /\ from # to => SumFunction(Move(S, from, to, v).balance) = SumFunction(S.balance)
           /\ Solvent(S) /\ v >= 0 /\ v <= S.balance[from] => Solvent(Move(S, from, to, v))
  <1>1. S.balance \in [Account -> Int] /\ S.there \in SUBSET Account
    BY DEF States
  <1>2. PICK x \in Int : x = S.balance[from] - v
    BY <1>1
  <1>3. PICK y \in Int : y = S.balance[to] + v
    BY <1>1
  <1>4. PICK b \in [Account -> Int] : b = [[S.balance EXCEPT ![from] = x] EXCEPT ![to] = y]
    BY <1>1
  <1>5. PICK t \in SUBSET Account : t = S.there \cup {to}
    BY <1>1
  <1>6. Move(S, from, to, v) = [S EXCEPT !.balance = b, !.there = t]
    BY <1>1, <1>2, <1>3, <1>4, <1>5 DEF Move, States
  <1>7. PICK T \in States : T = [S EXCEPT !.balance = b, !.there = t]
    BY DEF States
  <1>8. T.balance = b /\ T.there = t /\ T.store = S.store /\ T.coded = S.coded
    BY <1>7 DEF States
  <1>9. ASSUME from # to PROVE SumFunction(b) = SumFunction(S.balance)
    <2>1. PICK c \in [Account -> Int] : c = [S.balance EXCEPT ![from] = x]
      BY <1>1
    <2>2. c[to] = S.balance[to] /\ S.balance[to] \in Int /\ S.balance[from] \in Int
      BY <1>1, <1>9, <2>1
    <2>3. SumFunction(S.balance) \in Int /\ SumFunction(c) = SumFunction(S.balance) - S.balance[from] + x
      <3>1. PICK f \in [Account -> Int] : f = S.balance
        BY <1>1
      <3>2. Updates(f, c, from, x)
        BY <2>1, <3>1 DEF Updates
      <3>3. SumFunction(f) \in Int /\ SumFunction(c) = SumFunction(f) - f[from] + x
        BY <3>2, BalanceUpdate
      <3> QED BY <3>1, <3>3
    <2>4. SumFunction(b) = SumFunction(c) - c[to] + y
      <3>1. Updates(c, b, to, y)
        BY <1>4, <2>1 DEF Updates
      <3> QED BY <3>1, BalanceUpdate
    <2> QED BY <1>2, <1>3, <2>2, <2>3, <2>4
  <1>10. ASSUME Solvent(S), v >= 0, v <= S.balance[from] PROVE Solvent(T)
    <2>1. \A a \in Account : b[a] = IF a = to THEN y ELSE IF a = from THEN x ELSE S.balance[a]
      BY <1>1, <1>4
    <2>2. S.balance[from] \in Int /\ S.balance[to] \in Int /\ S.balance[to] >= 0
      BY <1>1, <1>10 DEF Solvent
    <2>3. x >= 0 /\ y >= 0
      BY <1>2, <1>3, <1>10, <2>2
    <2> QED BY <1>8, <1>10, <2>1, <2>3 DEF Solvent
  <1> QED BY <1>5, <1>6, <1>7, <1>8, <1>9, <1>10

LEMMA TransferFacts ==
    ASSUME NEW S \in States, NEW kind, NEW from \in Account, NEW to \in Account, NEW v \in Int
    PROVE  /\ Transfer(S, kind, from, to, v) \in States
           /\ Transfer(S, kind, from, to, v).store = S.store
           /\ Transfer(S, kind, from, to, v).coded = S.coded
           /\ S.there \subseteq Transfer(S, kind, from, to, v).there
           /\ SumFunction(Transfer(S, kind, from, to, v).balance) = SumFunction(S.balance)
  <1>1. \/ Transfer(S, kind, from, to, v) = S
        \/ from # to /\ Transfer(S, kind, from, to, v) = Move(S, from, to, v)
    BY DEF Transfer
  <1> QED BY <1>1, MoveFacts

\* A code that is put into an account that is there.
LEMMA DeployedFacts ==
    ASSUME NEW S \in States, Top \in Frames, Top.addr \in S.there, S.coded \subseteq S.there
    PROVE  /\ Deployed(S) \in States
           /\ Deployed(S).balance = S.balance /\ Deployed(S).store = S.store
           /\ Deployed(S).there = S.there /\ Deployed(S).coded \subseteq S.there
  <1>1. CASE Top.new
    <2>1. PICK c \in SUBSET Account : c = S.coded \cup {Top.addr}
      BY DEF States, Frames
    <2>2. Deployed(S) = [S EXCEPT !.coded = c]
      BY <1>1, <2>1 DEF Deployed, States
    <2> QED BY <2>1, <2>2 DEF States
  <1>2. CASE ~ Top.new
    BY <1>2 DEF Deployed
  <1> QED BY <1>1, <1>2

-----------------------------------------------------------------------------
(* Accounts that destroyed themselves                                       *)

Results == [state : States, burned : Int]
Worth(r) == SumFunction(r.state.balance) + r.burned
NoStorage == [s \in Slot |-> 0]

\* What an account leaves goes to its heir or to no one, and its storage goes
\* with it.
LEMMA BuriedFacts ==
    ASSUME NEW r \in Results, NEW d \in Dead
    PROVE  /\ Buried(r, d) \in Results
           /\ Worth(Buried(r, d)) = Worth(r)
           /\ r.state.coded \subseteq r.state.there
                => Buried(r, d).state.coded \subseteq Buried(r, d).state.there
           /\ Solvent(r.state) => Solvent(Buried(r, d).state)
           /\ \A b \in Account :
                 Buried(r, d).state.store[b] = IF b = d.addr THEN NoStorage ELSE r.state.store[b]
  <1>1. PICK S \in States : S = r.state
    BY DEF Results
  <1>2. PICK a \in Account : a = d.addr
    BY DEF Dead
  <1>3. PICK h \in Account \cup {Nobody} : h = d.heir
    BY DEF Dead
  <1>4. S.balance \in [Account -> Int] /\ S.store \in [Account -> Storages]
    BY DEF States
  <1>5. PICK left \in Int : left = S.balance[a]
    BY <1>4
  <1>6. PICK bal \in [Account -> Int] : bal = [S.balance EXCEPT ![a] = 0]
    <2>1. 0 \in Int
      OBVIOUS
    <2> QED BY <1>4, <2>1
  <1>7. NoStorage \in Storages
    BY Constants DEF NoStorage, Storages
  <1>8. PICK m \in [Account -> Storages] : m = [S.store EXCEPT ![a] = NoStorage]
    BY <1>4, <1>7
  <1>9. PICK gone \in States : gone = [S EXCEPT !.balance = bal, !.there = @ \ {a},
                                                !.coded = @ \ {a}, !.store = m]
    BY DEF States
  <1>10. /\ gone.balance = bal /\ gone.there = S.there \ {a}
         /\ gone.coded = S.coded \ {a} /\ gone.store = m
    BY <1>9 DEF States
  <1>11. gone = [S EXCEPT !.balance[a] = 0, !.there = @ \ {a}, !.coded = @ \ {a},
                          !.store[a] = NoStorage]
    BY <1>6, <1>8, <1>9 DEF States
  <1>12. SumFunction(S.balance) \in Int /\ SumFunction(bal) = SumFunction(S.balance) - left
    <2>1. Updates(S.balance, bal, a, 0)
      BY <1>4, <1>6 DEF Updates
    <2>2. SumFunction(S.balance) \in Int /\ SumFunction(bal) = SumFunction(S.balance) - S.balance[a] + 0
      BY <2>1, BalanceUpdate
    <2> QED BY <1>5, <2>2
  <1>13. r.burned \in Int
    BY DEF Results
  <1>14. \A b \in Account : m[b] = IF b = a THEN NoStorage ELSE S.store[b]
    BY <1>4, <1>8
  <1>15. CASE h \in {Nobody, a}
    <2>1. Buried(r, d) = [state |-> gone, burned |-> r.burned + left]
      BY <1>1, <1>2, <1>3, <1>5, <1>11, <1>15 DEF Buried, NoStorage
    <2>2. Buried(r, d) \in Results /\ Buried(r, d).state = gone /\ Buried(r, d).burned = r.burned + left
      BY <1>5, <1>13, <2>1 DEF Results
    <2>3. Worth(Buried(r, d)) = Worth(r)
      BY <1>1, <1>5, <1>10, <1>12, <1>13, <2>2 DEF Worth
    <2>4. Solvent(S) => Solvent(gone)
      <3>1. \A b \in Account : bal[b] = IF b = a THEN 0 ELSE S.balance[b]
        BY <1>4, <1>6
      <3> QED BY <1>10, <3>1 DEF Solvent
    <2> QED BY <1>1, <1>2, <1>10, <1>14, <2>2, <2>3, <2>4
  <1>16. CASE h \notin {Nobody, a}
    <2>1. h \in Account /\ h # a
      BY <1>16
    <2>2. PICK x \in Int : x = bal[h] + left
      BY <2>1
    <2>3. PICK b \in [Account -> Int] : b = [bal EXCEPT ![h] = x]
      OBVIOUS
    <2>4. PICK T \in States : T = [gone EXCEPT !.balance = b, !.there = @ \cup {h}]
      BY <2>1 DEF States
    <2>5. T.balance = b /\ T.store = m /\ T.there = (S.there \ {a}) \cup {h} /\ T.coded = S.coded \ {a}
      BY <1>10, <2>4 DEF States
    <2>6. T = [gone EXCEPT !.balance[h] = @ + left, !.there = @ \cup {h}]
      BY <1>10, <2>2, <2>3, <2>4 DEF States
    <2>7. Buried(r, d) = [state |-> T, burned |-> r.burned]
      BY <1>1, <1>2, <1>3, <1>5, <1>11, <1>16, <2>6 DEF Buried, NoStorage
    <2>8. Buried(r, d) \in Results /\ Buried(r, d).state = T /\ Buried(r, d).burned = r.burned
      BY <1>13, <2>7 DEF Results
    <2>9. SumFunction(bal) \in Int /\ SumFunction(b) = SumFunction(bal) - bal[h] + x
      <3>1. Updates(bal, b, h, x)
        BY <2>1, <2>3 DEF Updates
      <3> QED BY <3>1, BalanceUpdate
    <2>10. SumFunction(b) = SumFunction(S.balance)
      <3>1. bal[h] \in Int
        BY <2>1
      <3> QED BY <1>5, <1>12, <2>2, <2>9, <3>1
    <2>11. Worth(Buried(r, d)) = Worth(r)
      BY <1>1, <2>5, <2>8, <2>10 DEF Worth
    <2>12. Solvent(S) => Solvent(T)
      <3>1. \A c \in Account : b[c] = IF c = h THEN S.balance[h] + S.balance[a]
                                      ELSE IF c = a THEN 0 ELSE S.balance[c]
        BY <1>4, <1>5, <1>6, <2>1, <2>2, <2>3
      <3>2. S.balance[h] \in Int /\ S.balance[a] \in Int
        BY <1>4, <2>1
      <3> QED BY <2>1, <2>5, <3>1, <3>2 DEF Solvent
    <2> QED BY <1>1, <1>2, <1>14, <2>5, <2>8, <2>11, <2>12
  <1> QED BY <1>15, <1>16

\* The accounts among the first n that died.
Died(dead, n) == {dead[i].addr : i \in 1 .. n}

\* All of them: nothing is lost, and their storage is empty.
LEMMA BuryFacts ==
    ASSUME NEW S \in States, S.coded \subseteq S.there, NEW dead \in Seq(Dead)
    PROVE  /\ Bury(S, dead) \in Results
           /\ Worth(Bury(S, dead)) = SumFunction(S.balance)
           /\ Bury(S, dead).state.coded \subseteq Bury(S, dead).state.there
           /\ Solvent(S) => Solvent(Bury(S, dead).state)
           /\ \A b \in Account : Bury(S, dead).state.store[b] =
                 IF \E i \in DOMAIN dead : dead[i].addr = b THEN NoStorage ELSE S.store[b]
  <1> DEFINE n == Len(dead)
             start == [state |-> S, burned |-> 0]
             IsAfter(f) == f = [i \in 0 .. n |->
                                  IF i = 0 THEN start ELSE Buried(f[i - 1], dead[i])]
             after == CHOOSE f : IsAfter(f)
             step == [i \in Nat |-> [r \in Results |-> IF i \in 1 .. n THEN Buried(r, dead[i]) ELSE r]]
  <1>1. n \in Nat /\ start \in Results /\ \A i \in 1 .. n : dead[i] \in Dead
    BY DEF Results
  <1>2. step \in [Nat -> [Results -> Results]]
    <2>1. \A i \in Nat, r \in Results : (IF i \in 1 .. n THEN Buried(r, dead[i]) ELSE r) \in Results
      BY <1>1, BuriedFacts
    <2> QED BY <2>1
  <1>3. PICK f \in [0 .. n -> Results] : Iterates(f, start, step, n)
    <2> HIDE DEF start, step, n
    <2> QED BY <1>1, <1>2, Recursion
  <1>4. \A i \in 1 .. n : f[i] = Buried(f[i - 1], dead[i])
    <2> SUFFICES ASSUME NEW i \in 1 .. n PROVE f[i] = Buried(f[i - 1], dead[i])
      OBVIOUS
    <2>1. f[i] = step[i][f[i - 1]]
      BY <1>3 DEF Iterates
    <2>2. i \in Nat /\ i - 1 \in 0 .. n
      BY <1>1
    <2>3. f[i - 1] \in Results
      BY <1>3, <2>2
    <2> QED BY <2>1, <2>2, <2>3
  <1>5. IsAfter(f)
    BY <1>1, <1>3, <1>4 DEF Iterates
  <1>6. IsAfter(after)
    BY <1>5
  <1>7. Bury(S, dead) = after[n]
    BY DEF Bury
  <1>8. after[0] = start /\ \A i \in 1 .. n : after[i] = Buried(after[i - 1], dead[i])
    <2> HIDE DEF after, start, n
    <2>1. 0 \in 0 .. n /\ \A i \in 1 .. n : i \in 0 .. n /\ i # 0
      BY <1>1
    <2>2. after = [i \in 0 .. n |-> IF i = 0 THEN start ELSE Buried(after[i - 1], dead[i])]
      BY <1>6
    <2>3. \A i \in 0 .. n : after[i] = IF i = 0 THEN start ELSE Buried(after[i - 1], dead[i])
      BY <2>2
    <2> QED BY <2>1, <2>3
  <1> HIDE DEF after, step
  <1> DEFINE Right(i) ==
                 /\ after[i] \in Results
                 /\ Worth(after[i]) = SumFunction(S.balance)
                 /\ after[i].state.coded \subseteq after[i].state.there
                 /\ Solvent(S) => Solvent(after[i].state)
                 /\ \A b \in Account : after[i].state.store[b] =
                       IF b \in Died(dead, i) THEN NoStorage ELSE S.store[b]
             K == {i \in Nat : i <= n => Right(i)}
  <1>9. 0 \in K
    <2>1. SumFunction(S.balance) \in Int
      BY SumIsNumber DEF States
    <2>2. Died(dead, 0) = {}
      BY DEF Died
    <2> QED BY <1>1, <1>8, <2>1, <2>2 DEF Worth
  <1>10. ASSUME NEW i \in Nat, i \in K PROVE i + 1 \in K
    <2> SUFFICES ASSUME i + 1 <= n PROVE Right(i + 1)
      OBVIOUS
    <2>1. Right(i) /\ i + 1 \in 1 .. n /\ i + 1 - 1 = i
      BY <1>1, <1>10
    <2>2. after[i + 1] = Buried(after[i], dead[i + 1]) /\ dead[i + 1] \in Dead
      BY <1>1, <1>8, <2>1
    <2>3. \A b : b \in Died(dead, i + 1) <=> b \in Died(dead, i) \/ b = dead[i + 1].addr
      <3>1. 1 .. i + 1 = (1 .. i) \cup {i + 1}
        OBVIOUS
      <3> QED BY <3>1 DEF Died
    <2>4. PICK r \in Results : r = after[i]
      BY <2>1
    <2>5. PICK d \in Dead : d = dead[i + 1]
      BY <2>2
    <2>6. after[i + 1] = Buried(r, d)
      BY <2>2, <2>4, <2>5
    <2>7. /\ after[i + 1] \in Results /\ Worth(after[i + 1]) = SumFunction(S.balance)
          /\ after[i + 1].state.coded \subseteq after[i + 1].state.there
          /\ Solvent(S) => Solvent(after[i + 1].state)
      <3>1. /\ Buried(r, d) \in Results /\ Worth(Buried(r, d)) = Worth(r)
            /\ r.state.coded \subseteq r.state.there
                 => Buried(r, d).state.coded \subseteq Buried(r, d).state.there
            /\ Solvent(r.state) => Solvent(Buried(r, d).state)
        BY BuriedFacts
      <3> QED BY <2>1, <2>4, <2>6, <3>1
    <2>8. \A b \in Account : after[i + 1].state.store[b] =
                               IF b = d.addr THEN NoStorage ELSE r.state.store[b]
      BY <2>6, BuriedFacts
    <2>9. \A b \in Account : after[i + 1].state.store[b] =
                               IF b \in Died(dead, i + 1) THEN NoStorage ELSE S.store[b]
      BY <2>1, <2>3, <2>4, <2>5, <2>8
    <2> QED BY <2>7, <2>9
  <1>11. Right(n)
    <2>1. Nat \subseteq K
      <3> HIDE DEF K
      <3> QED BY <1>9, <1>10, AllNaturals
    <2> QED BY <1>1, <2>1
  <1>12. \A b : b \in Died(dead, n) <=> \E i \in DOMAIN dead : dead[i].addr = b
    BY DEF Died
  <1> QED BY <1>7, <1>11, <1>12

-----------------------------------------------------------------------------
(* The inductive invariant                                                  *)

Shape ==
    /\ phase = "running" <=> stack # <<>>
    /\ \A i \in DOMAIN stack : stack[i].addr \in state.there
    /\ state.coded \subseteq state.there

\* The map is behind the writes only where the running Host is ahead of it.
MapAgrees ==
    ~failed =>
        /\ \A a \in Account : (phase = "running" => a # Top.addr) => state.store[a] = latest[a]
        /\ phase = "running" => HostAgrees(TopHost, state.store[Top.addr], latest[Top.addr])

IInv == Types /\ Shape /\ MapAgrees /\ ValueKept

LEMMA InitIInv == Init => IInv
  <1> SUFFICES ASSUME Init PROVE IInv
    OBVIOUS
  <1>1. PICK S \in States : S = [balance |-> Balances, store |-> Stores,
                                 there |-> Coded \cup {Sender}, coded |-> Coded]
    BY Constants DEF States
  <1>2. /\ S.balance = Balances /\ S.store = Stores
        /\ S.there = Coded \cup {Sender} /\ S.coded = Coded
    BY <1>1
  <1>3. state = S
    BY <1>1 DEF Init
  <1>4. Types
    <2>1. [s \in {} |-> 0] \in Caches
      <3>1. [s \in {} |-> 0] \in [{} -> Val] /\ {} \in SUBSET Slot
        OBVIOUS
      <3> QED BY <3>1, CacheFacts
    <2>2. Forgotten \in Hosts
      BY <2>1 DEF Forgotten, Hosts
    <2>3. host \in [Port -> Hosts] /\ stack \in Seq(Frames) /\ idle \in Seq(Port)
      BY <2>2 DEF Init
    <2>4. latest \in [Account -> Storages] /\ burned \in Int
      BY Constants DEF Init
    <2> QED BY <1>3, <2>3, <2>4 DEF Types
  <1>5. Shape
    BY <1>2, <1>3 DEF Shape, Init
  <1>6. MapAgrees
    BY <1>2, <1>3 DEF MapAgrees, Init
  <1>7. ValueKept
    <2>1. SumFunction(Balances) \in Int
      BY Constants, SumIsNumber
    <2> QED BY <1>2, <1>3, <2>1 DEF ValueKept, Init
  <1> QED BY <1>4, <1>5, <1>6, <1>7 DEF IInv

-----------------------------------------------------------------------------
(* What the steps have in common                                            *)

LEMMA TopFacts ==
    ASSUME IInv, phase = "running"
    PROVE  /\ stack # <<>> /\ Top \in Frames /\ Top.addr \in Account /\ Top.from \in Account
           /\ Top.port \in Port /\ Top.value \in Int /\ Top.dead \in Seq(Dead)
           /\ Top.addr \in state.there /\ TopHost \in Hosts
           /\ state.store[Top.addr] \in Storages /\ latest[Top.addr] \in Storages
  <1>1. stack # <<>> /\ stack \in Seq(Frames) /\ host \in [Port -> Hosts] /\ state \in States
        /\ latest \in [Account -> Storages]
    BY DEF IInv, Types, Shape
  <1>2. Len(stack) \in DOMAIN stack /\ Top \in Frames
    BY <1>1 DEF Top
  <1>3. Top.addr \in state.there
    BY <1>2 DEF IInv, Shape, Top
  <1>4. /\ Top.addr \in Account /\ Top.from \in Account
        /\ Top.port \in Port /\ Top.value \in Int /\ Top.dead \in Seq(Dead)
    BY <1>2 DEF Frames
  <1> QED BY <1>1, <1>2, <1>3, <1>4 DEF TopHost, States

\* Once the running Host has sent its writes the map has them all.
LEMMA FlushTop ==
    ASSUME IInv, phase = "running"
    PROVE  \E S \in States :
              /\ S = Flush(state, Top.addr, TopHost)
              /\ S.balance = state.balance /\ S.there = state.there /\ S.coded = state.coded
              /\ ~failed => \A a \in Account : S.store[a] = latest[a]
  <1>1. /\ Flush(state, Top.addr, TopHost) \in States
        /\ Flush(state, Top.addr, TopHost).balance = state.balance
        /\ Flush(state, Top.addr, TopHost).there = state.there
        /\ Flush(state, Top.addr, TopHost).coded = state.coded
        /\ \A b \in Account \ {Top.addr} : Flush(state, Top.addr, TopHost).store[b] = state.store[b]
        /\ \A right : HostAgrees(TopHost, state.store[Top.addr], right)
                         => Flush(state, Top.addr, TopHost).store[Top.addr] = right
    BY TopFacts, FlushFacts DEF IInv, Types
  <1>2. ~failed => \A a \in Account : Flush(state, Top.addr, TopHost).store[a] = latest[a]
    BY <1>1 DEF IInv, MapAgrees
  <1> QED BY <1>1, <1>2

\* After a step that told the running Host what the map has now.
LEMMA ToldAgrees ==
    ASSUME phase' = "running", failed' = failed, latest' = latest,
           ~failed => \A a \in Account : state'.store[a] = latest[a],
           Top'.addr \in Account,
           HostAgrees(TopHost', state'.store[Top'.addr], state'.store[Top'.addr])
    PROVE  MapAgrees'
  BY DEF MapAgrees

LEMMA SameWorth ==
    ASSUME ValueKept, phase = "running", phase' = "running", burned' = burned,
           SumFunction(state'.balance) = SumFunction(state.balance)
    PROVE  ValueKept'
  BY DEF ValueKept

LEMMA FrameFacts ==
    ASSUME stack \in Seq(Frames), idle \in Seq(Port), Len(stack) < MaxFrames,
           NEW a \in Account, NEW from \in Account, NEW v \in Int,
           NEW dead \in Seq(Dead), NEW new \in BOOLEAN
    PROVE  \E f \in Frames : f = Frame(a, from, v, dead, new) /\ f.addr = a
  <1>1. NewPort \in Port
    <2>1. CASE idle # <<>>
      BY <2>1 DEF NewPort
    <2>2. CASE idle = <<>>
      BY <2>2, Constants DEF NewPort, Port
    <2> QED BY <2>1, <2>2
  <1>2. PICK p \in Port : p = NewPort
    BY <1>1
  <1>3. PICK f \in Frames : f = [addr |-> a, from |-> from, value |-> v, port |-> p,
                                 dead |-> dead, new |-> new]
    BY DEF Frames
  <1>4. f = Frame(a, from, v, dead, new)
    BY <1>2, <1>3 DEF Frame
  <1> QED BY <1>3, <1>4

LEMMA EnterFacts ==
    ASSUME Types, NEW S \in States, NEW f \in Frames, Enter(S, f)
    PROVE  /\ stack' \in Seq(Frames) /\ host' \in [Port -> Hosts] /\ idle' \in Seq(Port)
           /\ stack' # <<>> /\ Top' = f /\ Top'.addr \in Account
           /\ \A i \in DOMAIN stack' : stack'[i] = f \/ (i \in DOMAIN stack /\ stack'[i] = stack[i])
           /\ HostAgrees(TopHost', S.store[Top'.addr], S.store[Top'.addr])
  <1>1. stack \in Seq(Frames) /\ host \in [Port -> Hosts] /\ idle \in Seq(Port)
    BY DEF Types
  <1>2. stack' = Append(stack, f)
    BY DEF Enter
  <1>3. stack' \in Seq(Frames) /\ stack' # <<>> /\ Top' = f
    BY <1>1, <1>2 DEF Top
  <1>4. \A i \in DOMAIN stack' : stack'[i] = f \/ (i \in DOMAIN stack /\ stack'[i] = stack[i])
    BY <1>1, <1>2
  <1>5. idle' \in Seq(Port)
    BY <1>1 DEF Enter
  <1>6. f.addr \in Account /\ f.port \in Port /\ S.store[f.addr] \in Storages
    BY DEF Frames, States
  <1>7. PICK h \in Hosts : h = Preload(Forgotten, S.store[f.addr]) /\ HostAgrees(h, S.store[f.addr], S.store[f.addr])
    BY <1>6, PreloadAgrees
  <1>8. host' = [host EXCEPT ![f.port] = h]
    BY <1>7 DEF Enter
  <1>9. host' \in [Port -> Hosts] /\ TopHost' = h
    BY <1>1, <1>3, <1>6, <1>8 DEF TopHost
  <1> QED BY <1>3, <1>4, <1>5, <1>6, <1>7, <1>9

-----------------------------------------------------------------------------
(* Steps                                                                    *)

LEMMA SLoadKeeps ==
    ASSUME IInv, NEW s \in Slot, SLoad(s)
    PROVE  IInv'
  <1>1. phase = "running" /\ UNCHANGED <<state, stack, idle, phase, latest, failed, burned>>
    BY DEF SLoad, Running
  <1>2. PICK h \in Hosts : /\ h = Asked(TopHost, state.store[Top.addr], s)
                           /\ \A right : HostAgrees(TopHost, state.store[Top.addr], right)
                                           => HostAgrees(h, state.store[Top.addr], right)
    BY <1>1, TopFacts, AskedAgrees
  <1>3. host' = [host EXCEPT ![Top.port] = h]
    BY <1>2 DEF SLoad, TopHost
  <1>4. host' \in [Port -> Hosts] /\ Top' = Top /\ TopHost' = h
    BY <1>1, <1>2, <1>3, TopFacts DEF IInv, Types, Top, TopHost
  <1>5. Types'
    BY <1>1, <1>4 DEF IInv, Types
  <1>6. Shape'
    BY <1>1 DEF IInv, Shape
  <1>7. MapAgrees'
    BY <1>1, <1>2, <1>4, TopFacts DEF IInv, MapAgrees
  <1>8. ValueKept'
    BY <1>1 DEF IInv, ValueKept
  <1> QED BY <1>5, <1>6, <1>7, <1>8 DEF IInv

LEMMA SStoreKeeps ==
    ASSUME IInv, NEW s \in Slot, NEW v \in Val, SStore(s, v)
    PROVE  IInv'
  <1>1. phase = "running" /\ UNCHANGED <<state, stack, idle, phase, failed, burned>>
    BY DEF SStore, Running
  <1>2. PICK right \in Storages : right = latest[Top.addr]
    BY <1>1, TopFacts
  <1>3. PICK new \in Storages : new = [right EXCEPT ![s] = v]
    BY DEF Storages
  <1>4. PICK h \in Hosts : /\ h = SetStorage(TopHost, state.store[Top.addr], s, v)
                           /\ HostAgrees(TopHost, state.store[Top.addr], right)
                                => HostAgrees(h, state.store[Top.addr], new)
    BY <1>1, <1>3, TopFacts, SetStorageAgrees
  <1>5. host' = [host EXCEPT ![Top.port] = h]
    BY <1>4 DEF SStore, TopHost
  <1>6. host' \in [Port -> Hosts] /\ Top' = Top /\ TopHost' = h
    BY <1>1, <1>5, TopFacts DEF IInv, Types, Top, TopHost
  <1>7. latest' = [latest EXCEPT ![Top.addr] = new]
    BY <1>2, <1>3 DEF SStore
  <1>8. /\ latest' \in [Account -> Storages] /\ latest'[Top.addr] = new
        /\ \A a \in Account \ {Top.addr} : latest'[a] = latest[a]
    BY <1>1, <1>7, TopFacts DEF IInv, Types
  <1>9. Types'
    BY <1>1, <1>6, <1>8 DEF IInv, Types
  <1>10. Shape'
    BY <1>1 DEF IInv, Shape
  <1>11. MapAgrees'
    BY <1>1, <1>2, <1>4, <1>6, <1>8, TopFacts DEF IInv, MapAgrees
  <1>12. ValueKept'
    BY <1>1 DEF IInv, ValueKept
  <1> QED BY <1>9, <1>10, <1>11, <1>12 DEF IInv

\* The map S has all writes and as much value as the map before.
Settled(S) ==
    /\ state' = S /\ state.there \subseteq S.there /\ S.coded \subseteq S.there
    /\ SumFunction(S.balance) = SumFunction(state.balance)
    /\ ~failed => \A a \in Account : S.store[a] = latest[a]
    /\ UNCHANGED <<phase, latest, failed, burned>>

LEMMA EnterKeeps ==
    ASSUME IInv, phase = "running", NEW S \in States, Settled(S),
           NEW f \in Frames, f.addr \in S.there, Enter(S, f)
    PROVE  IInv'
  <1>1. /\ stack' \in Seq(Frames) /\ host' \in [Port -> Hosts] /\ idle' \in Seq(Port)
        /\ stack' # <<>> /\ Top' = f /\ Top'.addr \in Account
        /\ \A i \in DOMAIN stack' : stack'[i] = f \/ (i \in DOMAIN stack /\ stack'[i] = stack[i])
        /\ HostAgrees(TopHost', S.store[Top'.addr], S.store[Top'.addr])
    BY EnterFacts DEF IInv
  <1>2. Types'
    BY <1>1 DEF IInv, Types, Settled
  <1>3. Shape'
    BY <1>1 DEF IInv, Shape, Settled
  <1>4. MapAgrees'
    BY <1>1, ToldAgrees DEF Settled
  <1>5. ValueKept'
    BY SameWorth DEF IInv, Settled
  <1> QED BY <1>2, <1>3, <1>4, <1>5 DEF IInv

LEMMA ResumeKeeps ==
    ASSUME IInv, phase = "running", NEW S \in States, Settled(S), Resume(S)
    PROVE  IInv'
  <1>1. stack' = stack /\ idle' = idle /\ Top' = Top
    BY DEF Resume, Top
  <1>2. S.store[Top.addr] \in Storages
    BY TopFacts DEF States
  <1>3. PICK h \in Hosts : /\ h = Preload(host[Top.port], S.store[Top.addr])
                           /\ HostAgrees(h, S.store[Top.addr], S.store[Top.addr])
    BY <1>2, PreloadAgrees
  <1>4. host' = [host EXCEPT ![Top.port] = h]
    BY <1>3 DEF Resume
  <1>5. host' \in [Port -> Hosts] /\ TopHost' = h
    BY <1>1, <1>4, TopFacts DEF IInv, Types, TopHost
  <1>6. Types'
    BY <1>1, <1>5 DEF IInv, Types, Settled
  <1>7. Shape'
    BY <1>1 DEF IInv, Shape, Settled
  <1>8. MapAgrees'
    BY <1>1, <1>3, <1>5, TopFacts, ToldAgrees DEF Settled
  <1>9. ValueKept'
    BY SameWorth DEF IInv, Settled
  <1> QED BY <1>6, <1>7, <1>8, <1>9 DEF IInv

LEMMA CallKeeps ==
    ASSUME IInv, NEW kind \in {"call", "callcode", "delegatecall"},
           NEW to \in Account, NEW v \in Amount, Call(kind, to, v)
    PROVE  IInv'
  <1>1. phase = "running"
    BY DEF Call, Running
  <1>2. PICK S \in States : /\ S = Flush(state, Top.addr, TopHost)
                            /\ S.balance = state.balance /\ S.there = state.there /\ S.coded = state.coded
                            /\ ~failed => \A a \in Account : S.store[a] = latest[a]
    BY <1>1, FlushTop
  <1>3. PICK from \in Account : from = Caller(kind)
    BY <1>1, TopFacts DEF Caller
  <1>4. PICK target \in Account : target = Target(kind, to)
    BY <1>1, TopFacts DEF Target
  <1>5. PICK w \in Int : w = Value(kind, v)
    BY <1>1, TopFacts, Constants DEF Value
  <1>6. PICK T \in States : /\ T = Transfer(S, kind, from, target, w)
                            /\ T.store = S.store /\ T.coded = S.coded /\ S.there \subseteq T.there
                            /\ SumFunction(T.balance) = SumFunction(S.balance)
    BY TransferFacts
  <1>7. /\ state' = T /\ UNCHANGED <<phase, latest, failed, burned>>
        /\ IF to \in state.coded
           THEN Len(stack) < MaxFrames /\ Enter(T, Frame(target, from, w, Top.dead, FALSE))
           ELSE Resume(T)
    BY <1>2, <1>3, <1>4, <1>5, <1>6 DEF Call
  <1>8. Settled(T)
    BY <1>2, <1>6, <1>7 DEF IInv, Shape, Settled
  <1>9. CASE to \in state.coded
    <2>1. PICK f \in Frames : f = Frame(target, from, w, Top.dead, FALSE) /\ f.addr = target
      <3>1. stack \in Seq(Frames) /\ idle \in Seq(Port) /\ Top.dead \in Seq(Dead) /\ FALSE \in BOOLEAN
        BY <1>1, TopFacts DEF IInv, Types
      <3> QED BY <1>7, <1>9, <3>1, FrameFacts
    <2>2. target \in T.there
      BY <1>1, <1>2, <1>4, <1>6, <1>9, TopFacts DEF Target, IInv, Shape
    <2> QED BY <1>1, <1>7, <1>8, <1>9, <2>1, <2>2, EnterKeeps
  <1>10. CASE to \notin state.coded
    BY <1>1, <1>7, <1>8, <1>10, ResumeKeeps
  <1> QED BY <1>9, <1>10

LEMMA CreateKeeps ==
    ASSUME IInv, NEW new \in Account, NEW v \in Amount, Create(new, v)
    PROVE  IInv'
  <1>1. phase = "running"
    BY DEF Create, Running
  <1>2. PICK S \in States : /\ S = Flush(state, Top.addr, TopHost)
                            /\ S.balance = state.balance /\ S.there = state.there /\ S.coded = state.coded
                            /\ ~failed => \A a \in Account : S.store[a] = latest[a]
    BY <1>1, FlushTop
  <1>3. PICK from \in Account : from = Top.addr /\ from # new
    BY <1>1, TopFacts DEF Create
  <1>4. v \in Int
    BY Constants
  <1>5. PICK T \in States : /\ T = Move(S, from, new, v)
                            /\ T.store = S.store /\ T.coded = S.coded /\ T.there = S.there \cup {new}
                            /\ SumFunction(T.balance) = SumFunction(S.balance)
    BY <1>3, <1>4, MoveFacts
  <1>6. /\ state' = T /\ UNCHANGED <<phase, latest, failed, burned>>
        /\ Len(stack) < MaxFrames /\ Enter(T, Frame(new, from, v, Top.dead, TRUE))
    BY <1>2, <1>3, <1>5 DEF Create
  <1>7. Settled(T)
    BY <1>2, <1>5, <1>6 DEF IInv, Shape, Settled
  <1>8. PICK f \in Frames : f = Frame(new, from, v, Top.dead, TRUE) /\ f.addr = new
    <2>1. stack \in Seq(Frames) /\ idle \in Seq(Port) /\ Top.dead \in Seq(Dead) /\ TRUE \in BOOLEAN
      BY <1>1, TopFacts DEF IInv, Types
    <2> QED BY <1>4, <1>6, <2>1, FrameFacts
  <1> QED BY <1>1, <1>5, <1>6, <1>7, <1>8, EnterKeeps

\* Its writes are sent, and the Host goes on with them in its caches.
LEMMA CreateCollidesKeeps == ASSUME IInv, CreateCollides PROVE IInv'
  <1>1. phase = "running" /\ UNCHANGED <<stack, host, idle, phase, latest, failed, burned>>
    BY DEF CreateCollides, Running
  <1>2. PICK S \in States : /\ S = Flush(state, Top.addr, TopHost)
                            /\ S.balance = state.balance /\ S.there = state.there /\ S.coded = state.coded
                            /\ ~failed => \A a \in Account : S.store[a] = latest[a]
    BY <1>1, FlushTop
  <1>3. state' = S /\ Top' = Top /\ TopHost' = TopHost
    BY <1>1, <1>2 DEF CreateCollides, Top, TopHost
  <1>4. Types'
    BY <1>1, <1>3 DEF IInv, Types
  <1>5. Shape'
    BY <1>1, <1>2, <1>3 DEF IInv, Shape
  <1>6. ASSUME ~failed PROVE HostAgrees(TopHost, S.store[Top.addr], latest[Top.addr])
    <2>1. HostAgrees(TopHost, state.store[Top.addr], latest[Top.addr])
      BY <1>1, <1>6 DEF IInv, MapAgrees
    <2>2. S.store[Top.addr] = latest[Top.addr]
      BY <1>1, <1>2, <1>6, TopFacts
    <2>3. DOMAIN TopHost.dirty \subseteq Slot
      BY <1>1, TopFacts, CacheFacts DEF Hosts
    <2>4. Over(TopHost.dirty, latest[Top.addr]) = latest[Top.addr]
      <3>1. latest[Top.addr] = Over(TopHost.dirty, state.store[Top.addr])
        BY <2>1 DEF HostAgrees
      <3>2. DOMAIN latest[Top.addr] = Slot /\ DOMAIN state.store[Top.addr] = Slot
        BY <1>1, TopFacts DEF Storages
      <3>3. \A x \in DOMAIN TopHost.dirty : latest[Top.addr][x] = TopHost.dirty[x]
        BY <2>3, <3>1, <3>2 DEF Over
      <3>4. \A x \in Slot : (IF x \in DOMAIN TopHost.dirty THEN TopHost.dirty[x] ELSE latest[Top.addr][x])
                            = latest[Top.addr][x]
        BY <3>3
      <3>5. DOMAIN TopHost.dirty \cup DOMAIN latest[Top.addr] = Slot
        BY <2>3, <3>2
      <3>6. Over(TopHost.dirty, latest[Top.addr]) = [x \in Slot |-> latest[Top.addr][x]]
        BY <3>4, <3>5 DEF Over
      <3> QED BY <1>1, <3>6, TopFacts DEF Storages
    <2> QED BY <2>1, <2>2, <2>4 DEF HostAgrees
  <1>7. MapAgrees'
    BY <1>1, <1>2, <1>3, <1>6 DEF MapAgrees
  <1>8. ValueKept'
    BY <1>1, <1>2, <1>3 DEF IInv, ValueKept
  <1> QED BY <1>4, <1>5, <1>7, <1>8 DEF IInv

LEMMA ReturnedFacts ==
    ASSUME IInv, phase = "running", Len(stack) > 1
    PROVE  /\ Returned \in Seq(Frames) /\ Returned # <<>> /\ Parent \in Frames
           /\ Parent = Returned[Len(Returned)]
           /\ \A i \in DOMAIN Returned : Returned[i].addr \in state.there
  <1>1. stack \in Seq(Frames)
    BY DEF IInv, Types
  <1>2. Returned = SubSeq(stack, 1, Len(stack) - 1)
    BY DEF Returned, Front
  <1>3. Returned \in Seq(Frames) /\ Len(Returned) = Len(stack) - 1
        /\ \A i \in 1 .. Len(stack) - 1 : Returned[i] = stack[i]
    BY <1>1, <1>2
  <1>4. \A i \in DOMAIN Returned : Returned[i].addr \in state.there
    BY <1>1, <1>3 DEF IInv, Shape
  <1> QED BY <1>1, <1>3, <1>4 DEF Parent

LEMMA DeathsFacts ==
    ASSUME IInv, phase = "running", NEW heir \in Heir \cup {None}
    PROVE  Deaths(heir) \in Seq(Dead)
  <1>1. CASE heir = None
    BY <1>1, TopFacts DEF Deaths
  <1>2. CASE heir # None
    <2>1. PICK d \in Dead : d = [addr |-> Top.addr, heir |-> heir]
      BY <1>2, TopFacts, Constants DEF Dead
    <2>2. Deaths(heir) = <<d>> \o Top.dead
      BY <1>2, <2>1 DEF Deaths
    <2> QED BY <2>2, TopFacts
  <1> QED BY <1>1, <1>2

LEMMA ReleaseFacts ==
    ASSUME IInv, phase = "running", Release
    PROVE  idle' \in Seq(Port)
  BY TopFacts DEF Release, IInv, Types

LEMMA ReturnKeeps ==
    ASSUME IInv, NEW heir \in Heir \cup {None}, Return(heir)
    PROVE  IInv'
  <1>1. phase = "running" /\ Len(stack) > 1 /\ Release /\ UNCHANGED <<phase, latest, failed, burned>>
    BY DEF Return, Running
  <1>2. PICK F \in States : /\ F = Flush(state, Top.addr, TopHost)
                            /\ F.balance = state.balance /\ F.there = state.there /\ F.coded = state.coded
                            /\ ~failed => \A a \in Account : F.store[a] = latest[a]
    BY <1>1, FlushTop
  <1>3. PICK S \in States : /\ S = Deployed(F) /\ S.balance = F.balance /\ S.store = F.store
                            /\ S.there = F.there /\ S.coded \subseteq F.there
    BY <1>1, <1>2, TopFacts, DeployedFacts DEF IInv, Shape
  <1>4. PICK dead \in Seq(Dead) : dead = Deaths(heir)
    BY <1>1, DeathsFacts
  <1>5. PICK p \in Frames : p = [Parent EXCEPT !.dead = dead]
    BY <1>1, ReturnedFacts DEF Frames
  <1>6. p.addr = Parent.addr /\ p.port = Parent.port /\ p.addr \in Account /\ p.port \in Port
    BY <1>1, <1>5, ReturnedFacts DEF Frames
  <1>7. stack' = [Returned EXCEPT ![Len(Returned)] = p]
    BY <1>1, <1>4, <1>5, ReturnedFacts DEF Return
  <1>8. /\ stack' \in Seq(Frames) /\ stack' # <<>> /\ Top' = p
        /\ \A i \in DOMAIN stack' : i \in DOMAIN Returned /\ stack'[i].addr = Returned[i].addr
    <2>1. PICK r \in Seq(Frames) : r = Returned /\ r # <<>>
      BY <1>1, ReturnedFacts
    <2>2. p.addr = r[Len(r)].addr
      BY <1>1, <1>6, <2>1, ReturnedFacts
    <2>3. stack' = [r EXCEPT ![Len(r)] = p]
      BY <1>7, <2>1
    <2>4. /\ stack' \in Seq(Frames) /\ stack' # <<>> /\ stack'[Len(stack')] = p
          /\ \A i \in DOMAIN stack' : i \in DOMAIN r /\ stack'[i].addr = r[i].addr
      BY <2>1, <2>2, <2>3
    <2> QED BY <2>1, <2>4 DEF Top
  <1>9. PICK h \in Hosts : /\ h = Preload(host[Parent.port], S.store[Parent.addr])
                           /\ HostAgrees(h, S.store[Parent.addr], S.store[Parent.addr])
    <2>1. S.store[Parent.addr] \in Storages
      BY <1>6 DEF States
    <2> QED BY <2>1, PreloadAgrees
  <1>10. host' = [host EXCEPT ![Parent.port] = h]
    BY <1>2, <1>3, <1>9 DEF Return
  <1>11. host' \in [Port -> Hosts] /\ TopHost' = h
    BY <1>6, <1>8, <1>10 DEF IInv, Types, TopHost
  <1>12. state' = S
    BY <1>2, <1>3 DEF Return
  <1>13. Types'
    BY <1>1, <1>8, <1>11, <1>12, ReleaseFacts DEF IInv, Types
  <1>14. Shape'
    <2>1. \A i \in DOMAIN stack' : stack'[i].addr \in S.there
      BY <1>1, <1>2, <1>3, <1>8, ReturnedFacts
    <2> QED BY <1>1, <1>3, <1>8, <1>12, <2>1 DEF Shape
  <1>15. MapAgrees'
    BY <1>1, <1>2, <1>3, <1>6, <1>8, <1>9, <1>11, <1>12, ToldAgrees
  <1>16. ValueKept'
    BY <1>1, <1>2, <1>3, <1>12, SameWorth DEF IInv
  <1> QED BY <1>13, <1>14, <1>15, <1>16 DEF IInv

LEMMA FailKeeps == ASSUME IInv, Fail PROVE IInv'
  <1>1. /\ phase = "running" /\ Len(stack) > 1 /\ Release /\ stack' = Returned /\ failed'
        /\ UNCHANGED <<host, phase, latest, burned>>
    BY DEF Fail, Running
  <1>2. PICK S \in States : /\ S = Flush(state, Top.addr, TopHost)
                            /\ S.balance = state.balance /\ S.there = state.there /\ S.coded = state.coded
    BY <1>1, FlushTop
  <1>3. state' = S
    BY <1>2 DEF Fail
  <1>4. Types'
    BY <1>1, <1>3, ReturnedFacts, ReleaseFacts DEF IInv, Types
  <1>5. Shape'
    BY <1>1, <1>2, <1>3, ReturnedFacts DEF IInv, Shape
  <1>6. MapAgrees'
    BY <1>1 DEF MapAgrees
  <1>7. ValueKept'
    BY <1>1, <1>2, <1>3, SameWorth DEF IInv
  <1> QED BY <1>4, <1>5, <1>6, <1>7 DEF IInv

\* A new balance of the sender.
LEMMA SenderFacts ==
    ASSUME NEW S \in States, NEW x \in Int
    PROVE  \E T \in States :
              /\ T = [S EXCEPT !.balance[Sender] = x]
              /\ T.store = S.store /\ T.there = S.there /\ T.coded = S.coded
              /\ SumFunction(S.balance) \in Int
              /\ SumFunction(T.balance) = SumFunction(S.balance) - S.balance[Sender] + x
  <1>1. PICK f \in [Account -> Int] : f = S.balance
    BY DEF States
  <1>2. Sender \in Account
    BY Constants
  <1>3. PICK b \in [Account -> Int] : b = [f EXCEPT ![Sender] = x]
    OBVIOUS
  <1>4. SumFunction(f) \in Int /\ SumFunction(b) = SumFunction(f) - f[Sender] + x
    <2>1. Updates(f, b, Sender, x)
      BY <1>2, <1>3 DEF Updates
    <2> QED BY <2>1, BalanceUpdate
  <1>5. PICK T \in States : T = [S EXCEPT !.balance = b]
    BY DEF States
  <1>6. T.balance = b /\ T.store = S.store /\ T.there = S.there /\ T.coded = S.coded
    BY <1>5 DEF States
  <1>7. T = [S EXCEPT !.balance[Sender] = x]
    BY <1>1, <1>3, <1>5 DEF States
  <1> QED BY <1>1, <1>3, <1>4, <1>6, <1>7

LEMMA UndoKeeps ==
    ASSUME IInv, NEW outcome \in {"revert", "failure"}, Undo(outcome)
    PROVE  IInv'
  <1>1. /\ phase = "running" /\ phase' = outcome /\ Release /\ stack' = <<>> /\ failed'
        /\ UNCHANGED <<host, latest, burned>>
    BY DEF Undo, Running
  <1>2. PICK S \in States : /\ S = Flush(state, Top.addr, TopHost)
                            /\ S.balance = state.balance /\ S.there = state.there /\ S.coded = state.coded
    BY <1>1, FlushTop
  <1>3. PICK back \in Int : back = IF outcome = "revert" THEN Balances[Sender] - Used
                                   ELSE Balances[Sender] - Fee
    BY Constants
  <1>4. PICK T \in States : /\ T = [S EXCEPT !.balance[Sender] = back]
                            /\ T.there = S.there /\ T.coded = S.coded
    BY SenderFacts
  <1>5. state' = T
    BY <1>2, <1>3, <1>4 DEF Undo
  <1>6. Types'
    BY <1>1, <1>5, ReleaseFacts DEF IInv, Types
  <1>7. Shape'
    BY <1>1, <1>2, <1>4, <1>5 DEF IInv, Shape
  <1>8. MapAgrees' /\ ValueKept'
    BY <1>1 DEF MapAgrees, ValueKept
  <1> QED BY <1>6, <1>7, <1>8 DEF IInv

LEMMA BeginKeeps ==
    ASSUME IInv, NEW to \in Account, NEW v \in Amount, NEW new \in BOOLEAN, Begin(to, v, new)
    PROVE  IInv'
  <1>1. /\ phase = "ready" /\ to # Sender /\ Sender \in Account /\ v \in Int
        /\ state \in States /\ UNCHANGED <<latest, failed, burned>>
    BY Constants DEF Begin, IInv, Types
  <1>2. PICK x \in Int : x = state.balance[Sender] - Fee
    BY <1>1, Constants DEF States
  <1>3. PICK S \in States : /\ S = [state EXCEPT !.balance[Sender] = x]
                            /\ S.store = state.store /\ S.there = state.there /\ S.coded = state.coded
                            /\ SumFunction(state.balance) \in Int
                            /\ SumFunction(S.balance) = SumFunction(state.balance) - state.balance[Sender] + x
    BY <1>1, <1>2, SenderFacts
  <1>4. PICK T \in States : /\ T = Move(S, Sender, to, v)
                            /\ T.store = S.store /\ T.coded = S.coded /\ T.there = S.there \cup {to}
                            /\ SumFunction(T.balance) = SumFunction(S.balance)
    BY <1>1, MoveFacts
  <1>5. SumFunction(T.balance) = SumFunction(state.balance) - Fee /\ SumFunction(T.balance) \in Int
    BY <1>1, <1>2, <1>3, <1>4, Constants DEF States
  <1>6. SumFunction(state.balance) + burned = SumFunction(Balances) /\ burned \in Int
    <2>1. SumFunction(state.balance) + burned + 0 = SumFunction(Balances) /\ burned \in Int
      BY <1>1 DEF IInv, Types, ValueKept
    <2> QED BY <1>3, <2>1
  <1>7. stack = <<>>
    BY <1>1 DEF IInv, Shape
  <1>8. \A a \in Account : ~failed => T.store[a] = latest[a]
    BY <1>1, <1>3, <1>4 DEF IInv, MapAgrees
  <1>9. T.coded \subseteq T.there
    BY <1>3, <1>4 DEF IInv, Shape
  <1>10. CASE new \/ to \in state.coded
    <2>1. state' = T /\ Enter(T, Frame(to, Sender, v, <<>>, new)) /\ phase' = "running"
      BY <1>2, <1>3, <1>4, <1>10 DEF Begin
    <2>2. PICK f \in Frames : f = Frame(to, Sender, v, <<>>, new) /\ f.addr = to
      <3>1. Len(stack) < MaxFrames /\ <<>> \in Seq(Dead)
        BY <1>7, Constants
      <3>2. stack \in Seq(Frames) /\ idle \in Seq(Port)
        BY DEF IInv, Types
      <3> DEFINE none == <<>>
      <3>3. none \in Seq(Dead)
        BY <3>1
      <3> HIDE DEF none
      <3>4. \E f \in Frames : f = Frame(to, Sender, v, none, new) /\ f.addr = to
        BY <1>1, <3>1, <3>2, <3>3, FrameFacts
      <3> QED BY <3>4 DEF none
    <2>3. /\ stack' \in Seq(Frames) /\ host' \in [Port -> Hosts] /\ idle' \in Seq(Port)
          /\ stack' # <<>> /\ Top' = f /\ Top'.addr \in Account
          /\ \A i \in DOMAIN stack' : stack'[i] = f \/ (i \in DOMAIN stack /\ stack'[i] = stack[i])
          /\ HostAgrees(TopHost', T.store[Top'.addr], T.store[Top'.addr])
      BY <2>1, <2>2, EnterFacts DEF IInv
    <2>4. Types'
      BY <1>1, <2>1, <2>3 DEF IInv, Types
    <2>5. Shape'
      BY <1>4, <1>7, <1>9, <2>1, <2>2, <2>3 DEF Shape
    <2>6. MapAgrees'
      BY <1>1, <1>8, <2>1, <2>3, ToldAgrees
    <2>7. ValueKept'
      <3>1. SumFunction(T.balance) + burned + Fee = SumFunction(Balances)
        BY <1>3, <1>5, <1>6, Constants
      <3> QED BY <1>1, <2>1, <3>1 DEF ValueKept
    <2> QED BY <2>4, <2>5, <2>6, <2>7 DEF IInv
  <1>11. CASE ~ (new \/ to \in state.coded)
    <2>1. PICK y \in Int : y = T.balance[Sender] + Fee - Used
      BY <1>1, Constants DEF States
    <2>2. PICK U \in States : /\ U = [T EXCEPT !.balance[Sender] = y]
                              /\ U.store = T.store /\ U.there = T.there /\ U.coded = T.coded
                              /\ SumFunction(U.balance) = SumFunction(T.balance) - T.balance[Sender] + y
      BY <2>1, SenderFacts
    <2>3. state' = U /\ phase' = "ok" /\ UNCHANGED <<stack, host, idle>>
      BY <1>2, <1>3, <1>4, <1>11, <2>1, <2>2 DEF Begin
    <2>4. Types'
      BY <1>1, <2>3 DEF IInv, Types
    <2>5. Shape'
      BY <1>7, <1>9, <2>2, <2>3 DEF Shape
    <2>6. MapAgrees'
      BY <1>1, <1>8, <2>2, <2>3 DEF MapAgrees
    <2>7. ValueKept'
      <3>1. T.balance[Sender] \in Int
        BY <1>1 DEF States
      <3>2. SumFunction(U.balance) + burned + Used = SumFunction(Balances)
        BY <1>3, <1>5, <1>6, <2>1, <2>2, <3>1, Constants
      <3> QED BY <1>1, <2>3, <3>2 DEF ValueKept
    <2> QED BY <2>4, <2>5, <2>6, <2>7 DEF IInv
  <1> QED BY <1>10, <1>11

LEMMA FinishKeeps ==
    ASSUME IInv, NEW heir \in Heir \cup {None}, Finish(heir)
    PROVE  IInv'
  <1>1. phase = "running" /\ Release /\ phase' = "ok" /\ stack' = <<>> /\ UNCHANGED <<host, failed>>
    BY DEF Finish, Running
  <1>2. PICK F \in States : /\ F = Flush(state, Top.addr, TopHost)
                            /\ F.balance = state.balance /\ F.there = state.there /\ F.coded = state.coded
                            /\ ~failed => \A a \in Account : F.store[a] = latest[a]
    BY <1>1, FlushTop
  <1>3. PICK S \in States : /\ S = Deployed(F) /\ S.balance = F.balance /\ S.store = F.store
                            /\ S.there = F.there /\ S.coded \subseteq F.there
    BY <1>1, <1>2, TopFacts, DeployedFacts DEF IInv, Shape
  <1>4. PICK dead \in Seq(Dead) : dead = Deaths(heir)
    BY <1>1, DeathsFacts
  <1>5. PICK r \in Results :
          /\ r = Bury(S, dead) /\ Worth(r) = SumFunction(S.balance)
          /\ r.state.coded \subseteq r.state.there
          /\ \A b \in Account : r.state.store[b] =
                IF \E i \in DOMAIN dead : dead[i].addr = b THEN NoStorage ELSE S.store[b]
    BY <1>3, BuryFacts
  <1>6. PICK E \in States : E = r.state
    BY DEF Results
  <1>7. PICK y \in Int : y = E.balance[Sender] + Fee - Used
    BY Constants DEF States
  <1>8. PICK T \in States : /\ T = [E EXCEPT !.balance[Sender] = y]
                            /\ T.store = E.store /\ T.there = E.there /\ T.coded = E.coded
                            /\ SumFunction(E.balance) \in Int
                            /\ SumFunction(T.balance) = SumFunction(E.balance) - E.balance[Sender] + y
    BY <1>7, SenderFacts
  <1>9. state' = T /\ burned' = burned + r.burned
    BY <1>2, <1>3, <1>4, <1>5, <1>6, <1>7, <1>8 DEF Finish
  <1>10. latest' = [a \in Account |-> IF \E i \in DOMAIN dead : dead[i].addr = a
                                      THEN NoStorage ELSE latest[a]]
    BY <1>4 DEF Finish, NoStorage
  <1>11. Types'
    <2>1. latest' \in [Account -> Storages]
      <3>1. NoStorage \in Storages
        BY Constants DEF NoStorage, Storages
      <3> QED BY <1>10, <3>1 DEF IInv, Types
    <2>2. burned' \in Int
      BY <1>9 DEF IInv, Types, Results
    <2> QED BY <1>1, <1>9, <2>1, <2>2, ReleaseFacts DEF IInv, Types
  <1>12. Shape'
    BY <1>1, <1>5, <1>6, <1>8, <1>9 DEF Shape
  <1>13. MapAgrees'
    <2> SUFFICES ASSUME ~failed, NEW a \in Account PROVE T.store[a] = latest'[a]
      BY <1>1, <1>9 DEF MapAgrees
    <2>1. T.store[a] = IF \E i \in DOMAIN dead : dead[i].addr = a THEN NoStorage ELSE S.store[a]
      BY <1>5, <1>6, <1>8
    <2>2. S.store[a] = latest[a]
      BY <1>2, <1>3
    <2> QED BY <1>10, <2>1, <2>2
  <1>14. ValueKept'
    <2>1. SumFunction(state.balance) + burned + Fee = SumFunction(Balances)
      BY <1>1 DEF IInv, ValueKept
    <2>2. SumFunction(E.balance) + r.burned = SumFunction(state.balance)
      BY <1>2, <1>3, <1>5, <1>6 DEF Worth
    <2>3. r.burned \in Int /\ burned \in Int /\ E.balance[Sender] \in Int
      BY Constants DEF Results, States, IInv, Types
    <2>4. SumFunction(T.balance) + (burned + r.burned) + Used = SumFunction(Balances)
      <3>1. PICK t \in Int : t = E.balance[Sender]
        BY <2>3
      <3>2. PICK e \in Int : e = SumFunction(E.balance)
        BY <1>8
      <3>3. Fee \in Int /\ Used \in Int
        BY Constants
      <3>4. SumFunction(T.balance) = e - t + (t + Fee - Used)
        BY <1>7, <1>8, <3>1, <3>2
      <3>5. e + r.burned + burned + Fee = SumFunction(Balances)
        BY <2>1, <2>2, <3>2
      <3> QED BY <2>3, <3>3, <3>4, <3>5
    <2> QED BY <1>1, <1>9, <2>4 DEF ValueKept
  <1> QED BY <1>11, <1>12, <1>13, <1>14 DEF IInv

LEMMA NextKeeps == IInv /\ [Next]_vars => IInv'
  <1> SUFFICES ASSUME IInv, [Next]_vars PROVE IInv'
    OBVIOUS
  <1>1. CASE UNCHANGED vars
    BY <1>1 DEF vars, IInv, Types, Shape, MapAgrees, ValueKept, Top, TopHost
  <1>2. CASE \E to \in Account, v \in Amount, new \in BOOLEAN : Begin(to, v, new)
    BY <1>2, BeginKeeps
  <1>3. CASE \E s \in Slot : SLoad(s) \/ \E v \in Val : SStore(s, v)
    BY <1>3, SLoadKeeps, SStoreKeeps
  <1>4. CASE \E to \in Account, v \in Amount :
                Create(to, v) \/ \E kind \in {"call", "callcode", "delegatecall"} : Call(kind, to, v)
    BY <1>4, CreateKeeps, CallKeeps
  <1>5. CASE \E heir \in Heir \cup {None} : Return(heir) \/ Finish(heir)
    BY <1>5, ReturnKeeps, FinishKeeps
  <1>6. CASE CreateCollides \/ Fail \/ Undo("revert") \/ Undo("failure")
    BY <1>6, CreateCollidesKeeps, FailKeeps, UndoKeeps
  <1> QED BY <1>1, <1>2, <1>3, <1>4, <1>5, <1>6 DEF Next

\* Of every transaction, whatever its code does: where the map is behind the
\* writes (process_updates), what the accounts and the fee add up to.
THEOREM Invariance == Spec => []IInv
  <1>1. Init => IInv
    BY InitIInv
  <1>2. IInv /\ [Next]_vars => IInv'
    BY NextKeeps
  <1> QED BY <1>1, <1>2, PTL DEF Spec

\* Value is neither made nor lost in do_call_contract, do_create, eval_timed
\* and do_apply, however calls nest, fail and destroy accounts.
THEOREM ValueAlwaysKept == Spec => []ValueKept
  <1>1. IInv => ValueKept
    BY DEF IInv
  <1> QED BY <1>1, Invariance, PTL

\* As long as no frame has failed no write of any Host is lost or overtaken
\* (send_updates, read_updates), and a Host that has a whole account reads what
\* was written last.
THEOREM LatestWriteAlwaysCounts == Spec => []LatestWriteCounts
  <1>1. IInv => LatestWriteCounts
    <2> SUFFICES ASSUME IInv, ~failed PROVE LatestWriteCounts
      BY DEF LatestWriteCounts
    <2>1. \A a \in Account : (phase = "running" => a # Top.addr) => state.store[a] = latest[a]
      BY DEF IInv, MapAgrees
    <2>2. phase = "running" =>
            /\ Over(TopHost.dirty, state.store[Top.addr]) = latest[Top.addr]
            /\ TopHost.complete => \A s \in Slot :
                  (IF s \in DOMAIN TopHost.cache THEN TopHost.cache[s] ELSE 0) = latest[Top.addr][s]
      BY DEF IInv, MapAgrees, HostAgrees
    <2>3. ASSUME phase = "running", TopHost.complete, NEW s \in Slot
          PROVE  GetStorage(TopHost, state.store[Top.addr], s) = latest[Top.addr][s]
      <3>1. Asked(TopHost, state.store[Top.addr], s) = TopHost
        BY <2>3 DEF Asked
      <3> QED BY <2>2, <2>3, <3>1 DEF GetStorage
    <2> QED BY <2>1, <2>2, <2>3 DEF LatestWriteCounts
  <1> QED BY <1>1, Invariance, PTL

-----------------------------------------------------------------------------
(* Overdrafts.  What is checked before an account pays still holds when it   *)
(* does: the sender had the fee, the calling account has the value.          *)

Afloat ==
    /\ Solvent(state)
    /\ phase = "ready" => state.balance = Balances
    /\ phase = "running" => Balances[Sender] >= Fee

LEMMA InitAfloat == Init => Afloat
  BY PortAssumption DEF Init, Afloat, Solvent

\* A step of the running frame that pays no one.
LEMMA SameBalances ==
    ASSUME Afloat, phase = "running", phase' = "running", state'.balance = state.balance
    PROVE  Afloat'
  BY DEF Afloat, Solvent

LEMMA StepsAfloat ==
    ASSUME IInv, Afloat, phase = "running",
           \/ \E s \in Slot : SLoad(s) \/ \E v \in Val : SStore(s, v)
           \/ CreateCollides \/ Fail \/ \E heir \in Heir \cup {None} : Return(heir)
    PROVE  Afloat'
  <1>1. PICK S \in States : S = Flush(state, Top.addr, TopHost) /\ S.balance = state.balance
    BY FlushTop
  <1>2. CASE \E s \in Slot : SLoad(s) \/ \E v \in Val : SStore(s, v)
    <2>1. state' = state /\ phase' = phase
      BY <1>2 DEF SLoad, SStore
    <2> QED BY <2>1, SameBalances
  <1>3. CASE CreateCollides \/ Fail
    <2>1. state' = S /\ phase' = phase
      BY <1>1, <1>3 DEF CreateCollides, Fail
    <2> QED BY <1>1, <2>1, SameBalances
  <1>4. CASE \E heir \in Heir \cup {None} : Return(heir)
    <2>1. state' = Deployed(S) /\ phase' = phase
      BY <1>1, <1>4 DEF Return
    <2>2. state'.balance = S.balance
      BY <2>1 DEF Deployed, States
    <2> QED BY <1>1, <2>1, <2>2, SameBalances
  <1> QED BY <1>2, <1>3, <1>4

LEMMA CallAfloat ==
    ASSUME ~DoubleSpend, IInv, Afloat, NEW kind \in {"call", "callcode", "delegatecall"},
           NEW to \in Account, NEW v \in Amount, Call(kind, to, v)
    PROVE  Afloat'
  <1>1. phase = "running" /\ phase' = "running" /\ v <= state.balance[Top.addr]
    BY DEF Call, Running, Affordable
  <1>2. PICK S \in States : S = Flush(state, Top.addr, TopHost) /\ S.balance = state.balance
    BY <1>1, FlushTop
  <1>3. state' = Transfer(S, kind, Caller(kind), Target(kind, to), Value(kind, v))
    BY <1>2 DEF Call
  <1>4. \/ state' = S
        \/ state' = Move(S, Top.addr, to, v)
    BY <1>3 DEF Transfer, Caller, Target, Value
  <1>5. v \in Int /\ v >= 0 /\ Top.addr \in Account
    BY <1>1, Constants, TopFacts
  <1>6. Solvent(S)
    BY <1>2 DEF Afloat, Solvent
  <1>7. Solvent(state')
    BY <1>1, <1>2, <1>4, <1>5, <1>6, MoveFacts
  <1> QED BY <1>1, <1>7 DEF Afloat, Solvent

LEMMA CreateAfloat ==
    ASSUME IInv, Afloat, NEW new \in Account, NEW v \in Amount, Create(new, v)
    PROVE  Afloat'
  <1>1. phase = "running" /\ phase' = "running" /\ v <= state.balance[Top.addr]
    BY DEF Create, Running, Affordable
  <1>2. PICK S \in States : S = Flush(state, Top.addr, TopHost) /\ S.balance = state.balance
    BY <1>1, FlushTop
  <1>3. state' = Move(S, Top.addr, new, v)
    BY <1>2 DEF Create
  <1>4. v \in Int /\ v >= 0 /\ Top.addr \in Account
    BY <1>1, Constants, TopFacts
  <1>5. Solvent(S)
    BY <1>2 DEF Afloat, Solvent
  <1>6. Solvent(state')
    BY <1>1, <1>2, <1>3, <1>4, <1>5, MoveFacts
  <1> QED BY <1>1, <1>6 DEF Afloat, Solvent

\* The sender gets a balance that is not negative.
LEMMA SenderAfloat ==
    ASSUME NEW S \in States, Solvent(S), NEW x \in Int, x >= 0
    PROVE  Solvent([S EXCEPT !.balance[Sender] = x])
  BY Constants DEF Solvent, States

LEMMA BeginAfloat ==
    ASSUME IInv, Afloat, NEW to \in Account, NEW v \in Amount, NEW new \in BOOLEAN, Begin(to, v, new)
    PROVE  Afloat'
  <1>1. /\ phase = "ready" /\ to # Sender /\ v + Fee <= state.balance[Sender]
        /\ state \in States /\ state.balance = Balances
    BY DEF Begin, IInv, Types, Afloat
  <1>2. /\ v \in Int /\ v >= 0 /\ Fee \in Int /\ Fee >= 0 /\ Used \in Int /\ Used <= Fee
        /\ Sender \in Account /\ Balances \in [Account -> Int]
    BY PortAssumption
  <1>3. PICK b \in Int : b = state.balance[Sender]
    BY <1>1, <1>2
  <1>4. PICK x \in Int : x = b - Fee /\ x >= 0 /\ v <= x /\ b >= Fee
    BY <1>1, <1>2, <1>3
  <1>5. PICK S \in States : S = [state EXCEPT !.balance[Sender] = x]
    BY <1>1, SenderFacts
  <1>6. Solvent(S) /\ S.balance[Sender] = x
    <2>1. Solvent(S)
      BY <1>1, <1>4, <1>5, SenderAfloat DEF Afloat
    <2> QED BY <1>1, <1>2, <1>5, <2>1 DEF States
  <1>7. PICK T \in States : T = Move(S, Sender, to, v) /\ Solvent(T)
    BY <1>2, <1>4, <1>6, MoveFacts
  <1>8. Balances[Sender] >= Fee
    BY <1>1, <1>3, <1>4
  <1>9. CASE new \/ to \in state.coded
    <2>1. state' = T /\ phase' = "running"
      BY <1>3, <1>4, <1>5, <1>7, <1>9 DEF Begin
    <2> QED BY <1>7, <1>8, <2>1 DEF Afloat, Solvent
  <1>10. CASE ~ (new \/ to \in state.coded)
    <2>1. PICK y \in Int : y = T.balance[Sender] + Fee - Used
      BY <1>2 DEF States
    <2>2. y >= 0
      <3>1. PICK t \in Int : t = T.balance[Sender] /\ t >= 0
        BY <1>2, <1>7 DEF States, Solvent
      <3> QED BY <1>2, <2>1, <3>1
    <2>3. state' = [T EXCEPT !.balance[Sender] = y] /\ phase' = "ok"
      BY <1>3, <1>4, <1>5, <1>7, <1>10, <2>1 DEF Begin
    <2>4. Solvent(state')
      BY <1>7, <2>2, <2>3, SenderAfloat
    <2> QED BY <2>3, <2>4 DEF Afloat, Solvent
  <1> QED BY <1>9, <1>10

LEMMA FinishAfloat ==
    ASSUME IInv, Afloat, NEW heir \in Heir \cup {None}, Finish(heir)
    PROVE  Afloat'
  <1>1. phase = "running" /\ phase' = "ok"
    BY DEF Finish, Running
  <1>2. PICK F \in States : /\ F = Flush(state, Top.addr, TopHost) /\ F.balance = state.balance
                            /\ F.there = state.there /\ F.coded = state.coded
    BY <1>1, FlushTop
  <1>3. PICK S \in States : S = Deployed(F) /\ S.balance = F.balance /\ S.coded \subseteq S.there
    BY <1>1, <1>2, TopFacts, DeployedFacts DEF IInv, Shape
  <1>4. PICK dead \in Seq(Dead) : dead = Deaths(heir)
    BY <1>1, DeathsFacts
  <1>5. Solvent(S)
    BY <1>2, <1>3 DEF Afloat, Solvent
  <1>6. PICK E \in States : E = Bury(S, dead).state /\ Solvent(E)
    BY <1>3, <1>5, BuryFacts DEF Results
  <1>7. PICK t \in Int : t = E.balance[Sender] /\ t >= 0
    BY <1>6, Constants DEF States, Solvent
  <1>8. PICK y \in Int : y = t + Fee - Used /\ y >= 0
    BY <1>7, PortAssumption
  <1>9. state' = [E EXCEPT !.balance[Sender] = y]
    BY <1>2, <1>3, <1>4, <1>6, <1>7, <1>8 DEF Finish
  <1>10. Solvent(state')
    BY <1>6, <1>8, <1>9, SenderAfloat
  <1> QED BY <1>1, <1>10 DEF Afloat, Solvent

LEMMA UndoAfloat ==
    ASSUME IInv, Afloat, NEW outcome \in {"revert", "failure"}, Undo(outcome)
    PROVE  Afloat'
  <1>1. phase = "running" /\ phase' = outcome
    BY DEF Undo, Running
  <1>2. PICK S \in States : S = Flush(state, Top.addr, TopHost) /\ S.balance = state.balance
    BY <1>1, FlushTop
  <1>3. Fee \in Int /\ Used \in Int /\ Used <= Fee /\ Balances[Sender] \in Int
    BY PortAssumption
  <1>4. Balances[Sender] >= Fee
    BY <1>1 DEF Afloat
  <1>5. PICK back \in Int : /\ back = IF outcome = "revert" THEN Balances[Sender] - Used
                                      ELSE Balances[Sender] - Fee
                            /\ back >= 0
    BY <1>3, <1>4
  <1>6. state' = [S EXCEPT !.balance[Sender] = back]
    BY <1>2, <1>5 DEF Undo
  <1>7. Solvent(S)
    BY <1>2 DEF Afloat, Solvent
  <1>8. Solvent(state')
    BY <1>5, <1>6, <1>7, SenderAfloat
  <1> QED BY <1>1, <1>8 DEF Afloat, Solvent

\* No account is overdrawn in a block without double_spend_delegatecall: the
\* balance that caseCallSetup and do_apply have asked for is still there when
\* do_call_contract, do_create and do_apply subtract.
THEOREM NeverOverdrawn ==
    ASSUME ~DoubleSpend
    PROVE  Spec => []NoOverdraft
  <1>1. Init => Afloat
    BY InitAfloat
  <1>2. IInv /\ Afloat /\ [Next]_vars => Afloat'
    <2> SUFFICES ASSUME IInv, Afloat, [Next]_vars PROVE Afloat'
      OBVIOUS
    <2>1. CASE UNCHANGED vars
      BY <2>1 DEF vars, Afloat, Solvent
    <2>2. CASE \E to \in Account, v \in Amount, new \in BOOLEAN : Begin(to, v, new)
      BY <2>2, BeginAfloat
    <2>3. CASE \E s \in Slot : SLoad(s) \/ \E v \in Val : SStore(s, v)
      <3>1. phase = "running"
        BY <2>3 DEF SLoad, SStore, Running
      <3> QED BY <2>3, <3>1, StepsAfloat
    <2>4. CASE \E to \in Account, v \in Amount :
                  Create(to, v) \/ \E kind \in {"call", "callcode", "delegatecall"} : Call(kind, to, v)
      BY <2>4, CreateAfloat, CallAfloat
    <2>5. CASE \E heir \in Heir \cup {None} : Return(heir)
      <3>1. phase = "running"
        BY <2>5 DEF Return, Running
      <3> QED BY <2>5, <3>1, StepsAfloat
    <2>6. CASE \E heir \in Heir \cup {None} : Finish(heir)
      BY <2>6, FinishAfloat
    <2>7. CASE CreateCollides \/ Fail
      <3>1. phase = "running"
        BY <2>7 DEF CreateCollides, Fail, Running
      <3> QED BY <2>7, <3>1, StepsAfloat
    <2>8. CASE Undo("revert") \/ Undo("failure")
      BY <2>8, UndoAfloat
    <2> QED BY <2>1, <2>2, <2>3, <2>4, <2>5, <2>6, <2>7, <2>8 DEF Next
  <1>3. Afloat => NoOverdraft
    BY DEF Afloat, Solvent, NoOverdraft
  <1> QED BY <1>1, <1>2, <1>3, Invariance, PTL DEF Spec
=============================================================================
