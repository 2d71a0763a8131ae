-------------------------- MODULE AccountMapProofs --------------------------
(***************************************************************************)
(* Theorems about AccountMap for any numbers of maps, accounts, tries,     *)
(* fields and contents, where no live map is rebuilt (section 5 of the     *)
(* README): its state trie commits to its accounts, no two accounts have a *)
(* trie in common, and every handle is a value of its own.                 *)
(***************************************************************************)
EXTENDS AccountMap, FiniteSetTheorems, TLAPS

Row == [Addr -> Entry \cup {None}]
LeafRow == [Addr -> Leaf \cup {None}]

\* An entry has trie t.
Has(e, t) == e # None /\ e.tree = t

\* No map but m has trie t; no account but a of m has it.
Private(t, m) == \A n \in Map \ {m}, b \in Addr : ~Has(entries[n][b], t)
Alone(t, m, a) == Private(t, m) /\ \A b \in Addr \ {a} : ~Has(entries[m][b], t)

\* A handle that refers to no map holds nothing.
UnusedEmpty ==
    \A m \in Map \ used :
        entries[m] = NoEntries /\ trie[m] = NoEntries /\ frozen[m] = FALSE

\* NoSharedTrie of every handle, in use or not.
TriesApart ==
    \A m \in Map, a \in Addr, t \in Tree : Has(entries[m][a], t) => Alone(t, m, a)

IInv == TypeOK /\ TrieAgrees /\ UnusedEmpty /\ TriesApart

USE DEF Row, LeafRow

-----------------------------------------------------------------------------
(* Leaves and entries *)

LEMMA LeafType ==
    ASSUME NEW st \in [Tree -> Stor], NEW e \in Entry \cup {None}
    PROVE  /\ LeafOf(st, e) \in Leaf \cup {None}
           /\ e # None => StorageIn(st, e) \in Stor
           /\ LeafOf(st, e) = None <=> e = None
  BY ConstantsAssumption, NoneAssumption DEF LeafOf, StorageIn, Entry, Leaf

\* A leaf depends on the trie of its entry alone.
LEMMA LeafSame ==
    ASSUME NEW st, NEW su, NEW e,
           e # None /\ e.tree # None => st[e.tree] = su[e.tree]
    PROVE  LeafOf(st, e) = LeafOf(su, e)
  BY DEF LeafOf, StorageIn

LEMMA LiveEntry ==
    ASSUME NEW x \in Meta, NEW t \in Tree
    PROVE  /\ Live(x, t) \in Entry /\ Live(x, t) # None
           /\ Live(x, t).tree = t /\ Live(x, t).meta = x /\ Live(x, t).compact = None
  BY ConstantsAssumption, NoneAssumption DEF Live, Entry

\* What a trie released in SetEntries holds does not matter.
LEMMA Released ==
    ASSUME NEW es \in [Map -> Row], NEW st \in [Tree -> Stor], SetEntries(es, st)
    PROVE  /\ entries' = es
           /\ store' \in [Tree -> Stor]
           /\ \A n \in Map, b \in Addr, t \in Tree : Has(es[n][b], t) => store'[t] = st[t]
  BY ConstantsAssumption DEF SetEntries, Has

-----------------------------------------------------------------------------
(* One map gets another row of entries, and its tries other contents. *)

\* What a change of map m must respect: the tries of the new row are its own
\* and apart, and no other map's trie changes.
Separate(m, row, st) ==
    /\ \A b \in Addr, t \in Tree : Has(row[b], t) => Private(t, m)
    /\ \A b, c \in Addr, t \in Tree : Has(row[b], t) /\ Has(row[c], t) => b = c
    /\ \A t \in Tree : ~Private(t, m) => st[t] = store[t]

\* The entries and tries after the change.
Becomes(m, row, st) ==
    /\ entries' = [entries EXCEPT ![m] = row]
    /\ store' \in [Tree -> Stor]
    /\ \A n \in Map, b \in Addr, t \in Tree : Has(entries'[n][b], t) => store'[t] = st[t]

Leaves(st, row) == [b \in Addr |-> LeafOf(st, row[b])]

LEMMA RowChanged ==
    ASSUME IInv, NEW m \in Map, NEW row \in Row, NEW st \in [Tree -> Stor],
           Separate(m, row, st), Becomes(m, row, st)
    PROVE  /\ entries' \in [Map -> Row]
           /\ TriesApart'
           /\ \A n \in Map \ {m} : entries'[n] = entries[n] /\ Accounts(n)' = Accounts(n)
           /\ entries'[m] = row /\ Accounts(m)' = Leaves(st, row)
           /\ Leaves(st, row) \in LeafRow
  <1>1. entries \in [Map -> Row] /\ store \in [Tree -> Stor]
    BY DEF IInv, TypeOK
  <1>2. /\ entries' \in [Map -> Row]
        /\ entries'[m] = row
        /\ \A n \in Map \ {m} : entries'[n] = entries[n]
    BY <1>1 DEF Becomes
  <1>3. TriesApart'
    <2> SUFFICES ASSUME NEW n \in Map, NEW a \in Addr, NEW t \in Tree, Has(entries'[n][a], t),
                        NEW p \in Map, NEW b \in Addr, Has(entries'[p][b], t)
                 PROVE  p = n /\ b = a
      BY DEF TriesApart, Alone, Private, Has
    <2>1. CASE n = m /\ p = m
      BY <2>1, <1>2 DEF Separate
    <2>2. CASE n = m /\ p # m
      BY <2>2, <1>2 DEF Separate, Private
    <2>3. CASE n # m /\ p = m
      BY <2>3, <1>2 DEF Separate, Private
    <2>4. CASE n # m /\ p # m
      <3>1. Has(entries[n][a], t) /\ Has(entries[p][b], t)
        BY <2>4, <1>2
      <3> QED BY <3>1 DEF IInv, TriesApart, Alone, Private
    <2> QED BY <2>1, <2>2, <2>3, <2>4
  <1>4. ASSUME NEW n \in Map \ {m} PROVE Accounts(n)' = Accounts(n)
    <2>1. ASSUME NEW b \in Addr PROVE LeafOf(store', entries'[n][b]) = LeafOf(store, entries[n][b])
      <3>1. entries'[n][b] = entries[n][b] /\ entries[n][b] \in Entry \cup {None}
        BY <1>1, <1>2
      <3>2. ASSUME entries[n][b] # None, entries[n][b].tree # None
            PROVE  store'[entries[n][b].tree] = store[entries[n][b].tree]
        <4>1. entries[n][b].tree \in Tree
          BY <3>1, <3>2 DEF Entry
        <4>2. Has(entries[n][b], entries[n][b].tree)
          BY <3>2 DEF Has
        <4>3. store'[entries[n][b].tree] = st[entries[n][b].tree]
          BY <3>1, <4>1, <4>2 DEF Becomes
        <4>4. ~Private(entries[n][b].tree, m)
          BY <4>2 DEF Private
        <4> QED BY <4>1, <4>3, <4>4 DEF Separate
      <3> QED BY <3>1, <3>2, LeafSame
    <2> QED BY <2>1 DEF Accounts
  <1>5. Accounts(m)' = Leaves(st, row)
    <2>1. ASSUME NEW b \in Addr PROVE LeafOf(store', entries'[m][b]) = LeafOf(st, row[b])
      <3>1. entries'[m][b] = row[b] /\ row[b] \in Entry \cup {None}
        BY <1>2
      <3>2. ASSUME row[b] # None, row[b].tree # None PROVE store'[row[b].tree] = st[row[b].tree]
        <4>1. row[b].tree \in Tree
          BY <3>1, <3>2 DEF Entry
        <4>2. Has(entries'[m][b], row[b].tree)
          BY <3>1, <3>2 DEF Has
        <4> QED BY <4>1, <4>2 DEF Becomes
      <3> QED BY <3>1, <3>2, LeafSame
    <2> QED BY <2>1 DEF Accounts, Leaves
  <1>6. Leaves(st, row) \in LeafRow
    BY LeafType DEF Leaves
  <1> QED BY <1>2, <1>3, <1>4, <1>5, <1>6

-----------------------------------------------------------------------------
(* Changes that keep the invariant *)

\* Map m, in use after the step, gets row and its state trie becomes tr.  If m
\* is not torn, tr is what the row stands for.
LEMMA RowInv ==
    ASSUME IInv, NEW m \in Map, NEW row \in Row, NEW st \in [Tree -> Stor],
           Separate(m, row, st), Becomes(m, row, st),
           used' = used \cup {m}, frozen' = frozen, used' \in SUBSET Map,
           NEW tr \in LeafRow, trie' = [trie EXCEPT ![m] = tr],
           torn \subseteq torn', torn' \in SUBSET used',
           m \notin torn' => tr = Leaves(st, row)
    PROVE  /\ IInv'
           /\ \A n \in Map \ {m} : Accounts(n)' = Accounts(n)
           /\ Accounts(m)' = Leaves(st, row)
  <1>1. /\ entries' \in [Map -> Row]
        /\ TriesApart'
        /\ \A n \in Map \ {m} : entries'[n] = entries[n] /\ Accounts(n)' = Accounts(n)
        /\ Accounts(m)' = Leaves(st, row)
    BY RowChanged
  <1>2. /\ trie \in [Map -> LeafRow] /\ frozen \in [Map -> BOOLEAN]
        /\ trie' \in [Map -> LeafRow]
        /\ trie'[m] = tr /\ \A n \in Map \ {m} : trie'[n] = trie[n]
    BY DEF IInv, TypeOK
  <1>3. TypeOK'
    BY <1>1, <1>2 DEF TypeOK, Becomes
  <1>4. TrieAgrees'
    <2> SUFFICES ASSUME NEW n \in used' \ torn' PROVE trie'[n] = Accounts(n)'
      BY DEF TrieAgrees
    <2>1. CASE n = m
      BY <2>1, <1>1, <1>2
    <2>2. CASE n # m
      BY <2>2, <1>1, <1>2 DEF IInv, TrieAgrees
    <2> QED BY <2>1, <2>2
  <1>5. UnusedEmpty'
    BY <1>1, <1>2 DEF IInv, UnusedEmpty
  <1> QED BY <1>1, <1>3, <1>4, <1>5 DEF IInv

\* What e and st must be for the entry of a to become e.
Suits(m, a, e, st) ==
    /\ e \in Entry \cup {None} /\ st \in [Tree -> Stor]
    /\ \A u \in Tree : Has(e, u) => Alone(u, m, a)
    /\ \A u \in Tree : ~Alone(u, m, a) => st[u] = store[u]

\* The entry of one account becomes e, its leaf l.
EntryStep(m, a, e, st, l) ==
    /\ Suits(m, a, e, st)
    /\ SetEntries([entries EXCEPT ![m][a] = e], st)
    /\ used' = used /\ frozen' = frozen
    /\ l \in Leaf \cup {None} /\ trie' = [trie EXCEPT ![m][a] = l]
    /\ torn \subseteq torn' /\ torn' \in SUBSET used
    /\ m \notin torn' => l = LeafOf(st, e)

LEMMA EntryInv ==
    ASSUME IInv, NEW m \in used, NEW a \in Addr, NEW e, NEW st, NEW l, EntryStep(m, a, e, st, l)
    PROVE  /\ IInv'
           /\ \A n \in Map \ {m} : Accounts(n)' = Accounts(n)
           /\ Accounts(m)' = [Accounts(m) EXCEPT ![a] = LeafOf(st, e)]
  <1> DEFINE row == [entries[m] EXCEPT ![a] = e]
             tr == [trie[m] EXCEPT ![a] = l]
  <1>1. /\ m \in Map /\ used \in SUBSET Map /\ torn \in SUBSET used
        /\ entries \in [Map -> Row] /\ store \in [Tree -> Stor]
        /\ trie \in [Map -> LeafRow]
    BY DEF IInv, TypeOK
  <1>0. /\ e \in Entry \cup {None} /\ st \in [Tree -> Stor]
        /\ \A t \in Tree : Has(e, t) => Alone(t, m, a)
        /\ \A t \in Tree : ~Alone(t, m, a) => st[t] = store[t]
        /\ SetEntries([entries EXCEPT ![m][a] = e], st)
        /\ used' = used /\ frozen' = frozen
        /\ l \in Leaf \cup {None} /\ trie' = [trie EXCEPT ![m][a] = l]
        /\ torn \subseteq torn' /\ torn' \in SUBSET used
        /\ m \notin torn' => l = LeafOf(st, e)
    BY DEF EntryStep, Suits
  <1>2. row \in Row /\ tr \in LeafRow
    BY <1>0, <1>1
  <1>3. entries[m] \in Row /\ row[a] = e /\ \A b \in Addr \ {a} : row[b] = entries[m][b]
    BY <1>0, <1>1
  <1>4. /\ [entries EXCEPT ![m][a] = e] = [entries EXCEPT ![m] = row]
        /\ [trie EXCEPT ![m][a] = l] = [trie EXCEPT ![m] = tr]
    BY <1>1
  <1>5. Becomes(m, row, st)
    <2> DEFINE es == [entries EXCEPT ![m][a] = e]
    <2>1. es \in [Map -> Row] /\ es = [entries EXCEPT ![m] = row]
      BY <1>1, <1>2, <1>4
    <2>2. SetEntries(es, st)
      BY <1>0
    <2> HIDE DEF es, row
    <2>3. /\ entries' = es /\ store' \in [Tree -> Stor]
          /\ \A n \in Map, b \in Addr, t \in Tree : Has(es[n][b], t) => store'[t] = st[t]
      BY <1>0, <2>1, <2>2, Released
    <2> QED BY <2>1, <2>3 DEF Becomes
  <1>6. Separate(m, row, st)
    <2>1. ASSUME NEW b \in Addr, NEW t \in Tree, Has(row[b], t) PROVE Private(t, m)
      <3>1. CASE b = a
        BY <2>1, <3>1, <1>0, <1>3 DEF Alone
      <3>2. CASE b # a
        BY <2>1, <3>2, <1>1, <1>3 DEF IInv, TriesApart, Alone
      <3> QED BY <3>1, <3>2
    <2>2. ASSUME NEW b \in Addr, NEW c \in Addr, NEW t \in Tree, Has(row[b], t), Has(row[c], t)
          PROVE  b = c
      <3>1. CASE b = a \/ c = a
        BY <2>2, <3>1, <1>0, <1>3 DEF Alone
      <3>2. CASE b # a /\ c # a
        BY <2>2, <3>2, <1>1, <1>3 DEF IInv, TriesApart, Alone
      <3> QED BY <3>1, <3>2
    <2>3. ASSUME NEW t \in Tree, ~Private(t, m) PROVE st[t] = store[t]
      BY <1>0, <2>3 DEF Alone
    <2> QED BY <2>1, <2>2, <2>3 DEF Separate
  <1>7. \A b \in Addr \ {a} : LeafOf(st, row[b]) = LeafOf(store, entries[m][b])
    <2> SUFFICES ASSUME NEW b \in Addr \ {a}
                 PROVE  LeafOf(st, entries[m][b]) = LeafOf(store, entries[m][b])
      BY <1>3
    <2>1. ASSUME entries[m][b] # None, entries[m][b].tree # None
          PROVE  st[entries[m][b].tree] = store[entries[m][b].tree]
      <3>1. entries[m][b].tree \in Tree
        BY <2>1, <1>3 DEF Entry
      <3>2. ~Alone(entries[m][b].tree, m, a)
        BY <2>1 DEF Alone, Has
      <3> QED BY <1>0, <3>1, <3>2
    <2> QED BY <2>1, LeafSame
  <1>8. Leaves(st, row) = [Accounts(m) EXCEPT ![a] = LeafOf(st, e)]
    BY <1>3, <1>7 DEF Leaves, Accounts
  <1>9. ASSUME m \notin torn' PROVE tr = Leaves(st, row)
    <2>1. trie[m] = Accounts(m)
      BY <1>0, <1>9 DEF IInv, TrieAgrees
    <2> QED BY <1>0, <1>8, <1>9, <2>1
  <1>10. /\ used' = used \cup {m} /\ frozen' = frozen /\ used' \in SUBSET Map
         /\ torn' \in SUBSET used' /\ torn \subseteq torn'
    BY <1>0, <1>1
  <1> HIDE DEF row, tr
  <1>11. trie' = [trie EXCEPT ![m] = tr]
    BY <1>0, <1>4
  <1> QED BY <1>0, <1>1, <1>2, <1>5, <1>6, <1>8, <1>9, <1>10, <1>11, RowInv, ZenonT(40)

-----------------------------------------------------------------------------
(* The operations on one account *)

\* Map m alone may have changed, and not if it was frozen.
ChangesOnly(m) ==
    /\ m \in used /\ used' = used /\ frozen' = frozen
    /\ frozen[m] => Accounts(m)' = Accounts(m)
    /\ \A n \in Map \ {m} : Accounts(n)' = Accounts(n)

LEMMA FreshIsAlone ==
    ASSUME NEW m \in Map, NEW a \in Addr, NEW t, Fresh(t)
    PROVE  Private(t, m) /\ Alone(t, m, a)
  BY DEF Fresh, Private, Alone, Has

\* A live entry whose trie is fresh, or the one the account has.
LEMMA LiveSuits ==
    ASSUME IInv, NEW m \in Map, NEW a \in Addr, NEW e \in Entry, NEW t \in Tree, NEW v \in Stor,
           e.tree = t, Fresh(t) \/ Has(entries[m][a], t)
    PROVE  Suits(m, a, e, [store EXCEPT ![t] = v])
  <1>1. Alone(t, m, a)
    BY FreshIsAlone DEF IInv, TriesApart
  <1>2. store \in [Tree -> Stor]
    BY DEF IInv, TypeOK
  <1> QED BY <1>1, <1>2 DEF Suits, Has

\* An entry with the trie the account has, or none.
LEMMA KeptSuits ==
    ASSUME IInv, NEW m \in Map, NEW a \in Addr, NEW e \in Entry \cup {None},
           \A u \in Tree : Has(e, u) => Has(entries[m][a], u)
    PROVE  Suits(m, a, e, store)
  BY DEF Suits, IInv, TypeOK, TriesApart

LEMMA CommitInv ==
    ASSUME IInv, NEW m \in used, ~frozen[m], NEW a \in Addr, NEW e, NEW st,
           Suits(m, a, e, st), Commit(m, a, e, st)
    PROVE  IInv' /\ ChangesOnly(m)
  <1>1. LeafOf(st, e) \in Leaf \cup {None}
    BY LeafType DEF Suits
  <1>2. EntryStep(m, a, e, st, LeafOf(st, e))
    BY <1>1 DEF EntryStep, Commit, IInv, TypeOK
  <1>3. IInv' /\ \A n \in Map \ {m} : Accounts(n)' = Accounts(n)
    BY <1>2, EntryInv
  <1> QED BY <1>2, <1>3 DEF ChangesOnly, EntryStep

\* The state trie is left alone.
LEMMA NoLeafInv ==
    ASSUME IInv, NEW m \in used, NEW a \in Addr, NEW e, NEW st, Suits(m, a, e, st),
           SetEntries([entries EXCEPT ![m][a] = e], st),
           used' = used, frozen' = frozen, trie' = trie,
           torn \subseteq torn', torn' \in SUBSET used,
           m \in torn' \/ LeafOf(st, e) = LeafOf(store, entries[m][a])
    PROVE  /\ IInv'
           /\ \A n \in Map \ {m} : Accounts(n)' = Accounts(n)
           /\ Accounts(m)' = [Accounts(m) EXCEPT ![a] = LeafOf(st, e)]
  <1>1. m \in Map /\ trie \in [Map -> LeafRow]
    BY DEF IInv, TypeOK
  <1> DEFINE l == trie[m][a]
  <1>2. l \in Leaf \cup {None} /\ trie' = [trie EXCEPT ![m][a] = l]
    BY <1>1
  <1>3. ASSUME m \notin torn' PROVE l = LeafOf(st, e)
    BY <1>3 DEF IInv, TrieAgrees, Accounts
  <1>4. EntryStep(m, a, e, st, l)
    <2> HIDE DEF l
    <2> QED BY <1>2, <1>3 DEF EntryStep
  <1> QED BY <1>4, EntryInv

LEMMA PutKeepInv ==
    ASSUME IInv, NEW m \in Map, NEW a \in Addr, NEW x \in Meta, NEW t \in Tree, PutKeep(m, a, x, t)
    PROVE  IInv' /\ ChangesOnly(m)
  <1> DEFINE e == entries[m][a]
  <1>1. m \in used /\ ~frozen[m] /\ e # None /\ e \in Entry
    BY DEF PutKeep, Writable, IInv, TypeOK
  <1>2. CASE e.tree = None /\ e.compact = None
    <2>1. Fresh(t) /\ Commit(m, a, Live(x, t), [store EXCEPT ![t] = ZeroStor])
      BY <1>2 DEF PutKeep, Built
    <2>2. Suits(m, a, Live(x, t), [store EXCEPT ![t] = ZeroStor])
      BY <2>1, LiveEntry, LiveSuits, ConstantsAssumption
    <2> QED BY <1>1, <2>1, <2>2, CommitInv
  <1>3. CASE ~(e.tree = None /\ e.compact = None)
    <2>1. Commit(m, a, [e EXCEPT !.meta = x], store)
      BY <1>3 DEF PutKeep
    <2>2. [e EXCEPT !.meta = x] \in Entry /\ [e EXCEPT !.meta = x].tree = e.tree
      BY <1>1 DEF Entry
    <2>3. Suits(m, a, [e EXCEPT !.meta = x], store)
      BY <1>1, <2>2, KeptSuits DEF Has
    <2> QED BY <1>1, <2>1, <2>3, CommitInv
  <1> QED BY <1>2, <1>3

LEMMA PutListInv ==
    ASSUME IInv, NEW m \in Map, NEW a \in Addr, NEW x \in Meta, NEW v \in Stor, NEW t \in Tree,
           PutList(m, a, x, v, t)
    PROVE  IInv' /\ ChangesOnly(m)
  <1>1. /\ m \in used /\ ~frozen[m] /\ Fresh(t)
        /\ Commit(m, a, Live(x, t), [store EXCEPT ![t] = v])
    BY DEF PutList, Writable, Built
  <1>2. Suits(m, a, Live(x, t), [store EXCEPT ![t] = v])
    BY <1>1, LiveEntry, LiveSuits
  <1> QED BY <1>1, <1>2, CommitInv

LEMMA DeleteInv ==
    ASSUME IInv, NEW m \in Map, NEW a \in Addr, Delete(m, a)
    PROVE  IInv' /\ ChangesOnly(m)
  <1>1. m \in used /\ ~frozen[m] /\ Commit(m, a, None, store)
    BY DEF Delete, Writable
  <1>2. Suits(m, a, None, store)
    BY KeptSuits DEF Has
  <1> QED BY <1>1, <1>2, CommitInv

\* Written gives a live entry whose trie is the account's or fresh.
LEMMA WrittenSuits ==
    ASSUME IInv, NEW m \in Map, NEW a \in Addr, NEW v \in Stor, NEW t \in Tree,
           NeedsTrie(entries[m][a]) => Fresh(t)
    PROVE  LET e == Written(entries[m][a], t)
           IN  Suits(m, a, e, [store EXCEPT ![e.tree] = v])
  <1> DEFINE o == entries[m][a]
             e == Written(o, t)
  <1>1. o \in Entry \cup {None}
    BY DEF IInv, TypeOK
  <1>2. CASE NeedsTrie(o)
    <2>1. e \in Entry /\ e.tree = t
      BY <1>1, <1>2, LiveEntry, ConstantsAssumption DEF Written, NeedsTrie, Entry
    <2> QED BY <1>2, <2>1, LiveSuits
  <1>3. CASE ~NeedsTrie(o)
    <2>1. e \in Entry /\ e.tree \in Tree /\ Has(o, e.tree)
      BY <1>1, <1>3 DEF Written, NeedsTrie, Entry, Has
    <2> QED BY <2>1, LiveSuits
  <1> QED BY <1>2, <1>3

LEMMA StoragePutInv ==
    ASSUME IInv, NEW m \in Map, NEW a \in Addr, NEW v \in Stor, NEW t \in Tree,
           StoragePut(m, a, v, t)
    PROVE  IInv' /\ ChangesOnly(m)
  <1> DEFINE e == Written(entries[m][a], t)
  <1>1. /\ m \in used /\ ~frozen[m]
        /\ Commit(m, a, e, [store EXCEPT ![e.tree] = v])
        /\ NeedsTrie(entries[m][a]) => Fresh(t)
    BY DEF StoragePut, Writable
  <1>2. Suits(m, a, e, [store EXCEPT ![e.tree] = v])
    BY <1>1, WrittenSuits
  <1> HIDE DEF e
  <1> QED BY <1>1, <1>2, CommitInv

LEMMA StoragePutFailsInv ==
    ASSUME IInv, NEW m \in Map, NEW a \in Addr, NEW v \in Stor, NEW t \in Tree,
           StoragePutFails(m, a, v, t)
    PROVE  /\ IInv' /\ ChangesOnly(m)
           /\ \A b \in Addr \ {a} : Accounts(m)'[b] = Accounts(m)[b]
  <1> DEFINE e == Written(entries[m][a], t)
             st == [store EXCEPT ![e.tree] = v]
  <1>1. /\ m \in used /\ ~frozen[m]
        /\ SetEntries([entries EXCEPT ![m][a] = e], st)
        /\ NeedsTrie(entries[m][a]) => Fresh(t)
        /\ torn' = torn \cup {m} /\ used' = used /\ trie' = trie /\ frozen' = frozen
    BY DEF StoragePutFails, Writable
  <1>2. Suits(m, a, e, st)
    BY <1>1, WrittenSuits
  <1>3. torn' \in SUBSET used
    BY <1>1 DEF IInv, TypeOK
  <1> HIDE DEF e, st
  <1>4. /\ IInv'
        /\ \A n \in Map \ {m} : Accounts(n)' = Accounts(n)
        /\ Accounts(m)' = [Accounts(m) EXCEPT ![a] = LeafOf(st, e)]
    BY <1>1, <1>2, <1>3, NoLeafInv
  <1> QED BY <1>1, <1>4 DEF ChangesOnly, Accounts

LEMMA MaterializeInv ==
    ASSUME IInv, NEW m \in Map, NEW a \in Addr, NEW t \in Tree, Materialize(m, a, t)
    PROVE  IInv' /\ ChangesOnly(m)
  <1> DEFINE o == entries[m][a]
             e == Live(o.meta, t)
             v == StorageIn(store, o)
             st == [store EXCEPT ![t] = v]
  <1>1. /\ m \in used /\ o # None /\ Fresh(t)
        /\ SetEntries([entries EXCEPT ![m][a] = e], st)
        /\ used' = used /\ trie' = trie /\ frozen' = frozen /\ torn' = torn
    BY DEF Materialize, Built
  <1>2. /\ o \in Entry /\ store \in [Tree -> Stor] /\ torn' \in SUBSET used
        /\ entries \in [Map -> Row]
    BY <1>1 DEF IInv, TypeOK
  <1>3. o.meta \in Meta /\ v \in Stor
    BY <1>1, <1>2, LeafType DEF Entry
  <1>4. e \in Entry /\ e.tree = t /\ e # None /\ e.meta = o.meta
    BY <1>3, LiveEntry
  <1>5. Suits(m, a, e, st)
    <2> HIDE DEF e, v
    <2> QED BY <1>1, <1>3, <1>4, LiveSuits
  <1>6. LeafOf(st, e) = LeafOf(store, o)
    <2>1. StorageIn(st, e) = v
      <3> HIDE DEF e, v
      <3> QED BY <1>2, <1>3, <1>4, ConstantsAssumption DEF StorageIn
    <2> HIDE DEF e, st
    <2> QED BY <1>1, <1>4, <2>1 DEF LeafOf
  <1> HIDE DEF e, st
  <1>7. /\ torn \subseteq torn' /\ torn' \in SUBSET used
        /\ LeafOf(st, e) = LeafOf(store, entries[m][a])
    BY <1>1, <1>2, <1>6
  <1>8. /\ IInv'
        /\ \A n \in Map \ {m} : Accounts(n)' = Accounts(n)
        /\ Accounts(m)' = [Accounts(m) EXCEPT ![a] = LeafOf(st, e)]
    <2> HIDE DEF o
    <2> QED BY <1>1, <1>5, <1>7, NoLeafInv
  <1>9. Accounts(m)' = Accounts(m)
    BY <1>7, <1>8 DEF Accounts
  <1> QED BY <1>1, <1>8, <1>9 DEF ChangesOnly

-----------------------------------------------------------------------------
(* Handles that appear, are locked and go *)

\* Handle new comes into use with the accounts row.
Creates(new, row) ==
    /\ new \notin used /\ used' = used \cup {new}
    /\ frozen' = frozen /\ ~frozen[new]
    /\ Accounts(new)' = row
    /\ \A n \in Map \ {new} : Accounts(n)' = Accounts(n)

\* Handle new comes into use as a copy of m, whose trie is taken over or built
\* from the accounts.
Copies(m, new) ==
    /\ Creates(new, Accounts(m))
    /\ trie[m] = Accounts(m) => trie'[new] = Accounts(m)

LEMMA UnusedNothing ==
    ASSUME IInv, NEW m \in Map \ used
    PROVE  /\ ~frozen[m] /\ trie[m] = NoEntries /\ Accounts(m) = NoEntries
           /\ \A a \in Addr : entries[m][a] = None
  BY DEF IInv, UnusedEmpty, Accounts, LeafOf, NoEntries

LEMMA NewInv ==
    ASSUME IInv, NEW m \in Map, New(m)
    PROVE  IInv' /\ Creates(m, NoEntries)
  <1>1. /\ m \in Map \ used /\ used' = used \cup {m} /\ entries' = entries /\ trie' = trie
        /\ frozen' = frozen /\ store' = store /\ torn' = torn
    BY DEF New
  <1>2. \A n \in Map : Accounts(n)' = Accounts(n)
    BY <1>1 DEF Accounts
  <1>3. TypeOK' /\ UnusedEmpty' /\ TriesApart'
    BY <1>1 DEF IInv, TypeOK, UnusedEmpty, TriesApart, Alone, Private
  <1>4. TrieAgrees'
    BY <1>1, <1>2, UnusedNothing DEF IInv, TrieAgrees, TypeOK
  <1> QED BY <1>1, <1>2, <1>3, <1>4, UnusedNothing DEF IInv, Creates

LEMMA LockInv ==
    ASSUME IInv, NEW m \in Map, Lock(m)
    PROVE  IInv' /\ \A n \in Map : Accounts(n)' = Accounts(n)
  <1>1. /\ m \in used /\ frozen' = [frozen EXCEPT ![m] = TRUE]
        /\ used' = used /\ entries' = entries /\ trie' = trie /\ store' = store /\ torn' = torn
    BY DEF Lock
  <1>2. \A n \in Map : Accounts(n)' = Accounts(n)
    BY <1>1 DEF Accounts
  <1>3. TypeOK' /\ UnusedEmpty' /\ TriesApart' /\ TrieAgrees'
    BY <1>1, <1>2 DEF IInv, TypeOK, UnusedEmpty, TriesApart, Alone, Private, TrieAgrees
  <1> QED BY <1>2, <1>3 DEF IInv

LEMMA DropInv ==
    ASSUME IInv, NEW m \in Map, Drop(m)
    PROVE  /\ IInv'
           /\ \A n \in Map \ {m} : Accounts(n)' = Accounts(n)
  <1>1. /\ m \in used /\ used' = used \ {m}
        /\ SetEntries([entries EXCEPT ![m] = NoEntries], store)
        /\ trie' = [trie EXCEPT ![m] = NoEntries]
        /\ frozen' = [frozen EXCEPT ![m] = FALSE]
        /\ torn' = torn \ {m}
    BY DEF Drop
  <1>2. /\ used \in SUBSET Map /\ torn \in SUBSET used
        /\ entries \in [Map -> Row] /\ trie \in [Map -> LeafRow]
        /\ frozen \in [Map -> BOOLEAN] /\ store \in [Tree -> Stor]
    BY DEF IInv, TypeOK
  <1>3. NoEntries \in Row /\ NoEntries \in LeafRow
    BY DEF NoEntries
  <1>4. Becomes(m, NoEntries, store)
    <2> DEFINE es == [entries EXCEPT ![m] = NoEntries]
    <2>1. es \in [Map -> Row] /\ SetEntries(es, store)
      BY <1>1, <1>2, <1>3
    <2>2. es = [entries EXCEPT ![m] = NoEntries]
      OBVIOUS
    <2> HIDE DEF es
    <2>3. /\ entries' = es /\ store' \in [Tree -> Stor]
          /\ \A n \in Map, b \in Addr, t \in Tree : Has(es[n][b], t) => store'[t] = store[t]
      BY <1>2, <2>1, Released
    <2> QED BY <2>2, <2>3 DEF Becomes
  <1>5. Separate(m, NoEntries, store)
    BY DEF Separate, NoEntries, Has
  <1>6. /\ entries' \in [Map -> Row]
        /\ TriesApart'
        /\ \A n \in Map \ {m} : entries'[n] = entries[n] /\ Accounts(n)' = Accounts(n)
        /\ entries'[m] = NoEntries
    BY <1>2, <1>3, <1>4, <1>5, RowChanged
  <1>7. TypeOK'
    BY <1>1, <1>2, <1>3, <1>4, <1>6 DEF TypeOK, Becomes
  <1>8. TrieAgrees'
    BY <1>1, <1>2, <1>6 DEF IInv, TrieAgrees
  <1>9. UnusedEmpty'
    BY <1>1, <1>2, <1>6 DEF IInv, UnusedEmpty
  <1> QED BY <1>6, <1>7, <1>8, <1>9 DEF IInv

-----------------------------------------------------------------------------
(* Whole rows *)

\* Every trie of the row is one the account has in m or its share of f.
DrawnFrom(row, m, D, f) ==
    \A a \in Addr, t \in Tree :
        Has(row[a], t) => Has(entries[m][a], t) \/ (a \in D /\ t = f[a])

LEMMA DrawnApart ==
    ASSUME IInv, NEW m \in Map, NEW row, NEW D \in SUBSET Addr, NEW f \in FreshTries(D),
           DrawnFrom(row, m, D, f)
    PROVE  /\ \A b \in Addr, t \in Tree : Has(row[b], t) => Private(t, m)
           /\ \A b, c \in Addr, t \in Tree : Has(row[b], t) /\ Has(row[c], t) => b = c
  <1>1. /\ \A a \in D : f[a] \in Tree /\ Fresh(f[a])
        /\ \A a, b \in D : f[a] = f[b] => a = b
    BY DEF FreshTries, IsInjective
  <1>2. \A a \in D : Private(f[a], m) /\ \A b \in Addr : ~Has(entries[m][b], f[a])
    BY <1>1 DEF Fresh, Private, Has
  <1> QED BY <1>1, <1>2 DEF DrawnFrom, IInv, TriesApart, Alone

\* The row of a clone, and what the tries then hold.
CloneRow(m, f) ==
    [a \in Addr |-> IF a \in HasTree(m) THEN Live(entries[m][a].meta, f[a]) ELSE entries[m][a]]
CloneStore(m, f) ==
    [t \in Tree |->
        IF \E a \in HasTree(m) : f[a] = t
          THEN store[entries[m][CHOOSE a \in HasTree(m) : f[a] = t].tree]
          ELSE store[t]]

LEMMA CloneLeaves ==
    ASSUME IInv, NEW m \in Map, NEW f \in FreshTries(HasTree(m))
    PROVE  /\ CloneRow(m, f) \in Row /\ CloneStore(m, f) \in [Tree -> Stor]
           /\ Leaves(CloneStore(m, f), CloneRow(m, f)) = Accounts(m)
           /\ \A a \in Addr, t \in Tree :
                 Has(CloneRow(m, f)[a], t) => a \in HasTree(m) /\ t = f[a]
           /\ \A t \in Tree : ~Fresh(t) => CloneStore(m, f)[t] = store[t]
  <1> DEFINE D == HasTree(m)
             row == CloneRow(m, f)
             st == CloneStore(m, f)
  <1>1. /\ entries[m] \in Row /\ store \in [Tree -> Stor]
        /\ \A a \in D : a \in Addr /\ entries[m][a] \in Entry /\ entries[m][a].tree \in Tree
    BY DEF IInv, TypeOK, HasTree, Entry
  <1>2. /\ \A a \in D : f[a] \in Tree /\ Fresh(f[a])
        /\ \A a, b \in D : f[a] = f[b] => a = b
    BY DEF FreshTries, IsInjective
  <1>3. ASSUME NEW a \in D
        PROVE  /\ row[a] = Live(entries[m][a].meta, f[a])
               /\ row[a] \in Entry /\ row[a].tree = f[a] /\ row[a].meta = entries[m][a].meta
               /\ row[a] # None
    <2>1. entries[m][a].meta \in Meta
      BY <1>1 DEF Entry
    <2>2. row[a] = Live(entries[m][a].meta, f[a])
      BY <1>1 DEF CloneRow
    <2> QED BY <1>2, <2>1, <2>2, LiveEntry
  <1>4. ASSUME NEW a \in Addr \ D
        PROVE  /\ row[a] = entries[m][a] /\ row[a] \in Entry \cup {None}
               /\ row[a] # None => row[a].tree = None
    BY <1>1 DEF CloneRow, HasTree
  <1>5. row \in Row
    <2>1. \A a \in Addr : row[a] \in Entry \cup {None}
      BY <1>3, <1>4
    <2>2. row = [a \in Addr |-> row[a]]
      BY DEF CloneRow
    <2> HIDE DEF row
    <2> QED BY <2>1, <2>2
  <1>6. ASSUME NEW a \in D PROVE st[f[a]] = store[entries[m][a].tree]
    <2>1. (CHOOSE b \in D : f[b] = f[a]) = a
      BY <1>2
    <2> QED BY <1>2, <2>1 DEF CloneStore
  <1>7. st \in [Tree -> Stor]
    <2>1. ASSUME NEW t \in Tree PROVE st[t] \in Stor
      <3>1. CASE \E a \in D : f[a] = t
        BY <1>1, <1>6, <3>1
      <3>2. CASE ~\E a \in D : f[a] = t
        BY <1>1, <3>2 DEF CloneStore
      <3> QED BY <3>1, <3>2
    <2>2. st = [t \in Tree |-> st[t]]
      BY DEF CloneStore
    <2> HIDE DEF st
    <2> QED BY <2>1, <2>2
  <1>8. ASSUME NEW a \in Addr PROVE LeafOf(st, row[a]) = LeafOf(store, entries[m][a])
    <2>1. CASE a \in D
      <3>1. entries[m][a] # None /\ entries[m][a].tree # None
        BY <2>1 DEF HasTree
      <3>2. row[a].tree # None
        BY <1>2, <1>3, <2>1, ConstantsAssumption
      <3> HIDE DEF row, st
      <3> QED BY <1>3, <1>6, <2>1, <3>1, <3>2 DEF LeafOf, StorageIn
    <2>2. CASE a \notin D
      <3> HIDE DEF row, st
      <3> QED BY <1>4, <2>2, LeafSame
    <2> QED BY <2>1, <2>2
  <1>9. Leaves(st, row) = Accounts(m)
    BY <1>8 DEF Leaves, Accounts
  <1>10. ASSUME NEW a \in Addr, NEW t \in Tree, Has(row[a], t) PROVE a \in D /\ t = f[a]
    <2>1. row[a] # None /\ row[a].tree = t /\ t # None
      BY <1>10, ConstantsAssumption DEF Has
    <2> HIDE DEF row
    <2> QED BY <1>3, <1>4, <2>1
  <1>11. \A t \in Tree : ~Fresh(t) => st[t] = store[t]
    BY <1>2 DEF CloneStore
  <1> QED BY <1>5, <1>7, <1>9, <1>10, <1>11

LEMMA CloneInv ==
    ASSUME IInv, NEW m \in Map, NEW new \in Map, NEW f \in FreshTries(HasTree(m)), Clone(m, new, f)
    PROVE  IInv' /\ m \in used /\ Copies(m, new)
  <1> DEFINE row == CloneRow(m, f)
             st == CloneStore(m, f)
  <1>1. /\ m \in used /\ new \in Map \ used /\ used' = used \cup {new} /\ frozen' = frozen
        /\ entries' = [entries EXCEPT ![new] = row] /\ store' = st
        /\ trie' = [trie EXCEPT ![new] = trie[m]]
        /\ torn' = IF m \in torn THEN torn \cup {new} ELSE torn
    BY DEF Clone, CloneRow, CloneStore
  <1>2. /\ row \in Row /\ st \in [Tree -> Stor]
        /\ Leaves(st, row) = Accounts(m)
        /\ \A a \in Addr, t \in Tree : Has(row[a], t) => a \in HasTree(m) /\ t = f[a]
        /\ \A t \in Tree : ~Fresh(t) => st[t] = store[t]
    BY CloneLeaves
  <1>3. /\ used \in SUBSET Map /\ torn \in SUBSET used /\ trie[m] \in LeafRow
        /\ HasTree(m) \in SUBSET Addr
    BY DEF IInv, TypeOK, HasTree
  <1> HIDE DEF row, st
  <1>4. Separate(new, row, st)
    <2>1. DrawnFrom(row, new, HasTree(m), f)
      BY <1>2 DEF DrawnFrom
    <2>2. /\ \A b \in Addr, t \in Tree : Has(row[b], t) => Private(t, new)
          /\ \A b, c \in Addr, t \in Tree : Has(row[b], t) /\ Has(row[c], t) => b = c
      BY <1>3, <2>1, DrawnApart
    <2>3. \A t \in Tree : ~Private(t, new) => st[t] = store[t]
      BY <1>2 DEF Fresh, Private, Has
    <2> QED BY <2>2, <2>3 DEF Separate
  <1>5. Becomes(new, row, st)
    BY <1>1, <1>2 DEF Becomes
  <1>6. /\ used' \in SUBSET Map /\ torn \subseteq torn' /\ torn' \in SUBSET used'
    BY <1>1, <1>3
  <1>7. new \notin torn' => trie[m] = Leaves(st, row)
    BY <1>1, <1>2 DEF IInv, TrieAgrees
  <1>8. /\ IInv' /\ Accounts(new)' = Leaves(st, row)
        /\ \A n \in Map \ {new} : Accounts(n)' = Accounts(n)
    BY <1>1, <1>2, <1>3, <1>4, <1>5, <1>6, <1>7, RowInv
  <1>9. trie'[new] = trie[m]
    BY <1>1 DEF IInv, TypeOK
  <1> QED BY <1>1, <1>2, <1>8, <1>9, UnusedNothing DEF Creates, Copies

LEMMA UncompactStoredInv ==
    ASSUME IInv, NEW m \in Map, NEW new \in Map, UncompactStored(m, new)
    PROVE  IInv' /\ m \in used /\ Copies(m, new)
  <1> DEFINE row == [a \in Addr |-> Parsed(CompactForm(m, a))]
             tr == [a \in Addr |-> LeafOf(store, Parsed(CompactForm(m, a)))]
  <1>1. /\ m \in used /\ new \in Map \ used /\ used' = used \cup {new}
        /\ entries' = [entries EXCEPT ![new] = row]
        /\ trie' = [trie EXCEPT ![new] = tr]
        /\ frozen' = frozen /\ store' = store /\ torn' = torn
    BY DEF UncompactStored
  <1>2. /\ used \in SUBSET Map /\ torn \in SUBSET used
        /\ entries \in [Map -> Row] /\ store \in [Tree -> Stor]
    BY DEF IInv, TypeOK
  <1>3. ASSUME NEW a \in Addr
        PROVE  /\ row[a] \in Entry \cup {None}
               /\ row[a] # None => row[a].tree = None
               /\ LeafOf(store, row[a]) = LeafOf(store, entries[m][a])
               /\ LeafOf(store, row[a]) \in Leaf \cup {None}
    <2> DEFINE e == entries[m][a]
               v == StorageIn(store, e)
    <2>1. e \in Entry \cup {None}
      BY <1>2
    <2>2. CASE e = None
      BY <2>2 DEF CompactForm, Parsed, LeafOf
    <2>3. CASE e # None
      <3>1. e.meta \in Meta /\ v \in Stor
        BY <2>1, <2>3, <1>2, LeafType DEF Entry
      <3>2. row[a] = Parsed([meta |-> e.meta, storage |-> IF v = ZeroStor THEN None ELSE v])
        BY <2>3 DEF CompactForm
      <3> DEFINE form == [meta |-> e.meta, storage |-> IF v = ZeroStor THEN None ELSE v]
      <3>3. form \in [meta : Meta, storage : Stor \cup {None}]
        BY <3>1
      <3>4. form.meta = e.meta /\ form.storage = IF v = ZeroStor THEN None ELSE v
        OBVIOUS
      <3>5. form # None
        BY <3>3, NoneAssumption
      <3> HIDE DEF row, v, form
      <3>6. row[a] = [meta |-> e.meta, tree |-> None,
                      compact |-> IF v = ZeroStor THEN None ELSE v]
        BY <3>2, <3>4, <3>5 DEF Parsed, form
      <3>7. row[a] \in Entry
        BY <3>1, <3>6 DEF Entry
      <3>8. row[a] # None /\ row[a].tree = None /\ row[a].meta = e.meta
        BY <3>6, <3>7, NoneAssumption
      <3>9. StorageIn(store, row[a]) = v
        BY <3>1, <3>6, ConstantsAssumption DEF StorageIn
      <3>10. LeafOf(store, row[a]) = LeafOf(store, e)
        BY <2>3, <3>8, <3>9 DEF LeafOf, v
      <3> QED BY <1>2, <3>7, <3>8, <3>10, LeafType
    <2> QED BY <2>2, <2>3
  <1>4. row \in Row /\ tr \in LeafRow
    BY <1>3
  <1>5. tr = Leaves(store, row)
    BY DEF Leaves
  <1>6. Leaves(store, row) = Accounts(m)
    <2> HIDE DEF row
    <2> QED BY <1>3 DEF Leaves, Accounts
  <1> HIDE DEF row, tr
  <1>7. Separate(new, row, store)
    BY <1>3, ConstantsAssumption DEF Separate, Has
  <1>8. Becomes(new, row, store)
    BY <1>1, <1>2 DEF Becomes
  <1>9. used' \in SUBSET Map /\ torn \subseteq torn' /\ torn' \in SUBSET used'
    BY <1>1, <1>2
  <1>10. /\ IInv' /\ Accounts(new)' = Leaves(store, row)
         /\ \A n \in Map \ {new} : Accounts(n)' = Accounts(n)
    BY <1>1, <1>2, <1>4, <1>5, <1>7, <1>8, <1>9, RowInv
  <1>11. trie'[new] = Accounts(m)
    BY <1>1, <1>5, <1>6 DEF IInv, TypeOK
  <1> QED BY <1>1, <1>6, <1>10, <1>11, UnusedNothing DEF Creates, Copies

-----------------------------------------------------------------------------
(* Applying a delta *)

Reports(d) ==
    /\ DOMAIN d \in SUBSET Addr
    /\ \A a \in DOMAIN d : d[a].from \in Meta \X Stor /\ d[a].to \in Meta \X Stor

\* Accounts that must get a trie.
Needy(m, d) == {a \in DOMAIN d : NeedsTrie(entries[m][a])}

LEMMA DifferenceReports ==
    ASSUME IInv, NEW m \in Map, NEW n \in Map
    PROVE  Reports(Difference(m, n))
  <1>1. entries \in [Map -> Row] /\ store \in [Tree -> Stor]
    BY DEF IInv, TypeOK
  <1>2. ASSUME NEW e \in Entry \cup {None} PROVE Side(e) \in Meta \X Stor
    BY <1>1, <1>2, LeafType, ConstantsAssumption DEF Side, SideFields, SideStorage, Entry
  <1>3. Reported(m, n) \in SUBSET Addr
    BY DEF Reported
  <1> QED BY <1>1, <1>2, <1>3 DEF Reports, Difference

LEMMA ChangedType ==
    ASSUME NEW acct \in Leaf \cup {None}, NEW r, r.from \in Meta \X Stor, r.to \in Meta \X Stor
    PROVE  Changed(acct, r)[1] \in Meta /\ Changed(acct, r)[2] \in Stor
  BY ConstantsAssumption DEF Changed, OrZero, Leaf

LEMMA UpdatedDrawn ==
    ASSUME IInv, NEW m \in Map, NEW d, Reports(d), NEW f \in FreshTries(Needy(m, d)),
           NEW a \in DOMAIN d
    PROVE  LET u == Updated(m, a, d[a], f[a])
           IN  /\ u \in Entry
               /\ \A t \in Tree : Has(u, t) =>
                     Has(entries[m][a], t) \/ (a \in Needy(m, d) /\ t = f[a])
  <1> DEFINE o == entries[m][a]
             x == Changed(Accounts(m)[a], d[a])[1]
             u == Updated(m, a, d[a], f[a])
  <1>1. a \in Addr /\ o \in Entry \cup {None} /\ store \in [Tree -> Stor]
    BY DEF Reports, IInv, TypeOK
  <1>2. Accounts(m)[a] \in Leaf \cup {None}
    BY <1>1, LeafType DEF Accounts
  <1>3. x \in Meta
    BY <1>2, ChangedType DEF Reports
  <1>4. /\ u \in Entry
        /\ \A t \in Tree : Has(u, t) => Has(o, t) \/ (a \in Needy(m, d) /\ t = f[a])
    <2>1. CASE NeedsTrie(o)
      <3>1. a \in Needy(m, d) /\ f[a] \in Tree
        BY <2>1 DEF Needy, FreshTries
      <3>2. u = Live(x, f[a]) \/ (o # None /\ o.tree = None /\ u = [o EXCEPT !.meta = x])
        BY <1>1, <2>1 DEF Updated, NeedsTrie
      <3> HIDE DEF o, x, u
      <3>3. CASE u = Live(x, f[a])
        BY <1>3, <3>1, <3>3, LiveEntry DEF Has
      <3>4. CASE o # None /\ o.tree = None /\ u = [o EXCEPT !.meta = x]
        BY <1>1, <1>3, <3>4, ConstantsAssumption DEF Has, Entry
      <3> QED BY <3>2, <3>3, <3>4
    <2>2. CASE ~NeedsTrie(o)
      <3>1. o # None /\ o.tree # None
        BY <2>2 DEF NeedsTrie
      <3>2. u = [o EXCEPT !.meta = x]
        BY <3>1 DEF Updated
      <3> HIDE DEF o, x, u
      <3> QED BY <1>1, <1>3, <3>1, <3>2 DEF Has, Entry
    <2> QED BY <2>1, <2>2
  <1> QED BY <1>4

LEMMA UpdatedStoreType ==
    ASSUME IInv, NEW m \in Map, NEW d, Reports(d), NEW f, NEW S \in SUBSET (DOMAIN d)
    PROVE  /\ UpdatedStore(m, d, S, f) \in [Tree -> Stor]
           /\ \A t \in Tree : (\A a \in S : Updated(m, a, d[a], f[a]).tree # t)
                                 => UpdatedStore(m, d, S, f)[t] = store[t]
  <1> DEFINE st == UpdatedStore(m, d, S, f)
  <1>1. /\ entries \in [Map -> Row] /\ store \in [Tree -> Stor]
        /\ DOMAIN d \in SUBSET Addr
    BY DEF Reports, IInv, TypeOK
  <1>2. ASSUME NEW a \in DOMAIN d PROVE Changed(Accounts(m)[a], d[a])[2] \in Stor
    <2>1. Accounts(m)[a] \in Leaf \cup {None}
      BY <1>1, LeafType DEF Accounts
    <2> QED BY <2>1, ChangedType DEF Reports
  <1>3. ASSUME NEW t \in Tree PROVE st[t] \in Stor
    <2>1. CASE \E a \in S : Updated(m, a, d[a], f[a]).tree = t
      <3> DEFINE c == CHOOSE b \in S : Updated(m, b, d[b], f[b]).tree = t
      <3>1. c \in S /\ st[t] = Changed(Accounts(m)[c], d[c])[2]
        BY <2>1 DEF UpdatedStore
      <3> HIDE DEF c, st
      <3> QED BY <1>2, <3>1
    <2>2. CASE ~\E a \in S : Updated(m, a, d[a], f[a]).tree = t
      BY <1>1, <2>2 DEF UpdatedStore
    <2> QED BY <2>1, <2>2
  <1>4. st = [t \in Tree |-> st[t]]
    BY DEF UpdatedStore
  <1>5. \A t \in Tree : (\A a \in S : Updated(m, a, d[a], f[a]).tree # t) => st[t] = store[t]
    BY DEF UpdatedStore
  <1> HIDE DEF st
  <1>6. st \in [Tree -> Stor]
    BY <1>3, <1>4
  <1> QED BY <1>5, <1>6 DEF st

LEMMA ApplyDifferenceInv ==
    ASSUME IInv, NEW m \in Map, NEW d, Reports(d), NEW f \in FreshTries(Needy(m, d)),
           ApplyDifference(m, d, f)
    PROVE  IInv' /\ ChangesOnly(m)
  <1> DEFINE S == DOMAIN d
             held == UpdatedStore(m, d, S, f)
             moved == [a \in Addr |-> IF a \in S THEN Updated(m, a, d[a], f[a])
                                      ELSE entries[m][a]]
             tr == [a \in Addr |-> IF a \in S THEN LeafOf(held, moved[a]) ELSE trie[m][a]]
  <1>1. /\ m \in used /\ ~frozen[m]
        /\ SetEntries([entries EXCEPT ![m] = moved], held)
        /\ trie' = [trie EXCEPT ![m] = tr]
        /\ used' = used /\ frozen' = frozen /\ torn' = torn
    BY DEF ApplyDifference, Writable
  <1>2. /\ used \in SUBSET Map /\ torn \in SUBSET used /\ S \in SUBSET Addr
        /\ entries \in [Map -> Row] /\ trie \in [Map -> LeafRow] /\ store \in [Tree -> Stor]
    BY DEF IInv, TypeOK, Reports
  <1>3. \A a \in S :
           /\ moved[a] = Updated(m, a, d[a], f[a])
           /\ moved[a] \in Entry
           /\ \A t \in Tree : Has(moved[a], t) =>
                 Has(entries[m][a], t) \/ (a \in Needy(m, d) /\ t = f[a])
    BY <1>2, UpdatedDrawn
  <1>4. \A a \in Addr \ S : moved[a] = entries[m][a]
    OBVIOUS
  <1>5. moved \in Row
    <2>1. \A a \in Addr : moved[a] \in Entry \cup {None}
      BY <1>2, <1>3, <1>4, ZenonT(40)
    <2>2. moved = [a \in Addr |-> moved[a]]
      OBVIOUS
    <2> HIDE DEF moved
    <2> QED BY <2>1, <2>2
  <1>6. /\ held \in [Tree -> Stor]
        /\ \A t \in Tree : (\A a \in S : moved[a].tree # t) => held[t] = store[t]
    <2>1. /\ held \in [Tree -> Stor]
          /\ \A t \in Tree : (\A a \in S : Updated(m, a, d[a], f[a]).tree # t)
                                => held[t] = store[t]
      BY UpdatedStoreType
    <2> HIDE DEF moved, held
    <2> QED BY <1>3, <2>1
  <1> HIDE DEF moved, held
  <1>7. /\ \A b \in Addr, t \in Tree : Has(moved[b], t) => Private(t, m)
        /\ \A b, c \in Addr, t \in Tree : Has(moved[b], t) /\ Has(moved[c], t) => b = c
    <2>1. DrawnFrom(moved, m, Needy(m, d), f)
      BY <1>3, <1>4 DEF DrawnFrom
    <2>2. Needy(m, d) \in SUBSET Addr
      BY <1>2 DEF Needy
    <2> QED BY <2>1, <2>2, DrawnApart
  <1>8. Separate(m, moved, held)
    <2>1. ASSUME NEW t \in Tree, ~Private(t, m) PROVE held[t] = store[t]
      <3>1. \A a \in S : moved[a].tree # t
        BY <1>2, <1>3, <1>7, <2>1, NoneAssumption DEF Has
      <3> QED BY <1>6, <3>1
    <2> QED BY <1>7, <2>1 DEF Separate
  <1>9. Becomes(m, moved, held)
    <2> DEFINE es == [entries EXCEPT ![m] = moved]
    <2>1. es \in [Map -> Row] /\ SetEntries(es, held)
      BY <1>1, <1>2, <1>5
    <2>2. es = [entries EXCEPT ![m] = moved]
      OBVIOUS
    <2> HIDE DEF es
    <2>3. /\ entries' = es /\ store' \in [Tree -> Stor]
          /\ \A n \in Map, b \in Addr, t \in Tree : Has(es[n][b], t) => store'[t] = held[t]
      BY <1>6, <2>1, Released
    <2> QED BY <2>2, <2>3 DEF Becomes
  <1>10. ASSUME NEW a \in Addr \ S PROVE LeafOf(held, moved[a]) = LeafOf(store, entries[m][a])
    <2>1. ASSUME entries[m][a] # None, entries[m][a].tree # None
          PROVE  held[entries[m][a].tree] = store[entries[m][a].tree]
      <3> DEFINE t == entries[m][a].tree
      <3>1. t \in Tree
        BY <1>2, <2>1 DEF Entry
      <3>2. Has(moved[a], t)
        BY <1>4, <2>1 DEF Has
      <3>3. ASSUME NEW b \in S PROVE moved[b].tree # t
        <4>1. moved[b] # None /\ b # a /\ b \in Addr
          BY <1>2, <1>3, <3>3, NoneAssumption
        <4> QED BY <1>7, <3>1, <3>2, <4>1 DEF Has
      <3> QED BY <1>6, <3>1, <3>3
    <2> QED BY <1>4, <2>1, LeafSame
  <1>11. tr \in LeafRow
    <2>1. ASSUME NEW a \in Addr PROVE LeafOf(held, moved[a]) \in Leaf \cup {None}
      BY <1>5, <1>6, LeafType
    <2> QED BY <1>2, <2>1
  <1>12. ASSUME m \notin torn' PROVE tr = Leaves(held, moved)
    <2>1. trie[m] = Accounts(m)
      BY <1>1, <1>12 DEF IInv, TrieAgrees
    <2> QED BY <1>10, <2>1 DEF Leaves, Accounts
  <1> HIDE DEF tr
  <1>13. /\ used' = used \cup {m} /\ used' \in SUBSET Map
         /\ torn \subseteq torn' /\ torn' \in SUBSET used'
    BY <1>1, <1>2
  <1>14. IInv' /\ \A n \in Map \ {m} : Accounts(n)' = Accounts(n)
    BY <1>1, <1>5, <1>6, <1>8, <1>9, <1>11, <1>12, <1>13, RowInv
  <1> QED BY <1>1, <1>14 DEF ChangesOnly

LEMMA MismatchDrawn ==
    ASSUME IInv, NEW m \in Map, NEW d, Reports(d), NEW f \in FreshTries(Needy(m, d)),
           NEW bad \in DOMAIN d, NEW x \in Meta
    PROVE  LET e == MismatchEntry(m, bad, d[bad], f[bad], x)
           IN  /\ e \in Entry
               /\ \A t \in Tree : Has(e, t) =>
                     Has(entries[m][bad], t) \/ (bad \in Needy(m, d) /\ t = f[bad])
  <1> DEFINE o == entries[m][bad]
             e == MismatchEntry(m, bad, d[bad], f[bad], x)
  <1>1. bad \in Addr /\ o \in Entry \cup {None}
    BY DEF Reports, IInv, TypeOK
  <1>2. PICK b : ((o # None /\ b = o) \/ b = Written(o, f[bad])) /\ e = [b EXCEPT !.meta = x]
    BY DEF MismatchEntry
  <1>3. /\ b \in Entry
        /\ \A t \in Tree : b.tree = t => Has(o, t) \/ (bad \in Needy(m, d) /\ t = f[bad])
    <2>1. CASE NeedsTrie(o)
      <3>1. bad \in Needy(m, d) /\ f[bad] \in Tree
        BY <2>1 DEF Needy, FreshTries
      <3>2. CASE b = Written(o, f[bad])
        <4>1. Written(o, f[bad]) \in Entry /\ Written(o, f[bad]).tree = f[bad]
          BY <1>1, <2>1, <3>1, LiveEntry, ConstantsAssumption DEF Written, NeedsTrie, Entry
        <4> QED BY <3>1, <3>2, <4>1
      <3>3. CASE o # None /\ b = o
        BY <1>1, <3>3 DEF Has
      <3> QED BY <1>2, <3>2, <3>3
    <2>2. CASE ~NeedsTrie(o)
      <3>1. o # None /\ o \in Entry /\ b = o
        BY <1>1, <1>2, <2>2 DEF NeedsTrie, Written
      <3> QED BY <3>1 DEF Has
    <2> QED BY <2>1, <2>2
  <1>4. e \in Entry /\ e.tree = b.tree
    <2> HIDE DEF e
    <2> QED BY <1>2, <1>3 DEF Entry
  <1>5. \A t \in Tree : Has(e, t) => Has(o, t) \/ (bad \in Needy(m, d) /\ t = f[bad])
    <2> HIDE DEF e, o
    <2> QED BY <1>3, <1>4 DEF Has
  <1> QED BY <1>4, <1>5

LEMMA ApplyMismatchInv ==
    ASSUME IInv, NEW m \in Map, NEW d, Reports(d), NEW f \in FreshTries(Needy(m, d)),
           NEW done \in SUBSET (DOMAIN d), NEW bad \in DOMAIN d, NEW x \in Meta, NEW y \in Stor,
           ApplyMismatch(m, d, f, done, bad, x, y)
    PROVE  /\ IInv' /\ ChangesOnly(m) /\ torn' = torn \cup {m}
           /\ m \notin torn => \A b \in Addr \ {bad} : trie'[m][b] = Accounts(m)'[b]
  <1> DEFINE e == MismatchEntry(m, bad, d[bad], f[bad], x)
             held == UpdatedStore(m, d, done, f)
             st == [t \in Tree |-> IF t = e.tree THEN y ELSE held[t]]
             row == [a \in Addr |-> IF a \in done THEN Updated(m, a, d[a], f[a])
                                    ELSE IF a = bad THEN e ELSE entries[m][a]]
             tr == [a \in Addr |-> IF a \in done THEN LeafOf(held, Updated(m, a, d[a], f[a]))
                                   ELSE trie[m][a]]
  <1>1. /\ m \in used /\ ~frozen[m] /\ bad \notin done
        /\ entries' = [entries EXCEPT ![m] = row] /\ store' = st
        /\ trie' = [trie EXCEPT ![m] = tr]
        /\ used' = used /\ frozen' = frozen /\ torn' = torn \cup {m}
    BY DEF ApplyMismatch, MismatchAt, Writable
  <1>2. /\ used \in SUBSET Map /\ torn \in SUBSET used /\ DOMAIN d \in SUBSET Addr
        /\ entries \in [Map -> Row] /\ trie \in [Map -> LeafRow] /\ store \in [Tree -> Stor]
    BY DEF IInv, TypeOK, Reports
  <1>3. /\ \A a \in done : row[a] = Updated(m, a, d[a], f[a])
        /\ row[bad] = e
        /\ \A a \in Addr \ done : a # bad => row[a] = entries[m][a]
    BY <1>1, <1>2
  <1>4. \A a \in done \cup {bad} :
           /\ row[a] \in Entry
           /\ \A t \in Tree : Has(row[a], t) =>
                 Has(entries[m][a], t) \/ (a \in Needy(m, d) /\ t = f[a])
    <2>1. \A a \in done :
             /\ Updated(m, a, d[a], f[a]) \in Entry
             /\ \A t \in Tree : Has(Updated(m, a, d[a], f[a]), t) =>
                   Has(entries[m][a], t) \/ (a \in Needy(m, d) /\ t = f[a])
      BY UpdatedDrawn
    <2>2. /\ e \in Entry
          /\ \A t \in Tree : Has(e, t) =>
                Has(entries[m][bad], t) \/ (bad \in Needy(m, d) /\ t = f[bad])
      BY MismatchDrawn
    <2> HIDE DEF row, e
    <2> QED BY <1>3, <2>1, <2>2
  <1>5. row \in Row
    <2>1. row = [a \in Addr |-> row[a]]
      OBVIOUS
    <2> HIDE DEF row, e
    <2>2. \A a \in Addr : row[a] \in Entry \cup {None}
      BY <1>2, <1>3, <1>4
    <2> QED BY <2>1, <2>2
  <1>6. /\ held \in [Tree -> Stor]
        /\ \A t \in Tree : (\A a \in done : row[a].tree # t) => held[t] = store[t]
    <2>1. /\ held \in [Tree -> Stor]
          /\ \A t \in Tree : (\A a \in done : Updated(m, a, d[a], f[a]).tree # t)
                                => held[t] = store[t]
      BY UpdatedStoreType
    <2> HIDE DEF row, held
    <2> QED BY <1>3, <2>1
  <1>7. /\ st \in [Tree -> Stor]
        /\ \A t \in Tree : row[bad].tree # t => st[t] = held[t]
    <2> HIDE DEF e, held, row
    <2> QED BY <1>3, <1>6
  <1>8. tr \in LeafRow
    <2>1. ASSUME NEW a \in done PROVE LeafOf(held, Updated(m, a, d[a], f[a])) \in Leaf \cup {None}
      <3> HIDE DEF held, row
      <3> QED BY <1>3, <1>4, <1>6, LeafType
    <2> HIDE DEF held
    <2> QED BY <1>2, <2>1
  <1>9. \A a \in Addr : tr[a] = IF a \in done THEN LeafOf(held, row[a]) ELSE trie[m][a]
    <2> HIDE DEF row, held
    <2> QED BY <1>3
  <1> HIDE DEF row, held, st, tr, e
  <1>10. /\ \A b \in Addr, t \in Tree : Has(row[b], t) => Private(t, m)
         /\ \A b, c \in Addr, t \in Tree : Has(row[b], t) /\ Has(row[c], t) => b = c
    <2>1. DrawnFrom(row, m, Needy(m, d), f)
      BY <1>3, <1>4 DEF DrawnFrom
    <2>2. Needy(m, d) \in SUBSET Addr
      BY <1>2 DEF Needy
    <2> QED BY <2>1, <2>2, DrawnApart
  <1>11. Separate(m, row, st)
    <2>1. ASSUME NEW t \in Tree, ~Private(t, m) PROVE st[t] = store[t]
      <3>1. \A a \in done \cup {bad} : row[a].tree # t
        BY <1>2, <1>4, <1>10, <2>1, NoneAssumption DEF Has
      <3> QED BY <1>6, <1>7, <3>1
    <2> QED BY <1>10, <2>1 DEF Separate
  <1>12. Becomes(m, row, st)
    BY <1>1, <1>7 DEF Becomes
  <1>13. /\ used' = used \cup {m} /\ used' \in SUBSET Map
         /\ torn \subseteq torn' /\ torn' \in SUBSET used' /\ m \in torn'
    BY <1>1, <1>2
  <1>14. /\ IInv' /\ \A n \in Map \ {m} : Accounts(n)' = Accounts(n)
         /\ Accounts(m)' = Leaves(st, row)
    BY <1>1, <1>5, <1>7, <1>8, <1>11, <1>12, <1>13, RowInv
  <1>15. ASSUME m \notin torn, NEW b \in Addr \ {bad} PROVE tr[b] = LeafOf(st, row[b])
    \* The tries of other accounts hold what they held when the report was applied.
    <2>1. ASSUME NEW t \in Tree, Has(row[b], t)
          PROVE  st[t] = held[t] /\ (b \notin done => held[t] = store[t])
      <3>1. ASSUME NEW c \in done \cup {bad}, c # b PROVE row[c].tree # t
        <4>1. c \in Addr /\ row[c] # None
          BY <1>2, <1>4, NoneAssumption
        <4> QED BY <1>10, <2>1, <3>1, <4>1 DEF Has
      <3> QED BY <1>6, <1>7, <3>1
    <2>2. row[b] # None /\ row[b].tree # None => row[b].tree \in Tree
      BY <1>5 DEF Entry
    <2>3. CASE b \in done
      <3>1. LeafOf(held, row[b]) = LeafOf(st, row[b])
        BY <2>1, <2>2, LeafSame DEF Has
      <3> QED BY <1>9, <2>3, <3>1
    <2>4. CASE b \notin done
      <3>1. row[b] = entries[m][b]
        BY <1>3, <2>4
      <3>2. LeafOf(store, row[b]) = LeafOf(st, row[b])
        BY <2>1, <2>2, <2>4, LeafSame DEF Has
      <3>3. trie[m][b] = LeafOf(store, entries[m][b])
        BY <1>1, <1>15 DEF IInv, TrieAgrees, Accounts
      <3> QED BY <1>9, <2>4, <3>1, <3>2, <3>3
    <2> QED BY <2>3, <2>4
  <1>16. m \notin torn => \A b \in Addr \ {bad} : trie'[m][b] = Accounts(m)'[b]
    BY <1>1, <1>2, <1>14, <1>15 DEF Leaves
  <1> QED BY <1>1, <1>14, <1>16 DEF ChangesOnly

-----------------------------------------------------------------------------
(* Every step *)

LEMMA InitInv == Init => IInv
  <1> SUFFICES ASSUME Init PROVE IInv
    OBVIOUS
  <1>1. TypeOK
    BY ConstantsAssumption DEF Init, TypeOK, NoEntries
  <1>2. TrieAgrees /\ UnusedEmpty /\ TriesApart
    BY DEF Init, TrieAgrees, UnusedEmpty, TriesApart, Has, NoEntries
  <1> QED BY <1>1, <1>2 DEF IInv

\* What a step does to the accounts, map by map.
Effect ==
    \/ \E m \in Map : ChangesOnly(m)
    \/ \E new \in Map : Creates(new, NoEntries)
    \/ \E m \in used, new \in Map : Copies(m, new)
    \/ \E m \in Map : Lock(m) /\ \A n \in Map : Accounts(n)' = Accounts(n)
    \/ \E m \in Map : Drop(m) /\ \A n \in Map \ {m} : Accounts(n)' = Accounts(n)

\* A map that becomes torn is out of step at one account.
TornAtOne ==
    \A m \in used : m \in torn' \ torn =>
        \E a \in Addr : \A b \in Addr \ {a} : trie'[m][b] = Accounts(m)'[b]

LEMMA ApplyStep ==
    ASSUME IInv, NEW m \in Map, NEW d, Reports(d), NEW f \in FreshTries(Needy(m, d)),
           \/ ApplyDifference(m, d, f)
           \/ \E bad \in DOMAIN d, done \in SUBSET (DOMAIN d), x \in Meta, y \in Stor :
                 ApplyMismatch(m, d, f, done, bad, x, y)
    PROVE  IInv' /\ Effect /\ TornAtOne
  <1>1. ASSUME ApplyDifference(m, d, f) PROVE IInv' /\ Effect /\ TornAtOne
    <2>1. IInv' /\ Effect
      BY <1>1, ApplyDifferenceInv DEF Effect
    <2> QED BY <1>1, <2>1 DEF TornAtOne, ApplyDifference
  <1>2. ASSUME NEW bad \in DOMAIN d, NEW done \in SUBSET (DOMAIN d), NEW x \in Meta, NEW y \in Stor,
               ApplyMismatch(m, d, f, done, bad, x, y)
        PROVE  IInv' /\ Effect /\ TornAtOne
    <2>1. /\ IInv' /\ ChangesOnly(m) /\ torn' = torn \cup {m}
          /\ m \notin torn => \A b \in Addr \ {bad} : trie'[m][b] = Accounts(m)'[b]
      BY <1>2, ApplyMismatchInv
    <2>2. bad \in Addr
      BY DEF Reports
    <2>3. TornAtOne
      BY <2>1, <2>2 DEF TornAtOne
    <2> QED BY <2>1, <2>3 DEF Effect
  <1> QED BY <1>1, <1>2

LEMMA NextStep ==
    ASSUME IInv, ~ResourceUncompact, Next
    PROVE  IInv' /\ Effect /\ TornAtOne
  <1>1. CASE \E m \in Map : New(m) \/ Lock(m) \/ Drop(m)
    <2>1. ASSUME NEW m \in Map, New(m) PROVE IInv' /\ Effect /\ TornAtOne
      BY <2>1, NewInv DEF Effect, TornAtOne, New
    <2>2. ASSUME NEW m \in Map, Lock(m) PROVE IInv' /\ Effect /\ TornAtOne
      <3>1. IInv' /\ Effect
        BY <2>2, LockInv DEF Effect
      <3> QED BY <2>2, <3>1 DEF TornAtOne, Lock
    <2>3. ASSUME NEW m \in Map, Drop(m) PROVE IInv' /\ Effect /\ TornAtOne
      <3>1. IInv' /\ Effect
        BY <2>3, DropInv DEF Effect
      <3> QED BY <2>3, <3>1 DEF TornAtOne, Drop
    <2> QED BY <1>1, <2>1, <2>2, <2>3
  <1>2. ASSUME NEW m \in Map, NEW a \in Addr, NEW t \in Tree,
               \/ \E x \in Meta : PutKeep(m, a, x, t)
               \/ \E x \in Meta, v \in Stor : PutList(m, a, x, v, t)
               \/ \E v \in Stor : StoragePut(m, a, v, t) \/ StoragePutFails(m, a, v, t)
               \/ ReadStorage(m, a, t) \/ ReadProof(m, a, t) \/ ReadRoots(m, a, t)
        PROVE  IInv' /\ Effect /\ TornAtOne
    <2>1. ASSUME NEW x \in Meta, PutKeep(m, a, x, t) PROVE IInv' /\ Effect /\ TornAtOne
      <3>1. IInv' /\ Effect
        BY <2>1, PutKeepInv DEF Effect
      <3> QED BY <2>1, <3>1 DEF TornAtOne, PutKeep, Commit
    <2>2. ASSUME NEW x \in Meta, NEW v \in Stor, PutList(m, a, x, v, t)
          PROVE  IInv' /\ Effect /\ TornAtOne
      <3>1. IInv' /\ Effect
        BY <2>2, PutListInv DEF Effect
      <3> QED BY <2>2, <3>1 DEF TornAtOne, PutList, Commit
    <2>3. ASSUME NEW v \in Stor, StoragePut(m, a, v, t) PROVE IInv' /\ Effect /\ TornAtOne
      <3>1. IInv' /\ Effect
        BY <2>3, StoragePutInv DEF Effect
      <3> QED BY <2>3, <3>1 DEF TornAtOne, StoragePut, Commit
    <2>4. ASSUME NEW v \in Stor, StoragePutFails(m, a, v, t) PROVE IInv' /\ Effect /\ TornAtOne
      <3>1. /\ IInv' /\ Effect
            /\ \A b \in Addr \ {a} : Accounts(m)'[b] = Accounts(m)[b]
        BY <2>4, StoragePutFailsInv DEF Effect
      <3>2. m \in used /\ torn' = torn \cup {m} /\ trie' = trie
        BY <2>4 DEF StoragePutFails, Writable
      <3>3. m \notin torn => \A b \in Addr \ {a} : trie'[m][b] = Accounts(m)'[b]
        BY <3>1, <3>2 DEF IInv, TrieAgrees
      <3> QED BY <3>1, <3>2, <3>3 DEF TornAtOne
    <2>5. ASSUME Materialize(m, a, t) PROVE IInv' /\ Effect /\ TornAtOne
      <3>1. IInv' /\ Effect
        BY <2>5, MaterializeInv DEF Effect
      <3> QED BY <2>5, <3>1 DEF TornAtOne, Materialize
    <2> QED BY <1>2, <2>1, <2>2, <2>3, <2>4, <2>5 DEF ReadStorage, ReadProof, ReadRoots
  <1>3. ASSUME NEW m \in Map, NEW a \in Addr, Delete(m, a) PROVE IInv' /\ Effect /\ TornAtOne
    <2>1. IInv' /\ Effect
      BY <1>3, DeleteInv DEF Effect
    <2> QED BY <1>3, <2>1 DEF TornAtOne, Delete, Commit
  <1>4. ASSUME NEW m \in Map, NEW new \in Map,
               \/ \E f \in FreshTries(HasTree(m)) : Clone(m, new, f)
               \/ UncompactStored(m, new)
               \/ \E f \in FreshTries(NoTrie(m)) : UncompactResource(m, new, f)
        PROVE  IInv' /\ Effect /\ TornAtOne
    <2>1. ASSUME NEW f \in FreshTries(HasTree(m)), Clone(m, new, f)
          PROVE  IInv' /\ Effect /\ TornAtOne
      <3>1. IInv' /\ Effect
        BY <2>1, CloneInv DEF Effect
      <3>2. new \notin used /\ torn' \subseteq torn \cup {new}
        BY <2>1 DEF Clone
      <3> QED BY <3>1, <3>2 DEF TornAtOne
    <2>2. ASSUME UncompactStored(m, new) PROVE IInv' /\ Effect /\ TornAtOne
      <3>1. IInv' /\ Effect
        BY <2>2, UncompactStoredInv DEF Effect
      <3> QED BY <2>2, <3>1 DEF TornAtOne, UncompactStored
    <2>3. ASSUME NEW f, UncompactResource(m, new, f) PROVE FALSE
      BY <2>3 DEF UncompactResource
    <2> QED BY <1>4, <2>1, <2>2, <2>3
  <1>5. ASSUME NEW d \in {Difference(m, n) : m, n \in used}, NEW m \in used,
               NEW f \in FreshTries({a \in DOMAIN d : NeedsTrie(entries[m][a])}),
               \/ ApplyDifference(m, d, f)
               \/ \E bad \in DOMAIN d, done \in SUBSET (DOMAIN d), x \in Meta, y \in Stor :
                     ApplyMismatch(m, d, f, done, bad, x, y)
        PROVE  IInv' /\ Effect /\ TornAtOne
    <2>1. used \in SUBSET Map
      BY DEF IInv, TypeOK
    <2>2. Reports(d)
      BY <2>1, DifferenceReports
    <2>3. m \in Map /\ f \in FreshTries(Needy(m, d))
      BY <2>1 DEF Needy
    <2> QED BY <1>5, <2>2, <2>3, ApplyStep
  <1>6. CASE \E m \in Map, a \in Addr, t \in Tree :
                \/ \E x \in Meta : PutKeep(m, a, x, t)
                \/ \E x \in Meta, v \in Stor : PutList(m, a, x, v, t)
                \/ \E v \in Stor : StoragePut(m, a, v, t) \/ StoragePutFails(m, a, v, t)
                \/ ReadStorage(m, a, t) \/ ReadProof(m, a, t) \/ ReadRoots(m, a, t)
    BY <1>2, <1>6
  <1>7. CASE \E m, new \in Map :
                \/ \E f \in FreshTries(HasTree(m)) : Clone(m, new, f)
                \/ UncompactStored(m, new)
                \/ \E f \in FreshTries(NoTrie(m)) : UncompactResource(m, new, f)
    BY <1>4, <1>7
  <1>8. CASE \E d \in {Difference(m, n) : m, n \in used}, m \in used :
                \E f \in FreshTries({a \in DOMAIN d : NeedsTrie(entries[m][a])}) :
                   \/ ApplyDifference(m, d, f)
                   \/ \E bad \in DOMAIN d, done \in SUBSET (DOMAIN d), x \in Meta, y \in Stor :
                         ApplyMismatch(m, d, f, done, bad, x, y)
    BY <1>5, <1>8
  <1>9. CASE \E m \in Map, a \in Addr : Delete(m, a)
    BY <1>3, <1>9
  <1> QED BY <1>1, <1>6, <1>7, <1>8, <1>9, PTL DEF Next

LEMMA Stutter ==
    ASSUME IInv, UNCHANGED vars
    PROVE  IInv' /\ TornAtOne
  BY DEF vars, IInv, TypeOK, TrieAgrees, UnusedEmpty, TriesApart, Alone, Private, Accounts,
         TornAtOne

LEMMA Invariance == ASSUME ~ResourceUncompact PROVE Spec => []IInv
  <1>1. Init => IInv
    BY InitInv
  <1>2. IInv /\ [Next]_vars => IInv'
    BY NextStep, Stutter
  <1> QED BY <1>1, <1>2, PTL DEF Spec

-----------------------------------------------------------------------------
(* The theorems *)

\* Variables keep their types.
THEOREM TypeCorrect == ASSUME ~ResourceUncompact PROVE Spec => []TypeOK
  <1>1. IInv => TypeOK
    BY DEF IInv
  <1> QED BY <1>1, Invariance, PTL

\* The state trie a block header's state hash is computed from commits to the
\* accounts of its map (nif.cpp, update_state_trie_entry after each mutation).
THEOREM TrieCommits == ASSUME ~ResourceUncompact PROVE Spec => []TrieAgrees
  <1>1. IInv => TrieAgrees
    BY DEF IInv
  <1> QED BY <1>1, Invariance, PTL

\* Clones, frozen or not, have storage tries of their own
\* (fork_shared_accountmap).
THEOREM TriesAreOwned == ASSUME ~ResourceUncompact PROVE Spec => []NoSharedTrie
  <1>1. ASSUME IInv PROVE NoSharedTrie
    <2> SUFFICES ASSUME NEW m \in used, NEW n \in used, NEW a \in Addr, NEW b \in Addr,
                        entries[m][a] # None, entries[n][b] # None,
                        entries[m][a].tree # None, entries[m][a].tree = entries[n][b].tree
                 PROVE  m = n /\ a = b
      BY DEF NoSharedTrie
    <2> DEFINE t == entries[m][a].tree
    <2>1. m \in Map /\ n \in Map /\ entries \in [Map -> Row]
      BY <1>1 DEF IInv, TypeOK
    <2>2. t \in Tree
      BY <2>1 DEF Entry
    <2>3. Has(entries[m][a], t) /\ Has(entries[n][b], t)
      BY DEF Has
    <2> HIDE DEF t
    <2> QED BY <1>1, <2>1, <2>2, <2>3 DEF IInv, TriesApart, Alone, Private
  <1> QED BY <1>1, Invariance, PTL

\* A batch of slots or a delta that stops half way leaves the trie out of step
\* at one account at most (account_map_storage_put_map, apply_difference).
THEOREM TornNarrowly == ASSUME ~ResourceUncompact PROVE Spec => StopsAtOneAccount
  <1>1. ASSUME IInv, [Next]_vars, NEW m \in Map, m \in torn' \ torn, m \in used
        PROVE  Cardinality({a \in Addr : trie'[m][a] # Accounts(m)'[a]}) <= 1
    <2> DEFINE W == {a \in Addr : trie'[m][a] # Accounts(m)'[a]}
    <2>1. PICK a \in Addr : \A b \in Addr \ {a} : trie'[m][b] = Accounts(m)'[b]
      BY <1>1, NextStep, Stutter DEF TornAtOne
    <2>2. W \in SUBSET {a}
      BY <2>1
    <2> HIDE DEF W
    <2>3. IsFiniteSet({a}) /\ Cardinality({a}) = 1
      BY FS_Singleton
    <2>4. Cardinality(W) <= 1
      BY <2>2, <2>3, FS_Subset
    <2> QED BY <2>4 DEF W
  <1>2. IInv /\ [Next]_vars =>
          [\A m \in Map : (m \in torn' \ torn /\ m \in used) =>
              Cardinality({a \in Addr : trie'[m][a] # Accounts(m)'[a]}) <= 1]_vars
    BY <1>1
  <1> QED BY <1>2, Invariance, PTL DEF Spec, StopsAtOneAccount

-----------------------------------------------------------------------------
(* Deltas *)

\* Where both accounts are seen, the delta turns the one into the other.
LEMMA ReportTurns ==
    ASSUME IInv, NEW m \in Map, NEW n, NEW a \in Addr,
           trie[m] = Accounts(m), trie[n] = Accounts(n),
           Accounts(m)[a] # None => Accounts(n)[a] # None
    PROVE  Applied(Accounts(m), Difference(m, n))[a] = Accounts(n)[a]
  <1> DEFINE e == entries[m][a]
             other == entries[n][a]
             d == Difference(m, n)
  <1>1. /\ Accounts(m)[a] = LeafOf(store, e) /\ Accounts(n)[a] = LeafOf(store, other)
        /\ trie[m][a] = LeafOf(store, e) /\ trie[n][a] = LeafOf(store, other)
    BY DEF Accounts
  <1>2. DOMAIN d = Reported(m, n)
    BY DEF Difference
  <1>3. CASE a \notin Reported(m, n)
    <2>1. Applied(Accounts(m), d)[a] = Accounts(m)[a]
      BY <1>2, <1>3 DEF Applied
    <2>2. \/ LeafOf(store, e) = LeafOf(store, other)
          \/ e = None /\ other = None
          \/ e # None /\ other # None /\ EntriesEqual(e, other)
      BY <1>1, <1>3 DEF Reported
    <2>3. LeafOf(store, e) = LeafOf(store, other)
      BY <2>2 DEF LeafOf, EntriesEqual
    <2> QED BY <1>1, <2>1, <2>3
  <1>4. CASE a \in Reported(m, n)
    <2>1. /\ d[a] = [from |-> Side(e), to |-> Side(other)]
          /\ Applied(Accounts(m), d)[a] = Changed(Accounts(m)[a], d[a])
      BY <1>2, <1>4 DEF Difference, Applied
    <2>2. OrZero(Accounts(m)[a]) = Side(e)
      <3>1. CASE e = None
        BY <1>1, <3>1 DEF OrZero, Side, SideFields, SideStorage, LeafOf
      <3>2. CASE e # None
        <4>1. LeafOf(store, e) # None
          BY <3>2, LeafType DEF IInv, TypeOK
        <4> QED BY <1>1, <3>2, <4>1 DEF OrZero, Side, SideFields, SideStorage, LeafOf
      <3> QED BY <3>1, <3>2
    <2>3. Changed(Accounts(m)[a], d[a]) = Side(other)
      BY <2>1, <2>2 DEF Changed, Side
    <2>4. other # None
      BY <1>1, <1>4 DEF Reported, LeafOf
    <2>5. Side(other) = LeafOf(store, other)
      BY <2>4 DEF Side, SideFields, SideStorage, LeafOf
    <2> QED BY <1>1, <2>1, <2>3, <2>5
  <1> QED BY <1>3, <1>4

\* A block's state read back from its delta is the state it had, unless an
\* account went (Chain.State.difference, apply_difference).
THEOREM DeltaRoundTrip == ASSUME ~ResourceUncompact PROVE Spec => []RoundTripWithoutDeletion
  <1>1. ASSUME IInv PROVE RoundTripWithoutDeletion
    <2> SUFFICES ASSUME NEW m \in InStep, NEW n \in InStep,
                        \A a \in Addr : Accounts(m)[a] # None => Accounts(n)[a] # None
                 PROVE  Applied(Accounts(m), Difference(m, n)) = Accounts(n)
      BY DEF RoundTripWithoutDeletion
    <2>1. trie[m] = Accounts(m) /\ trie[n] = Accounts(n)
      BY DEF InStep
    <2>2. \A a \in Addr : Applied(Accounts(m), Difference(m, n))[a] = Accounts(n)[a]
      BY <1>1, <2>1, ReportTurns DEF IInv, TypeOK, InStep
    <2> QED BY <2>2 DEF Applied, Accounts
  <1> QED BY <1>1, Invariance, PTL

LEMMA OnlyCopiesAppear ==
    ASSUME IInv, Effect, NEW new \in used' \ used
    PROVE  \/ Accounts(new)' = NoEntries
           \/ \E m \in used :
                 /\ Accounts(new)' = Accounts(m)
                 /\ trie[m] = Accounts(m) => trie'[new] = Accounts(m)
  <1>1. ASSUME NEW m \in Map, ChangesOnly(m) PROVE FALSE
    BY <1>1 DEF ChangesOnly
  <1>2. ASSUME NEW m \in Map, Lock(m) \/ Drop(m) PROVE FALSE
    BY <1>2 DEF Lock, Drop
  <1>3. ASSUME NEW n \in Map, Creates(n, NoEntries) PROVE Accounts(new)' = NoEntries
    BY <1>3 DEF Creates
  <1>4. ASSUME NEW m \in used, NEW n \in Map, Copies(m, n)
        PROVE  /\ Accounts(new)' = Accounts(m)
               /\ trie[m] = Accounts(m) => trie'[new] = Accounts(m)
    BY <1>4 DEF Copies, Creates
  <1> QED BY <1>1, <1>2, <1>3, <1>4 DEF Effect

\* A map comes into use empty or as a copy of an existing one, and with a trie
\* that commits to it if the original's did (fork_shared_accountmap,
\* account_map_uncompact_state of a stored form).
THEOREM NewMapsCopy == ASSUME ~ResourceUncompact PROVE Spec => NewMapsAreCopies
  <1>1. IInv /\ [Next]_vars =>
          [\A new \in used' \ used :
              \/ Accounts(new)' = NoEntries
              \/ \E m \in used :
                    /\ Accounts(new)' = Accounts(m)
                    /\ trie[m] = Accounts(m) => trie'[new] = Accounts(m)]_vars
    BY NextStep, OnlyCopiesAppear
  <1> QED BY <1>1, Invariance, PTL DEF Spec, NewMapsAreCopies

-----------------------------------------------------------------------------
(* Every handle is a value *)

Value == [m \in Map |-> IF m \in used THEN Accounts(m) ELSE None]

LEMMA ValueIs ==
    ASSUME IInv
    PROVE  /\ \A m \in used : m \in Map /\ Accounts(m) # None /\ Accounts(m) \in LeafRow
           /\ \A m \in used : Value[m] = Accounts(m)
           /\ \A m \in Map \ used : Value[m] = None
  <1>1. /\ used \in SUBSET Map /\ entries \in [Map -> Row] /\ store \in [Tree -> Stor]
    BY DEF IInv, TypeOK
  <1>2. \A m \in Map : Accounts(m) \in LeafRow
    BY <1>1, LeafType DEF Accounts
  <1>3. \A m \in Map : Accounts(m) # None
    BY <1>2, NoneAssumption
  <1> QED BY <1>1, <1>2, <1>3 DEF Value

LEMMA ValuesInit == Init => Values!Init
  BY DEF Init, Values!Init

LEMMA ValuesStep ==
    ASSUME IInv, IInv', Effect
    PROVE  Values!Next \/ UNCHANGED Values!vars
  <1>1. /\ used \in SUBSET Map /\ used' \in SUBSET Map /\ frozen \in [Map -> BOOLEAN]
    BY DEF IInv, TypeOK
  <1>2. /\ \A m \in used : Accounts(m) # None /\ Value[m] = Accounts(m)
        /\ \A m \in Map \ used : Value[m] = None
    BY ValueIs
  <1>3. Value' = [m \in Map |-> IF m \in used' THEN Accounts(m)' ELSE None]
    BY DEF Value
  <1>4. Value = [m \in Map |-> IF m \in used THEN Accounts(m) ELSE None]
    BY DEF Value
  <1>5. ASSUME NEW m \in Map, ChangesOnly(m) PROVE Values!Next \/ UNCHANGED Values!vars
    <2>1. /\ m \in used /\ used' = used /\ frozen' = frozen
          /\ Value' = [Value EXCEPT ![m] = Accounts(m)']
      BY <1>3, <1>4, <1>5 DEF ChangesOnly
    <2>2. CASE frozen[m]
      <3>1. Value' = Value
        BY <1>2, <1>4, <1>5, <2>1, <2>2 DEF ChangesOnly
      <3> QED BY <2>1, <3>1 DEF Values!vars, Value
    <2>3. CASE ~frozen[m]
      <3>1. PICK v \in LeafRow : v = Accounts(m)'
        <4>1. \A n \in Map : Accounts(n)' \in LeafRow
          <5>1. entries' \in [Map -> Row] /\ store' \in [Tree -> Stor]
            BY DEF IInv, TypeOK
          <5>2. ASSUME NEW n \in Map, NEW a \in Addr
                PROVE  LeafOf(store', entries'[n][a]) \in Leaf \cup {None}
            BY <5>1, LeafType
          <5> QED BY <5>2 DEF Accounts
        <4> QED BY <4>1
      <3>2. Values!Write(m, v)
        BY <1>2, <2>1, <2>3, <3>1 DEF Values!Write, Value
      <3> QED BY <3>2 DEF Values!Next
    <2> QED BY <2>2, <2>3
  <1>6. ASSUME NEW new \in Map, NEW row, Creates(new, row)
        PROVE  Values!Create(new, row) /\ Value[new] = None
    <2>1. Value' = [Value EXCEPT ![new] = row]
      BY <1>3, <1>4, <1>6 DEF Creates
    <2>2. frozen' = [frozen EXCEPT ![new] = FALSE]
      BY <1>1, <1>6 DEF Creates
    <2> QED BY <1>2, <1>6, <2>1, <2>2 DEF Values!Create, Value, Creates
  <1>7. ASSUME NEW new \in Map, Creates(new, NoEntries) PROVE Values!Next
    BY <1>6, <1>7 DEF Values!Next, Values!New
  <1>8. ASSUME NEW m \in used, NEW new \in Map, Copies(m, new) PROVE Values!Next
    <2>1. Value[m] = Accounts(m) /\ Value[m] # None /\ m \in Map
      BY <1>1, <1>2
    <2>2. Value' = [Value EXCEPT ![new] = Value[m]]
      BY <1>3, <1>4, <1>8, <2>1 DEF Creates, Copies
    <2>3. frozen' = [frozen EXCEPT ![new] = FALSE] /\ Value[new] = None
      BY <1>1, <1>2, <1>8 DEF Creates, Copies
    <2>4. Values!Clone(m, new)
      BY <2>1, <2>2, <2>3 DEF Values!Clone, Values!Create, Value
    <2> QED BY <2>1, <2>4 DEF Values!Next
  <1>9. ASSUME NEW m \in Map, Lock(m), \A n \in Map : Accounts(n)' = Accounts(n)
        PROVE  Values!Next
    <2>1. m \in used /\ used' = used /\ frozen' = [frozen EXCEPT ![m] = TRUE]
      BY <1>9 DEF Lock
    <2>2. Value' = Value
      BY <1>3, <1>4, <1>9, <2>1
    <2>3. Values!Lock(m)
      BY <1>2, <2>1, <2>2 DEF Values!Lock, Value
    <2> QED BY <2>3 DEF Values!Next
  <1>10. ASSUME NEW m \in Map, Drop(m), \A n \in Map \ {m} : Accounts(n)' = Accounts(n)
         PROVE  Values!Next
    <2>1. m \in used /\ used' = used \ {m} /\ frozen' = [frozen EXCEPT ![m] = FALSE]
      BY <1>10 DEF Drop
    <2>2. Value' = [Value EXCEPT ![m] = None]
      BY <1>3, <1>4, <1>10, <2>1
    <2>3. Values!Drop(m)
      BY <1>2, <2>1, <2>2 DEF Values!Drop, Value
    <2> QED BY <2>3 DEF Values!Next
  <1> QED BY <1>5, <1>7, <1>8, <1>9, <1>10 DEF Effect

LEMMA ValuesStutter ==
    ASSUME UNCHANGED vars
    PROVE  UNCHANGED Values!vars
  BY DEF vars, Values!vars, Accounts

\* Clone, write, lock and drop behave as on values: a write to one handle is
\* never seen through another, a locked one keeps its accounts.
THEOREM HandlesAreValues == ASSUME ~ResourceUncompact PROVE Spec => ImplementsValues
  <1>1. Init => Values!Init
    BY ValuesInit
  <1>2. IInv /\ IInv' /\ [Next]_vars => [Values!Next]_(Values!vars)
    BY NextStep, ValuesStep, ValuesStutter
  <1> QED BY <1>1, <1>2, Invariance, PTL DEF Spec, ImplementsValues, Values!Spec
=============================================================================
