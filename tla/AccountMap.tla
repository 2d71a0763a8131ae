----------------------------- MODULE AccountMap -----------------------------
(***************************************************************************)
(* The account maps of c_src/nif.cpp as Chain.State (lib/chain/state.ex)   *)
(* and CAccountMap use them: entries, their storage in one of three forms, *)
(* the state trie that commits to every entry, the freeze, and the delta   *)
(* between two maps that Model.ChainSql stores for a block.                *)
(*                                                                         *)
(* Every operation runs under the map's mutex from its first read to its   *)
(* last write, so each is one action.  How tries share their nodes until   *)
(* written is the subject of CowTree; here a storage trie is a content.    *)
(* The nonce, balance and code of an account are one value, its storage    *)
(* another; a trie leaf is the pair of them, for the hash it stands for.   *)
(***************************************************************************)
EXTENDS Integers, FiniteSets, SequencesExt

CONSTANTS
    Map,        \* map handles
    Addr,       \* account addresses
    Tree,       \* storage tries
    Meta,       \* nonce, balance and code of an account
    ZeroMeta,   \* those of an account just created
    Stor,       \* storage contents
    ZeroStor,   \* no slot set
    None,       \* no account, no trie, no compact storage
    ResourceUncompact   \* whether uncompact_state is given a live map

ASSUME ConstantsAssumption ==
    /\ ZeroMeta \in Meta /\ ZeroStor \in Stor
    /\ None \notin Meta \cup Stor \cup Tree
    /\ ResourceUncompact \in BOOLEAN

VARIABLES
    used,       \* handles that refer to a map
    entries,    \* SharedAccountMap::accounts
    trie,       \* SharedAccountMap::state_trie, by address
    frozen,     \* SharedAccountMap::frozen
    store,      \* what each storage trie holds
    torn        \* history: maps on which a batch stopped half way

vars == <<used, entries, trie, frozen, store, torn>>

\* AccountEntry: a live trie, a compact slot list, or neither.
Entry == [meta : Meta, tree : Tree \cup {None}, compact : Stor \cup {None}]
Leaf == Meta \X Stor

\* nil is no entry, stored entry, leaf or set of accounts.
ASSUME NoneAssumption ==
    /\ None \notin Entry
    /\ None \notin [meta : Meta, storage : Stor \cup {None}]
    /\ None \notin Leaf
    /\ None \notin [Addr -> Leaf \cup {None}]

TypeOK ==
    /\ used \in SUBSET Map
    /\ entries \in [Map -> [Addr -> Entry \cup {None}]]
    /\ trie \in [Map -> [Addr -> Leaf \cup {None}]]
    /\ frozen \in [Map -> BOOLEAN]
    /\ store \in [Tree -> Stor]
    /\ torn \in SUBSET used

NoEntries == [a \in Addr |-> None]

Init ==
    /\ used = {}
    /\ entries = [m \in Map |-> NoEntries]
    /\ trie = [m \in Map |-> NoEntries]
    /\ frozen = [m \in Map |-> FALSE]
    /\ store = [t \in Tree |-> ZeroStor]
    /\ torn = {}

-----------------------------------------------------------------------------
Live(meta, t) == [meta |-> meta, tree |-> t, compact |-> None]

\* storage_from_kv_list: a new trie with the pairs of a list.
Built(t, v) == [store EXCEPT ![t] = v]

\* A trie no entry refers to (its last reference was released).
Fresh(t) == \A m \in Map, a \in Addr :
                entries[m][a] # None => entries[m][a].tree # t

\* The entries become es and the tries hold st, except that a trie whose last
\* reference is released is destructed.
SetEntries(es, st) ==
    /\ entries' = es
    /\ store' = [t \in Tree |->
          IF \E m \in Map, a \in Addr : es[m][a] # None /\ es[m][a].tree = t
            THEN st[t] ELSE ZeroStor]

\* The storage an entry stands for, given what the tries hold.
StorageIn(st, e) ==
    IF e.tree # None THEN st[e.tree]
    ELSE IF e.compact # None THEN e.compact
    ELSE ZeroStor

\* AccountHashCtx::compute
LeafOf(st, e) == IF e = None THEN None ELSE <<e.meta, StorageIn(st, e)>>

\* The accounts a map holds, as account_map_get and account_map_storage
\* report them.
Accounts(m) == [a \in Addr |-> LeafOf(store, entries[m][a])]

\* The common end of a mutation that did not fail: entry e, with the tries
\* now holding st, becomes the entry of a, and the trie leaf follows.
Commit(m, a, e, st) ==
    /\ SetEntries([entries EXCEPT ![m][a] = e], st)
    /\ trie' = [trie EXCEPT ![m][a] = LeafOf(st, e)]
    /\ UNCHANGED <<used, frozen, torn>>

Writable(m) == m \in used /\ ~frozen[m]

\* account_map_new
New(m) ==
    /\ m \notin used
    /\ used' = used \cup {m}
    /\ UNCHANGED <<entries, trie, frozen, store, torn>>

\* account_map_lock
Lock(m) ==
    /\ m \in used
    /\ frozen' = [frozen EXCEPT ![m] = TRUE]
    /\ UNCHANGED <<used, entries, trie, store, torn>>

\* The handle is collected.
Drop(m) ==
    /\ m \in used
    /\ used' = used \ {m}
    /\ SetEntries([entries EXCEPT ![m] = NoEntries], store)
    /\ trie' = [trie EXCEPT ![m] = NoEntries]
    /\ frozen' = [frozen EXCEPT ![m] = FALSE]
    /\ torn' = torn \ {m}

\* account_map_put with :keep, of an account that is there: the storage
\* stays in whatever form it has, unless it has none (materialize_storage).
PutKeep(m, a, meta, t) ==
    LET e == entries[m][a] IN
    /\ Writable(m)
    /\ e # None
    /\ IF e.tree = None /\ e.compact = None
         THEN /\ Fresh(t)
              /\ Commit(m, a, Live(meta, t), Built(t, ZeroStor))
         ELSE Commit(m, a, [e EXCEPT !.meta = meta], store)

\* account_map_put with a storage list, and with :keep or nil for an account
\* not there yet (v = ZeroStor): a new trie.
PutList(m, a, meta, v, t) ==
    /\ Writable(m)
    /\ Fresh(t)
    /\ Commit(m, a, Live(meta, t), Built(t, v))

\* Variant: remove_state_trie_entry is forgotten.
DeleteEntryOnly(m, a) ==
    /\ Writable(m)
    /\ entries[m][a] # None
    /\ SetEntries([entries EXCEPT ![m][a] = None], store)
    /\ UNCHANGED <<used, trie, frozen, torn>>

\* account_map_delete
Delete(m, a) ==
    /\ Writable(m)
    /\ entries[m][a] # None
    /\ Commit(m, a, None, store)

NeedsTrie(e) == IF e = None THEN TRUE ELSE e.tree = None

\* write_storage_slot on an entry: materialize_storage, then insert.
Written(e, t) ==
    IF e = None THEN Live(ZeroMeta, t)
    ELSE IF e.tree # None THEN e
    ELSE Live(e.meta, t)

\* account_map_storage_put_map for one address
StoragePut(m, a, v, t) ==
    LET e == Written(entries[m][a], t) IN
    /\ Writable(m)
    /\ NeedsTrie(entries[m][a]) => Fresh(t)
    /\ Commit(m, a, e, [store EXCEPT ![e.tree] = v])

\* account_map_storage_put_map stopped by a malformed slot: the slots before
\* it are written, the trie leaf is not.
StoragePutFails(m, a, v, t) ==
    LET e == Written(entries[m][a], t) IN
    /\ Writable(m)
    /\ NeedsTrie(entries[m][a]) => Fresh(t)
    /\ SetEntries([entries EXCEPT ![m][a] = e],
                  [store EXCEPT ![e.tree] = v])
    /\ torn' = torn \cup {m}
    /\ UNCHANGED <<used, trie, frozen>>

\* materialize_storage: an entry gets a live trie with what it stands for, on
\* frozen maps too.
Materialize(m, a, t) ==
    LET e == entries[m][a] IN
    /\ m \in used
    /\ e # None /\ e.tree = None
    /\ Fresh(t)
    /\ SetEntries([entries EXCEPT ![m][a] = Live(e.meta, t)], Built(t, StorageIn(store, e)))
    /\ UNCHANGED <<used, trie, frozen, torn>>

\* account_map_storage
ReadStorage(m, a, t) == Materialize(m, a, t)

\* account_map_proof of a slot
ReadProof(m, a, t) == Materialize(m, a, t)

\* account_map_storage_roots reads a compact storage where it is.
ReadRoots(m, a, t) == Materialize(m, a, t) /\ entries[m][a].compact = None

-----------------------------------------------------------------------------
NoTrie(m) == {a \in Addr : entries[m][a] # None /\ entries[m][a].tree = None}
HasTree(m) == {a \in Addr : entries[m][a] # None /\ entries[m][a].tree # None}

\* A choice of distinct fresh tries, one for each address of S.
FreshTries(S) == {f \in [S -> {t \in Tree : Fresh(t)}] : IsInjective(f)}

\* Variant: a shallow copy, as the entries hold pointers.
CloneShallow(m, new, f) ==
    /\ m \in used /\ new \notin used
    /\ used' = used \cup {new}
    /\ entries' = [entries EXCEPT ![new] = entries[m]]
    /\ trie' = [trie EXCEPT ![new] = trie[m]]
    /\ torn' = IF m \in torn THEN torn \cup {new} ELSE torn
    /\ UNCHANGED <<frozen, store>>

\* fork_shared_accountmap: live storage gets a trie of its own with the same
\* content, compact storage is shared, the state trie is copied.
Clone(m, new, f) ==
    /\ m \in used /\ new \notin used
    /\ used' = used \cup {new}
    /\ entries' = [entries EXCEPT ![new] =
            [a \in Addr |-> IF a \in HasTree(m)
                              THEN Live(entries[m][a].meta, f[a])
                              ELSE entries[m][a]]]
    /\ store' = [t \in Tree |->
            IF \E a \in HasTree(m) : f[a] = t
              THEN store[entries[m][CHOOSE a \in HasTree(m) : f[a] = t].tree]
              ELSE store[t]]
    /\ trie' = [trie EXCEPT ![new] = trie[m]]
    /\ torn' = IF m \in torn THEN torn \cup {new} ELSE torn
    /\ UNCHANGED frozen

\* Variants: the fields are written in the wrong order; storage is left out.
CompactSwapped(m, a) ==
    LET e == entries[m][a]
    IN  IF e = None THEN None ELSE [meta |-> StorageIn(store, e), storage |-> e.meta]

CompactNoStorage(m, a) ==
    LET e == entries[m][a]
    IN  IF e = None THEN None ELSE [meta |-> e.meta, storage |-> None]

\* make_compact_account_term: empty storage is stored as nil.
CompactForm(m, a) ==
    LET e == entries[m][a]
        v == StorageIn(store, e)
    IN  IF e = None THEN None
        ELSE [meta |-> e.meta, storage |-> IF v = ZeroStor THEN None ELSE v]

\* parse_compact_account: a list of slots stays compact, nil is no storage.
Parsed(form) ==
    IF form = None THEN None
    ELSE [meta |-> form.meta, tree |-> None, compact |-> form.storage]

\* account_map_compact, then account_map_uncompact_state on its result, as a
\* jump block's state is written and read back; the trie is built anew.
UncompactStored(m, new) ==
    /\ m \in used /\ new \notin used
    /\ used' = used \cup {new}
    /\ entries' = [entries EXCEPT ![new] = [a \in Addr |-> Parsed(CompactForm(m, a))]]
    /\ trie' = [trie EXCEPT ![new] =
                  [a \in Addr |-> LeafOf(store, Parsed(CompactForm(m, a)))]]
    /\ UNCHANGED <<frozen, store, torn>>

\* account_map_uncompact_state on a live map: append_uncompacted_account
\* takes over each entry and keeps its storage trie, without cloning it.
UncompactResource(m, new, f) ==
    LET moved == [a \in Addr |-> IF a \in NoTrie(m)
                                   THEN Live(entries[m][a].meta, f[a])
                                   ELSE entries[m][a]]
        held == [t \in Tree |->
                   IF \E a \in NoTrie(m) : f[a] = t
                     THEN StorageIn(store,
                             entries[m][CHOOSE a \in NoTrie(m) : f[a] = t])
                     ELSE store[t]] IN
    /\ ResourceUncompact
    /\ m \in used /\ new \notin used
    /\ used' = used \cup {new}
    /\ SetEntries([entries EXCEPT ![new] = moved], held)
    /\ trie' = [trie EXCEPT ![new] = [a \in Addr |-> LeafOf(held, moved[a])]]
    /\ UNCHANGED <<frozen, torn>>

-----------------------------------------------------------------------------
(* Chain.State.difference and apply_difference.  A report gives the change  *)
(* of an account's fields and of its storage; an absent account counts as   *)
(* all zero (side_field(nil, _), nil slots).                                *)

OrZero(leaf) == IF leaf = None THEN <<ZeroMeta, ZeroStor>> ELSE leaf

\* entries_equal; the same trie or slot list has the same root.
EntriesEqual(e, other) ==
    e.meta = other.meta /\ StorageIn(store, e) = StorageIn(store, other)

\* snapshot_side and the two sides of a report
SideFields(e) == IF e = None THEN ZeroMeta ELSE e.meta
SideStorage(e) == IF e = None THEN ZeroStor ELSE StorageIn(store, e)
Side(e) == <<SideFields(e), SideStorage(e)>>

\* account_map_difference_full looks only where the state tries differ, and
\* there skips accounts that both exist and are equal.
Reported(m, n) ==
    {a \in Addr :
        LET e == entries[m][a]
            other == entries[n][a]
        IN  /\ trie[m][a] # trie[n][a]
            /\ e # None \/ other # None
            /\ e = None \/ other = None \/ ~EntriesEqual(e, other)}

Difference(m, n) ==
    [a \in Reported(m, n) |-> [from |-> Side(entries[m][a]), to |-> Side(entries[n][a])]]

\* A report names only what changed: storage is compared with what it should
\* replace, then the fields, each only if named.
StorageFits(acct, r) == r.from[2] = r.to[2] \/ OrZero(acct)[2] = r.from[2]
MetaFits(acct, r) == r.from[1] = r.to[1] \/ OrZero(acct)[1] = r.from[1]
Fits(acct, r) == StorageFits(acct, r) /\ MetaFits(acct, r)

\* Variant: only the storage is changed.
ChangedStorage(acct, r) ==
    <<OrZero(acct)[1],
      IF r.from[2] = r.to[2] THEN OrZero(acct)[2] ELSE r.to[2]>>

\* What an account becomes under a report that fits.
Changed(acct, r) ==
    <<IF r.from[1] = r.to[1] THEN OrZero(acct)[1] ELSE r.to[1],
      IF r.from[2] = r.to[2] THEN OrZero(acct)[2] ELSE r.to[2]>>

\* The accounts after applying a delta that fits everywhere.
Applied(accts, d) ==
    [a \in Addr |-> IF a \in DOMAIN d THEN Changed(accts[a], d[a])
                    ELSE accts[a]]

\* The entry of a with the storage and the fields of a leaf, live in trie t
\* unless its storage need not be touched.
Updated(m, a, r, t) ==
    LET e == entries[m][a]
        x == Changed(Accounts(m)[a], r) IN
    IF e = None THEN Live(x[1], t)
    ELSE IF e.tree # None THEN [e EXCEPT !.meta = x[1]]
    ELSE IF r.from[2] # r.to[2] \/ e.compact = None THEN Live(x[1], t)
    ELSE [e EXCEPT !.meta = x[1]]

\* The tries after the entries of S were updated.
UpdatedStore(m, d, S, f) ==
    [t \in Tree |->
        IF \E a \in S : Updated(m, a, d[a], f[a]).tree = t
          THEN LET a == CHOOSE b \in S : Updated(m, b, d[b], f[b]).tree = t
               IN Changed(Accounts(m)[a], d[a])[2]
          ELSE store[t]]

\* account_map_apply_difference when every report fits.
ApplyDifference(m, d, f) ==
    LET S == DOMAIN d
        held == UpdatedStore(m, d, S, f)
        moved == [a \in Addr |-> IF a \in S THEN Updated(m, a, d[a], f[a])
                                 ELSE entries[m][a]] IN
    /\ Writable(m)
    /\ \A a \in S : Fits(Accounts(m)[a], d[a])
    /\ SetEntries([entries EXCEPT ![m] = moved], held)
    /\ trie' = [trie EXCEPT ![m] = [a \in Addr |->
                  IF a \in S THEN LeafOf(held, moved[a]) ELSE trie[m][a]]]
    /\ UNCHANGED <<used, frozen, torn>>

\* The entry of the first account whose report does not fit: created if need
\* be, its storage made a live trie if the report names slots, its fields x.
MismatchEntry(m, bad, r, t, x) ==
    LET e == entries[m][bad]
        untouched == e # None /\ r.from[2] = r.to[2] IN
    [(IF untouched THEN e ELSE Written(e, t)) EXCEPT !.meta = x]

\* account_map_apply_difference when bad is the first report that does not
\* fit: the reports before it (done) are applied.  Its own slots are written
\* up to the first that does not fit (y is what they then hold), and if they
\* all fit, so are its fields (x).
MismatchAt(m, d, f, done, bad, x, y) ==
    LET acct == Accounts(m)[bad]
        e == MismatchEntry(m, bad, d[bad], f[bad], x)
        held == UpdatedStore(m, d, done, f) IN
    /\ Writable(m)
    /\ done \subseteq DOMAIN d \ {bad}
    /\ \A a \in done : Fits(Accounts(m)[a], d[a])
    /\ ~Fits(acct, d[bad])
    /\ IF StorageFits(acct, d[bad]) THEN y = Changed(acct, d[bad])[2]
                                    ELSE x = OrZero(acct)[1]
    /\ entries' = [entries EXCEPT ![m] = [a \in Addr |->
          IF a \in done THEN Updated(m, a, d[a], f[a])
          ELSE IF a = bad THEN e ELSE entries[m][a]]]
    /\ store' = [t \in Tree |-> IF t = e.tree THEN y ELSE held[t]]
    /\ torn' = torn \cup {m}
    /\ UNCHANGED <<used, frozen>>

\* Variant: the leaves are left for the end, which is not reached.
MismatchNoLeaves(m, d, f, done, bad, x, y) ==
    MismatchAt(m, d, f, done, bad, x, y) /\ UNCHANGED trie

\* The leaves of the reports before it follow at once, its own does not.
ApplyMismatch(m, d, f, done, bad, x, y) ==
    /\ MismatchAt(m, d, f, done, bad, x, y)
    /\ trie' = [trie EXCEPT ![m] = [a \in Addr |->
          IF a \in done
            THEN LeafOf(UpdatedStore(m, d, done, f), Updated(m, a, d[a], f[a]))
            ELSE trie[m][a]]]

-----------------------------------------------------------------------------
Next ==
    \/ \E m \in Map : New(m) \/ Lock(m) \/ Drop(m)
    \/ \E m \in Map, a \in Addr, t \in Tree :
          \/ \E x \in Meta : PutKeep(m, a, x, t)
          \/ \E x \in Meta, v \in Stor : PutList(m, a, x, v, t)
          \/ \E v \in Stor : StoragePut(m, a, v, t) \/ StoragePutFails(m, a, v, t)
          \/ ReadStorage(m, a, t) \/ ReadProof(m, a, t) \/ ReadRoots(m, a, t)
    \/ \E m \in Map, a \in Addr : Delete(m, a)
    \/ \E m, new \in Map :
          \/ \E f \in FreshTries(HasTree(m)) : Clone(m, new, f)
          \/ UncompactStored(m, new)
          \/ \E f \in FreshTries(NoTrie(m)) : UncompactResource(m, new, f)
    \/ \E d \in {Difference(m, n) : m, n \in used}, m \in used :
          \E f \in FreshTries({a \in DOMAIN d : NeedsTrie(entries[m][a])}) :
             \/ ApplyDifference(m, d, f)
             \/ \E bad \in DOMAIN d, done \in SUBSET (DOMAIN d),
                   x \in Meta, y \in Stor :
                   ApplyMismatch(m, d, f, done, bad, x, y)

Spec == Init /\ [][Next]_vars

-----------------------------------------------------------------------------
\* The state trie commits to exactly the accounts of the map: what the block
\* header's state hash is computed from.
TrieAgrees == \A m \in used \ torn : trie[m] = Accounts(m)

\* A batch that stops half way leaves at most the account it stopped at out
\* of step with the trie, and only if the map was in step before.
StopsAtOneAccount ==
    [][\A m \in Map :
          (m \in torn' \ torn /\ m \in used) =>
             Cardinality({a \in Addr : trie'[m][a] # Accounts(m)'[a]}) <= 1]_vars

\* No storage trie is reachable from two accounts: what makes a write to one
\* map invisible in every other.
NoSharedTrie ==
    \A m, n \in used, a, b \in Addr :
        (/\ entries[m][a] # None /\ entries[n][b] # None
         /\ entries[m][a].tree # None
         /\ entries[m][a].tree = entries[n][b].tree) => m = n /\ a = b

\* A locked map holds the same accounts for as long as it is referenced
\* ("lock storage immutability", test/cmerkle_lock_clone_regression_test.exs).
FrozenNeverChanges ==
    [][\A m \in used : frozen[m] /\ frozen'[m] =>
          Accounts(m)' = Accounts(m) /\ trie'[m] = trie[m]]_vars

\* A map that comes into use is empty or holds the accounts of an existing
\* one, whether cloned, read back from its stored form or rebuilt from the
\* live map; its trie commits to them if that map's trie did.
NewMapsAreCopies ==
    [][\A new \in used' \ used :
          \/ Accounts(new)' = NoEntries
          \/ \E m \in used :
                /\ Accounts(new)' = Accounts(m)
                /\ trie[m] = Accounts(m) => trie'[new] = Accounts(m)]_vars

InStep == {m \in used : trie[m] = Accounts(m)}

\* The delta between two states, applied to the first, gives the second:
\* how a block's state is stored and read back.
RoundTrip ==
    \A m, n \in InStep : Applied(Accounts(m), Difference(m, n)) = Accounts(n)

\* The same where no account of the first state is missing in the second.
RoundTripWithoutDeletion ==
    \A m, n \in InStep :
        (\A a \in Addr : Accounts(m)[a] # None => Accounts(n)[a] # None)
            => Applied(Accounts(m), Difference(m, n)) = Accounts(n)

\* Every handle is a value of its own.
Values == INSTANCE MapValues WITH
    Val <- [Addr -> Leaf \cup {None}], Empty <- NoEntries, Missing <- None,
    val <- [m \in Map |-> IF m \in used THEN Accounts(m) ELSE None]
ImplementsValues == Values!Spec
=============================================================================
