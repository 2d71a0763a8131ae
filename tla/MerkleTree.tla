----------------------------- MODULE MerkleTree -----------------------------
(***************************************************************************)
(* The Merkle trees of src/c_src/merkletree.cpp and the pool of nodes they *)
(* share (item_pool.cpp).  A Tree is a root in a pool; a copied Tree       *)
(* starts with the same root, and a write forks the nodes of its path that *)
(* have more than one reference.  Hashes are kept in the nodes, also in    *)
(* shared ones, and are computed late, where a node is marked dirty.       *)
(*                                                                         *)
(* A hash is the term that is hashed: two are equal when their terms are.  *)
(* Every call is one step, as it runs under the mutex of its SharedState.  *)
(***************************************************************************)
EXTENDS Integers, Sequences, FiniteSets

CONSTANTS
    Tree,      \* Tree objects
    Pair,      \* the <<key, value>> that are written
    HashBits,  \* bits of a key's hash
    KeyBits,   \* of every key: its hash
    KeyColumn, \* of every key: the last byte of its hash % LEAF_SIZE
    LeafSize,  \* LEAF_SIZE, most pairs in a leaf and number of hashes of a node
    MaxItem,   \* nodes of the pool
    Null       \* kItemNull

Key == {p[1] : p \in Pair}
Val == {p[2] : p \in Pair}
Item == 1 .. MaxItem
Column == 0 .. LeafSize - 1
Left == 0
Right == 1

ASSUME TreeAssumption ==
    /\ IsFiniteSet(Tree) /\ IsFiniteSet(Key)
    /\ LeafSize \in Nat \ {0} /\ MaxItem \in Nat /\ HashBits \in Nat /\ Null \notin Item \cup Val
    /\ KeyBits \in [Key -> [1 .. HashBits -> {Left, Right}]] /\ KeyColumn \in [Key -> Column]
    /\ \A j, k \in Key : j # k => KeyBits[j] # KeyBits[k]
    /\ \A K \in SUBSET Key : Null \notin [K -> Val]

VARIABLES
    root,    \* root_id of every Tree, Null for one that is not there
    pool     \* [used, item, refcnt, pairs]: the nodes that are there, their
             \* contents and references, and the number of pair_t in use

vars == <<root, pool>>

\* Item::Item, with an empty bucket
NewItem == [leaf |-> TRUE, dirty |-> TRUE, hashes |-> <<>>, count |-> 0,
            prefix |-> <<>>, bucket |-> <<>>, child |-> <<Null, Null>>]

Keys(bucket) == DOMAIN bucket
Few(bucket) == Cardinality(Keys(bucket)) <= LeafSize
Only(bucket, keys) == [k \in keys |-> bucket[k]]
With(bucket, k, v) == [j \in Keys(bucket) \cup {k} |-> IF j = k THEN v ELSE bucket[j]]

\* bits_t: the bits of a prefix, and one more.
Extended(prefix, side) == Append(prefix, side)

\* decide
Side(k, prefix) == KeyBits[k][Len(prefix) + 1]

\* A recursion of the code as the steps it takes, one after the other: the
\* state after n of them, if a step that has nothing left to do changes nothing.
Steps(Step(_), start, n) ==
    LET after[m \in 0 .. n] == IF m = 0 THEN start ELSE Step(after[m - 1])
    IN  after[n]

-----------------------------------------------------------------------------
(* The pool.  Operators return the pool after the call. *)

FreeItem(P) == CHOOSE i \in Item \ P.used : \A j \in Item \ P.used : i <= j

\* alloc_leaf, whose id is FreeItem(P)
AllocLeaf(P) ==
    LET i == FreeItem(P)
    IN  [P EXCEPT !.used = @ \cup {i}, !.item[i] = NewItem, !.refcnt[i] = 0]

IncrRef(P, i) == IF i = Null THEN P ELSE [P EXCEPT !.refcnt[i] = @ + 1]

\* A reference less.
Forget(P, i) == IF i = Null THEN P ELSE [P EXCEPT !.refcnt[i] = @ - 1]

\* A node without references goes, with its bucket, and forgets its children.
Release(P, i) ==
    LET node == P.item[i]
        gone == [P EXCEPT !.used = @ \ {i}, !.item[i] = NewItem,
                          !.pairs = @ - Cardinality(Keys(node.bucket))]
    IN  Forget(Forget(gone, node.child[1]), node.child[2])

Unreferenced(P, nodes) == {i \in nodes \ {Null} : P.refcnt[i] = 0}

\* decr_ref: with its last reference goes a node, and whatever hangs on it alone.
ReleaseOne(s) ==
    LET i == CHOOSE j \in s.dead : TRUE
        child == s.pool.item[i].child
        after == Release(s.pool, i)
    IN  IF s.dead = {} THEN s
        ELSE [pool |-> after,
              dead |-> (s.dead \ {i}) \cup Unreferenced(after, {child[1], child[2]})]

DecrRef(P, i) ==
    LET Q == Forget(P, i)
    IN  Steps(ReleaseOne, [pool |-> Q, dead |-> Unreferenced(Q, {i})], Cardinality(P.used)).pool

\* set_left, set_right.  decr_ref looks neither at the parent nor at the new
\* child, so that it comes first in the code is of no consequence.
SetChild(P, parent, side, child) ==
    LET old == P.item[parent].child[side + 1]
        linked == [P EXCEPT !.item[parent].child[side + 1] = child]
    IN  IF old = child THEN P ELSE DecrRef(IncrRef(linked, child), old)

\* Variant: the children of the copy are not counted.
CloneUncounted(P, i) ==
    LET node == P.item[i]
    IN  [AllocLeaf(P) EXCEPT !.item[FreeItem(P)] = [node EXCEPT !.dirty = TRUE],
                             !.pairs = @ + Cardinality(Keys(node.bucket))]

\* clone_for_fork: a copy of the payload with the same children, not linked yet.
CloneForFork(P, i) ==
    LET node == P.item[i]
        copied == [AllocLeaf(P) EXCEPT !.item[FreeItem(P)] = [node EXCEPT !.dirty = TRUE],
                                       !.pairs = @ + Cardinality(Keys(node.bucket))]
    IN  IncrRef(IncrRef(copied, node.child[1]), node.child[2])

\* Variant: the node is taken as it is.
ForkNever(P, i) == [id |-> i, pool |-> P]

ForkForWrite(P, i) ==
    IF P.refcnt[i] <= 1 THEN [id |-> i, pool |-> P]
    ELSE [id |-> FreeItem(P), pool |-> CloneForFork(P, i)]

-----------------------------------------------------------------------------
(* Reading *)

\* Item::each: the pairs of all leaves below a node.
WithChildren(P, nodes) ==
    nodes \cup UNION {{P.item[j].child[1], P.item[j].child[2]} : j \in {n \in nodes : ~P.item[n].leaf}}
Below(P, i) ==
    LET more(nodes) == WithChildren(P, nodes)
    IN  Steps(more, {i}, HashBits)
Each(P, i) ==
    LET leaves == {j \in Below(P, i) : P.item[j].leaf}
        pairs == UNION {{<<k, P.item[j].bucket[k]>> : k \in Keys(P.item[j].bucket)} : j \in leaves}
    IN  [k \in {p[1] : p \in pairs} |-> (CHOOSE p \in pairs : p[1] = k)[2]]

\* get_bucket
NextFor(P, i, k) == P.item[i].child[Side(k, P.item[i].prefix) + 1]
Deeper(P, i, k) == IF P.item[i].leaf THEN i ELSE NextFor(P, i, k)
Bucket(P, i, k) ==
    LET down(j) == Deeper(P, j, k)
    IN  P.item[Steps(down, i, HashBits)].bucket

MapContains(P, i, k) == k \in Keys(Bucket(P, i, k))
GetItem(P, i, k) == Bucket(P, i, k)[k]

\* Tree::difference, both ways into one tree: the keys that the NIF then looks
\* up on both sides.
Missed(P, i, j) ==
    {k \in Keys(Each(P, i)) : ~MapContains(P, j, k) \/ GetItem(P, j, k) # Each(P, i)[k]}
DifferenceKeys(P, i, j) == Missed(P, i, j) \cup Missed(P, j, i)

-----------------------------------------------------------------------------
(* Writing *)

\* split_node: a leaf becomes the parent of two.  A leaf has at most one pair
\* too many, so at most one of the two is split again.
SplitOne(s) ==
    LET P == s.pool
        t == P.item[s.at]
        Q == AllocLeaf(P)
        L == FreeItem(P)
        R == FreeItem(Q)
        part(side) == [NewItem EXCEPT !.prefix = Extended(t.prefix, side),
            !.bucket = Only(t.bucket, {k \in Keys(t.bucket) : Side(k, t.prefix) = side})]
        inner == [t EXCEPT !.bucket = <<>>, !.leaf = FALSE, !.dirty = TRUE, !.child = <<L, R>>]
    IN  IF Few(t.bucket) THEN s
        ELSE [pool |-> [AllocLeaf(Q) EXCEPT !.item[s.at] = inner, !.item[L] = part(Left),
                            !.item[R] = part(Right), !.refcnt[L] = 1, !.refcnt[R] = 1],
              at |-> IF Few(part(Left).bucket) THEN R ELSE L]

SplitNode(P, i) == Steps(SplitOne, [pool |-> P, at |-> i], HashBits + 1).pool

\* map_put; the buckets of the code are sorted by key
MapPut(P, i, k, v) ==
    LET bucket == P.item[i].bucket
    IN  [P EXCEPT !.item[i].bucket = With(bucket, k, v),
                  !.pairs = IF k \in Keys(bucket) THEN @ ELSE @ + 1]

MapDelete(P, i, k) ==
    LET bucket == P.item[i].bucket
    IN  [P EXCEPT !.item[i].bucket = Only(bucket, Keys(bucket) \ {k}),
                  !.pairs = IF k \in Keys(bucket) THEN @ - 1 ELSE @]

Last(path) == path[Len(path)]
Front(path) == SubSeq(path, 1, Len(path) - 1)

\* insert_path on its way down: every node of the path is the writer's own.
Enter(s, i) ==
    LET own == ForkForWrite(s.pool, i)
    IN  [pool |-> own.pool, path |-> Append(s.path, own.id)]
EnterNext(s, k) ==
    IF s.pool.item[Last(s.path)].leaf THEN s ELSE Enter(s, NextFor(s.pool, Last(s.path), k))
Descend(P, r, k) ==
    LET deeper(s) == EnterNext(s, k)
    IN  Steps(deeper, Enter([pool |-> P, path |-> <<>>], r), HashBits)

\* At the leaf; the null value deletes.
WriteLeaf(P, i, k, v) ==
    [(IF v = Null THEN MapDelete(P, i, k) ELSE SplitNode(MapPut(P, i, k, v), i))
     EXCEPT !.item[i].dirty = TRUE]

\* And on its way back: each node is linked to its parent.
Return(s, k) ==
    LET up == Front(s.path)
        parent == Last(up)
        linked == SetChild(s.pool, parent, Side(k, s.pool.item[parent].prefix), Last(s.path))
    IN  IF Len(s.path) <= 1 THEN s
        ELSE [pool |-> [linked EXCEPT !.item[parent].dirty = TRUE], path |-> up]
Ascend(P, nodes, k) ==
    LET back(s) == Return(s, k)
    IN  Steps(back, [pool |-> P, path |-> nodes], HashBits).pool

InsertPath(P, r, k, v) ==
    LET down == Descend(P, r, k)
    IN  [id |-> down.path[1],
         pool |-> Ascend(WriteLeaf(down.pool, Last(down.path), k, v), down.path, k)]

\* insert_item: the tree moves to a forked root.
InsertItem(P, r, k, v) ==
    LET new == InsertPath(P, r, k, v)
    IN  IF new.id = r THEN new
        ELSE [id |-> new.id, pool |-> IncrRef(DecrRef(new.pool, r), new.id)]

-----------------------------------------------------------------------------
(* Hashing *)

\* What is hashed, Leaf::to_erl_ext and to_erl_ext of two hashes: encodings that
\* can be read back, so different terms have different texts.
LeafTerm(prefix, num, pairs) == [prefix |-> prefix, num |-> num, pairs |-> pairs]
NodeTerm(l, r) == [left |-> l, right |-> r]

\* bucket_to_leafes: one hash for every column of the bucket.
LeafHashes(prefix, bucket) ==
    [c \in Column |-> LeafTerm(prefix, c,
        {<<k, bucket[k]>> : k \in {j \in Keys(bucket) : KeyColumn[j] = c}})]

NodeHashes(l, r) == [c \in Column |-> NodeTerm(l[c], r[c])]

HashLeaf(P, i) ==
    LET node == P.item[i]
    IN  [P EXCEPT !.item[i] = [node EXCEPT !.dirty = FALSE,
            !.count = Cardinality(Keys(node.bucket)),
            !.hashes = LeafHashes(node.prefix, node.bucket)]]

\* A node with few pairs below it takes them back and becomes a leaf.
Collapse(P, i) ==
    LET node == P.item[i]
        all == Each(P, i)
        taken == [P EXCEPT !.item[i].bucket = all, !.pairs = @ + Cardinality(Keys(all))]
    IN  [SetChild(SetChild(taken, i, Left, Null), i, Right, Null) EXCEPT
             !.item[i].leaf = TRUE, !.item[i].hashes = LeafHashes(node.prefix, all)]

\* Variant: a node that holds few pairs stays as it is.
HashInnerOnly(P, i) ==
    LET node == P.item[i]
        l == P.item[node.child[1]]
        r == P.item[node.child[2]]
    IN  [P EXCEPT !.item[i] = [node EXCEPT !.dirty = FALSE, !.count = l.count + r.count,
                                           !.hashes = NodeHashes(l.hashes, r.hashes)]]

HashInner(P, i) ==
    LET l == P.item[P.item[i].child[1]]
        r == P.item[P.item[i].child[2]]
        counted == [P EXCEPT !.item[i].count = l.count + r.count]
    IN  [(IF l.count + r.count <= LeafSize THEN Collapse(counted, i)
          ELSE [counted EXCEPT !.item[i].hashes = NodeHashes(l.hashes, r.hashes)])
         EXCEPT !.item[i].dirty = FALSE]

\* update_merkle_hash_count: dirty nodes in post-order; path leads to the node
\* that is looked at.
HashOne(s) ==
    LET i == Last(s.path)
        node == s.pool.item[i]
        dirty(side) == ~node.leaf /\ s.pool.item[node.child[side + 1]].dirty
        deeper(side) == [s EXCEPT !.path = Append(@, node.child[side + 1])]
    IN  IF s.path = <<>> THEN s
        ELSE IF dirty(Left) THEN deeper(Left)
        ELSE IF dirty(Right) THEN deeper(Right)
        ELSE [pool |-> IF node.leaf THEN HashLeaf(s.pool, i) ELSE HashInner(s.pool, i),
              path |-> Front(s.path)]

UpdateHashes(P, i) ==
    IF P.item[i].dirty THEN Steps(HashOne, [pool |-> P, path |-> <<i>>], 2 * Cardinality(P.used)).pool ELSE P

\* do_get_proofs: the siblings' hashes from the root down, each with the key's
\* side, then the leaf's term.  Variant: from the first column.
Nearer(P, k, c, s) ==
    LET node == P.item[s.at]
        side == Side(k, node.prefix)
        other == P.item[node.child[2 - side]]
    IN  IF node.leaf THEN s
        ELSE [at |-> NextFor(P, s.at, k),
              siblings |-> Append(s.siblings, [side |-> side, hash |-> other.hashes[c]])]
ProofWith(P, i, k, c) ==
    LET nearer(s) == Nearer(P, k, c, s)
        end == Steps(nearer, [at |-> i, siblings |-> <<>>], HashBits)
        leaf == P.item[end.at]
    IN  [siblings |-> end.siblings, term |-> LeafHashes(leaf.prefix, leaf.bucket)[KeyColumn[k]]]
ProofFirstColumn(P, i, k) == ProofWith(P, i, k, 0)
Proof(P, i, k) == ProofWith(P, i, k, KeyColumn[k])

-----------------------------------------------------------------------------
(* The calls on trees *)

Alive == {t \in Tree : root[t] # Null}

EmptyPool == [used |-> {}, item |-> [i \in Item |-> NewItem],
              refcnt |-> [i \in Item |-> 0], pairs |-> 0]

Init == root = [t \in Tree |-> Null] /\ pool = EmptyPool

\* The code's pool grows; here a call has the places a write may take: one for
\* every node of a path, two for every split.
Room == Cardinality(Item \ pool.used) >= 3 * HashBits + 1

\* Tree(): a pool of its own, so the trees here are one such tree and its copies.
Create(t) ==
    /\ Alive = {} /\ Room
    /\ root' = [root EXCEPT ![t] = FreeItem(EmptyPool)]
    /\ pool' = IncrRef(AllocLeaf(EmptyPool), FreeItem(EmptyPool))

Copy(t, u) ==
    /\ t \in Alive /\ u \notin Alive
    /\ root' = [root EXCEPT ![u] = root[t]]
    /\ pool' = IncrRef(pool, root[t])

Destroy(t) ==
    /\ t \in Alive
    /\ root' = [root EXCEPT ![t] = Null]
    /\ pool' = DecrRef(pool, root[t])

Write(t, k, v) ==
    /\ t \in Alive /\ Room
    /\ LET done == InsertItem(pool, root[t], k, v)
       IN  root' = [root EXCEPT ![t] = done.id] /\ pool' = done.pool

Insert(t) == \E p \in Pair : Write(t, p[1], p[2])
DeleteItem(t) == \E k \in Key : Write(t, k, Null)

\* root_hash, root_hashes and get_proofs leave the same hashes behind.
RootHash(t) ==
    /\ t \in Alive
    /\ pool' = UpdateHashes(pool, root[t])
    /\ UNCHANGED root

Next == \E t \in Tree :
    Create(t) \/ Destroy(t) \/ Insert(t) \/ DeleteItem(t) \/ RootHash(t) \/ \E u \in Tree : Copy(t, u)

Spec == Init /\ [][Next]_vars

-----------------------------------------------------------------------------
(* Correctness *)

Content(t) == Each(pool, root[t])

Roots(i) == Cardinality({t \in Tree : root[t] = i})
Edges(P, i) == Cardinality({e \in P.used \X {1, 2} : P.item[e[1]].child[e[2]] = i})
Held(P) ==
    LET held[n \in 0 .. MaxItem] ==
            IF n = 0 THEN 0
            ELSE held[n - 1] + (IF n \in P.used THEN Cardinality(Keys(P.item[n].bucket)) ELSE 0)
    IN  held[MaxItem]

\* Every edge counts once, from a root or from a parent, as item_pool.hpp says:
\* nothing that is reachable is free, nothing is kept that is not, no pair_t is
\* lost or given back twice.
EdgesCounted ==
    /\ \A i \in Item :
          LET edges == Roots(i) + Edges(pool, i)
          IN  pool.refcnt[i] = edges /\ (i \in pool.used <=> edges > 0)
    /\ pool.pairs = Held(pool)

\* The hashes of a subtree from its pairs alone.
Hashes(prefix, pairs) ==
    LET under(p) == Only(pairs, {k \in Keys(pairs) : \A n \in DOMAIN p : KeyBits[k][n] = p[n]})
        \* those of prefixes of HashBits - n bits
        hashes[n \in 0 .. HashBits] ==
            [p \in [1 .. HashBits - n -> {Left, Right}] |->
                IF Few(under(p)) THEN LeafHashes(p, under(p))
                ELSE NodeHashes(hashes[n - 1][Extended(p, Left)], hashes[n - 1][Extended(p, Right)])]
    IN  hashes[HashBits - Len(prefix)][prefix]

\* What a node that is not dirty says of itself is right, whichever tree wrote
\* below it or hashed it: the root hash depends on the pairs and on nothing
\* else, not on the order of writes, on deleted pairs or on copies.
CleanHashesRight ==
    \A i \in pool.used :
        ~pool.item[i].dirty =>
            LET all == Each(pool, i)
            IN  pool.item[i].hashes = Hashes(pool.item[i].prefix, all) /\ pool.item[i].count = Cardinality(Keys(all))

\* The hash a proof folds up to.
Folded(p) ==
    LET n == Len(p.siblings)
        up[m \in 0 .. n] ==
            LET s == p.siblings[n + 1 - m]
            IN  IF m = 0 THEN p.term
                ELSE IF s.side = Left THEN NodeTerm(up[m - 1], s.hash) ELSE NodeTerm(s.hash, up[m - 1])
    IN  up[n]

Has(A, k, v) == k \in Keys(A) /\ A[k] = v

\* The proof of any key, present or not, folds up to the root's hash of the
\* key's column and its term holds the key's pair exactly when the tree does;
\* lookups along the bits find what the enumeration finds, and the difference
\* of two trees is the set of keys they disagree on.
ReadsAgree ==
    \A t \in Alive :
        LET all == Content(t)
        IN  /\ \A k \in Key :
                  /\ MapContains(pool, root[t], k) <=> k \in Keys(all)
                  /\ ~pool.item[root[t]].dirty =>
                        LET p == Proof(pool, root[t], k)
                        IN  /\ Folded(p) = pool.item[root[t]].hashes[KeyColumn[k]]
                            /\ \A v \in Val : <<k, v>> \in p.term.pairs <=> Has(all, k, v)
            /\ \A u \in Alive :
                  LET others == Content(u)
                  IN  DifferenceKeys(pool, root[t], root[u]) =
                        {k \in Key : \E v \in Val : Has(all, k, v) # Has(others, k, v)}

\* Trees that share nodes are values of their own.
Values == INSTANCE TreeValues WITH
    Missing <- Null,
    val <- [t \in Tree |-> IF root[t] = Null THEN Null ELSE Content(t)]

ImplementsTreeValues == Values!Spec
=============================================================================
