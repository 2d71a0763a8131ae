--------------------------- MODULE MCMerkleTree ---------------------------
EXTENDS MerkleTree, TLC

CONSTANTS t1, t2, k1, k2, k3, k4, v1, v2

Trees == {t1, t2}

\* Three keys that part late and one that parts early; one key has two values.
Bits == k1 :> <<0, 0, 0>> @@ k2 :> <<0, 0, 1>> @@ k3 :> <<0, 1, 0>> @@ k4 :> <<1, 0, 0>>
Columns == k1 :> 0 @@ k2 :> 1 @@ k3 :> 1 @@ k4 :> 0
Pairs == {<<k1, v1>>, <<k1, v2>>, <<k2, v1>>, <<k3, v1>>, <<k4, v1>>}

-----------------------------------------------------------------------------
(* Which places of the pool a node takes is of no consequence, and the old  *)
(* hashes of a dirty node are never read: states that differ in nothing     *)
(* else count once.  Nodes are named in the order in which they are found.  *)

RECURSIVE Visit(_, _)
Visit(seen, i) ==
    IF i = Null \/ i \in {seen[n] : n \in DOMAIN seen} THEN seen
    ELSE Visit(Visit(Append(seen, i), pool.item[i].child[1]), pool.item[i].child[2])

\* The trees may also change their names.
Seen(a, b) ==
    LET found == Visit(Visit(<<>>, root[a]), root[b])
        name(i) == IF i = Null THEN 0 ELSE CHOOSE n \in DOMAIN found : found[n] = i
        node(i) == LET n == pool.item[i]
                   IN  <<n.leaf, n.dirty, n.bucket, name(n.child[1]), name(n.child[2]),
                         pool.refcnt[i], IF n.dirty THEN n.prefix ELSE <<n.hashes, n.count>> >>
    IN  <<name(root[a]), name(root[b]), [n \in DOMAIN found |-> node(found[n])]>>

View == <<{Seen(t1, t2), Seen(t2, t1)}, Cardinality(pool.used), pool.pairs>>
=============================================================================
