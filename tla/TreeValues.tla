----------------------------- MODULE TreeValues -----------------------------
(***************************************************************************)
(* What the Merkle trees promise the accounts: every tree is a function    *)
(* from keys to values that only a write to this very tree changes, one    *)
(* key at a time, and a copy starts equal and then lives alone.            *)
(***************************************************************************)

CONSTANTS Tree, Key, Val, Missing

VARIABLE val

Init == val = [t \in Tree |-> Missing]

\* What a call may leave in a tree that holds f: one pair more, another value
\* of a key, one key less, the same, or nothing at all.
Changed(f, g) ==
    \/ g = Missing
    \/ \E k \in Key :
          \/ g = [j \in DOMAIN f \ {k} |-> f[j]]
          \/ \E v \in Val : g = [j \in DOMAIN f \cup {k} |-> IF j = k THEN v ELSE f[j]]

\* A first tree is empty, a later one starts as a copy.
Begun(alive, g) == IF alive = {} THEN g = <<>> ELSE g \in alive

Step(now, next) ==
    \E t \in Tree :
        /\ \A u \in Tree \ {t} : next[u] = now[u]
        /\ IF now[t] = Missing THEN Begun({now[u] : u \in Tree} \ {Missing}, next[t])
           ELSE Changed(now[t], next[t])

Next == Step(val, val')

Spec == Init /\ [][Next]_val
=============================================================================
