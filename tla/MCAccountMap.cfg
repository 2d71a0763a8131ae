SPECIFICATION Spec
CONSTANTS
    Map = {m1, m2}
    Addr = {a1, a2}
    Tree = {r1, r2, r3, r4}
    Meta = {x0}
    ZeroMeta = x0
    Stor = {s0, s1}
    ZeroStor = s0
    None = None
    ResourceUncompact = FALSE
SYMMETRY Symmetry
INVARIANTS TypeOK TrieAgrees NoSharedTrie
PROPERTIES StopsAtOneAccount ImplementsValues
CHECK_DEADLOCK FALSE
