SPECIFICATION Spec
CONSTANTS
    Map = {m1, m2}
    Addr = {a1}
    Tree = {r1, r2, r3}
    Meta = {x0, x1}
    ZeroMeta = x0
    Stor = {s0, s1}
    ZeroStor = s0
    None = None
    ResourceUncompact = TRUE
SYMMETRY Symmetry
INVARIANT RoundTripWithoutDeletion
PROPERTY NewMapsAreCopies
CHECK_DEADLOCK FALSE
