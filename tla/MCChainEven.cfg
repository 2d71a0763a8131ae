SPECIFICATION Spec
CONSTANTS
    g = g
    c1 = c1
    a1 = a1
    a2 = a2
    a3 = a3
    b1 = b1
    b2 = b2
    Block <- EvenBlock
    Genesis = g
    Parent <- EvenParent
    Number <- EvenNumber
    Total <- EvenTotal
    NoBlock = NoBlock
    Importer = {p1, p2}
    MaxPending = 1
    MaxRestarts = 1
    MaxWriterCrashes = 1
INVARIANT IndexFollowsPeak
SYMMETRY Symmetry
CHECK_DEADLOCK FALSE
