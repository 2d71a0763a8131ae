SPECIFICATION Spec
CONSTANTS
    Thread = {t1, t2}
    MaxMap = 3
    Tree = {r1, r2, r3}
    MaxState = 2
    Val = {v0, v1}
    Empty = v0
    NoThread = NoThread
    NoTree = NoTree
    NoVal = NoVal
SYMMETRY Symmetry
INVARIANTS TypeOK NoDanglingState DiffReadsSnapshot NoCircularWait
PROPERTIES FrozenNeverChanges ImplementsValues
CHECK_DEADLOCK FALSE
