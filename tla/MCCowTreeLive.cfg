SPECIFICATION FairSpec
CONSTANTS
    Thread = {t1, t2}
    MaxMap = 2
    Tree = {r1, r2, r3}
    MaxState = 2
    Val = {v0}
    Empty = v0
    NoThread = NoThread
    NoTree = NoTree
    NoVal = NoVal
PROPERTIES CallsReturn UnreferencedReclaimed
CHECK_DEADLOCK FALSE
