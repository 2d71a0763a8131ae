SPECIFICATION FairSpec
CONSTANTS
    g = g
    c1 = c1
    a1 = a1
    a2 = a2
    a3 = a3
    b1 = b1
    b2 = b2
    Block <- UnevenBlock
    Genesis = g
    Parent <- UnevenParent
    Number <- UnevenNumber
    Total <- UnevenTotal
    NoBlock = NoBlock
    Importer = {p1, p2}
    MaxPending = 1
    MaxRestarts = 1
    MaxWriterCrashes = 1
INVARIANTS TypeOK NumbersUnique KnownBlocksLoad HeaviestWins DiskFollowsPeak
PROPERTIES RestartKeepsFork ImportReturns
CHECK_DEADLOCK FALSE
