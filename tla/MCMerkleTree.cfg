SPECIFICATION Spec
CONSTANTS
    t1 = t1
    t2 = t2
    k1 = k1
    k2 = k2
    k3 = k3
    k4 = k4
    v1 = v1
    v2 = v2
    Tree <- Trees
    Pair <- Pairs
    HashBits = 3
    KeyBits <- Bits
    KeyColumn <- Columns
    LeafSize = 2
    MaxItem = 22
    Null = Null
VIEW View
INVARIANTS EdgesCounted CleanHashesRight ReadsAgree
PROPERTIES ImplementsTreeValues
CHECK_DEADLOCK FALSE
