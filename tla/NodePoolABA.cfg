SPECIFICATION Spec
CONSTANTS
    t1 = t1
    t2 = t2
    Threads <- MCThreads
    Capacity = 4
    InitialNodes = 3
    TagMod = 16
    MaxOps = 7
SYMMETRY MCSymmetry
INVARIANTS
    OneOwnerPerNode
