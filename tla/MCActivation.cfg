SPECIFICATION FairSpec
CONSTANTS
    d = d
    a = a
    h = h
    Words <- MCWords
    Hubs <- MCHubs
    Directives <- MCDirectives
    Succ <- MCSucc
    L1_CAP = 1
    STM_SIZE = 2
    QCap = 1
    MaxEvents = 2
    TopK = 1
INVARIANTS
    TypeOK
    WorkingSetBounded
    DirectivesLit
    ContextPrimed
PROPERTIES
    DrainEnds
CHECK_DEADLOCK FALSE
