SPECIFICATION FairSpec
CONSTANTS
    p1 = p1
    p2 = p2
    c1 = c1
    c2 = c2
    Producers <- MCProducers
    Consumers <- MCConsumers
    Capacity = 2
    PosMod = 16
    Laps = 7
    MaxLag = 3
    MaxTickets = 3
    NoSpike = NoSpike
INVARIANTS
    CellExclusive
PROPERTIES
    RefusalsAreTrue
    EverySpikeHandedOut
    ImplementsChannel
