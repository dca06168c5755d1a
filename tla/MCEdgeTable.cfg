SPECIFICATION TableSpec
CONSTANTS
    Targets = {a, b, c, d}
    Strengths <- MCStrengths
    MaxFanout = 3
    MaxWeight = 4
    EdgePrune = 2
    FanoutCap = 2
    MaxChanges = 6
    Unwritten = Unwritten
SYMMETRY TargetSymmetry
INVARIANTS
    TableSound
PROPERTIES
    KeepsStrongest
    ImplementsEdgeSet
