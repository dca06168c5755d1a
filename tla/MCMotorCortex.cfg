SPECIFICATION FairSpec
CONSTANTS
    Procedures <- MCProcedures
    Chains <- MCChains
    QueueSize = 3
    Text = 2
    MaxJobs = 1
    MaxPresses = 1
    MaxAborts = 1
    MaxResets = 1
INVARIANTS
    TypeOK
    CommandsArriveWhole
    StopsInTime
    StepsRunInPrefix
PROPERTIES
    BackpressureEnds
