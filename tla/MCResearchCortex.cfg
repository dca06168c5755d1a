SPECIFICATION FairSpec
CONSTANTS
    PlanSteps = 2
    MaxPlans = 3
    MaxFacts = 1
    MaxTyping = 1
INVARIANTS
    TypeOK
    NoDataRace
    PlanWorkedOff
    ResultsKept
PROPERTIES
    ResearchEnds
