SPECIFICATION Spec
CONSTANTS
    None = None
    p = p
    q = q
    Slugs <- MCSlugs
    Sizes <- MCSizes
    PerArtefactCap = 2
    TotalCap = 3
    IdleEpisodes = 2
    Week = 2
    MaxEpisode = 4
    MaxTime = 3
    MaxRecords = 2
INVARIANTS
    IdleIsPruned
    LoadedWasAccepted
SYMMETRY
    MCSymmetry
CHECK_DEADLOCK FALSE
