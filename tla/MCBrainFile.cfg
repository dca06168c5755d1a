\* The daemon, with saves, loads and sentences at any moment.
SPECIFICATION BrainSpec
CONSTANTS
    MaxWords = 3
    MaxSentences = 1
    MaxCrashes = 1
    MAX_FANOUT = 2
    NoFile = NoFile
    Mixed = Mixed

    
PROPERTIES
    BootRecovers
    ImplementsStore
CHECK_DEADLOCK FALSE
