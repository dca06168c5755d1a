SPECIFICATION FairSpec
CONSTANTS
    Cap = 2
    WakeWindow = 1
    Grace = 0
    Forced = 2
    MaxSpoken = 2
    PerPass = 2
    Deadline = 1
    MaxLines = 1
INVARIANTS
    InvitedOnly
    RequestsEndOnce
PROPERTIES
    SpeakingEnds
    RequestEnds
    CommandsServed
    QuitEnds
CHECK_DEADLOCK FALSE
