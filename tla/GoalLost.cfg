SPECIFICATION Spec
CONSTANTS
    c1 = c1
    c2 = c2
    w1 = w1
    w2 = w2
    NoWindow = NoWindow
    Concepts <- MCConcepts
    Windows <- MCWindows
    Rules <- MCRules
    MaxChain = 4
    MaxTexts = 2
    MaxNodes = 5
    VisualEvery = 2
    StepGap = 1
    WindowWait = 3
    MaxLines = 3
    MaxLapses = 1
PROPERTIES
    LossStopsTyping
