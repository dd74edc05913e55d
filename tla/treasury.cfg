SPECIFICATION FairSpec
CONSTANTS
    a1 = a1
    a2 = a2
    w1 = w1
    Advances <- MCAdvances
    Bypass <- MCBypass
    Gaps <- MCGaps
    MinAdvances = 2
    HistorySize = 2
    RootsPerRPC = 0
    MaxSaves = 3
INVARIANTS
    TreeIsThatOfPool
    RootsDiffer
    RootsAreKnown
PROPERTY
    EveryAdvanceIsProvable
CHECK_DEADLOCK FALSE
