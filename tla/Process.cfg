SPECIFICATION ProcFairSpec
CONSTANTS
    k1 = k1
    k2 = k2
    Hosts = {"server", "cli", "api"}
    MaxStarts = 2
    Keys = {k1, k2}
INVARIANTS
    ProcTypeOK
    ToolsKept
    ServingComplete
    NothingLeftOpen
    TokensJudged
PROPERTY
    StartEnds
