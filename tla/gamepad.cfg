SPECIFICATION FairSpec
CONSTANTS
    Pads = {p1, p2}
    NoPad = NoPad
    NSides = 2
    MaxPads = 2
    Buttons = {"a", "up"}
    Keys = {K}
    K = K
    StickDirs = {8}
    Clicks = {0}
    Tables <- MCTables
    MaxEvents = 2
    MaxCalls = 1
INVARIANTS CacheHonest DiscFollows NoStuckKey
PROPERTIES PostedFires StopReturns
