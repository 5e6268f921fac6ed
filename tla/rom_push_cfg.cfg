SPECIFICATION Spec
CONSTANTS
    Start = "start"
    Titles = {"hdr", "pair", "jlp", "flat", "odd"}
    Odd = {"odd"}
    Hdr = {"hdr"}
    Paired = {"pair", "jlp"}
    BigCfg = {"pair"}
    Covers = {"hdr"}
    Jlp = {"jlp"}
    RomLen = 2
    KnownLens = {2}
    CfgRoom = 1
    GuessLen = 1
    StartLegacy = FALSE
    MaxTxns = 4
    MaxFaults = 1
CHECK_DEADLOCK FALSE
INVARIANT OwnCfg
