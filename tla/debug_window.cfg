CONSTANTS
    Places = {5}
    Fronts = {"gnome"}
    Spots = {0, 1}
    Home = 0
    KickTicks = 2
    MaxActs = 4
SPECIFICATION FairWindowSpec
PROPERTY WindowTells
CHECK_DEADLOCK FALSE
