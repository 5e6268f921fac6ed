CONSTANTS
    Carts = {c1}
    NoCart = NoCart
    Libraries = {"none", "good"}
    MaxRuns = 3
    RingMax = 2
    Chips = {psg, voice}
    BufCnt = 2
    BufSize = 2
    Capacity = 5
    Target = 2
    HighWater = 4
    Request = 2
    MaxMade = 3
    Pictures = {p1, p2}
    MaxSerial = 2
    UIs = {"gnome", "kde", "windows", "macos"}
    PoolKeep = 1
    MaxLoans = 2
    MaxFaults = 1
    Requests = {q1, q2}
    Replies = {r1}
    Scrap = junk
    TraceMax = 3
    TraceSerials = 6
    NTargets = 4
    Side <- MCSide
    Kind <- MCKind
    Left <- MCLeft
    d5 = d5
    arrow = arrow
    lowK = lowK
    capK = capK
    esc = esc
    south = south
    NoKey = NoKey
    NoButton = NoButton
    Keysyms <- MCKeysyms
    Norm <- MCNorm
    KeyMap <- MCKeyMap
    Walk <- MCWalk
    SysKey <- MCSysKey
    Buttons = {south}
    DefButton <- MCDefButton
    Windows = TRUE
    Faults = {"open", "write", "rename"}
    MaxCalls = 2
    Places = {5}
    Fronts = {"gnome", "kde", "windows", "macos"}
    Spots = {0, 1}
    Home = 0
    KickTicks = 2
    MaxActs = 4
SPECIFICATION Spec
INVARIANTS
    OneMachine SoundIsOwn DownIsDown
    OwnedOnce KeptIsDrawn CallbackIsLive
    NothingMiscounted ChangeIsSeen
    OneTarget Durable
    UnchangedIsShown
PROPERTIES
    CallReturns StreamSpec NewestIsShown CrashSafe
\* A call may never come, and the bounds are reached.
CHECK_DEADLOCK FALSE
