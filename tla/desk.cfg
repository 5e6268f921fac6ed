CONSTANTS
    UIs = {"gnome","kde","windows","macos"}
    HostKeys = {"r","slash","shift","ctrl"}
    EcsCaps = {"R","QUEST","SLASH","SHIFT","CTRL"}
    NoCap = "NONE"
    Slots = 2
    PadKeys = {"top"}
    Positions = {"north"}
    SysActs = {"reset"}
    Shift = "shift"
    Ctrl = "ctrl"
    Letter = "r"
    Moving = {"slash"}
    Default <- MCDefault
    CharOf <- MCCharOf
    Latching = {"SHIFT"}
    Buttons = {"R"}
    MaxDown = 2
    Usable <- MCUsable
    MaxMaps = 1
SPECIFICATION Spec
INVARIANTS
    NoGhostKey CaptureIsAwaited OncePerPress
PROPERTY
    CaptureIsTaken
\* The user may stop typing.
CHECK_DEADLOCK FALSE
