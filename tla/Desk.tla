-------------------------------- MODULE Desk --------------------------------
(***************************************************************************)
(* What the four frontends share of the keyboard's way into the machine:   *)
(* the host keyboard and the windows it types into, the bindings that      *)
(* route a key to a hand controller, a system action or the ECS keyboard,  *)
(* and what the machine sees.  GnomeDesk, KdeDesk, WindowsDesk and MacDesk *)
(* add each its handlers.  Their UI threads run one handler at a time; the *)
(* gamepad thread can latch a captured button between any two.             *)
(***************************************************************************)
EXTENDS EcsKeys

CONSTANTS UIs,        \* frontends: "gnome", "kde", "windows", "macos"
          PadKeys,    \* keypad digits and action buttons
          Positions,  \* disc positions
          SysActs,    \* system actions
          Shift, Ctrl, Letter, \* host keys: Shift, Ctrl, and the R of Ctrl+R
          Moving,     \* host keys whose character no scan-code table fixes
          Default,    \* the targets the keysyms have by default
          CharOf,     \* the ECS key of <<host key, Shift is down>>
          Latching,   \* the ECS keys whose on-screen buttons latch
          Buttons,    \* the ECS keys of the other on-screen buttons
          MaxDown,    \* bound: keys down at a time
          Usable,     \* bound: the sets of windows a behaviour may open
          MaxMaps     \* bound: bindings made

Targets == PadKeys \cup Positions \cup SysActs
NoTarget == "none"
Centre == "centre"
Windows == {"main", "keypad", "ecskbd"}

\* What a frontend's translation makes of a key: Shift moves some.
Keysyms == HostKeys \X BOOLEAN

ASSUME DeskAssumption ==
    /\ NoTarget \notin Targets
    /\ MaxMaps \in Nat
    /\ {Shift, Ctrl, Letter} \cup Moving \subseteq HostKeys
    /\ Default \in [Keysyms -> Targets \cup {NoTarget}]
    /\ CharOf \in [HostKeys \X BOOLEAN -> EcsCaps \cup {NoCap}]
    \* bindings.c keeps one key per target.
    /\ \A r, s \in Keysyms : Default[r] = Default[s] => r = s \/ Default[r] = NoTarget
    /\ (Latching \cup Buttons) \subseteq EcsCaps
    \* The keys of the two on-screen windows are two enumerations, and the
    \* pointer holds one of either.
    /\ (Targets \cup {NoTarget}) \cap EcsCaps = {}

VARIABLES ui,        \* the frontend that runs, one of UIs
          down,      \* the host keys that are physically down
          usable,    \* bound: the windows this behaviour uses, one of Usable
          focus,     \* the window that has the keyboard, or "away"
          open,      \* the windows shown
          ecs_mode,  \* "keyboard_mode": the keyboard types on the ECS
          bound,     \* the target of each keysym
          maps,      \* how often a binding was made
          pads,      \* the keypad keys and action buttons down in pad_t
          disc,      \* the disc's position in pad_t
          map,       \* Map mode: "idle", "pick" or "wait"
          target,    \* the target picked, read while Map mode waits
          capture,   \* the gamepad capture: "off", "armed", or "got" a button
          poll,      \* the timer that asks for its result runs
          mouse,     \* what the pointer holds down, and whether the machine saw it
          latched,   \* the on-screen Shift and Ctrl that show as latched
          sysdown,   \* GNOME: the system actions whose key is down, per window
          act,       \* the system action the last event fired
          fired,     \* host keys that fired one since they went down in the window
          twice      \* a key fired one again without going up

keyVars == <<ui, usable, down, focus>>
machineVars == <<pads, disc, ecs_held, k>>
mapVars == <<map, target, capture, poll, bound, maps>>
windowVars == <<open, ecs_mode, mouse, latched>>
heardVars == <<fired, twice>>
deskVars == <<keyVars, machineVars, mapVars, windowVars, sysdown, act, heardVars>>

NoMouse == [on |-> NoTarget, live |-> FALSE]

DeskInit ==
    /\ ui \in UIs
    /\ usable \in Usable /\ down = {} /\ focus = "main"
    /\ pads = {} /\ disc = Centre /\ EcsInit
    /\ map = "idle" /\ target = NoTarget /\ capture = "off" /\ poll = FALSE
    /\ bound = Default /\ maps = 0
    /\ open = {"main"} /\ ecs_mode = FALSE /\ mouse = NoMouse /\ latched = {}
    /\ sysdown = [w \in {"main", "keypad"} |-> {}]
    /\ act = NoTarget /\ fired = {} /\ twice = FALSE

-----------------------------------------------------------------------------
\* The machine

Char(h) == CharOf[<<h, Shift \in down>>]

\* intvsession_pad_key, intvsession_pad_disc
PadEvent(m, on) ==
    /\ pads' = IF m \notin PadKeys THEN pads
               ELSE IF on THEN pads \cup {m} ELSE pads \ {m}
    /\ disc' = IF m \notin Positions THEN disc ELSE IF on THEN m ELSE Centre
    /\ UNCHANGED ecsVars
PadsClear == pads' = {} /\ disc' = Centre

\* The end of every forwarder: the ECS's matrix or the hand controllers.
Route(m, h, on) == IF ecs_mode
                     THEN KeyEvent(h, Char(h), on) /\ UNCHANGED <<pads, disc>>
                     ELSE PadEvent(m, on)

\* A system action fires; the reset it asks for lets every input go.
Fire(m) == /\ act' = m
           /\ PadsClear /\ MatrixReset
Silent == act' = NoTarget
Nothing == Silent /\ UNCHANGED machineVars

-----------------------------------------------------------------------------
\* The bindings: one keysym or button for a target, one target for each.

SetKey(t, s) == [r \in Keysyms |-> IF r = s THEN t ELSE IF bound[r] = t THEN NoTarget ELSE bound[r]]
SetButton(t) == [r \in Keysyms |-> IF bound[r] = t THEN NoTarget ELSE bound[r]]

CaptureBegin == capture' = "armed"
\* Mutant: the capture stays armed.
CaptureKept == UNCHANGED capture
CaptureCancel == capture' = "off"

\* The gamepad thread latches the first button that goes down.
Latch == /\ capture = "armed"
         /\ capture' = "got"
         /\ Silent
         /\ UNCHANGED <<keyVars, machineVars, map, target, poll, bound, maps,
                        windowVars, sysdown, heardVars>>

-----------------------------------------------------------------------------
\* The host keyboard and the window system

Pressed(h) == /\ focus \in Windows /\ h \notin down /\ Cardinality(down) < MaxDown
              /\ down' = down \cup {h}
              /\ UNCHANGED <<ui, usable, focus>>
Repeated(h) == /\ focus \in Windows /\ h \in down /\ h \notin {Shift, Ctrl}
               /\ UNCHANGED keyVars
Released(h) == /\ h \in down
               /\ down' = down \ {h}
               /\ UNCHANGED <<ui, usable, focus>>
HeardDown(h, again) ==
    /\ fired' = IF bound' # bound THEN {} ELSE IF act' # NoTarget THEN fired \cup {h}
               ELSE IF again THEN fired ELSE fired \ {h}
    /\ twice' = (again /\ h \in fired /\ act' # NoTarget)
HeardUp(h) == UNCHANGED fired /\ twice' = FALSE
\* Another window hears the keys, or the keys mean something else.
HeardAnew == fired' = {} /\ twice' = FALSE

\* The keyboard goes to another window of the application, or elsewhere.
Moves(w) == /\ w \in (open \cup {"away"}) \ {focus}
            /\ mouse = NoMouse
            /\ focus' = w
            /\ Silent /\ HeardAnew
            /\ UNCHANGED <<ui, usable, down>>

\* A settings window's ECS Keyboard switch.
ModeSwitched == /\ focus = "away" /\ "settings" \in usable
                /\ ecs_mode' = ~ecs_mode
                /\ IF ecs_mode THEN KeysClear ELSE UNCHANGED ecsVars
                /\ Silent
                /\ UNCHANGED <<keyVars, pads, disc, mapVars, open, mouse, latched, sysdown, heardVars>>

\* The pointer acts in the keypad window, or in the ECS keyboard's; the main
\* window's commands show and hide the two.
Clicking == /\ focus = "keypad" /\ mouse = NoMouse
            /\ UNCHANGED <<keyVars, open, ecs_mode, latched, sysdown>>
EcsClicking == /\ focus = "ecskbd"
               /\ Silent
               /\ UNCHANGED <<keyVars, pads, disc, ecs_held, mapVars, open, ecs_mode, sysdown, heardVars>>
Commanding == /\ focus = "main"
              /\ Silent
              /\ UNCHANGED <<keyVars, pads, disc, ecs_mode, mouse, latched, sysdown, heardVars>>

\* A key goes up while no window of the application has the keyboard.
Unheard(h) == /\ focus = "away"
              /\ Released(h)
              /\ Nothing
              /\ UNCHANGED <<mapVars, windowVars, sysdown, heardVars>>

-----------------------------------------------------------------------------
DeskTypeOK ==
    /\ ui \in UIs
    /\ EcsTypeOK
    /\ down \subseteq HostKeys /\ usable \in Usable
    /\ focus \in Windows \cup {"away"} /\ open \subseteq Windows
    /\ ecs_mode \in BOOLEAN /\ bound \in [Keysyms -> Targets \cup {NoTarget}]
    /\ maps \in 0 .. MaxMaps
    /\ pads \subseteq PadKeys /\ disc \in Positions \cup {Centre}
    /\ map \in {"idle", "pick", "wait"} /\ target \in Targets \cup {NoTarget}
    /\ capture \in {"off", "armed", "got"} /\ poll \in BOOLEAN
    /\ mouse \in [on : Targets \cup Buttons \cup {NoTarget}, live : BOOLEAN]
    /\ latched \subseteq Latching
    /\ sysdown \in [{"main", "keypad"} -> SUBSET SysActs]
    /\ act \in SysActs \cup {NoTarget} /\ fired \subseteq HostKeys /\ twice \in BOOLEAN

\* Nothing is down in the ECS's matrix that no one put there: a host key on
\* record, a latched button, a button under the pointer.  And a host key has
\* one record, so its release finds the ECS key its press put down.
NoGhostKey == /\ k \subseteq (Recorded \cup latched \cup {mouse.on})
              /\ OneRecord

\* While the gamepads' buttons are kept from the game, a Map round waits for
\* one of them, and the timer that takes it runs.
CaptureIsAwaited == /\ capture # "off" => map = "wait"
                    /\ map = "wait" => capture # "off" /\ poll

\* Holding a system action's key fires it once, however the toolkit repeats
\* it ("fires once, not ~60 times/sec", gnome/keypad/keypad_window.c:640).
OncePerPress == ~twice

\* A button a gamepad gave to a Map round is used or dropped, the round with
\* it: the gamepads come back to the game.
CaptureIsTaken == (capture = "got") ~> (capture = "off")

\* "Losing keyboard focus shouldn't leave a key stuck down in whichever
\* matrix was active" (gnome/window.c:470, kde/DisplayWidget.cpp:104).
FocusLossReleases ==
    [][focus = "main" /\ focus' # "main" => pads' = {} /\ disc' = Centre /\ k' = {}]_deskVars

\* "a Map sequence left armed behind a hidden window would still be capturing
\* gamepad input on the next show -- abort it" (macos/keypad/KeypadWindow.m:517).
HiddenIsDisarmed == "keypad" \notin open => map = "idle" /\ capture = "off"
=============================================================================
