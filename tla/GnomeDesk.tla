------------------------------ MODULE GnomeDesk ------------------------------
(***************************************************************************)
(* The GNOME frontend: the main window, the keypad window with its Map     *)
(* mode, the ECS keyboard window.  GTK repeats a held key's press without  *)
(* a mark, so each window keeps the system actions whose key is down.      *)
(***************************************************************************)
EXTENDS Desk

Here == ui = "gnome"

\* Translated without Shift: the keysym is the same at press and release.
Keysym(h) == <<h, FALSE>>

\* Mutant: a repeat is taken for a press.
ForwardKeyRepeating(w, h, on) ==
    LET m == bound[Keysym(h)] IN
    /\ IF m \in SysActs THEN (IF on THEN Fire(m) ELSE Nothing) ELSE Route(m, h, on) /\ Silent
    /\ UNCHANGED sysdown

\* forward_key of either window, Map mode aside.
ForwardKey(w, h, on) ==
    LET m == bound[Keysym(h)] IN
    IF m \in SysActs
      THEN /\ IF on /\ m \notin sysdown[w] THEN Fire(m) ELSE Nothing
           /\ sysdown' = [sysdown EXCEPT ![w] = IF on THEN @ \cup {m} ELSE @ \ {m}]
      ELSE Route(m, h, on) /\ Silent /\ UNCHANGED sysdown

\* Ctrl+R is the main window's own: neither its press nor its release is
\* forwarded.
HotKey(h) == h = Letter /\ Ctrl \in down
MainKey(h, on) == /\ IF HotKey(h) THEN Nothing /\ UNCHANGED sysdown
                                  ELSE ForwardKey("main", h, on)
                  /\ UNCHANGED mapVars

-----------------------------------------------------------------------------
\* Map mode

MapResetUi == map' = "idle" /\ target' = NoTarget /\ CaptureCancel /\ poll' = FALSE
MapSelectTarget(t) == /\ map' = "wait" /\ target' = t
                      /\ CaptureBegin /\ poll' = TRUE
                      /\ UNCHANGED <<bound, maps>>
MapCompleteKey(s) == /\ bound' = SetKey(target, s) /\ maps' = maps + 1
                     /\ map' = "idle" /\ target' = NoTarget
                     /\ CaptureCancel /\ poll' = FALSE

\* Map mode keeps the keyboard from the machine; a press ends the round.
KeypadKey(h, on) ==
    \/ /\ map = "wait"
       /\ IF on THEN MapCompleteKey(Keysym(h)) ELSE UNCHANGED mapVars
       /\ Nothing /\ UNCHANGED sysdown
    \/ map = "pick" /\ Nothing /\ UNCHANGED <<mapVars, sysdown>>
    \/ map = "idle" /\ ForwardKey("keypad", h, on) /\ UNCHANGED mapVars

\* gamepad_poll_tick
PollTick ==
    /\ Here /\ poll
    /\ \/ map # "wait" /\ poll' = FALSE /\ UNCHANGED <<map, target, capture, bound, maps>>
       \/ /\ map = "wait" /\ capture = "got"
          /\ bound' = SetButton(target) /\ maps' = maps + 1
          /\ map' = "idle" /\ target' = NoTarget
          /\ CaptureCancel /\ poll' = FALSE
    /\ Nothing
    /\ HeardAnew /\ UNCHANGED <<keyVars, windowVars, sysdown>>

OnMapClicked ==
    /\ Here /\ Clicking /\ UNCHANGED mouse
    /\ IF map # "idle" THEN MapResetUi
                       ELSE maps < MaxMaps /\ map' = "pick" /\ UNCHANGED <<target, capture, poll>>
    /\ Nothing /\ UNCHANGED <<bound, maps, heardVars>>
OnResetClicked ==
    /\ Here /\ Clicking /\ UNCHANGED mouse
    /\ MapResetUi /\ bound' = Default
    /\ Nothing /\ HeardAnew /\ UNCHANGED maps
OnSysactClicked(a) ==
    /\ Here /\ Clicking /\ UNCHANGED <<mouse, heardVars>>
    /\ \/ map = "pick" /\ MapSelectTarget(a) /\ Nothing
       \/ map = "wait" /\ Nothing /\ UNCHANGED mapVars
       \/ map = "idle" /\ Fire(a) /\ UNCHANGED mapVars

\* key_pressed, disc_pressed: an input, the target of a round, or nothing.
TargetPressed(t) ==
    /\ Here /\ Clicking /\ UNCHANGED heardVars
    /\ mouse' = [on |-> t, live |-> map = "idle"]
    /\ \/ map = "pick" /\ MapSelectTarget(t) /\ UNCHANGED machineVars
       \/ map = "wait" /\ UNCHANGED <<mapVars, machineVars>>
       \/ map = "idle" /\ PadEvent(t, TRUE) /\ UNCHANGED mapVars
    /\ Silent
\* key_released lets go whatever it did not press, disc_released does not.
TargetReleased ==
    /\ Here /\ focus = "keypad" /\ mouse.on \in Targets
    /\ mouse' = NoMouse
    /\ IF map = "idle" /\ (mouse.live \/ mouse.on \in PadKeys)
         THEN PadEvent(mouse.on, FALSE) ELSE UNCHANGED machineVars
    /\ Silent
    /\ UNCHANGED <<keyVars, mapVars, open, ecs_mode, latched, sysdown, heardVars>>

-----------------------------------------------------------------------------
\* The ECS keyboard window

EcsWindowKey(h, on) == /\ KeyEvent(h, Char(h), on)
                       /\ Silent /\ UNCHANGED <<pads, disc, mapVars, sysdown>>
EcsPressed(cap) == /\ Here /\ EcsClicking /\ mouse = NoMouse /\ UNCHANGED latched
                   /\ mouse' = [on |-> cap, live |-> TRUE] /\ KeySet(cap, TRUE)
EcsReleased == /\ Here /\ EcsClicking /\ mouse.on \in Buttons /\ UNCHANGED latched
               /\ mouse' = NoMouse /\ KeySet(mouse.on, FALSE)
ModToggled(cap) == /\ Here /\ EcsClicking /\ mouse = NoMouse /\ UNCHANGED mouse
                   /\ latched' = (latched \ {cap}) \cup ({cap} \ latched)
                   /\ KeySet(cap, cap \notin latched)

-----------------------------------------------------------------------------
\* Windows and keys

\* The main window's keypad and ECS keyboard commands show or hide; hiding
\* the keypad window ends a round, hiding the other releases its keys.
ToggleKeypad ==
    /\ Here /\ Commanding
    /\ IF "keypad" \in open THEN open' = open \ {"keypad"} /\ MapResetUi
                            ELSE "keypad" \in usable /\ open' = open \cup {"keypad"} /\ UNCHANGED <<map, target, capture, poll>>
    /\ UNCHANGED <<ecsVars, bound, maps>>
ToggleEcs ==
    /\ Here /\ Commanding
    /\ IF "ecskbd" \in open THEN open' = open \ {"ecskbd"} /\ KeysClear
                            ELSE "ecskbd" \in usable /\ open' = open \cup {"ecskbd"} /\ UNCHANGED ecsVars
    /\ UNCHANGED mapVars

\* on_focus_leave: the keypad window has none.
FocusLeaves ==
    /\ \/ focus = "main" /\ KeysClear /\ sysdown' = [sysdown EXCEPT !["main"] = {}]
       \/ focus = "ecskbd" /\ KeysClear /\ UNCHANGED sysdown
       \/ focus \in {"keypad", "away"} /\ UNCHANGED <<ecsVars, sysdown>>
    /\ UNCHANGED <<pads, disc, mapVars, ecs_mode, mouse, latched>>
Focus(w) == Here /\ Moves(w) /\ FocusLeaves /\ UNCHANGED open

\* on_close_request of the window that has the keyboard.
CloseKeypad ==
    /\ Here /\ focus = "keypad" /\ mouse = NoMouse
    /\ open' = open \ {"keypad"} /\ focus' = "main"
    /\ MapResetUi /\ sysdown' = [sysdown EXCEPT !["keypad"] = {}]
    /\ HeardAnew
    /\ Nothing /\ UNCHANGED <<ui, usable, down, bound, maps, ecs_mode, mouse, latched>>
CloseEcs ==
    /\ Here /\ focus = "ecskbd" /\ mouse = NoMouse
    /\ open' = open \ {"ecskbd"} /\ focus' = "main"
    /\ KeysClear
    /\ HeardAnew
    /\ Silent
    /\ UNCHANGED <<ui, usable, down, pads, disc, mapVars, ecs_mode, mouse, latched, sysdown>>

Key(h, on) == \/ focus = "main" /\ MainKey(h, on)
              \/ focus = "keypad" /\ KeypadKey(h, on)
              \/ focus = "ecskbd" /\ EcsWindowKey(h, on)
KeyDown(h) == Here /\ Pressed(h) /\ Key(h, TRUE) /\ HeardDown(h, FALSE) /\ UNCHANGED windowVars
KeyRepeat(h) == Here /\ Repeated(h) /\ Key(h, TRUE) /\ HeardDown(h, TRUE) /\ UNCHANGED windowVars
KeyUp(h) == Here /\ focus \in Windows /\ Released(h) /\ Key(h, FALSE) /\ HeardUp(h) /\ UNCHANGED windowVars

Next ==
    \/ \E h \in HostKeys : KeyDown(h) \/ KeyRepeat(h) \/ KeyUp(h) \/ Unheard(h)
    \/ \E w \in Windows \cup {"away"} : Focus(w)
    \/ ToggleKeypad \/ ToggleEcs \/ CloseKeypad \/ CloseEcs \/ ModeSwitched
    \/ OnMapClicked \/ OnResetClicked \/ TargetReleased \/ Latch \/ PollTick
    \/ \E a \in SysActs : OnSysactClicked(a)
    \/ \E t \in PadKeys \cup Positions : TargetPressed(t)
    \/ \E cap \in Buttons : EcsPressed(cap)
    \/ \E cap \in Latching : ModToggled(cap)
    \/ EcsReleased
=============================================================================
