------------------------------- MODULE WindowsDesk -----------------------------
(***************************************************************************)
(* The Windows frontend.  A message's bit 30 marks the repeats of a press; *)
(* the main window takes its hotkeys first, and Map mode refuses them.     *)
(* Only the main window lets its keys go when it loses the keyboard.       *)
(***************************************************************************)
EXTENDS Desk

Here == ui = "windows"

\* resolve_keysym: the message names the physical key.
Keysym(h) == <<h, FALSE>>

\* intv_key_is_reserved: of these keys, Ctrl+R.
KeyIsReserved(h) == h = Letter /\ Ctrl \in down

IntvForwardKey(h, on, again) ==
    LET m == bound[Keysym(h)] IN
    IF m \in SysActs
      THEN IF on /\ ~again THEN Fire(m) ELSE Nothing
      ELSE Route(m, h, on) /\ Silent

OnKey(h, on, again) == /\ IF KeyIsReserved(h) THEN Nothing ELSE IntvForwardKey(h, on, again)
                       /\ UNCHANGED mapVars

-----------------------------------------------------------------------------
\* Map mode

MapResetUi == map' = "idle" /\ target' = NoTarget /\ CaptureCancel /\ poll' = FALSE
MapSelectTarget(t) == /\ map' = "wait" /\ target' = t
                      /\ CaptureBegin /\ poll' = TRUE
                      /\ UNCHANGED <<bound, maps>>
MapFinish == map' = "idle" /\ target' = NoTarget /\ poll' = FALSE /\ maps' = maps + 1
MapCompleteKey(s) == bound' = SetKey(target, s) /\ CaptureCancel /\ MapFinish
\* The poll that found the button has disarmed the capture.
MapCompleteButton == bound' = SetButton(target) /\ capture' = "off" /\ MapFinish

\* keypad_pretranslate: Map mode intercepts the key, or the machine gets it.
KeypadKey(h, on, again) ==
    IF map = "idle" THEN IntvForwardKey(h, on, again) /\ UNCHANGED mapVars
    ELSE /\ IF map = "wait" /\ on /\ ~KeyIsReserved(h)
              THEN MapCompleteKey(Keysym(h)) ELSE UNCHANGED mapVars
         /\ Nothing

\* Mutant: the timer is a single shot.
PollTickOnce == /\ Here /\ poll /\ map = "wait" /\ poll' = FALSE
                /\ Nothing
                /\ UNCHANGED <<keyVars, windowVars, sysdown, heardVars, map, target, capture, bound, maps>>

\* WM_TIMER
PollTick == /\ Here /\ poll /\ map = "wait" /\ capture = "got"
            /\ MapCompleteButton
            /\ Nothing
            /\ HeardAnew /\ UNCHANGED <<keyVars, windowVars, sysdown>>

OnMapClicked ==
    /\ Here /\ Clicking /\ UNCHANGED mouse
    /\ IF map # "idle" THEN MapResetUi
                       ELSE maps < MaxMaps /\ map' = "pick" /\ UNCHANGED <<target, capture, poll>>
    /\ Nothing /\ UNCHANGED <<bound, maps, heardVars>>
OnResetClicked ==
    /\ Here /\ Clicking /\ UNCHANGED mouse
    /\ MapResetUi /\ bound' = Default
    /\ Nothing /\ HeardAnew /\ UNCHANGED maps
OnSysactClicked(a) ==
    /\ Here /\ Clicking /\ UNCHANGED <<mouse, heardVars>>
    /\ \/ map = "pick" /\ MapSelectTarget(a) /\ Nothing
       \/ map = "wait" /\ Nothing /\ UNCHANGED mapVars
       \/ map = "idle" /\ Fire(a) /\ UNCHANGED mapVars

\* key_btn_proc, disc_proc
TargetPressed(t) ==
    /\ Here /\ Clicking /\ UNCHANGED heardVars
    /\ mouse' = [on |-> t, live |-> map = "idle"]
    /\ \/ map = "pick" /\ MapSelectTarget(t) /\ UNCHANGED machineVars
       \/ map = "wait" /\ UNCHANGED <<mapVars, machineVars>>
       \/ map = "idle" /\ PadEvent(t, TRUE) /\ UNCHANGED mapVars
    /\ Silent
TargetReleased ==
    /\ Here /\ focus = "keypad" /\ mouse.on \in Targets
    /\ mouse' = NoMouse
    /\ IF map = "idle" /\ (mouse.live \/ mouse.on \in PadKeys)
         THEN PadEvent(mouse.on, FALSE) ELSE UNCHANGED machineVars
    /\ Silent
    /\ UNCHANGED <<keyVars, mapVars, open, ecs_mode, latched, sysdown, heardVars>>

-----------------------------------------------------------------------------
\* The ECS keyboard window

ForwardEcsKey(h, on) == /\ KeyEvent(h, Char(h), on)
                        /\ Silent /\ UNCHANGED <<pads, disc, mapVars>>
EcsPressed(cap) == /\ Here /\ EcsClicking /\ mouse = NoMouse /\ UNCHANGED latched
                   /\ mouse' = [on |-> cap, live |-> TRUE] /\ KeySet(cap, TRUE)
EcsReleased == /\ Here /\ EcsClicking /\ mouse.on \in Buttons /\ UNCHANGED latched
               /\ mouse' = NoMouse /\ KeySet(mouse.on, FALSE)
ModToggled(cap) == /\ Here /\ EcsClicking /\ mouse = NoMouse /\ UNCHANGED mouse
                   /\ latched' = (latched \ {cap}) \cup ({cap} \ latched)
                   /\ KeySet(cap, cap \notin latched)

-----------------------------------------------------------------------------
\* Windows and keys

ToggleKeypad ==
    /\ Here /\ Commanding
    /\ IF "keypad" \in open THEN MapResetUi /\ open' = open \ {"keypad"}
                            ELSE "keypad" \in usable /\ open' = open \cup {"keypad"} /\ UNCHANGED <<map, target, capture, poll>>
    /\ UNCHANGED <<ecsVars, bound, maps>>
ToggleEcs ==
    /\ Here /\ Commanding
    /\ IF "ecskbd" \in open THEN open' = open \ {"ecskbd"} /\ KeysClear
                            ELSE "ecskbd" \in usable /\ open' = open \cup {"ecskbd"} /\ UNCHANGED ecsVars
    /\ UNCHANGED mapVars

\* WM_KILLFOCUS of the main window; the other two handle none.
KillFocus == IF focus = "main" THEN KeysClear /\ PadsClear
                               ELSE UNCHANGED <<ecsVars, pads, disc>>
Focus(w) == /\ Here /\ Moves(w) /\ KillFocus
            /\ UNCHANGED <<mapVars, windowVars, sysdown>>

\* WM_CLOSE of the window that has the keyboard.
Closed(w) == /\ focus = w /\ mouse = NoMouse
             /\ open' = open \ {w} /\ focus' = "main"
             /\ HeardAnew /\ Silent
             /\ UNCHANGED <<ui, usable, down, pads, disc, ecs_mode, mouse, latched, sysdown>>
CloseKeypad == Here /\ Closed("keypad") /\ MapResetUi /\ UNCHANGED <<ecsVars, bound, maps>>
CloseEcs == Here /\ Closed("ecskbd") /\ KeysClear /\ UNCHANGED mapVars

Key(h, on, again) == \/ focus = "main" /\ OnKey(h, on, again)
                     \/ focus = "keypad" /\ KeypadKey(h, on, again)
                     \/ focus = "ecskbd" /\ ForwardEcsKey(h, on)
KeyDown(h) == Here /\ Pressed(h) /\ Key(h, TRUE, FALSE) /\ HeardDown(h, FALSE) /\ UNCHANGED <<windowVars, sysdown>>
KeyRepeat(h) == Here /\ Repeated(h) /\ Key(h, TRUE, TRUE) /\ HeardDown(h, TRUE) /\ UNCHANGED <<windowVars, sysdown>>
KeyUp(h) == /\ Here /\ focus \in Windows /\ Released(h) /\ Key(h, FALSE, TRUE) /\ HeardUp(h)
            /\ UNCHANGED <<windowVars, sysdown>>

Next ==
    \/ \E h \in HostKeys : KeyDown(h) \/ KeyRepeat(h) \/ KeyUp(h) \/ Unheard(h)
    \/ \E w \in Windows \cup {"away"} : Focus(w)
    \/ ToggleKeypad \/ ToggleEcs \/ CloseKeypad \/ CloseEcs \/ ModeSwitched
    \/ OnMapClicked \/ OnResetClicked \/ TargetReleased \/ Latch \/ PollTick
    \/ \E a \in SysActs : OnSysactClicked(a)
    \/ \E t \in PadKeys \cup Positions : TargetPressed(t)
    \/ \E cap \in Buttons : EcsPressed(cap)
    \/ \E cap \in Latching : ModToggled(cap)
    \/ EcsReleased
=============================================================================
