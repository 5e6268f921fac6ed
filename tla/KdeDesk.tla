------------------------------- MODULE KdeDesk -------------------------------
(***************************************************************************)
(* The KDE frontend.  Its windows drop auto-repeat; a key without a scan   *)
(* code in KeyForward's table is named by its text, which Shift changes;   *)
(* the display claims Ctrl+R before the menu sees it.                      *)
(***************************************************************************)
EXTENDS Desk

Here == ui = "kde"

\* intvKeysymForKeyEvent
Keysym(h) == <<h, h \in Moving /\ Shift \in down>>

\* intvForwardKey
IntvForwardKey(h, on) ==
    LET m == bound[Keysym(h)] IN
    IF m \in SysActs
      THEN IF on THEN Fire(m) ELSE Nothing
      ELSE Route(m, h, on) /\ Silent

\* keyPressEvent and keyReleaseEvent of either display widget.
DisplayKey(h, on) == IntvForwardKey(h, on) /\ UNCHANGED mapVars

-----------------------------------------------------------------------------
\* Map mode

MapResetUi == map' = "idle" /\ target' = NoTarget /\ CaptureCancel /\ poll' = FALSE
MapSelectTarget(t) == /\ map' = "wait" /\ target' = t
                      /\ CaptureBegin /\ poll' = TRUE
                      /\ UNCHANGED <<bound, maps>>
MapFinish == map' = "idle" /\ target' = NoTarget /\ poll' = FALSE /\ maps' = maps + 1
MapCompleteKey(s) == bound' = SetKey(target, s) /\ CaptureCancel /\ MapFinish
\* The poll that found the button has disarmed the capture.
MapCompleteButton == bound' = SetButton(target) /\ capture' = "off" /\ MapFinish

\* The Map round takes the keys, or the machine does.
ForwardKey(h, on) ==
    \/ /\ map = "wait"
       /\ IF on THEN MapCompleteKey(Keysym(h)) ELSE UNCHANGED mapVars
       /\ Nothing
    \/ map = "pick" /\ Nothing /\ UNCHANGED mapVars
    \/ map = "idle" /\ IntvForwardKey(h, on) /\ UNCHANGED mapVars

PollTick == /\ Here /\ poll /\ map = "wait" /\ capture = "got"
            /\ MapCompleteButton
            /\ Nothing
            /\ HeardAnew /\ UNCHANGED <<keyVars, windowVars, sysdown>>

OnMapClicked ==
    /\ Here /\ Clicking /\ UNCHANGED mouse
    /\ IF map # "idle" THEN MapResetUi
                       ELSE maps < MaxMaps /\ map' = "pick" /\ UNCHANGED <<target, capture, poll>>
    /\ Nothing /\ UNCHANGED <<bound, maps, heardVars>>
OnResetClicked ==
    /\ Here /\ Clicking /\ UNCHANGED mouse
    /\ MapResetUi /\ bound' = Default
    /\ Nothing /\ HeardAnew /\ UNCHANGED maps
OnSysactClicked(a) ==
    /\ Here /\ Clicking /\ UNCHANGED <<mouse, heardVars>>
    /\ \/ map = "pick" /\ MapSelectTarget(a) /\ Nothing
       \/ map = "wait" /\ Nothing /\ UNCHANGED mapVars
       \/ map = "idle" /\ Fire(a) /\ UNCHANGED mapVars

\* makeKey's pressed and released, DiscWidget's mouse events.
TargetPressed(t) ==
    /\ Here /\ Clicking /\ UNCHANGED heardVars
    /\ mouse' = [on |-> t, live |-> map = "idle"]
    /\ \/ map = "pick" /\ MapSelectTarget(t) /\ UNCHANGED machineVars
       \/ map = "wait" /\ UNCHANGED <<mapVars, machineVars>>
       \/ map = "idle" /\ PadEvent(t, TRUE) /\ UNCHANGED mapVars
    /\ Silent
TargetReleased ==
    /\ Here /\ focus = "keypad" /\ mouse.on \in Targets
    /\ mouse' = NoMouse
    /\ IF map = "idle" /\ (mouse.live \/ mouse.on \in PadKeys)
         THEN PadEvent(mouse.on, FALSE) ELSE UNCHANGED machineVars
    /\ Silent
    /\ UNCHANGED <<keyVars, mapVars, open, ecs_mode, latched, sysdown, heardVars>>

-----------------------------------------------------------------------------
\* The ECS keyboard window

EcsWindowKey(h, on) == /\ KeyEvent(h, Char(h), on)
                       /\ Silent /\ UNCHANGED <<pads, disc, mapVars>>
EcsPressed(cap) == /\ Here /\ EcsClicking /\ mouse = NoMouse /\ UNCHANGED latched
                   /\ mouse' = [on |-> cap, live |-> TRUE] /\ KeySet(cap, TRUE)
EcsReleased == /\ Here /\ EcsClicking /\ mouse.on \in Buttons /\ UNCHANGED latched
               /\ mouse' = NoMouse /\ KeySet(mouse.on, FALSE)
ModToggled(cap) == /\ Here /\ EcsClicking /\ mouse = NoMouse /\ UNCHANGED mouse
                   /\ latched' = (latched \ {cap}) \cup ({cap} \ latched)
                   /\ KeySet(cap, cap \notin latched)

-----------------------------------------------------------------------------
\* Windows and keys

ShowKeypad ==
    /\ Here /\ Commanding
    /\ IF "keypad" \in open THEN MapResetUi /\ open' = open \ {"keypad"}
                            ELSE "keypad" \in usable /\ open' = open \cup {"keypad"} /\ UNCHANGED <<map, target, capture, poll>>
    /\ UNCHANGED <<ecsVars, bound, maps>>
ShowEcs ==
    /\ Here /\ Commanding
    /\ IF "ecskbd" \in open THEN open' = open \ {"ecskbd"} /\ KeysClear
                            ELSE "ecskbd" \in usable /\ open' = open \cup {"ecskbd"} /\ UNCHANGED ecsVars
    /\ UNCHANGED mapVars

\* focusOutEvent: of the displays and of the ECS keyboard window.
FocusOut == IF focus = "keypad" THEN UNCHANGED ecsVars ELSE KeysClear
Focus(w) == /\ Here /\ Moves(w)
            /\ IF focus = "away" THEN UNCHANGED ecsVars ELSE FocusOut
            /\ UNCHANGED <<pads, disc, mapVars, windowVars, sysdown>>

\* closeEvent of the window that has the keyboard.
Closed(w) == /\ focus = w /\ mouse = NoMouse
             /\ open' = open \ {w} /\ focus' = "main"
             /\ HeardAnew /\ Silent
             /\ UNCHANGED <<ui, usable, down, pads, disc, ecs_mode, mouse, latched, sysdown>>
CloseKeypad == Here /\ Closed("keypad") /\ MapResetUi /\ UNCHANGED <<ecsVars, bound, maps>>
CloseEcs == Here /\ Closed("ecskbd") /\ KeysClear /\ UNCHANGED mapVars

Key(h, on) == \/ focus = "main" /\ DisplayKey(h, on)
              \/ focus = "keypad" /\ ForwardKey(h, on)
              \/ focus = "ecskbd" /\ EcsWindowKey(h, on)
KeyDown(h) == Here /\ Pressed(h) /\ Key(h, TRUE) /\ HeardDown(h, FALSE) /\ UNCHANGED <<windowVars, sysdown>>
KeyUp(h) == /\ Here /\ focus \in Windows /\ Released(h) /\ Key(h, FALSE) /\ HeardUp(h)
            /\ UNCHANGED <<windowVars, sysdown>>

Next ==
    \/ \E h \in HostKeys : KeyDown(h) \/ KeyUp(h) \/ Unheard(h)
    \/ \E w \in Windows \cup {"away"} : Focus(w)
    \/ ShowKeypad \/ ShowEcs \/ CloseKeypad \/ CloseEcs \/ ModeSwitched
    \/ OnMapClicked \/ OnResetClicked \/ TargetReleased \/ Latch \/ PollTick
    \/ \E a \in SysActs : OnSysactClicked(a)
    \/ \E t \in PadKeys \cup Positions : TargetPressed(t)
    \/ \E cap \in Buttons : EcsPressed(cap)
    \/ \E cap \in Latching : ModToggled(cap)
    \/ EcsReleased
=============================================================================
