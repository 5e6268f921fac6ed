----------------------------- MODULE Desk_proofs -----------------------------
(***************************************************************************)
(* What holds of the keyboard's way into the machine whichever frontend    *)
(* runs, for every set of host keys and ECS keys, every table that maps    *)
(* them, every size of the session's record and every number of bindings   *)
(* made.  Each frontend's steps are shown to be, of each part of the desk, *)
(* one of a few; the invariants are proved of those.                       *)
(***************************************************************************)
EXTENDS Desks, TLAPS, WellFoundedInduction

-----------------------------------------------------------------------------
(* What a step does to each part of the desk.                              *)

\* Map mode and the bindings: a round ends unused or with a binding, begins,
\* waits for its input, gets a button; a timer finds nothing to wait for.
Taken == bound' = SetButton(target) \/ \E s \in Keysyms : bound' = SetKey(target, s)
MapStep ==
    \/ UNCHANGED mapVars
    \/ /\ map' = "idle" /\ target' = NoTarget /\ capture' = "off" /\ poll' = FALSE
       /\ \/ (bound' = bound \/ bound' = Default) /\ maps' = maps
          \/ map = "wait" /\ Taken /\ maps' = maps + 1
    \/ /\ map = "idle" /\ map' = "pick" /\ maps < MaxMaps
       /\ UNCHANGED <<target, capture, poll, bound, maps>>
    \/ /\ map = "pick" /\ map' = "wait" /\ target' \in Targets
       /\ capture' = "armed" /\ poll' = TRUE
       /\ UNCHANGED <<bound, maps>>
    \/ /\ capture = "armed" /\ capture' = "got"
       /\ UNCHANGED <<map, target, poll, bound, maps>>
    \/ /\ map # "wait" /\ poll' = FALSE
       /\ UNCHANGED <<map, target, capture, bound, maps>>

\* The ECS's matrix, the record of its keys, the pointer and the latches.
Keyed == \E h \in HostKeys, c \in EcsCaps \cup {NoCap}, on \in BOOLEAN : KeyEvent(h, c, on)
MatrixStep ==
    \/ UNCHANGED <<ecsVars, latched, mouse>>
    \/ (Keyed \/ KeysClear \/ MatrixReset) /\ UNCHANGED <<latched, mouse>>
    \/ /\ mouse.on \in Targets \cup {NoTarget}
       /\ mouse' \in [on : Targets \cup {NoTarget}, live : BOOLEAN]
       /\ UNCHANGED <<ecsVars, latched>>
    \/ /\ mouse = NoMouse /\ UNCHANGED <<ecs_held, latched>>
       /\ \E c \in Buttons : KeySet(c, TRUE) /\ mouse' = [on |-> c, live |-> TRUE]
    \/ KeySet(mouse.on, FALSE) /\ mouse' = NoMouse /\ UNCHANGED <<ecs_held, latched>>
    \/ /\ UNCHANGED <<ecs_held, mouse>>
       /\ \E c \in Latching : /\ latched' = (latched \ {c}) \cup ({c} \ latched)
                              /\ KeySet(c, c \notin latched)

\* The hand controllers and the system actions.
SysTable == [{"main", "keypad"} -> SUBSET SysActs]
InputStep == /\ pads' \subseteq pads \cup PadKeys /\ disc' \in {disc, Centre} \cup Positions
             /\ act' \in SysActs \cup {NoTarget}
             /\ sysdown \in SysTable => sysdown' \in SysTable

\* The keyboard and the windows.
RestStep == /\ UNCHANGED <<ui, usable>>
            /\ down' \subseteq down \cup HostKeys
            /\ focus' \in {focus} \cup open \cup Windows \cup {"away"}
            /\ open' \subseteq open \cup Windows /\ ecs_mode' \in {ecs_mode, ~ecs_mode}
            /\ fired' \subseteq fired \cup HostKeys /\ twice' \in {FALSE, TRUE, twice}

\* The character tables cover every key.
LEMMA CharIs == \A h \in HostKeys : Char(h) \in EcsCaps \cup {NoCap}
<1> TAKE h \in HostKeys
<1>1. \A b \in BOOLEAN : CharOf[<<h, b>>] \in EcsCaps \cup {NoCap}
  BY DeskAssumption
<1>2. (Shift \in down) \in BOOLEAN
  OBVIOUS
<1> QED BY <1>1, <1>2, Zenon DEF Char

-----------------------------------------------------------------------------
(* GNOME                                                                   *)

\* What the frontend takes from Desk is the same in each.
LEMMA GnomeShares ==
    /\ G!NoTarget = NoTarget /\ G!Centre = Centre /\ G!Windows = Windows
    /\ G!Targets = Targets /\ G!NoMouse = NoMouse
    /\ \A t, s : G!SetKey(t, s) = SetKey(t, s)
    /\ \A t : G!SetButton(t) = SetButton(t)
    /\ G!KeysClear <=> KeysClear
    /\ G!MatrixReset <=> MatrixReset
    /\ \A c, on : G!KeySet(c, on) <=> KeySet(c, on)
    /\ \A h : G!Char(h) = Char(h)
BY DEF G!NoTarget, NoTarget, G!Centre, Centre, G!Windows, Windows, G!Targets, Targets,
   G!NoMouse, NoMouse, G!SetKey, SetKey, G!SetButton, SetButton, G!Keysyms, Keysyms,
   G!KeysClear, KeysClear, G!MatrixReset, MatrixReset, G!KeySet, KeySet, G!Char, Char,
   G!Free, Free, G!NoHost, NoHost, G!TableSlots, TableSlots

LEMMA GnomeKeyEvent == \A h, c, on : G!KeyEvent(h, c, on) <=> KeyEvent(h, c, on)
BY DEF G!KeyEvent, KeyEvent, G!HostDown, HostDown, G!HostUp, HostUp, G!SlotFor, SlotFor,
   G!SlotsOf, SlotsOf, G!FreeSlots, FreeSlots, G!First, First, G!Free, Free, G!NoHost,
   NoHost, G!LetGo, LetGo, G!TableSlots, TableSlots, G!ecsVars, ecsVars

LEMMA GnomeMap == G!Next => MapStep
<1> SUFFICES ASSUME G!Next PROVE MapStep
  OBVIOUS
<1> USE DEF MapStep, mapVars, G!mapVars
<1>1. ASSUME NEW h \in HostKeys, G!KeyDown(h) \/ G!KeyRepeat(h) \/ G!KeyUp(h)
      PROVE  MapStep
  <2>1. UNCHANGED mapVars \/ (map = "wait" /\ G!MapCompleteKey(G!Keysym(h)))
    BY <1>1 DEF G!KeyDown, G!KeyRepeat, G!KeyUp, G!Key, G!MainKey, G!KeypadKey,
        G!EcsWindowKey
  <2>2. G!Keysym(h) \in Keysyms
    BY DEF G!Keysym, Keysyms
  <2> QED
    BY <2>1, <2>2, GnomeShares DEF G!MapCompleteKey, G!CaptureCancel, Taken
<1>2. ASSUME NEW h, G!Unheard(h) PROVE MapStep
  BY <1>2 DEF G!Unheard
<1>3. ASSUME NEW w, G!Focus(w) PROVE MapStep
  BY <1>3 DEF G!Focus, G!FocusLeaves
<1>4. CASE G!ToggleKeypad \/ G!CloseKeypad
  BY <1>4, GnomeShares DEF G!ToggleKeypad, G!CloseKeypad, G!MapResetUi, G!CaptureCancel
<1>5. CASE G!ToggleEcs \/ G!CloseEcs
  BY <1>5 DEF G!ToggleEcs, G!CloseEcs
<1>6. CASE G!ModeSwitched \/ G!TargetReleased \/ G!EcsReleased
  BY <1>6 DEF G!ModeSwitched, G!TargetReleased, G!EcsReleased, G!EcsClicking
<1>7. CASE G!OnMapClicked \/ G!OnResetClicked
  BY <1>7, GnomeShares DEF G!OnMapClicked, G!OnResetClicked, G!MapResetUi, G!CaptureCancel
<1>8. ASSUME NEW a \in SysActs, G!OnSysactClicked(a) PROVE MapStep
  BY <1>8, GnomeShares DEF G!OnSysactClicked, G!MapSelectTarget, G!CaptureBegin, Targets
<1>9. ASSUME NEW t \in PadKeys \cup Positions, G!TargetPressed(t) PROVE MapStep
  BY <1>9, GnomeShares DEF G!TargetPressed, G!MapSelectTarget, G!CaptureBegin, Targets
<1>10. ASSUME NEW c, G!EcsPressed(c) \/ G!ModToggled(c) PROVE MapStep
  BY <1>10 DEF G!EcsPressed, G!ModToggled, G!EcsClicking
<1>11. CASE G!Latch
  BY <1>11 DEF G!Latch
<1>12. CASE G!PollTick
  BY <1>12, GnomeShares DEF G!PollTick, G!CaptureCancel, Taken
<1> QED
  BY <1>1, <1>2, <1>3, <1>4, <1>5, <1>6, <1>7, <1>8, <1>9, <1>10, <1>11, <1>12, Zenon DEF
      G!Next

LEMMA GnomeMatrix == G!Next => MatrixStep
<1> SUFFICES ASSUME G!Next PROVE MatrixStep
  OBVIOUS
<1>1. ASSUME NEW h \in HostKeys, NEW on \in BOOLEAN, G!Key(h, on), UNCHANGED windowVars
      PROVE  MatrixStep
  <2>1. G!KeyEvent(h, G!Char(h), on) => Keyed
    BY GnomeKeyEvent, GnomeShares, CharIs DEF Keyed
  <2>2. (Keyed \/ MatrixReset \/ UNCHANGED ecsVars) /\ UNCHANGED <<latched, mouse>>
    BY <1>1, <2>1, GnomeShares DEF G!Key, G!MainKey, G!KeypadKey, G!EcsWindowKey,
        G!ForwardKey, G!Route, G!PadEvent, G!Fire, G!Nothing, G!machineVars, G!ecsVars,
        ecsVars, windowVars
  <2> QED
    BY <2>2 DEF MatrixStep
<1>2. ASSUME NEW h \in HostKeys, G!KeyDown(h) \/ G!KeyRepeat(h) \/ G!KeyUp(h)
      PROVE  MatrixStep
  BY <1>1, <1>2 DEF G!KeyDown, G!KeyRepeat, G!KeyUp, G!windowVars, windowVars
<1> USE DEF MatrixStep, ecsVars, G!ecsVars
<1>3. ASSUME NEW h, G!Unheard(h) PROVE MatrixStep
  BY <1>3 DEF G!Unheard, G!Nothing, G!machineVars, G!windowVars
<1>4. ASSUME NEW w, G!Focus(w) PROVE MatrixStep
  BY <1>4, GnomeShares DEF G!Focus, G!FocusLeaves, G!windowVars, G!Moves
<1>5. CASE G!ToggleKeypad \/ G!ToggleEcs
  BY <1>5, GnomeShares DEF G!ToggleKeypad, G!ToggleEcs, G!Commanding
<1>6. CASE G!CloseKeypad \/ G!CloseEcs
  BY <1>6, GnomeShares DEF G!CloseKeypad, G!CloseEcs, G!Nothing, G!machineVars
<1>7. CASE G!ModeSwitched
  BY <1>7, GnomeShares DEF G!ModeSwitched
<1>8. CASE G!OnMapClicked \/ G!OnResetClicked
  BY <1>8 DEF G!OnMapClicked, G!OnResetClicked, G!Clicking, G!Nothing, G!machineVars
<1>9. ASSUME NEW a, G!OnSysactClicked(a) PROVE MatrixStep
  BY <1>9, GnomeShares DEF G!OnSysactClicked, G!Clicking, G!Nothing, G!machineVars, G!Fire
<1>10. ASSUME NEW t \in PadKeys \cup Positions, G!TargetPressed(t) PROVE MatrixStep
  <2>1. /\ mouse.on = NoTarget /\ mouse' \in [on : Targets \cup {NoTarget}, live : BOOLEAN]
        /\ UNCHANGED latched
    BY <1>10, GnomeShares DEF G!TargetPressed, G!Clicking, NoMouse, Targets
  <2>2. UNCHANGED ecsVars
    BY <1>10 DEF G!TargetPressed, G!PadEvent, G!machineVars
  <2> QED
    BY <2>1, <2>2
<1>11. CASE G!TargetReleased
  BY <1>11, GnomeShares DEF G!TargetReleased, G!PadEvent, G!machineVars, NoMouse
<1>12. ASSUME NEW c \in Buttons, G!EcsPressed(c) PROVE MatrixStep
  BY <1>12, GnomeShares DEF G!EcsPressed, G!EcsClicking
<1>13. ASSUME NEW c \in Latching, G!ModToggled(c) PROVE MatrixStep
  BY <1>13, GnomeShares DEF G!ModToggled, G!EcsClicking
<1>14. CASE G!EcsReleased
  BY <1>14, GnomeShares DEF G!EcsReleased, G!EcsClicking
<1>15. CASE G!Latch \/ G!PollTick
  BY <1>15 DEF G!Latch, G!PollTick, G!Nothing, G!machineVars, G!windowVars
<1> QED
  BY <1>2, <1>3, <1>4, <1>5, <1>6, <1>7, <1>8, <1>9, <1>10, <1>11, <1>12, <1>13, <1>14,
      <1>15, Zenon DEF G!Next

LEMMA GnomeInput == G!Next => InputStep
<1> SUFFICES ASSUME G!Next PROVE InputStep
  OBVIOUS
<1> USE GnomeShares DEF InputStep, G!Silent
<1>1. ASSUME NEW h \in HostKeys, NEW on \in BOOLEAN, G!Key(h, on)
      PROVE  InputStep
  <2>1. ASSUME NEW w \in {"main", "keypad"}, G!ForwardKey(w, h, on) PROVE InputStep
    BY <2>1 DEF G!ForwardKey, G!Route, G!PadEvent, G!Fire, G!PadsClear, G!Nothing,
        G!machineVars, SysTable
  <2> QED
    BY <1>1, <2>1 DEF G!Key, G!MainKey, G!KeypadKey, G!EcsWindowKey, G!Nothing,
        G!machineVars
<1>2. ASSUME NEW h \in HostKeys, G!KeyDown(h) \/ G!KeyRepeat(h) \/ G!KeyUp(h)
      PROVE  InputStep
  BY <1>1, <1>2 DEF G!KeyDown, G!KeyRepeat, G!KeyUp
<1>3. ASSUME NEW h, G!Unheard(h) PROVE InputStep
  BY <1>3 DEF G!Unheard, G!Nothing, G!machineVars
<1>4. ASSUME NEW w, G!Focus(w) PROVE InputStep
  BY <1>4 DEF G!Focus, G!FocusLeaves, G!Moves, SysTable
<1>5. CASE G!ToggleKeypad \/ G!ToggleEcs
  BY <1>5 DEF G!ToggleKeypad, G!ToggleEcs, G!Commanding
<1>6. CASE G!CloseKeypad \/ G!CloseEcs
  BY <1>6 DEF G!CloseKeypad, G!CloseEcs, G!Nothing, G!machineVars, SysTable
<1>7. CASE G!ModeSwitched
  BY <1>7 DEF G!ModeSwitched
<1>8. CASE G!OnMapClicked \/ G!OnResetClicked
  BY <1>8 DEF G!OnMapClicked, G!OnResetClicked, G!Clicking, G!Nothing, G!machineVars
<1>9. ASSUME NEW a \in SysActs, G!OnSysactClicked(a) PROVE InputStep
  BY <1>9 DEF G!OnSysactClicked, G!Clicking, G!Nothing, G!machineVars, G!Fire, G!PadsClear
<1>10. ASSUME NEW t, G!TargetPressed(t) PROVE InputStep
  BY <1>10 DEF G!TargetPressed, G!Clicking, G!PadEvent, G!machineVars
<1>11. CASE G!TargetReleased
  BY <1>11 DEF G!TargetReleased, G!PadEvent, G!machineVars
<1>12. ASSUME NEW c, G!EcsPressed(c) \/ G!ModToggled(c) PROVE InputStep
  BY <1>12 DEF G!EcsPressed, G!ModToggled, G!EcsClicking
<1>13. CASE G!EcsReleased
  BY <1>13 DEF G!EcsReleased, G!EcsClicking
<1>14. CASE G!Latch \/ G!PollTick
  BY <1>14 DEF G!Latch, G!PollTick, G!Nothing, G!machineVars
<1> QED
  BY <1>2, <1>3, <1>4, <1>5, <1>6, <1>7, <1>8, <1>9, <1>10, <1>11, <1>12, <1>13, <1>14,
      Zenon DEF G!Next

LEMMA GnomeRest == G!Next => RestStep
<1> SUFFICES ASSUME G!Next PROVE RestStep
  OBVIOUS
<1> USE GnomeShares DEF RestStep, G!HeardAnew, G!keyVars, G!windowVars, G!heardVars
<1>1. ASSUME NEW h \in HostKeys, G!KeyDown(h) \/ G!KeyRepeat(h) \/ G!KeyUp(h)
      PROVE  RestStep
  BY <1>1 DEF G!KeyDown, G!KeyRepeat, G!KeyUp, G!Pressed, G!Repeated, G!Released,
      G!HeardDown, G!HeardUp
<1>2. ASSUME NEW h, G!Unheard(h) PROVE RestStep
  BY <1>2 DEF G!Unheard, G!Released
<1>3. ASSUME NEW w \in Windows \cup {"away"}, G!Focus(w) PROVE RestStep
  BY <1>3 DEF G!Focus, G!FocusLeaves, G!Moves
<1>4. CASE G!ToggleKeypad \/ G!ToggleEcs
  BY <1>4 DEF G!ToggleKeypad, G!ToggleEcs, G!Commanding, Windows
<1>5. CASE G!CloseKeypad \/ G!CloseEcs
  BY <1>5 DEF G!CloseKeypad, G!CloseEcs, Windows
<1>6. CASE G!ModeSwitched
  BY <1>6 DEF G!ModeSwitched
<1>7. CASE G!OnMapClicked \/ G!OnResetClicked
  BY <1>7 DEF G!OnMapClicked, G!OnResetClicked, G!Clicking
<1>8. ASSUME NEW a, G!OnSysactClicked(a) PROVE RestStep
  BY <1>8 DEF G!OnSysactClicked, G!Clicking
<1>9. ASSUME NEW t, G!TargetPressed(t) PROVE RestStep
  BY <1>9 DEF G!TargetPressed, G!Clicking
<1>10. CASE G!TargetReleased
  BY <1>10 DEF G!TargetReleased
<1>11. ASSUME NEW c, G!EcsPressed(c) \/ G!ModToggled(c) PROVE RestStep
  BY <1>11 DEF G!EcsPressed, G!ModToggled, G!EcsClicking
<1>12. CASE G!EcsReleased
  BY <1>12 DEF G!EcsReleased, G!EcsClicking
<1>13. CASE G!Latch \/ G!PollTick
  BY <1>13 DEF G!Latch, G!PollTick
<1> QED
  BY <1>1, <1>2, <1>3, <1>4, <1>5, <1>6, <1>7, <1>8, <1>9, <1>10, <1>11, <1>12, <1>13, Zenon
      DEF G!Next

-----------------------------------------------------------------------------
(* KDE                                                                     *)

\* What the frontend takes from Desk is the same in each.
LEMMA KdeShares ==
    /\ K!NoTarget = NoTarget /\ K!Centre = Centre /\ K!Windows = Windows
    /\ K!Targets = Targets /\ K!NoMouse = NoMouse
    /\ \A t, s : K!SetKey(t, s) = SetKey(t, s)
    /\ \A t : K!SetButton(t) = SetButton(t)
    /\ K!KeysClear <=> KeysClear
    /\ K!MatrixReset <=> MatrixReset
    /\ \A c, on : K!KeySet(c, on) <=> KeySet(c, on)
    /\ \A h : K!Char(h) = Char(h)
BY DEF K!NoTarget, NoTarget, K!Centre, Centre, K!Windows, Windows, K!Targets, Targets,
   K!NoMouse, NoMouse, K!SetKey, SetKey, K!SetButton, SetButton, K!Keysyms, Keysyms,
   K!KeysClear, KeysClear, K!MatrixReset, MatrixReset, K!KeySet, KeySet, K!Char, Char,
   K!Free, Free, K!NoHost, NoHost, K!TableSlots, TableSlots

LEMMA KdeKeyEvent == \A h, c, on : K!KeyEvent(h, c, on) <=> KeyEvent(h, c, on)
BY DEF K!KeyEvent, KeyEvent, K!HostDown, HostDown, K!HostUp, HostUp, K!SlotFor, SlotFor,
   K!SlotsOf, SlotsOf, K!FreeSlots, FreeSlots, K!First, First, K!Free, Free, K!NoHost,
   NoHost, K!LetGo, LetGo, K!TableSlots, TableSlots, K!ecsVars, ecsVars

LEMMA KdeMap == K!Next => MapStep
<1> SUFFICES ASSUME K!Next PROVE MapStep
  OBVIOUS
<1> USE DEF MapStep, mapVars, K!mapVars
<1>1. ASSUME NEW h \in HostKeys, K!KeyDown(h) \/ K!KeyUp(h)
      PROVE  MapStep
  <2>1. UNCHANGED mapVars \/ (map = "wait" /\ K!MapCompleteKey(K!Keysym(h)))
    BY <1>1 DEF K!KeyDown, K!KeyUp, K!Key, K!DisplayKey, K!ForwardKey, K!EcsWindowKey
  <2>2. K!Keysym(h) \in Keysyms
    BY DEF K!Keysym, Keysyms
  <2> QED
    BY <2>1, <2>2, KdeShares DEF K!MapCompleteKey, K!CaptureCancel, K!MapFinish, Taken
<1>2. ASSUME NEW h, K!Unheard(h) PROVE MapStep
  BY <1>2 DEF K!Unheard
<1>3. ASSUME NEW w, K!Focus(w) PROVE MapStep
  BY <1>3 DEF K!Focus
<1>4. CASE K!ShowKeypad \/ K!CloseKeypad
  BY <1>4, KdeShares DEF K!ShowKeypad, K!CloseKeypad, K!MapResetUi, K!CaptureCancel
<1>5. CASE K!ShowEcs \/ K!CloseEcs
  BY <1>5 DEF K!ShowEcs, K!CloseEcs
<1>6. CASE K!ModeSwitched \/ K!TargetReleased \/ K!EcsReleased
  BY <1>6 DEF K!ModeSwitched, K!TargetReleased, K!EcsReleased, K!EcsClicking
<1>7. CASE K!OnMapClicked \/ K!OnResetClicked
  BY <1>7, KdeShares DEF K!OnMapClicked, K!OnResetClicked, K!MapResetUi, K!CaptureCancel
<1>8. ASSUME NEW a \in SysActs, K!OnSysactClicked(a) PROVE MapStep
  BY <1>8, KdeShares DEF K!OnSysactClicked, K!MapSelectTarget, K!CaptureBegin, Targets
<1>9. ASSUME NEW t \in PadKeys \cup Positions, K!TargetPressed(t) PROVE MapStep
  BY <1>9, KdeShares DEF K!TargetPressed, K!MapSelectTarget, K!CaptureBegin, Targets
<1>10. ASSUME NEW c, K!EcsPressed(c) \/ K!ModToggled(c) PROVE MapStep
  BY <1>10 DEF K!EcsPressed, K!ModToggled, K!EcsClicking
<1>11. CASE K!Latch
  BY <1>11 DEF K!Latch
<1>12. CASE K!PollTick
  BY <1>12, KdeShares DEF K!PollTick, K!MapCompleteButton, K!MapFinish, Taken
<1> QED
  BY <1>1, <1>2, <1>3, <1>4, <1>5, <1>6, <1>7, <1>8, <1>9, <1>10, <1>11, <1>12, Zenon DEF
      K!Next

LEMMA KdeMatrix == K!Next => MatrixStep
<1> SUFFICES ASSUME K!Next PROVE MatrixStep
  OBVIOUS
<1>1. ASSUME NEW h \in HostKeys, NEW on \in BOOLEAN, K!Key(h, on), UNCHANGED windowVars
      PROVE  MatrixStep
  <2>1. K!KeyEvent(h, K!Char(h), on) => Keyed
    BY KdeKeyEvent, KdeShares, CharIs DEF Keyed
  <2>2. (Keyed \/ MatrixReset \/ UNCHANGED ecsVars) /\ UNCHANGED <<latched, mouse>>
    BY <1>1, <2>1, KdeShares DEF K!Key, K!DisplayKey, K!ForwardKey, K!EcsWindowKey,
        K!IntvForwardKey, K!Route, K!PadEvent, K!Fire, K!Nothing, K!machineVars, K!ecsVars,
        ecsVars, windowVars
  <2> QED
    BY <2>2 DEF MatrixStep
<1>2. ASSUME NEW h \in HostKeys, K!KeyDown(h) \/ K!KeyUp(h)
      PROVE  MatrixStep
  BY <1>1, <1>2 DEF K!KeyDown, K!KeyUp, K!windowVars, windowVars
<1> USE DEF MatrixStep, ecsVars, K!ecsVars
<1>3. ASSUME NEW h, K!Unheard(h) PROVE MatrixStep
  BY <1>3 DEF K!Unheard, K!Nothing, K!machineVars, K!windowVars
<1>4. ASSUME NEW w, K!Focus(w) PROVE MatrixStep
  BY <1>4, KdeShares DEF K!Focus, K!FocusOut, K!windowVars, K!Moves
<1>5. CASE K!ShowKeypad \/ K!ShowEcs
  BY <1>5, KdeShares DEF K!ShowKeypad, K!ShowEcs, K!Commanding
<1>6. CASE K!CloseKeypad \/ K!CloseEcs
  BY <1>6, KdeShares DEF K!CloseKeypad, K!CloseEcs, K!Closed, K!Nothing, K!machineVars
<1>7. CASE K!ModeSwitched
  BY <1>7, KdeShares DEF K!ModeSwitched
<1>8. CASE K!OnMapClicked \/ K!OnResetClicked
  BY <1>8 DEF K!OnMapClicked, K!OnResetClicked, K!Clicking, K!Nothing, K!machineVars
<1>9. ASSUME NEW a, K!OnSysactClicked(a) PROVE MatrixStep
  BY <1>9, KdeShares DEF K!OnSysactClicked, K!Clicking, K!Nothing, K!machineVars, K!Fire
<1>10. ASSUME NEW t \in PadKeys \cup Positions, K!TargetPressed(t) PROVE MatrixStep
  <2>1. /\ mouse.on = NoTarget /\ mouse' \in [on : Targets \cup {NoTarget}, live : BOOLEAN]
        /\ UNCHANGED latched
    BY <1>10, KdeShares DEF K!TargetPressed, K!Clicking, NoMouse, Targets
  <2>2. UNCHANGED ecsVars
    BY <1>10 DEF K!TargetPressed, K!PadEvent, K!machineVars
  <2> QED
    BY <2>1, <2>2
<1>11. CASE K!TargetReleased
  BY <1>11, KdeShares DEF K!TargetReleased, K!PadEvent, K!machineVars, NoMouse
<1>12. ASSUME NEW c \in Buttons, K!EcsPressed(c) PROVE MatrixStep
  BY <1>12, KdeShares DEF K!EcsPressed, K!EcsClicking
<1>13. ASSUME NEW c \in Latching, K!ModToggled(c) PROVE MatrixStep
  BY <1>13, KdeShares DEF K!ModToggled, K!EcsClicking
<1>14. CASE K!EcsReleased
  BY <1>14, KdeShares DEF K!EcsReleased, K!EcsClicking
<1>15. CASE K!Latch \/ K!PollTick
  BY <1>15 DEF K!Latch, K!PollTick, K!Nothing, K!machineVars, K!windowVars
<1> QED
  BY <1>2, <1>3, <1>4, <1>5, <1>6, <1>7, <1>8, <1>9, <1>10, <1>11, <1>12, <1>13, <1>14,
      <1>15, Zenon DEF K!Next

LEMMA KdeInput == K!Next => InputStep
<1> SUFFICES ASSUME K!Next PROVE InputStep
  OBVIOUS
<1> USE KdeShares DEF InputStep, K!Silent
<1>1. ASSUME NEW h \in HostKeys, NEW on \in BOOLEAN, K!Key(h, on), UNCHANGED sysdown
      PROVE  InputStep
  <2>1. ASSUME K!IntvForwardKey(h, on) PROVE InputStep
    BY <1>1, <2>1 DEF K!IntvForwardKey, K!Route, K!PadEvent, K!Fire, K!PadsClear, K!Nothing,
        K!machineVars
  <2> QED
    BY <1>1, <2>1 DEF K!Key, K!DisplayKey, K!ForwardKey, K!EcsWindowKey, K!Nothing,
        K!machineVars
<1>2. ASSUME NEW h \in HostKeys, K!KeyDown(h) \/ K!KeyUp(h)
      PROVE  InputStep
  BY <1>1, <1>2 DEF K!KeyDown, K!KeyUp
<1>3. ASSUME NEW h, K!Unheard(h) PROVE InputStep
  BY <1>3 DEF K!Unheard, K!Nothing, K!machineVars
<1>4. ASSUME NEW w, K!Focus(w) PROVE InputStep
  BY <1>4 DEF K!Focus, K!FocusOut, K!Moves
<1>5. CASE K!ShowKeypad \/ K!ShowEcs
  BY <1>5 DEF K!ShowKeypad, K!ShowEcs, K!Commanding
<1>6. CASE K!CloseKeypad \/ K!CloseEcs
  BY <1>6 DEF K!CloseKeypad, K!CloseEcs, K!Closed, K!Nothing, K!machineVars
<1>7. CASE K!ModeSwitched
  BY <1>7 DEF K!ModeSwitched
<1>8. CASE K!OnMapClicked \/ K!OnResetClicked
  BY <1>8 DEF K!OnMapClicked, K!OnResetClicked, K!Clicking, K!Nothing, K!machineVars
<1>9. ASSUME NEW a \in SysActs, K!OnSysactClicked(a) PROVE InputStep
  BY <1>9 DEF K!OnSysactClicked, K!Clicking, K!Nothing, K!machineVars, K!Fire, K!PadsClear
<1>10. ASSUME NEW t, K!TargetPressed(t) PROVE InputStep
  BY <1>10 DEF K!TargetPressed, K!Clicking, K!PadEvent, K!machineVars
<1>11. CASE K!TargetReleased
  BY <1>11 DEF K!TargetReleased, K!PadEvent, K!machineVars
<1>12. ASSUME NEW c, K!EcsPressed(c) \/ K!ModToggled(c) PROVE InputStep
  BY <1>12 DEF K!EcsPressed, K!ModToggled, K!EcsClicking
<1>13. CASE K!EcsReleased
  BY <1>13 DEF K!EcsReleased, K!EcsClicking
<1>14. CASE K!Latch \/ K!PollTick
  BY <1>14 DEF K!Latch, K!PollTick, K!Nothing, K!machineVars
<1> QED
  BY <1>2, <1>3, <1>4, <1>5, <1>6, <1>7, <1>8, <1>9, <1>10, <1>11, <1>12, <1>13, <1>14,
      Zenon DEF K!Next

LEMMA KdeRest == K!Next => RestStep
<1> SUFFICES ASSUME K!Next PROVE RestStep
  OBVIOUS
<1> USE KdeShares DEF RestStep, K!HeardAnew, K!keyVars, K!windowVars, K!heardVars
<1>1. ASSUME NEW h \in HostKeys, K!KeyDown(h) \/ K!KeyUp(h)
      PROVE  RestStep
  BY <1>1 DEF K!KeyDown, K!KeyUp, K!Pressed, K!Released, K!HeardDown, K!HeardUp
<1>2. ASSUME NEW h, K!Unheard(h) PROVE RestStep
  BY <1>2 DEF K!Unheard, K!Released
<1>3. ASSUME NEW w \in Windows \cup {"away"}, K!Focus(w) PROVE RestStep
  BY <1>3 DEF K!Focus, K!Moves
<1>4. CASE K!ShowKeypad \/ K!ShowEcs
  BY <1>4 DEF K!ShowKeypad, K!ShowEcs, K!Commanding, Windows
<1>5. CASE K!CloseKeypad \/ K!CloseEcs
  BY <1>5 DEF K!CloseKeypad, K!CloseEcs, K!Closed, Windows
<1>6. CASE K!ModeSwitched
  BY <1>6 DEF K!ModeSwitched
<1>7. CASE K!OnMapClicked \/ K!OnResetClicked
  BY <1>7 DEF K!OnMapClicked, K!OnResetClicked, K!Clicking
<1>8. ASSUME NEW a, K!OnSysactClicked(a) PROVE RestStep
  BY <1>8 DEF K!OnSysactClicked, K!Clicking
<1>9. ASSUME NEW t, K!TargetPressed(t) PROVE RestStep
  BY <1>9 DEF K!TargetPressed, K!Clicking
<1>10. CASE K!TargetReleased
  BY <1>10 DEF K!TargetReleased
<1>11. ASSUME NEW c, K!EcsPressed(c) \/ K!ModToggled(c) PROVE RestStep
  BY <1>11 DEF K!EcsPressed, K!ModToggled, K!EcsClicking
<1>12. CASE K!EcsReleased
  BY <1>12 DEF K!EcsReleased, K!EcsClicking
<1>13. CASE K!Latch \/ K!PollTick
  BY <1>13 DEF K!Latch, K!PollTick
<1> QED
  BY <1>1, <1>2, <1>3, <1>4, <1>5, <1>6, <1>7, <1>8, <1>9, <1>10, <1>11, <1>12, <1>13, Zenon
      DEF K!Next

-----------------------------------------------------------------------------
(* Windows                                                                 *)

\* What the frontend takes from Desk is the same in each.
LEMMA WinShares ==
    /\ W!NoTarget = NoTarget /\ W!Centre = Centre /\ W!Windows = Windows
    /\ W!Targets = Targets /\ W!NoMouse = NoMouse
    /\ \A t, s : W!SetKey(t, s) = SetKey(t, s)
    /\ \A t : W!SetButton(t) = SetButton(t)
    /\ W!KeysClear <=> KeysClear
    /\ W!MatrixReset <=> MatrixReset
    /\ \A c, on : W!KeySet(c, on) <=> KeySet(c, on)
    /\ \A h : W!Char(h) = Char(h)
BY DEF W!NoTarget, NoTarget, W!Centre, Centre, W!Windows, Windows, W!Targets, Targets,
   W!NoMouse, NoMouse, W!SetKey, SetKey, W!SetButton, SetButton, W!Keysyms, Keysyms,
   W!KeysClear, KeysClear, W!MatrixReset, MatrixReset, W!KeySet, KeySet, W!Char, Char,
   W!Free, Free, W!NoHost, NoHost, W!TableSlots, TableSlots

LEMMA WinKeyEvent == \A h, c, on : W!KeyEvent(h, c, on) <=> KeyEvent(h, c, on)
BY DEF W!KeyEvent, KeyEvent, W!HostDown, HostDown, W!HostUp, HostUp, W!SlotFor, SlotFor,
   W!SlotsOf, SlotsOf, W!FreeSlots, FreeSlots, W!First, First, W!Free, Free, W!NoHost,
   NoHost, W!LetGo, LetGo, W!TableSlots, TableSlots, W!ecsVars, ecsVars

LEMMA WinMap == W!Next => MapStep
<1> SUFFICES ASSUME W!Next PROVE MapStep
  OBVIOUS
<1> USE DEF MapStep, mapVars, W!mapVars
<1>1. ASSUME NEW h \in HostKeys, W!KeyDown(h) \/ W!KeyRepeat(h) \/ W!KeyUp(h)
      PROVE  MapStep
  <2>1. UNCHANGED mapVars \/ (map = "wait" /\ W!MapCompleteKey(W!Keysym(h)))
    BY <1>1 DEF W!KeyDown, W!KeyRepeat, W!KeyUp, W!Key, W!OnKey, W!KeypadKey,
        W!ForwardEcsKey
  <2>2. W!Keysym(h) \in Keysyms
    BY DEF W!Keysym, Keysyms
  <2> QED
    BY <2>1, <2>2, WinShares DEF W!MapCompleteKey, W!CaptureCancel, W!MapFinish, Taken
<1>2. ASSUME NEW h, W!Unheard(h) PROVE MapStep
  BY <1>2 DEF W!Unheard
<1>3. ASSUME NEW w, W!Focus(w) PROVE MapStep
  BY <1>3 DEF W!Focus
<1>4. CASE W!ToggleKeypad \/ W!CloseKeypad
  BY <1>4, WinShares DEF W!ToggleKeypad, W!CloseKeypad, W!MapResetUi, W!CaptureCancel
<1>5. CASE W!ToggleEcs \/ W!CloseEcs
  BY <1>5 DEF W!ToggleEcs, W!CloseEcs
<1>6. CASE W!ModeSwitched \/ W!TargetReleased \/ W!EcsReleased
  BY <1>6 DEF W!ModeSwitched, W!TargetReleased, W!EcsReleased, W!EcsClicking
<1>7. CASE W!OnMapClicked \/ W!OnResetClicked
  BY <1>7, WinShares DEF W!OnMapClicked, W!OnResetClicked, W!MapResetUi, W!CaptureCancel
<1>8. ASSUME NEW a \in SysActs, W!OnSysactClicked(a) PROVE MapStep
  BY <1>8, WinShares DEF W!OnSysactClicked, W!MapSelectTarget, W!CaptureBegin, Targets
<1>9. ASSUME NEW t \in PadKeys \cup Positions, W!TargetPressed(t) PROVE MapStep
  BY <1>9, WinShares DEF W!TargetPressed, W!MapSelectTarget, W!CaptureBegin, Targets
<1>10. ASSUME NEW c, W!EcsPressed(c) \/ W!ModToggled(c) PROVE MapStep
  BY <1>10 DEF W!EcsPressed, W!ModToggled, W!EcsClicking
<1>11. CASE W!Latch
  BY <1>11 DEF W!Latch
<1>12. CASE W!PollTick
  BY <1>12, WinShares DEF W!PollTick, W!MapCompleteButton, W!MapFinish, Taken
<1> QED
  BY <1>1, <1>2, <1>3, <1>4, <1>5, <1>6, <1>7, <1>8, <1>9, <1>10, <1>11, <1>12, Zenon DEF
      W!Next

LEMMA WinMatrix == W!Next => MatrixStep
<1> SUFFICES ASSUME W!Next PROVE MatrixStep
  OBVIOUS
<1>1. ASSUME NEW h \in HostKeys, NEW on \in BOOLEAN, NEW again, W!Key(h, on, again), UNCHANGED windowVars
      PROVE  MatrixStep
  <2>1. W!KeyEvent(h, W!Char(h), on) => Keyed
    BY WinKeyEvent, WinShares, CharIs DEF Keyed
  <2>2. (Keyed \/ MatrixReset \/ UNCHANGED ecsVars) /\ UNCHANGED <<latched, mouse>>
    BY <1>1, <2>1, WinShares DEF W!Key, W!OnKey, W!KeypadKey, W!ForwardEcsKey,
        W!IntvForwardKey, W!Route, W!PadEvent, W!Fire, W!Nothing, W!machineVars, W!ecsVars,
        ecsVars, windowVars
  <2> QED
    BY <2>2 DEF MatrixStep
<1>2. ASSUME NEW h \in HostKeys, W!KeyDown(h) \/ W!KeyRepeat(h) \/ W!KeyUp(h)
      PROVE  MatrixStep
  BY <1>1, <1>2 DEF W!KeyDown, W!KeyRepeat, W!KeyUp, W!windowVars, windowVars
<1> USE DEF MatrixStep, ecsVars, W!ecsVars
<1>3. ASSUME NEW h, W!Unheard(h) PROVE MatrixStep
  BY <1>3 DEF W!Unheard, W!Nothing, W!machineVars, W!windowVars
<1>4. ASSUME NEW w, W!Focus(w) PROVE MatrixStep
  BY <1>4, WinShares DEF W!Focus, W!KillFocus, W!PadsClear, W!windowVars, W!Moves
<1>5. CASE W!ToggleKeypad \/ W!ToggleEcs
  BY <1>5, WinShares DEF W!ToggleKeypad, W!ToggleEcs, W!Commanding
<1>6. CASE W!CloseKeypad \/ W!CloseEcs
  BY <1>6, WinShares DEF W!CloseKeypad, W!CloseEcs, W!Closed, W!Nothing, W!machineVars
<1>7. CASE W!ModeSwitched
  BY <1>7, WinShares DEF W!ModeSwitched
<1>8. CASE W!OnMapClicked \/ W!OnResetClicked
  BY <1>8 DEF W!OnMapClicked, W!OnResetClicked, W!Clicking, W!Nothing, W!machineVars
<1>9. ASSUME NEW a, W!OnSysactClicked(a) PROVE MatrixStep
  BY <1>9, WinShares DEF W!OnSysactClicked, W!Clicking, W!Nothing, W!machineVars, W!Fire
<1>10. ASSUME NEW t \in PadKeys \cup Positions, W!TargetPressed(t) PROVE MatrixStep
  <2>1. /\ mouse.on = NoTarget /\ mouse' \in [on : Targets \cup {NoTarget}, live : BOOLEAN]
        /\ UNCHANGED latched
    BY <1>10, WinShares DEF W!TargetPressed, W!Clicking, NoMouse, Targets
  <2>2. UNCHANGED ecsVars
    BY <1>10 DEF W!TargetPressed, W!PadEvent, W!machineVars
  <2> QED
    BY <2>1, <2>2
<1>11. CASE W!TargetReleased
  BY <1>11, WinShares DEF W!TargetReleased, W!PadEvent, W!machineVars, NoMouse
<1>12. ASSUME NEW c \in Buttons, W!EcsPressed(c) PROVE MatrixStep
  BY <1>12, WinShares DEF W!EcsPressed, W!EcsClicking
<1>13. ASSUME NEW c \in Latching, W!ModToggled(c) PROVE MatrixStep
  BY <1>13, WinShares DEF W!ModToggled, W!EcsClicking
<1>14. CASE W!EcsReleased
  BY <1>14, WinShares DEF W!EcsReleased, W!EcsClicking
<1>15. CASE W!Latch \/ W!PollTick
  BY <1>15 DEF W!Latch, W!PollTick, W!Nothing, W!machineVars, W!windowVars
<1> QED
  BY <1>2, <1>3, <1>4, <1>5, <1>6, <1>7, <1>8, <1>9, <1>10, <1>11, <1>12, <1>13, <1>14,
      <1>15, Zenon DEF W!Next

LEMMA WinInput == W!Next => InputStep
<1> SUFFICES ASSUME W!Next PROVE InputStep
  OBVIOUS
<1> USE WinShares DEF InputStep, W!Silent
<1>1. ASSUME NEW h \in HostKeys, NEW on \in BOOLEAN, NEW again, W!Key(h, on, again), UNCHANGED sysdown
      PROVE  InputStep
  <2>1. ASSUME W!IntvForwardKey(h, on, again) PROVE InputStep
    BY <1>1, <2>1 DEF W!IntvForwardKey, W!Route, W!PadEvent, W!Fire, W!PadsClear, W!Nothing,
        W!machineVars
  <2> QED
    BY <1>1, <2>1 DEF W!Key, W!OnKey, W!KeypadKey, W!ForwardEcsKey, W!Nothing, W!machineVars
<1>2. ASSUME NEW h \in HostKeys, W!KeyDown(h) \/ W!KeyRepeat(h) \/ W!KeyUp(h)
      PROVE  InputStep
  BY <1>1, <1>2 DEF W!KeyDown, W!KeyRepeat, W!KeyUp
<1>3. ASSUME NEW h, W!Unheard(h) PROVE InputStep
  BY <1>3 DEF W!Unheard, W!Nothing, W!machineVars
<1>4. ASSUME NEW w, W!Focus(w) PROVE InputStep
  BY <1>4 DEF W!Focus, W!KillFocus, W!Moves, W!PadsClear
<1>5. CASE W!ToggleKeypad \/ W!ToggleEcs
  BY <1>5 DEF W!ToggleKeypad, W!ToggleEcs, W!Commanding
<1>6. CASE W!CloseKeypad \/ W!CloseEcs
  BY <1>6 DEF W!CloseKeypad, W!CloseEcs, W!Closed, W!Nothing, W!machineVars
<1>7. CASE W!ModeSwitched
  BY <1>7 DEF W!ModeSwitched
<1>8. CASE W!OnMapClicked \/ W!OnResetClicked
  BY <1>8 DEF W!OnMapClicked, W!OnResetClicked, W!Clicking, W!Nothing, W!machineVars
<1>9. ASSUME NEW a \in SysActs, W!OnSysactClicked(a) PROVE InputStep
  BY <1>9 DEF W!OnSysactClicked, W!Clicking, W!Nothing, W!machineVars, W!Fire, W!PadsClear
<1>10. ASSUME NEW t, W!TargetPressed(t) PROVE InputStep
  BY <1>10 DEF W!TargetPressed, W!Clicking, W!PadEvent, W!machineVars
<1>11. CASE W!TargetReleased
  BY <1>11 DEF W!TargetReleased, W!PadEvent, W!machineVars
<1>12. ASSUME NEW c, W!EcsPressed(c) \/ W!ModToggled(c) PROVE InputStep
  BY <1>12 DEF W!EcsPressed, W!ModToggled, W!EcsClicking
<1>13. CASE W!EcsReleased
  BY <1>13 DEF W!EcsReleased, W!EcsClicking
<1>14. CASE W!Latch \/ W!PollTick
  BY <1>14 DEF W!Latch, W!PollTick, W!Nothing, W!machineVars
<1> QED
  BY <1>2, <1>3, <1>4, <1>5, <1>6, <1>7, <1>8, <1>9, <1>10, <1>11, <1>12, <1>13, <1>14,
      Zenon DEF W!Next

LEMMA WinRest == W!Next => RestStep
<1> SUFFICES ASSUME W!Next PROVE RestStep
  OBVIOUS
<1> USE WinShares DEF RestStep, W!HeardAnew, W!keyVars, W!windowVars, W!heardVars
<1>1. ASSUME NEW h \in HostKeys, W!KeyDown(h) \/ W!KeyRepeat(h) \/ W!KeyUp(h)
      PROVE  RestStep
  BY <1>1 DEF W!KeyDown, W!KeyRepeat, W!KeyUp, W!Pressed, W!Repeated, W!Released,
      W!HeardDown, W!HeardUp
<1>2. ASSUME NEW h, W!Unheard(h) PROVE RestStep
  BY <1>2 DEF W!Unheard, W!Released
<1>3. ASSUME NEW w \in Windows \cup {"away"}, W!Focus(w) PROVE RestStep
  BY <1>3 DEF W!Focus, W!Moves
<1>4. CASE W!ToggleKeypad \/ W!ToggleEcs
  BY <1>4 DEF W!ToggleKeypad, W!ToggleEcs, W!Commanding, Windows
<1>5. CASE W!CloseKeypad \/ W!CloseEcs
  BY <1>5 DEF W!CloseKeypad, W!CloseEcs, W!Closed, Windows
<1>6. CASE W!ModeSwitched
  BY <1>6 DEF W!ModeSwitched
<1>7. CASE W!OnMapClicked \/ W!OnResetClicked
  BY <1>7 DEF W!OnMapClicked, W!OnResetClicked, W!Clicking
<1>8. ASSUME NEW a, W!OnSysactClicked(a) PROVE RestStep
  BY <1>8 DEF W!OnSysactClicked, W!Clicking
<1>9. ASSUME NEW t, W!TargetPressed(t) PROVE RestStep
  BY <1>9 DEF W!TargetPressed, W!Clicking
<1>10. CASE W!TargetReleased
  BY <1>10 DEF W!TargetReleased
<1>11. ASSUME NEW c, W!EcsPressed(c) \/ W!ModToggled(c) PROVE RestStep
  BY <1>11 DEF W!EcsPressed, W!ModToggled, W!EcsClicking
<1>12. CASE W!EcsReleased
  BY <1>12 DEF W!EcsReleased, W!EcsClicking
<1>13. CASE W!Latch \/ W!PollTick
  BY <1>13 DEF W!Latch, W!PollTick
<1> QED
  BY <1>1, <1>2, <1>3, <1>4, <1>5, <1>6, <1>7, <1>8, <1>9, <1>10, <1>11, <1>12, <1>13, Zenon
      DEF W!Next

-----------------------------------------------------------------------------
(* macOS                                                                   *)

\* What the frontend takes from Desk is the same in each.
LEMMA MacShares ==
    /\ M!NoTarget = NoTarget /\ M!Centre = Centre /\ M!Windows = Windows
    /\ M!Targets = Targets /\ M!NoMouse = NoMouse
    /\ \A t, s : M!SetKey(t, s) = SetKey(t, s)
    /\ \A t : M!SetButton(t) = SetButton(t)
    /\ M!KeysClear <=> KeysClear
    /\ M!MatrixReset <=> MatrixReset
    /\ \A c, on : M!KeySet(c, on) <=> KeySet(c, on)
    /\ \A h : M!Char(h) = Char(h)
BY DEF M!NoTarget, NoTarget, M!Centre, Centre, M!Windows, Windows, M!Targets, Targets,
   M!NoMouse, NoMouse, M!SetKey, SetKey, M!SetButton, SetButton, M!Keysyms, Keysyms,
   M!KeysClear, KeysClear, M!MatrixReset, MatrixReset, M!KeySet, KeySet, M!Char, Char,
   M!Free, Free, M!NoHost, NoHost, M!TableSlots, TableSlots

LEMMA MacKeyEvent == \A h, c, on : M!KeyEvent(h, c, on) <=> KeyEvent(h, c, on)
BY DEF M!KeyEvent, KeyEvent, M!HostDown, HostDown, M!HostUp, HostUp, M!SlotFor, SlotFor,
   M!SlotsOf, SlotsOf, M!FreeSlots, FreeSlots, M!First, First, M!Free, Free, M!NoHost,
   NoHost, M!LetGo, LetGo, M!TableSlots, TableSlots, M!ecsVars, ecsVars

LEMMA MacMap == M!Next => MapStep
<1> SUFFICES ASSUME M!Next PROVE MapStep
  OBVIOUS
<1> USE DEF MapStep, mapVars, M!mapVars
<1>1. ASSUME NEW h \in HostKeys, M!KeyDown(h) \/ M!KeyUp(h)
      PROVE  MapStep
  <2>1. UNCHANGED mapVars \/ (map = "wait" /\ M!MapCompleteKey(M!Keysym(h)))
    BY <1>1 DEF M!KeyDown, M!KeyUp, M!Key, M!DisplayKey, M!ForwardKey, M!EcsWindowKey
  <2>2. M!Keysym(h) \in Keysyms
    BY DEF M!Keysym, Keysyms
  <2> QED
    BY <2>1, <2>2, MacShares DEF M!MapCompleteKey, M!CaptureCancel, M!MapFinish, Taken
<1>2. ASSUME NEW h, M!Unheard(h) PROVE MapStep
  BY <1>2 DEF M!Unheard
<1>3. ASSUME NEW w, M!Focus(w) PROVE MapStep
  BY <1>3 DEF M!Focus
<1>4. CASE M!ToggleKeypad \/ M!HideKeypad
  BY <1>4, MacShares DEF M!ToggleKeypad, M!HideKeypad, M!MapResetUi, M!CaptureCancel
<1>5. CASE M!ToggleEcs \/ M!CloseKeypad \/ M!CloseEcs
  BY <1>5 DEF M!ToggleEcs, M!CloseKeypad, M!CloseEcs
<1>6. CASE M!ModeSwitched \/ M!TargetReleased \/ M!EcsReleased
  BY <1>6 DEF M!ModeSwitched, M!TargetReleased, M!EcsReleased, M!EcsClicking
<1>7. CASE M!OnMapClicked \/ M!OnResetClicked
  BY <1>7, MacShares DEF M!OnMapClicked, M!OnResetClicked, M!MapResetUi, M!CaptureCancel
<1>8. ASSUME NEW a \in SysActs, M!OnSysactClicked(a) PROVE MapStep
  BY <1>8, MacShares DEF M!OnSysactClicked, M!MapSelectTarget, M!CaptureBegin, Targets
<1>9. ASSUME NEW t \in PadKeys \cup Positions, M!TargetPressed(t) PROVE MapStep
  BY <1>9, MacShares DEF M!TargetPressed, M!MapSelectTarget, M!CaptureBegin, Targets
<1>10. ASSUME NEW c, M!EcsPressed(c) \/ M!ModToggled(c) PROVE MapStep
  BY <1>10 DEF M!EcsPressed, M!ModToggled, M!EcsClicking
<1>11. CASE M!Latch
  BY <1>11 DEF M!Latch
<1>12. CASE M!PollTick
  BY <1>12, MacShares DEF M!PollTick, M!MapCompleteButton, M!MapFinish, Taken
<1> QED
  BY <1>1, <1>2, <1>3, <1>4, <1>5, <1>6, <1>7, <1>8, <1>9, <1>10, <1>11, <1>12, Zenon DEF
      M!Next

LEMMA MacMatrix == M!Next => MatrixStep
<1> SUFFICES ASSUME M!Next PROVE MatrixStep
  OBVIOUS
<1>1. ASSUME NEW h \in HostKeys, NEW on \in BOOLEAN, M!Key(h, on), UNCHANGED windowVars
      PROVE  MatrixStep
  <2>1. M!KeyEvent(h, M!Char(h), on) => Keyed
    BY MacKeyEvent, MacShares, CharIs DEF Keyed
  <2>2. (Keyed \/ MatrixReset \/ UNCHANGED ecsVars) /\ UNCHANGED <<latched, mouse>>
    BY <1>1, <2>1, MacShares DEF M!Key, M!DisplayKey, M!ForwardKey, M!EcsWindowKey,
        M!IntvForwardKeyEvent, M!Route, M!PadEvent, M!Fire, M!Nothing, M!machineVars,
        M!ecsVars, ecsVars, windowVars
  <2> QED
    BY <2>2 DEF MatrixStep
<1>2. ASSUME NEW h \in HostKeys, M!KeyDown(h) \/ M!KeyUp(h)
      PROVE  MatrixStep
  BY <1>1, <1>2 DEF M!KeyDown, M!KeyUp, M!windowVars, windowVars
<1> USE DEF MatrixStep, ecsVars, M!ecsVars
<1>3. ASSUME NEW h, M!Unheard(h) PROVE MatrixStep
  BY <1>3 DEF M!Unheard, M!Nothing, M!machineVars, M!windowVars
<1>4. ASSUME NEW w, M!Focus(w) PROVE MatrixStep
  BY <1>4, MacShares DEF M!Focus, M!ResignKey, M!windowVars, M!Moves
<1>5. CASE M!ToggleKeypad \/ M!ToggleEcs
  BY <1>5, MacShares DEF M!ToggleKeypad, M!ToggleEcs, M!Commanding
<1>6. CASE M!HideKeypad \/ M!CloseKeypad \/ M!CloseEcs
  BY <1>6, MacShares DEF M!HideKeypad, M!CloseKeypad, M!CloseEcs, M!Goes, M!Nothing,
      M!machineVars
<1>7. CASE M!ModeSwitched
  BY <1>7, MacShares DEF M!ModeSwitched
<1>8. CASE M!OnMapClicked \/ M!OnResetClicked
  BY <1>8 DEF M!OnMapClicked, M!OnResetClicked, M!Clicking, M!Nothing, M!machineVars
<1>9. ASSUME NEW a, M!OnSysactClicked(a) PROVE MatrixStep
  BY <1>9, MacShares DEF M!OnSysactClicked, M!Clicking, M!Nothing, M!machineVars, M!Fire
<1>10. ASSUME NEW t \in PadKeys \cup Positions, M!TargetPressed(t) PROVE MatrixStep
  <2>1. /\ mouse.on = NoTarget /\ mouse' \in [on : Targets \cup {NoTarget}, live : BOOLEAN]
        /\ UNCHANGED latched
    BY <1>10, MacShares DEF M!TargetPressed, M!Clicking, NoMouse, Targets
  <2>2. UNCHANGED ecsVars
    BY <1>10 DEF M!TargetPressed, M!PadEvent, M!machineVars
  <2> QED
    BY <2>1, <2>2
<1>11. CASE M!TargetReleased
  BY <1>11, MacShares DEF M!TargetReleased, M!PadEvent, M!machineVars, NoMouse
<1>12. ASSUME NEW c \in Buttons, M!EcsPressed(c) PROVE MatrixStep
  BY <1>12, MacShares DEF M!EcsPressed, M!EcsClicking
<1>13. ASSUME NEW c \in Latching, M!ModToggled(c) PROVE MatrixStep
  BY <1>13, MacShares DEF M!ModToggled, M!EcsClicking
<1>14. CASE M!EcsReleased
  BY <1>14, MacShares DEF M!EcsReleased, M!EcsClicking
<1>15. CASE M!Latch \/ M!PollTick
  BY <1>15 DEF M!Latch, M!PollTick, M!Nothing, M!machineVars, M!windowVars
<1> QED
  BY <1>2, <1>3, <1>4, <1>5, <1>6, <1>7, <1>8, <1>9, <1>10, <1>11, <1>12, <1>13, <1>14,
      <1>15, Zenon DEF M!Next

LEMMA MacInput == M!Next => InputStep
<1> SUFFICES ASSUME M!Next PROVE InputStep
  OBVIOUS
<1> USE MacShares DEF InputStep, M!Silent
<1>1. ASSUME NEW h \in HostKeys, NEW on \in BOOLEAN, M!Key(h, on), UNCHANGED sysdown
      PROVE  InputStep
  <2>1. ASSUME M!IntvForwardKeyEvent(h, on) PROVE InputStep
    BY <1>1, <2>1 DEF M!IntvForwardKeyEvent, M!Route, M!PadEvent, M!Fire, M!PadsClear,
        M!Nothing, M!machineVars
  <2> QED
    BY <1>1, <2>1 DEF M!Key, M!DisplayKey, M!ForwardKey, M!EcsWindowKey, M!Nothing,
        M!machineVars
<1>2. ASSUME NEW h \in HostKeys, M!KeyDown(h) \/ M!KeyUp(h)
      PROVE  InputStep
  BY <1>1, <1>2 DEF M!KeyDown, M!KeyUp
<1>3. ASSUME NEW h, M!Unheard(h) PROVE InputStep
  BY <1>3 DEF M!Unheard, M!Nothing, M!machineVars
<1>4. ASSUME NEW w, M!Focus(w) PROVE InputStep
  BY <1>4 DEF M!Focus, M!ResignKey, M!Moves
<1>5. CASE M!ToggleKeypad \/ M!ToggleEcs
  BY <1>5 DEF M!ToggleKeypad, M!ToggleEcs, M!Commanding
<1>6. CASE M!HideKeypad \/ M!CloseKeypad \/ M!CloseEcs
  BY <1>6 DEF M!HideKeypad, M!CloseKeypad, M!CloseEcs, M!Goes, M!Nothing, M!machineVars
<1>7. CASE M!ModeSwitched
  BY <1>7 DEF M!ModeSwitched
<1>8. CASE M!OnMapClicked \/ M!OnResetClicked
  BY <1>8 DEF M!OnMapClicked, M!OnResetClicked, M!Clicking, M!Nothing, M!machineVars
<1>9. ASSUME NEW a \in SysActs, M!OnSysactClicked(a) PROVE InputStep
  BY <1>9 DEF M!OnSysactClicked, M!Clicking, M!Nothing, M!machineVars, M!Fire, M!PadsClear
<1>10. ASSUME NEW t, M!TargetPressed(t) PROVE InputStep
  BY <1>10 DEF M!TargetPressed, M!Clicking, M!PadEvent, M!machineVars
<1>11. CASE M!TargetReleased
  BY <1>11 DEF M!TargetReleased, M!PadEvent, M!machineVars
<1>12. ASSUME NEW c, M!EcsPressed(c) \/ M!ModToggled(c) PROVE InputStep
  BY <1>12 DEF M!EcsPressed, M!ModToggled, M!EcsClicking
<1>13. CASE M!EcsReleased
  BY <1>13 DEF M!EcsReleased, M!EcsClicking
<1>14. CASE M!Latch \/ M!PollTick
  BY <1>14 DEF M!Latch, M!PollTick, M!Nothing, M!machineVars
<1> QED
  BY <1>2, <1>3, <1>4, <1>5, <1>6, <1>7, <1>8, <1>9, <1>10, <1>11, <1>12, <1>13, <1>14,
      Zenon DEF M!Next

LEMMA MacRest == M!Next => RestStep
<1> SUFFICES ASSUME M!Next PROVE RestStep
  OBVIOUS
<1> USE MacShares DEF RestStep, M!HeardAnew, M!keyVars, M!windowVars, M!heardVars
<1>1. ASSUME NEW h \in HostKeys, M!KeyDown(h) \/ M!KeyUp(h)
      PROVE  RestStep
  BY <1>1 DEF M!KeyDown, M!KeyUp, M!Pressed, M!Released, M!HeardDown, M!HeardUp
<1>2. ASSUME NEW h, M!Unheard(h) PROVE RestStep
  BY <1>2 DEF M!Unheard, M!Released
<1>3. ASSUME NEW w \in Windows \cup {"away"}, M!Focus(w) PROVE RestStep
  BY <1>3 DEF M!Focus, M!Moves
<1>4. CASE M!ToggleKeypad \/ M!ToggleEcs
  BY <1>4 DEF M!ToggleKeypad, M!ToggleEcs, M!Commanding, Windows
<1>5. CASE M!HideKeypad \/ M!CloseKeypad \/ M!CloseEcs
  BY <1>5 DEF M!HideKeypad, M!CloseKeypad, M!CloseEcs, M!Goes, Windows
<1>6. CASE M!ModeSwitched
  BY <1>6 DEF M!ModeSwitched
<1>7. CASE M!OnMapClicked \/ M!OnResetClicked
  BY <1>7 DEF M!OnMapClicked, M!OnResetClicked, M!Clicking
<1>8. ASSUME NEW a, M!OnSysactClicked(a) PROVE RestStep
  BY <1>8 DEF M!OnSysactClicked, M!Clicking
<1>9. ASSUME NEW t, M!TargetPressed(t) PROVE RestStep
  BY <1>9 DEF M!TargetPressed, M!Clicking
<1>10. CASE M!TargetReleased
  BY <1>10 DEF M!TargetReleased
<1>11. ASSUME NEW c, M!EcsPressed(c) \/ M!ModToggled(c) PROVE RestStep
  BY <1>11 DEF M!EcsPressed, M!ModToggled, M!EcsClicking
<1>12. CASE M!EcsReleased
  BY <1>12 DEF M!EcsReleased, M!EcsClicking
<1>13. CASE M!Latch \/ M!PollTick
  BY <1>13 DEF M!Latch, M!PollTick
<1> QED
  BY <1>1, <1>2, <1>3, <1>4, <1>5, <1>6, <1>7, <1>8, <1>9, <1>10, <1>11, <1>12, <1>13, Zenon
      DEF M!Next
-----------------------------------------------------------------------------
(* What a step is, whichever frontend runs.                                *)

DeskStep == MapStep /\ MatrixStep /\ InputStep /\ RestStep

LEMMA StepsAre == Next => DeskStep
BY GnomeMap, GnomeMatrix, GnomeInput, GnomeRest, KdeMap, KdeMatrix, KdeInput, KdeRest,
   WinMap, WinMatrix, WinInput, WinRest, MacMap, MacMatrix, MacInput, MacRest DEF Next, DeskStep

-----------------------------------------------------------------------------
(* Nothing stays down that nobody holds.                                   *)

\* A set of numbers has a least one.
LEMMA WellOrdered ==
  ASSUME NEW T \in SUBSET Nat, T # {}
  PROVE \E x \in T : \A y \in T : x <= y
<1>1. IsWellFoundedOn(OpToRel(<, Nat), Nat) BY NatLessThanWellFounded
<1>2. PICK x \in T : \A y \in T : <<y, x>> \notin OpToRel(<, Nat)
  <2> HIDE DEF OpToRel, IsWellFoundedOn
  <2> QED BY <1>1, WFMin
<1>3. \A y \in T : ~ (y < x)
  BY <1>2, Zenon DEF OpToRel
<1> QED BY <1>3, SMT

\* The scan of the record stops at a slot it looks for.
LEMMA FirstIs == \A T \in SUBSET TableSlots : T # {} => First(T) \in T
<1> TAKE T \in SUBSET TableSlots
<1> HAVE T # {}
<1>1. T \in SUBSET Nat
  BY EcsAssumption DEF TableSlots
<1>2. \E i \in T : \A j \in T : i <= j
  BY <1>1, WellOrdered
<1> QED BY <1>2 DEF First

LEMMA SlotIs == \A h : SlotFor(h) \in TableSlots
<1> TAKE h
<1>1. SlotsOf(h) \in SUBSET TableSlots /\ FreeSlots \in SUBSET TableSlots
  BY DEF SlotsOf, FreeSlots
<1>2. 1 \in TableSlots
  BY EcsAssumption DEF TableSlots
<1> QED BY <1>1, <1>2, FirstIs DEF SlotFor

\* The matrix and its record, with their types.
GhostInv == EcsTypeOK /\ NoGhostKey

\* A release takes away what its key's record says, and the record with it.
LEMMA UpGhost ==
    ASSUME GhostInv, NEW h \in HostKeys, HostUp(h), UNCHANGED <<latched, mouse>>
    PROVE  GhostInv'
<1>1. CASE UNCHANGED ecsVars
  BY <1>1 DEF GhostInv, EcsTypeOK, NoGhostKey, OneRecord, Recorded, ecsVars
<1>2. CASE SlotsOf(h) # {}
  <2> DEFINE i == First(SlotsOf(h))
  <2>1. i \in SlotsOf(h)
    <3>1. SlotsOf(h) \in SUBSET TableSlots
      BY DEF SlotsOf
    <3> QED BY <1>2, <3>1, FirstIs
  <2>2. i \in TableSlots
    BY <2>1 DEF SlotsOf
  <2>3. k' = k \ {ecs_held[i].cap} /\ ecs_held' = [ecs_held EXCEPT ![i] = Free]
    BY <1>2 DEF HostUp
  <2>4. EcsTypeOK'
    BY <2>3 DEF GhostInv, EcsTypeOK, Entries
  <2>5. OneRecord'
    <3>1. \A j \in TableSlots : ecs_held'[j] = IF j = i THEN Free ELSE ecs_held[j]
      BY <2>2, <2>3 DEF GhostInv, EcsTypeOK
    <3>2. \A j \in TableSlots : ecs_held[j] # Free => ecs_held[j].host # Free.host
      BY EcsAssumption DEF GhostInv, EcsTypeOK, Entries, Free
    <3> HIDE DEF i
    <3> QED BY <3>1, <3>2 DEF GhostInv, NoGhostKey, OneRecord
  <2>6. Recorded \subseteq Recorded' \cup {ecs_held[i].cap}
    BY <2>2, <2>3 DEF GhostInv, EcsTypeOK, Recorded
  <2> HIDE DEF i
  <2> QED BY <2>3, <2>4, <2>5, <2>6 DEF GhostInv, NoGhostKey
<1> QED BY <1>1, <1>2 DEF HostUp

\* A press is recorded where its key was, where nothing was, or where a key
\* was that is let go.
LEMMA DownGhost ==
    ASSUME GhostInv, NEW h \in HostKeys, NEW c \in EcsCaps, HostDown(h, c),
           UNCHANGED <<latched, mouse>>
    PROVE  GhostInv'
<1> DEFINE i == SlotFor(h)
<1>1. i \in TableSlots
  BY SlotIs
<1>2. k' = (k \ {ecs_held[i].cap}) \cup {c} /\ ecs_held' = [ecs_held EXCEPT ![i] = [host |-> h, cap |-> c]]
  BY EcsAssumption DEF HostDown, LetGo
<1>3. \A j \in TableSlots : ecs_held[j].host = h => j = i
  <2> TAKE j \in TableSlots
  <2> HAVE ecs_held[j].host = h
  <2>1. SlotsOf(h) # {} /\ SlotsOf(h) \in SUBSET TableSlots
    BY DEF SlotsOf
  <2>2. i \in SlotsOf(h)
    BY <2>1, FirstIs DEF SlotFor
  <2>3. ecs_held[j] # Free /\ ecs_held[i].host = h
    BY <2>2, EcsAssumption DEF SlotsOf, Free
  <2> HIDE DEF i
  <2> QED BY <1>1, <2>3 DEF GhostInv, NoGhostKey, OneRecord
<1> HIDE DEF i
<1>4. EcsTypeOK'
  <2>1. [host |-> h, cap |-> c] \in Entries
    BY DEF Entries
  <2> QED BY <1>2, <2>1 DEF GhostInv, EcsTypeOK
<1>5. OneRecord'
  <2>1. \A j \in TableSlots : j # i => ecs_held'[j] = ecs_held[j] /\ ecs_held'[j].host # h
    BY <1>2, <1>3 DEF GhostInv, EcsTypeOK
  <2>2. ecs_held'[i].host = h
    BY <1>1, <1>2 DEF GhostInv, EcsTypeOK
  <2> QED BY <2>1, <2>2 DEF GhostInv, NoGhostKey, OneRecord
<1>6. Recorded \subseteq Recorded' \cup {ecs_held[i].cap} /\ c \in Recorded'
  <2>1. \A j \in TableSlots : j # i => ecs_held'[j] = ecs_held[j]
    BY <1>2 DEF GhostInv, EcsTypeOK
  <2>2. ecs_held'[i].cap = c /\ c # NoCap
    BY <1>1, <1>2, EcsAssumption DEF GhostInv, EcsTypeOK
  <2> QED BY <1>1, <2>1, <2>2 DEF Recorded
<1> QED BY <1>2, <1>4, <1>5, <1>6 DEF GhostInv, NoGhostKey

LEMMA ClearGhost == ASSUME GhostInv, KeysClear PROVE GhostInv'
<1>1. \A i \in TableSlots : ecs_held'[i] = Free
  BY DEF KeysClear
<1> QED BY <1>1 DEF GhostInv, EcsTypeOK, NoGhostKey, OneRecord, Recorded, KeysClear, Entries

\* What leaves the table alone and puts nothing down that nobody holds.
LEMMA KeptGhost ==
    ASSUME GhostInv, UNCHANGED ecs_held, k' \subseteq EcsCaps,
           k' \subseteq Recorded \cup latched' \cup {mouse'.on}
    PROVE  GhostInv'
BY DEF GhostInv, EcsTypeOK, NoGhostKey, OneRecord, Recorded

LEMMA StepGhost == ASSUME GhostInv, MatrixStep PROVE GhostInv'
<1>0. k \subseteq EcsCaps /\ k \subseteq Recorded \cup latched \cup {mouse.on}
  BY DEF GhostInv, EcsTypeOK, NoGhostKey
<1>1. CASE UNCHANGED <<ecsVars, latched, mouse>>
  BY <1>0, <1>1, KeptGhost DEF ecsVars
<1>2. CASE Keyed /\ UNCHANGED <<latched, mouse>>
  <2>1. PICK h \in HostKeys, c \in EcsCaps \cup {NoCap}, on \in BOOLEAN : KeyEvent(h, c, on)
    BY <1>2 DEF Keyed
  <2>2. CASE on
    <3>1. HostDown(h, c)
      BY <2>1, <2>2 DEF KeyEvent
    <3>2. CASE c = NoCap
      BY <1>0, <1>2, <3>1, <3>2, KeptGhost DEF HostDown, ecsVars
    <3> QED BY <1>2, <3>1, <3>2, DownGhost
  <2>3. CASE ~on
    <3>1. HostUp(h)
      BY <2>1, <2>3 DEF KeyEvent
    <3> QED BY <1>2, <3>1, UpGhost
  <2> QED BY <2>2, <2>3
<1>3. CASE KeysClear
  BY <1>3, ClearGhost
<1>4. CASE MatrixReset /\ UNCHANGED <<latched, mouse>>
  BY <1>4, KeptGhost DEF MatrixReset
<1>5. CASE mouse.on \in Targets \cup {NoTarget} /\ UNCHANGED <<ecsVars, latched>>
  <2>1. k \subseteq Recorded \cup latched
    BY <1>0, <1>5, DeskAssumption
  <2> QED BY <1>0, <1>5, <2>1, KeptGhost DEF ecsVars
<1>6. CASE /\ mouse = NoMouse /\ UNCHANGED <<ecs_held, latched>>
           /\ \E c \in Buttons : KeySet(c, TRUE) /\ mouse' = [on |-> c, live |-> TRUE]
  <2>1. PICK c \in EcsCaps : k' = k \cup {c} /\ mouse'.on = c
    BY <1>6, DeskAssumption DEF KeySet
  <2>2. mouse.on = NoTarget
    BY <1>6 DEF NoMouse
  <2>3. k \subseteq Recorded \cup latched
    BY <1>0, <2>2, DeskAssumption
  <2> QED BY <1>0, <1>6, <2>1, <2>3, KeptGhost
<1>7. CASE KeySet(mouse.on, FALSE) /\ UNCHANGED <<ecs_held, latched>>
  <2>1. k' = k \ {mouse.on}
    BY <1>7 DEF KeySet
  <2> QED BY <1>0, <1>7, <2>1, KeptGhost
<1>8. CASE /\ \E c \in Latching : latched' = (latched \ {c}) \cup ({c} \ latched) /\ KeySet(c, c \notin latched)
           /\ UNCHANGED <<ecs_held, mouse>>
  <2>1. PICK c \in Latching : latched' = (latched \ {c}) \cup ({c} \ latched) /\ KeySet(c, c \notin latched)
    BY <1>8
  <2>2. c \in EcsCaps
    BY DeskAssumption
  <2>3. k' \subseteq EcsCaps /\ k' \subseteq Recorded \cup latched' \cup {mouse'.on}
    <3>1. CASE c \notin latched
      <4>1. k' = k \cup {c}
        BY <2>1, <3>1 DEF KeySet
      <4> QED BY <1>0, <1>8, <2>1, <2>2, <3>1, <4>1
    <3>2. CASE c \in latched
      <4>1. k' = k \ {c}
        BY <2>1, <3>2 DEF KeySet
      <4> QED BY <1>0, <1>8, <2>1, <2>2, <3>2, <4>1
    <3> QED BY <3>1, <3>2
  <2> QED BY <1>8, <2>3, KeptGhost
<1> QED BY <1>1, <1>2, <1>3, <1>4, <1>5, <1>6, <1>7, <1>8 DEF MatrixStep

LEMMA InitGhost == DeskInit => GhostInv
BY DEF DeskInit, EcsInit, GhostInv, EcsTypeOK, NoGhostKey, OneRecord, Recorded, Entries, NoMouse

LEMMA GhostAlways == Spec => []GhostInv
<1>1. GhostInv /\ [Next]_deskVars => GhostInv'
  <2>1. GhostInv /\ Next => GhostInv'
    BY StepsAre, StepGhost DEF DeskStep
  <2>2. GhostInv /\ UNCHANGED deskVars => GhostInv'
    BY DEF deskVars, machineVars, windowVars, GhostInv, EcsTypeOK, NoGhostKey, OneRecord, Recorded
  <2> QED BY <2>1, <2>2
<1> QED BY <1>1, InitGhost, PTL DEF Spec

\* Nothing is down in the ECS's matrix but what a host key on record, a
\* latched button or the pointer puts there, and no host key has two records:
\* session.c's press, release, clear and reset, from all four frontends.
THEOREM NoGhostAlways == Spec => []NoGhostKey
BY GhostAlways, PTL DEF GhostInv

-----------------------------------------------------------------------------
(* A Map round and the gamepad capture.                                    *)

LEMMA StepCapture == CaptureIsAwaited /\ MapStep => CaptureIsAwaited'
BY DEF CaptureIsAwaited, MapStep, mapVars

\* While the gamepads' buttons are kept from the game, a Map round waits for
\* one and the timer that takes it runs: in every frontend, whatever window
\* is hidden, whatever else ends the round.
THEOREM CaptureAlwaysAwaited == Spec => []CaptureIsAwaited
<1>1. DeskInit => CaptureIsAwaited
  BY DEF DeskInit, CaptureIsAwaited
<1>2. CaptureIsAwaited /\ [Next]_deskVars => CaptureIsAwaited'
  <2>1. CaptureIsAwaited /\ Next => CaptureIsAwaited'
    BY StepsAre, StepCapture DEF DeskStep
  <2>2. CaptureIsAwaited /\ UNCHANGED deskVars => CaptureIsAwaited'
    BY DEF deskVars, mapVars, CaptureIsAwaited
  <2> QED BY <2>1, <2>2
<1> QED BY <1>1, <1>2, PTL DEF Spec

-----------------------------------------------------------------------------
(* Types, and one key for each target.                                     *)

\* A round that has begun leaves room for the binding it may make.
Room == map # "idle" => maps < MaxMaps
OneKey == \A r, s \in Keysyms : bound[r] = bound[s] => r = s \/ bound[r] = NoTarget
MapTypes == /\ bound \in [Keysyms -> Targets \cup {NoTarget}]
            /\ maps \in 0 .. MaxMaps
            /\ map \in {"idle", "pick", "wait"} /\ target \in Targets \cup {NoTarget}
            /\ capture \in {"off", "armed", "got"} /\ poll \in BOOLEAN
PointerTypes == /\ mouse \in [on : Targets \cup Buttons \cup {NoTarget}, live : BOOLEAN]
                /\ latched \subseteq Latching
InputTypes == /\ pads \subseteq PadKeys /\ disc \in Positions \cup {Centre}
              /\ sysdown \in SysTable /\ act \in SysActs \cup {NoTarget}
RestTypes == /\ ui \in UIs /\ usable \in Usable /\ down \subseteq HostKeys
             /\ focus \in Windows \cup {"away"} /\ open \subseteq Windows
             /\ ecs_mode \in BOOLEAN /\ fired \subseteq HostKeys /\ twice \in BOOLEAN
MapInv == MapTypes /\ Room /\ OneKey
DeskInv == MapInv /\ PointerTypes /\ InputTypes /\ RestTypes

LEMMA InitDeskInv == DeskInit => DeskInv
<1> SUFFICES ASSUME DeskInit PROVE DeskInv
  OBVIOUS
<1>1. MapInv
  <2>1. MapTypes
    <3>1. Default \in [Keysyms -> Targets \cup {NoTarget}] /\ 0 \in 0 .. MaxMaps
      BY DeskAssumption
    <3> QED BY <3>1 DEF DeskInit, MapTypes
  <2>2. Room /\ OneKey
    BY DeskAssumption DEF DeskInit, Room, OneKey
  <2> QED BY <2>1, <2>2 DEF MapInv
<1>2. PointerTypes /\ InputTypes
  BY DEF DeskInit, PointerTypes, InputTypes, NoMouse, SysTable
<1>3. RestTypes
  BY DEF DeskInit, RestTypes, Windows
<1> QED BY <1>1, <1>2, <1>3 DEF DeskInv

\* A new binding takes its target from whatever keysym had it.
LEMMA TakenOneKey ==
    ASSUME MapTypes, OneKey, Taken
    PROVE  bound' \in [Keysyms -> Targets \cup {NoTarget}] /\ OneKey'
<1>1. CASE bound' = SetButton(target)
  BY <1>1 DEF MapTypes, OneKey, SetButton
<1>2. CASE \E s \in Keysyms : bound' = SetKey(target, s)
  BY <1>2 DEF MapTypes, OneKey, SetKey
<1> QED BY <1>1, <1>2 DEF Taken

LEMMA StepMapInv == ASSUME MapInv, MapStep PROVE MapInv'
<1>1. CASE UNCHANGED mapVars
  BY <1>1 DEF mapVars, MapInv, MapTypes, Room, OneKey
<1>2. CASE /\ map' = "idle" /\ target' = NoTarget /\ capture' = "off" /\ poll' = FALSE
           /\ bound' = bound \/ bound' = Default
           /\ maps' = maps
  BY <1>2, DeskAssumption DEF MapInv, MapTypes, Room, OneKey
<1>3. CASE /\ map' = "idle" /\ target' = NoTarget /\ capture' = "off" /\ poll' = FALSE
           /\ map = "wait" /\ Taken /\ maps' = maps + 1
  <2>1. maps' \in 0 .. MaxMaps
    BY <1>3, DeskAssumption DEF MapInv, MapTypes, Room
  <2> QED BY <1>3, <2>1, TakenOneKey DEF MapInv, MapTypes, Room
<1>4. CASE /\ maps' = maps /\ bound' = bound
           /\ map' \in {"idle", "pick", "wait"} /\ target' \in Targets \cup {NoTarget}
           /\ capture' \in {"off", "armed", "got"} /\ poll' \in BOOLEAN
           /\ map' # "idle" => map # "idle" \/ maps < MaxMaps
  BY <1>4 DEF MapInv, MapTypes, Room, OneKey
<1> QED BY <1>1, <1>2, <1>3, <1>4 DEF MapStep, MapInv, MapTypes

LEMMA StepPointer == ASSUME PointerTypes, MatrixStep PROVE PointerTypes'
<1> DEFINE Spots == [on : Targets \cup Buttons \cup {NoTarget}, live : BOOLEAN]
<1>1. mouse' \in Spots
  <2>1. NoMouse \in Spots /\ \A c \in Buttons : [on |-> c, live |-> TRUE] \in Spots
    BY DEF NoMouse
  <2>2. \A p \in [on : Targets \cup {NoTarget}, live : BOOLEAN] : p \in Spots
    OBVIOUS
  <2> HIDE DEF Spots
  <2>3. mouse \in Spots
    BY DEF PointerTypes, Spots
  <2> QED BY <2>1, <2>2, <2>3 DEF MatrixStep
<1>2. latched' \subseteq Latching
  BY DEF PointerTypes, MatrixStep
<1> QED BY <1>1, <1>2 DEF PointerTypes

LEMMA StepDeskInv == ASSUME DeskInv, [Next]_deskVars PROVE DeskInv'
<1>1. CASE Next
  <2>1. MapInv'
    BY <1>1, StepsAre, StepMapInv DEF DeskInv, DeskStep
  <2>2. PointerTypes'
    BY <1>1, StepsAre, StepPointer DEF DeskInv, DeskStep
  <2>3. InputTypes'
    BY <1>1, StepsAre DEF DeskInv, DeskStep, InputStep, InputTypes
  <2>4. RestTypes'
    BY <1>1, StepsAre DEF DeskInv, DeskStep, RestStep, RestTypes, Windows
  <2> QED BY <2>1, <2>2, <2>3, <2>4 DEF DeskInv
<1>2. CASE UNCHANGED deskVars
  <2>1. MapInv'
    BY <1>2 DEF deskVars, mapVars, DeskInv, MapInv, MapTypes, Room, OneKey
  <2>2. PointerTypes' /\ InputTypes'
    BY <1>2 DEF deskVars, machineVars, windowVars, DeskInv, PointerTypes, InputTypes
  <2>3. RestTypes'
    BY <1>2 DEF deskVars, keyVars, windowVars, heardVars, DeskInv, RestTypes
  <2> QED BY <2>1, <2>2, <2>3 DEF DeskInv
<1> QED BY <1>1, <1>2

LEMMA DeskInvAlways == Spec => []DeskInv
BY InitDeskInv, StepDeskInv, PTL DEF Spec

\* The types, with a bound on bindings that a round never goes past.
THEOREM DeskTypeAlways == Spec => []DeskTypeOK
<1>1. DeskInv /\ GhostInv => DeskTypeOK
  BY DEF DeskInv, GhostInv, DeskTypeOK, MapInv, MapTypes, PointerTypes, InputTypes, RestTypes, SysTable
<1> QED BY <1>1, DeskInvAlways, GhostAlways, PTL

-----------------------------------------------------------------------------
(* A held key fires its action once.                                       *)

\* What a key fired stands in its window's list until the key goes up.
Listed == \A h \in fired \cap down : focus \in {"main", "keypad"} =>
              bound[<<h, FALSE>>] \in sysdown[focus]
ListInv == ui = "gnome" => Listed
OnceInv == OncePerPress /\ ListInv

\* What a key does: it fires nothing, or it is in a window and its action's key.
Quiet == act' = NoTarget /\ UNCHANGED sysdown
Acting(h, on) ==
    /\ bound' = bound /\ focus \in {"main", "keypad"} /\ bound[<<h, FALSE>>] \in SysActs
    /\ act' # NoTarget => bound[<<h, FALSE>>] \notin sysdown[focus]
    /\ sysdown' = [sysdown EXCEPT ![focus] = IF on THEN @ \cup {bound[<<h, FALSE>>]}
                                                    ELSE @ \ {bound[<<h, FALSE>>]}]

LEMMA GKeyOnce ==
    ASSUME NEW h \in HostKeys, NEW on \in BOOLEAN, G!Key(h, on)
    PROVE  /\ Quiet \/ Acting(h, on)
           /\ ~on => bound' = bound
<1>1. G!NoTarget = NoTarget
  BY DEF G!NoTarget, NoTarget
<1>2. ASSUME NEW w \in {"main", "keypad"}, focus = w, G!ForwardKey(w, h, on), bound' = bound
      PROVE Quiet \/ Acting(h, on)
  <2>1. G!Keysym(h) = <<h, FALSE>>
    BY DEF G!Keysym
  <2>2. CASE bound[<<h, FALSE>>] \in SysActs
    BY <1>1, <1>2, <2>1, <2>2 DEF Acting, G!ForwardKey, G!Nothing, G!Silent
  <2>3. CASE bound[<<h, FALSE>>] \notin SysActs
    BY <1>1, <1>2, <2>1, <2>3 DEF Quiet, G!ForwardKey, G!Silent
  <2> QED BY <2>2, <2>3
<1>3. Quiet \/ Acting(h, on)
  BY <1>1, <1>2 DEF G!Key, G!MainKey, G!KeypadKey, G!EcsWindowKey, G!Nothing, G!Silent, Quiet, G!mapVars
<1>4. ~on => bound' = bound
  BY DEF G!Key, G!MainKey, G!KeypadKey, G!EcsWindowKey, G!mapVars
<1> QED BY <1>3, <1>4

LEMMA DownOnce ==
    ASSUME Listed, sysdown \in SysTable, NEW h \in HostKeys, NEW again \in BOOLEAN,
           again => h \in down, UNCHANGED <<ui, focus>>, down' = down \cup {h},
           Quiet \/ Acting(h, TRUE), HeardDown(h, again)
    PROVE  Listed' /\ ~twice'
<1> USE DEF SysTable
<1> DEFINE t == bound[<<h, FALSE>>]
<1>1. CASE Quiet
  <2>1. ~twice'
    BY <1>1 DEF Quiet, HeardDown
  <2>2. CASE bound' # bound
    BY <2>1, <2>2 DEF HeardDown, Listed
  <2>3. CASE bound' = bound
    <3>1. \A x \in fired' \cap down' : x \in fired \cap down
      BY <1>1, <2>3 DEF Quiet, HeardDown
    <3> QED BY <1>1, <2>1, <2>3, <3>1 DEF Quiet, Listed
  <2> QED BY <2>2, <2>3
<1>2. CASE Acting(h, TRUE)
  <2>1. sysdown'[focus] = sysdown[focus] \cup {t} /\ bound' = bound /\ focus \in {"main", "keypad"}
    BY <1>2 DEF Acting
  <2>2. fired' \subseteq fired \cup {h}
    BY <2>1 DEF HeardDown
  <2>3. Listed'
    BY <2>1, <2>2 DEF Listed
  <2>4. again /\ h \in fired => act' = NoTarget
    BY <1>2, <2>1 DEF Acting, Listed
  <2> QED BY <2>3, <2>4 DEF HeardDown
<1> QED BY <1>1, <1>2

LEMMA UpOnce ==
    ASSUME Listed, OneKey, sysdown \in SysTable, down \subseteq HostKeys, NEW h \in HostKeys,
           UNCHANGED <<ui, focus, bound>>, down' = down \ {h},
           Quiet \/ Acting(h, FALSE), HeardUp(h)
    PROVE  Listed' /\ ~twice'
<1> USE DEF SysTable
<1> DEFINE t == bound[<<h, FALSE>>]
<1>1. fired' = fired /\ ~twice'
  BY DEF HeardUp
<1>2. CASE Quiet
  BY <1>1, <1>2 DEF Quiet, Listed
<1>3. CASE Acting(h, FALSE)
  <2>1. sysdown'[focus] = sysdown[focus] \ {t} /\ focus \in {"main", "keypad"} /\ t \in SysActs
    BY <1>3 DEF Acting
  <2>2. t # NoTarget
    BY <2>1, DeskAssumption DEF Targets
  <2>3. ASSUME NEW x \in fired \cap down' PROVE bound[<<x, FALSE>>] \in sysdown'[focus]
    <3>1. bound[<<x, FALSE>>] \in sysdown[focus]
      BY <2>1, <2>3 DEF Listed
    <3>2. <<x, FALSE>> \in Keysyms /\ <<h, FALSE>> \in Keysyms /\ <<x, FALSE>> # <<h, FALSE>>
      BY <2>3 DEF Keysyms
    <3>3. bound[<<x, FALSE>>] # t
      BY <2>2, <3>2 DEF OneKey
    <3> QED BY <2>1, <3>1, <3>3
  <2> QED BY <1>1, <2>3 DEF Listed
<1> QED BY <1>2, <1>3

\* Whoever hears keys anew has nothing to repeat, and the rest is left alone.
Unheeded == UNCHANGED <<fired, twice, bound, focus, sysdown>> /\ down' \subseteq down
AnewOrNot == HeardAnew \/ Unheeded

LEMMA GnomeRestOnce ==
    G!Next => AnewOrNot \/ \E h \in HostKeys : G!KeyDown(h) \/ G!KeyRepeat(h) \/ G!KeyUp(h)
<1> SUFFICES ASSUME G!Next, ~\E h \in HostKeys : G!KeyDown(h) \/ G!KeyRepeat(h) \/ G!KeyUp(h)
             PROVE  AnewOrNot
  OBVIOUS
<1> USE DEF AnewOrNot, Unheeded, HeardAnew, G!HeardAnew, G!keyVars, G!heardVars, G!mapVars
<1>1. ASSUME NEW h, G!Unheard(h) PROVE AnewOrNot
  BY <1>1 DEF G!Unheard, G!Released
<1>2. ASSUME NEW w, G!Focus(w) PROVE AnewOrNot
  BY <1>2 DEF G!Focus, G!Moves
<1>3. CASE G!ToggleKeypad \/ G!ToggleEcs \/ G!ModeSwitched
  BY <1>3 DEF G!ToggleKeypad, G!ToggleEcs, G!Commanding, G!ModeSwitched
<1>4. CASE G!CloseKeypad \/ G!CloseEcs
  BY <1>4 DEF G!CloseKeypad, G!CloseEcs
<1>5. CASE G!OnMapClicked \/ G!OnResetClicked
  BY <1>5 DEF G!OnMapClicked, G!OnResetClicked, G!Clicking
<1>6. ASSUME NEW a, G!OnSysactClicked(a) PROVE AnewOrNot
  BY <1>6 DEF G!OnSysactClicked, G!Clicking, G!MapSelectTarget
<1>7. ASSUME NEW t, G!TargetPressed(t) PROVE AnewOrNot
  BY <1>7 DEF G!TargetPressed, G!Clicking, G!MapSelectTarget
<1>8. CASE G!TargetReleased \/ G!EcsReleased
  BY <1>8 DEF G!TargetReleased, G!EcsReleased, G!EcsClicking
<1>9. ASSUME NEW c, G!EcsPressed(c) \/ G!ModToggled(c) PROVE AnewOrNot
  BY <1>9 DEF G!EcsPressed, G!ModToggled, G!EcsClicking
<1>10. CASE G!Latch \/ G!PollTick
  BY <1>10 DEF G!Latch, G!PollTick
<1> QED
  BY <1>1, <1>2, <1>3, <1>4, <1>5, <1>6, <1>7, <1>8, <1>9, <1>10, Zenon DEF G!Next

LEMMA GnomeOnce == ASSUME DeskInv, Listed, ~twice, G!Next PROVE Listed' /\ ~twice'
<1>1. sysdown \in SysTable /\ down \subseteq HostKeys /\ OneKey
  BY DEF DeskInv, InputTypes, RestTypes, MapInv
<1>2. ASSUME NEW h \in HostKeys, NEW again \in BOOLEAN, again => h \in down,
             UNCHANGED <<ui, focus>>, down' = down \cup {h},
             G!Key(h, TRUE), G!HeardDown(h, again)
      PROVE  Listed' /\ ~twice'
  <2>1. HeardDown(h, again)
    BY <1>2 DEF HeardDown, G!HeardDown, NoTarget, G!NoTarget
  <2> QED BY <1>1, <1>2, <2>1, GKeyOnce, DownOnce
<1>3. ASSUME NEW h \in HostKeys, G!KeyDown(h) PROVE Listed' /\ ~twice'
  BY <1>2, <1>3 DEF G!KeyDown, G!Pressed
<1>4. ASSUME NEW h \in HostKeys, G!KeyRepeat(h) PROVE Listed' /\ ~twice'
  <2>1. h \in down /\ down' = down \cup {h} /\ UNCHANGED <<ui, focus>>
    BY <1>4 DEF G!KeyRepeat, G!Repeated, G!keyVars
  <2> QED BY <1>2, <1>4, <2>1 DEF G!KeyRepeat
<1>5. ASSUME NEW h \in HostKeys, G!KeyUp(h) PROVE Listed' /\ ~twice'
  <2>1. /\ down' = down \ {h} /\ UNCHANGED <<ui, focus>>
        /\ HeardUp(h) /\ G!Key(h, FALSE)
    BY <1>5 DEF G!KeyUp, G!Released, G!HeardUp, HeardUp
  <2> QED BY <1>1, <2>1, GKeyOnce, UpOnce
<1>6. CASE HeardAnew
  BY <1>6 DEF HeardAnew, Listed
<1>7. CASE Unheeded
  BY <1>7 DEF Unheeded, Listed
<1> QED BY <1>3, <1>4, <1>5, <1>6, <1>7, GnomeRestOnce DEF AnewOrNot

\* The others drop repeats, or Windows marks them.
OnceAtMost == twice' = FALSE \/ twice' = twice

LEMMA KdeOnce == K!Next => OnceAtMost
<1> SUFFICES ASSUME K!Next PROVE OnceAtMost
  OBVIOUS
<1> USE DEF OnceAtMost, K!HeardAnew, K!heardVars
<1>1. ASSUME NEW h, K!KeyDown(h) \/ K!KeyUp(h) \/ K!Unheard(h) PROVE OnceAtMost
  BY <1>1 DEF K!KeyDown, K!KeyUp, K!HeardDown, K!HeardUp, K!Unheard
<1>2. ASSUME NEW w, K!Focus(w) PROVE OnceAtMost
  BY <1>2 DEF K!Focus, K!Moves
<1>3. CASE K!ShowKeypad \/ K!ShowEcs \/ K!ModeSwitched
  BY <1>3 DEF K!ShowKeypad, K!ShowEcs, K!Commanding, K!ModeSwitched
<1>4. CASE K!CloseKeypad \/ K!CloseEcs
  BY <1>4 DEF K!CloseKeypad, K!CloseEcs, K!Closed
<1>5. CASE K!OnMapClicked \/ K!OnResetClicked
  BY <1>5 DEF K!OnMapClicked, K!OnResetClicked, K!Clicking
<1>6. ASSUME NEW a, K!OnSysactClicked(a) PROVE OnceAtMost
  BY <1>6 DEF K!OnSysactClicked, K!Clicking
<1>7. ASSUME NEW t, K!TargetPressed(t) PROVE OnceAtMost
  BY <1>7 DEF K!TargetPressed, K!Clicking
<1>8. CASE K!TargetReleased \/ K!EcsReleased
  BY <1>8 DEF K!TargetReleased, K!EcsReleased, K!EcsClicking
<1>9. ASSUME NEW c, K!EcsPressed(c) \/ K!ModToggled(c) PROVE OnceAtMost
  BY <1>9 DEF K!EcsPressed, K!ModToggled, K!EcsClicking
<1>10. CASE K!Latch \/ K!PollTick
  BY <1>10 DEF K!Latch, K!PollTick
<1> QED
  BY <1>1, <1>2, <1>3, <1>4, <1>5, <1>6, <1>7, <1>8, <1>9, <1>10, Zenon DEF K!Next

LEMMA WinOnce == W!Next => OnceAtMost
<1> SUFFICES ASSUME W!Next PROVE OnceAtMost
  OBVIOUS
<1> USE DEF OnceAtMost, W!HeardAnew, W!heardVars
<1>1. ASSUME NEW h, W!KeyRepeat(h) PROVE OnceAtMost
  <2>1. act' = W!NoTarget
    BY <1>1 DEF W!KeyRepeat, W!Key, W!OnKey, W!KeypadKey, W!ForwardEcsKey, W!IntvForwardKey,
        W!Nothing, W!Silent
  <2> QED BY <1>1, <2>1 DEF W!KeyRepeat, W!HeardDown
<1>2. ASSUME NEW h, W!KeyDown(h) \/ W!KeyUp(h) \/ W!Unheard(h) PROVE OnceAtMost
  BY <1>2 DEF W!KeyDown, W!KeyUp, W!HeardDown, W!HeardUp, W!Unheard
<1>3. ASSUME NEW w, W!Focus(w) PROVE OnceAtMost
  BY <1>3 DEF W!Focus, W!Moves
<1>4. CASE W!ToggleKeypad \/ W!ToggleEcs \/ W!ModeSwitched
  BY <1>4 DEF W!ToggleKeypad, W!ToggleEcs, W!Commanding, W!ModeSwitched
<1>5. CASE W!CloseKeypad \/ W!CloseEcs
  BY <1>5 DEF W!CloseKeypad, W!CloseEcs, W!Closed
<1>6. CASE W!OnMapClicked \/ W!OnResetClicked
  BY <1>6 DEF W!OnMapClicked, W!OnResetClicked, W!Clicking
<1>7. ASSUME NEW a, W!OnSysactClicked(a) PROVE OnceAtMost
  BY <1>7 DEF W!OnSysactClicked, W!Clicking
<1>8. ASSUME NEW t, W!TargetPressed(t) PROVE OnceAtMost
  BY <1>8 DEF W!TargetPressed, W!Clicking
<1>9. CASE W!TargetReleased \/ W!EcsReleased
  BY <1>9 DEF W!TargetReleased, W!EcsReleased, W!EcsClicking
<1>10. ASSUME NEW c, W!EcsPressed(c) \/ W!ModToggled(c) PROVE OnceAtMost
  BY <1>10 DEF W!EcsPressed, W!ModToggled, W!EcsClicking
<1>11. CASE W!Latch \/ W!PollTick
  BY <1>11 DEF W!Latch, W!PollTick
<1> QED
  BY <1>1, <1>2, <1>3, <1>4, <1>5, <1>6, <1>7, <1>8, <1>9, <1>10, <1>11, Zenon DEF W!Next

LEMMA MacOnce == M!Next => OnceAtMost
<1> SUFFICES ASSUME M!Next PROVE OnceAtMost
  OBVIOUS
<1> USE DEF OnceAtMost, M!HeardAnew, M!heardVars
<1>1. ASSUME NEW h, M!KeyDown(h) \/ M!KeyUp(h) \/ M!Unheard(h) PROVE OnceAtMost
  BY <1>1 DEF M!KeyDown, M!KeyUp, M!HeardDown, M!HeardUp, M!Unheard
<1>2. ASSUME NEW w, M!Focus(w) PROVE OnceAtMost
  BY <1>2 DEF M!Focus, M!Moves
<1>3. CASE M!ToggleKeypad \/ M!ToggleEcs \/ M!ModeSwitched
  BY <1>3 DEF M!ToggleKeypad, M!ToggleEcs, M!Commanding, M!ModeSwitched
<1>4. CASE M!HideKeypad \/ M!CloseKeypad \/ M!CloseEcs
  BY <1>4 DEF M!HideKeypad, M!CloseKeypad, M!CloseEcs, M!Goes
<1>5. CASE M!OnMapClicked \/ M!OnResetClicked
  BY <1>5 DEF M!OnMapClicked, M!OnResetClicked, M!Clicking
<1>6. ASSUME NEW a, M!OnSysactClicked(a) PROVE OnceAtMost
  BY <1>6 DEF M!OnSysactClicked, M!Clicking
<1>7. ASSUME NEW t, M!TargetPressed(t) PROVE OnceAtMost
  BY <1>7 DEF M!TargetPressed, M!Clicking
<1>8. CASE M!TargetReleased \/ M!EcsReleased
  BY <1>8 DEF M!TargetReleased, M!EcsReleased, M!EcsClicking
<1>9. ASSUME NEW c, M!EcsPressed(c) \/ M!ModToggled(c) PROVE OnceAtMost
  BY <1>9 DEF M!EcsPressed, M!ModToggled, M!EcsClicking
<1>10. CASE M!Latch \/ M!PollTick
  BY <1>10 DEF M!Latch, M!PollTick
<1> QED
  BY <1>1, <1>2, <1>3, <1>4, <1>5, <1>6, <1>7, <1>8, <1>9, <1>10, Zenon DEF M!Next

\* Under GNOME the other frontends have the steps of Desk alone.
LEMMA GnomeAlone ==
    ASSUME ui = "gnome", K!Next \/ W!Next \/ M!Next
    PROVE  Unheeded
<1> USE DEF Unheeded
<1>1. K!Next => (\E h \in HostKeys : K!Unheard(h)) \/ K!ModeSwitched \/ K!Latch
  BY DEF K!Next, K!Here, K!KeyDown, K!KeyUp, K!Focus, K!ShowKeypad, K!ShowEcs,
      K!CloseKeypad, K!CloseEcs, K!OnMapClicked, K!OnResetClicked, K!OnSysactClicked,
      K!TargetPressed, K!TargetReleased, K!PollTick, K!EcsPressed, K!EcsReleased,
      K!ModToggled
<1>2. W!Next => (\E h \in HostKeys : W!Unheard(h)) \/ W!ModeSwitched \/ W!Latch
  BY DEF W!Next, W!Here, W!KeyDown, W!KeyRepeat, W!KeyUp, W!Focus, W!ToggleKeypad,
      W!ToggleEcs, W!CloseKeypad, W!CloseEcs, W!OnMapClicked, W!OnResetClicked,
      W!OnSysactClicked, W!TargetPressed, W!TargetReleased, W!PollTick, W!EcsPressed,
      W!EcsReleased, W!ModToggled
<1>3. M!Next => (\E h \in HostKeys : M!Unheard(h)) \/ M!ModeSwitched \/ M!Latch
  BY DEF M!Next, M!Here, M!KeyDown, M!KeyUp, M!Focus, M!ToggleKeypad, M!ToggleEcs,
      M!HideKeypad, M!CloseKeypad, M!CloseEcs, M!OnMapClicked, M!OnResetClicked,
      M!OnSysactClicked, M!TargetPressed, M!TargetReleased, M!PollTick, M!EcsPressed,
      M!EcsReleased, M!ModToggled
<1>4. ASSUME NEW h, K!Unheard(h) PROVE Unheeded
  BY <1>4 DEF K!Unheard, K!Released, K!mapVars, K!heardVars
<1>5. ASSUME NEW h, W!Unheard(h) PROVE Unheeded
  BY <1>5 DEF W!Unheard, W!Released, W!mapVars, W!heardVars
<1>6. ASSUME NEW h, M!Unheard(h) PROVE Unheeded
  BY <1>6 DEF M!Unheard, M!Released, M!mapVars, M!heardVars
<1>7. CASE K!ModeSwitched \/ K!Latch
  BY <1>7 DEF K!ModeSwitched, K!Latch, K!keyVars, K!mapVars, K!heardVars
<1>8. CASE W!ModeSwitched \/ W!Latch
  BY <1>8 DEF W!ModeSwitched, W!Latch, W!keyVars, W!mapVars, W!heardVars
<1>9. CASE M!ModeSwitched \/ M!Latch
  BY <1>9 DEF M!ModeSwitched, M!Latch, M!keyVars, M!mapVars, M!heardVars
<1> QED BY <1>1, <1>2, <1>3, <1>4, <1>5, <1>6, <1>7, <1>8, <1>9

\* And the keys of GNOME are heard under GNOME alone.
LEMMA GnomeKeysHere ==
    ASSUME NEW h, G!KeyDown(h) \/ G!KeyRepeat(h) \/ G!KeyUp(h)
    PROVE  ui = "gnome"
BY DEF G!KeyDown, G!KeyRepeat, G!KeyUp, G!Here

LEMMA StepOnceInv == ASSUME DeskInv, OnceInv, [Next]_deskVars PROVE OnceInv'
<1>1. CASE Next /\ ui = "gnome"
  <2>1. CASE G!Next
    BY <1>1, <2>1, GnomeOnce DEF OnceInv, OncePerPress, ListInv
  <2>2. CASE K!Next \/ W!Next \/ M!Next
    <3>1. Unheeded /\ ui' = ui
      BY <1>1, <2>2, StepsAre, GnomeAlone DEF DeskStep, RestStep
    <3> QED BY <1>1, <3>1 DEF Unheeded, OnceInv, OncePerPress, ListInv, Listed
  <2> QED BY <1>1, <2>1, <2>2 DEF Next
<1>2. CASE Next /\ ui # "gnome"
  <2>1. ui' = ui
    BY <1>2, StepsAre DEF DeskStep, RestStep
  <2>2. CASE G!Next
    <3>1. HeardAnew \/ twice' = twice
      BY <1>2, <2>2, GnomeRestOnce, GnomeKeysHere DEF AnewOrNot, Unheeded
    <3> QED BY <1>2, <2>1, <3>1 DEF HeardAnew, OnceInv, OncePerPress, ListInv
  <2>3. CASE K!Next \/ W!Next \/ M!Next
    <3>1. twice' = FALSE \/ twice' = twice
      BY <2>3, KdeOnce, WinOnce, MacOnce DEF OnceAtMost
    <3> QED BY <1>2, <2>1, <3>1 DEF OnceInv, OncePerPress, ListInv
  <2> QED BY <1>2, <2>2, <2>3 DEF Next
<1>3. CASE UNCHANGED deskVars
  BY <1>3 DEF deskVars, keyVars, mapVars, heardVars, OnceInv, OncePerPress, ListInv, Listed
<1> QED BY <1>1, <1>2, <1>3

\* Holding a system action's key fires it once: GNOME's lists of the actions
\* whose key is down, Windows's repeat bit, and the toolkits that drop repeats,
\* with bindings changed and windows changed in between.
THEOREM OnceAlways == Spec => []OncePerPress
<1>1. DeskInit => OnceInv
  BY DEF DeskInit, OnceInv, OncePerPress, ListInv, Listed
<1> QED BY <1>1, DeskInvAlways, StepOnceInv, PTL DEF Spec, OnceInv
=============================================================================
