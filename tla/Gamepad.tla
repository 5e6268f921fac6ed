------------------------------ MODULE Gamepad ------------------------------
(***************************************************************************)
(* gamepad_sdl.c and what it shares with the UI thread: the SDL thread     *)
(* turns button events into pad keys and polls sticks and D-pads into the  *)
(* disc of the side a pad drives; the UI thread resets the machine, clears *)
(* the pads on focus loss, rebinds, assigns pads to sides, captures a      *)
(* button for Map mode, and drains the actions the SDL thread posts.       *)
(*                                                                         *)
(* s_lock covers the slots and the capture; the machine's pad cells are    *)
(* written by both threads without it.  A device is its id; what SDL knows *)
(* of it changes only while the SDL thread pumps events.                   *)
(***************************************************************************)
EXTENDS Integers, Sequences, FiniteSets

CONSTANTS Pads, NoPad,
          NSides,      \* NUM_SIDES
          MaxPads,     \* MAX_PADS
          Buttons,     \* among them the D-pad's "up", "down", "left", "right"
          Keys,        \* keypad keys and action buttons
          StickDirs,   \* what a stick can point at
          Clicks,      \* disc positions the keyboard or the mouse gives
          Tables,      \* bindings in use now or after a rebinding
          MaxEvents,   \* bound: what the players do
          MaxCalls     \* bound: calls of the UI

Sides     == 0..(NSides - 1)
Positions == -1..15
Centre    == -1
Forgotten == -2
Automatic == -1
DpadButtons == {"up", "down", "left", "right"}
Target == [kind : {"none", "config", "reset"}] \cup [kind : {"key"}, key : Keys]
            \cup [kind : {"disc"}, pos : 0..15]

\* How far a stick is out: within DEADZONE_EXIT, between the two, beyond
\* DEADZONE_ENTER.
Stick == [dir : StickDirs, depth : 0..2]
Exit  == 1
Enter == 2

ASSUME GamepadAssumption ==
    /\ NSides \in Nat \ {0} /\ "none" \notin Buttons /\ MaxPads \in Nat /\ NoPad \notin Pads
    /\ StickDirs \subseteq {0, 2, 4, 6, 8, 10, 12, 14} /\ StickDirs # {} /\ Clicks \subseteq Positions
    /\ Tables \subseteq [Sides -> [Buttons -> Target]] /\ Tables # {}
    /\ MaxEvents \in Nat /\ MaxCalls \in Nat

VARIABLES stick, down, plugged,  \* the devices, as SDL knows them
          slots,                 \* s_pads: ids in the order they were opened
          bound,                 \* .bound_side
          last,                  \* .last_disc
          table,                 \* the bindings
          disc, keys,            \* the machine's pad cells, per side
          pc,                    \* the SDL thread
          ev, drives,            \* dispatch_button's event, and sides to give it to
          side, dir,             \* poll_sticks' side, and what its bound buttons say
          armed, have, result,   \* the capture
          pending,               \* RESET_CONFIG is posted
          stopReq, ui,           \* the stop flag, and where the UI thread is
          events, calls,         \* so far
          loose,                 \* history: sides whose disc has had another writer
                                 \* since its driver's last one, or another driver
          overrun,               \* history: polled inside a reset of the UI
          lost                   \* history: held keys whose release may go elsewhere
device  == <<stick, down, plugged>>
machine == <<disc, keys>>
capture == <<armed, have, result>>
local   == <<ev, drives, side, dir>>
ghosts  == <<loose, overrun, lost>>
vars == <<device, slots, bound, last, table, machine, pc, local, capture, pending,
          stopReq, ui, events, calls, ghosts>>

(***************************************************************************)
(* Pure functions                                                          *)
(***************************************************************************)
First(S) == CHOOSE i \in S : \A j \in S : i <= j

\* intv_pad_for_port, of slots o with sides b: an explicit pad first, else
\* the n-th automatic one for side n.
PadForPort(o, b, s) ==
    LET autos    == {i \in DOMAIN o : b[o[i]] = Automatic}
        explicit == {i \in DOMAIN o : b[o[i]] = s}
        nth      == {i \in autos : Cardinality({j \in autos : j < i}) = s}
    IN IF explicit # {} THEN o[First(explicit)]
       ELSE IF nth # {} THEN o[First(nth)] ELSE NoPad
Driver(s) == PadForPort(slots, bound, s)

\* intv_disc_from_dpad: opposite directions cancel.
FromDpad(S) ==
    LET x == (IF "right" \in S THEN 1 ELSE 0) - (IF "left" \in S THEN 1 ELSE 0)
        y == (IF "up" \in S THEN 1 ELSE 0) - (IF "down" \in S THEN 1 ELSE 0)
    IN CASE x = 0  /\ y = 0  -> Centre
         [] x = 1  /\ y = 0  -> 0   [] x = 1  /\ y = 1  -> 2
         [] x = 0  /\ y = 1  -> 4   [] x = -1 /\ y = 1  -> 6
         [] x = -1 /\ y = 0  -> 8   [] x = -1 /\ y = -1 -> 10
         [] x = 0  /\ y = -1 -> 12  [] x = 1  /\ y = -1 -> 14

\* intv_disc_from_stick
FromStick(st, deadzone) == IF st.depth < deadzone THEN Centre ELSE st.dir

\* Rung 1 of poll_sticks: the lowest position a held button is bound to.
FromBound(s, p) ==
    LET held == {d \in 0..15 : \E b \in down[p] : table[s][b] = [kind |-> "disc", pos |-> d]}
    IN IF held = {} THEN Centre ELSE First(held)

\* Mutant: a bound D-pad button moves the disc too.
AnyDpad(s, p) == FromDpad(down[p] \cap DpadButtons)

\* Rung 2: the D-pad buttons bound to nothing.
FreeDpad(s, p) == FromDpad({b \in down[p] \cap DpadButtons : table[s][b].kind = "none"})

\* Rung 3: the stick, with the deadzone for where the disc was.
Analog(s, p) == FromStick(stick[p], IF last[p][s] # Centre THEN Exit ELSE Enter)

Reading(s, p, d) == IF d # Centre THEN d
                    ELSE IF FreeDpad(s, p) # Centre THEN FreeDpad(s, p)
                    ELSE Analog(s, p)

(***************************************************************************)
(* Parts of several calls                                                  *)
(***************************************************************************)
NoEvent  == [pad |-> NoPad, button |-> "none", press |-> FALSE]
Open     == {slots[i] : i \in DOMAIN slots}
Unlocked == pc \notin {"poll", "rest"}           \* poll_sticks holds s_lock

\* intv_gamepad_forget_disc
Forget == last' = [p \in Pads |-> IF p \in Open THEN [s \in Sides |-> Forgotten] ELSE last[p]]

\* pad_reset_inputs, intv_host_pads_clear: every cell of every pad.
ClearMachine == /\ disc' = [s \in Sides |-> Centre]
                /\ keys' = [s \in Sides |-> {}]
                /\ lost' = lost \cap drives

\* A key is down, or an event under way to it.
Touched(s) == keys[s] # {} \/ s \in drives

\* What another order or another set of slots does to the histories.
Reordered(o, b) ==
    /\ loose' = loose \cup {s \in Sides : PadForPort(o, b, s) # Driver(s)}
    /\ lost'  = lost \cup {s \in Sides : Touched(s) /\ PadForPort(o, b, s) # Driver(s)}
    /\ UNCHANGED overrun

\* The devices there are in any order, as many as fit.
OpenOrders ==
    {o \in UNION {[1..n -> plugged] : n \in 0..MaxPads} :
        /\ \A i, j \in DOMAIN o : o[i] = o[j] => i = j
        /\ Len(o) = MaxPads \/ plugged = {o[i] : i \in DOMAIN o}}

\* A session has started, with the devices there were.
Init ==
    /\ stick \in [Pads -> {st \in Stick : st.depth = 0}]
    /\ down = [p \in Pads |-> {}] /\ plugged \in SUBSET Pads
    /\ slots \in OpenOrders /\ bound = [p \in Pads |-> Automatic]
    /\ last = [p \in Pads |-> [s \in Sides |-> Centre]]
    /\ table \in Tables
    /\ disc = [s \in Sides |-> Centre] /\ keys = [s \in Sides |-> {}]
    /\ pc = "events" /\ ev = NoEvent /\ drives = {} /\ side = 0 /\ dir = Centre
    /\ armed = FALSE /\ have = FALSE /\ result = "none"
    /\ pending = FALSE /\ stopReq = FALSE /\ ui = "idle"
    /\ events = 0 /\ calls = 0
    /\ loose = {} /\ overrun = {} /\ lost = {}

(***************************************************************************)
(* The SDL thread: thread_main's event loop                                *)
(***************************************************************************)
Event == /\ pc = "events"
         /\ events < MaxEvents /\ events' = events + 1

Unmoved == UNCHANGED <<table, machine, capture, pending, stopReq, ui, calls>>

\* SDL_EVENT_..._BUTTON_DOWN and _UP: SDL's state of the button has changed.
Button(p, b) ==
    /\ Event /\ p \in Open
    /\ down' = [down EXCEPT ![p] = IF b \in @ THEN @ \ {b} ELSE @ \cup {b}]
    /\ ev' = [pad |-> p, button |-> b, press |-> b \notin down[p]]
    /\ pc' = "dispatch"
    /\ Unmoved /\ UNCHANGED <<stick, plugged, slots, bound, last, drives, side, dir, ghosts>>

MoveStick(p, st) ==
    /\ Event /\ p \in Open /\ stick[p] # st
    /\ stick' = [stick EXCEPT ![p] = st]
    /\ Unmoved /\ UNCHANGED <<down, plugged, slots, bound, last, pc, local, ghosts>>

\* Mutant: without slot_for_id's guard.
Openable(p) == Len(slots) < MaxPads

OpenPad(p) == p \notin Open /\ Len(slots) < MaxPads

\* SDL_EVENT_JOYSTICK_ADDED, and SDL_EVENT_GAMEPAD_ADDED for the same device.
PlugIn(p) ==
    /\ Event
    /\ plugged' = plugged \cup {p}
    /\ IF OpenPad(p)
       THEN /\ slots' = Append(slots, p)
            /\ bound' = [bound EXCEPT ![p] = Automatic]
            /\ last'  = [last EXCEPT ![p] = [s \in Sides |-> Centre]]
       ELSE UNCHANGED <<slots, bound, last>>
    /\ Reordered(slots', bound')
    /\ Unmoved /\ UNCHANGED <<stick, down, pc, local>>

Without(o, p) == LET i == CHOOSE i \in DOMAIN o : o[i] = p IN
                 [j \in 1..(Len(o) - 1) |-> IF j < i THEN o[j] ELSE o[j + 1]]

\* close_pad.  SDL has reported every button of the device released and its
\* stick centred.
Unplug(p) ==
    /\ Event /\ p \in plugged /\ down[p] = {}
    /\ plugged' = plugged \ {p}
    /\ stick' = [stick EXCEPT ![p].depth = 0]
    /\ slots' = IF p \in Open THEN Without(slots, p) ELSE slots
    /\ Reordered(slots', bound)
    /\ Unmoved /\ UNCHANGED <<down, bound, last, pc, local>>

\* dispatch_button under the lock: a capture swallows the event.
Dispatch ==
    /\ pc = "dispatch"
    /\ IF armed
       THEN /\ IF ev.press /\ ~have THEN have' = TRUE /\ result' = ev.button
                                    ELSE UNCHANGED <<have, result>>
            /\ pc' = "events" /\ ev' = NoEvent
            /\ lost' = IF ev.press THEN lost ELSE lost \cup {s \in Sides : keys[s] # {}}
            /\ UNCHANGED drives
       ELSE /\ drives' = {s \in Sides : Driver(s) = ev.pad}
            /\ pc' = "handle"
            /\ UNCHANGED <<have, result, ev, lost>>
    /\ UNCHANGED <<device, slots, bound, last, table, machine, side, dir, armed, pending,
                   stopReq, ui, events, calls, loose, overrun>>

\* Mutant: a release is handled like the actions', on the press only.
HandleKeyPress(s, k) ==
    keys' = [keys EXCEPT ![s] = IF ev.press THEN @ \cup {k} ELSE @]

\* intv_host_pad_key
HandleKey(s, k) ==
    keys' = [keys EXCEPT ![s] = IF ev.press THEN @ \cup {k} ELSE @ \ {k}]

\* Mutant: nothing is forgotten before the reset.
ResetOnly == ClearMachine /\ UNCHANGED <<last, loose, overrun>>

ResetHere == Forget /\ ClearMachine /\ loose' = {} /\ overrun' = {}

\* handle_button, for each side the pad drives: RESET_GAME runs here, on this
\* thread; RESET_CONFIG would join it, and is posted.
Handle ==
    /\ pc = "handle" /\ drives # {}
    /\ LET s == First(drives)
           t == table[s][ev.button] IN
       /\ drives' = drives \ {s}
       /\ IF t.kind = "reset" /\ ev.press
          THEN ResetHere
          ELSE /\ IF t.kind = "key" THEN HandleKey(s, t.key) ELSE UNCHANGED keys
               /\ UNCHANGED <<last, disc, lost, loose, overrun>>
       /\ pending' = (pending \/ (t.kind = "config" /\ ev.press))
    /\ UNCHANGED <<device, slots, bound, table, pc, ev, side, dir, capture, stopReq, ui,
                   events, calls>>

Handled ==
    /\ pc = "handle" /\ drives = {}
    /\ pc' = "events" /\ ev' = NoEvent
    /\ UNCHANGED <<device, slots, bound, last, table, machine, drives, side, dir, capture,
                   pending, stopReq, ui, events, calls, ghosts>>

\* SDL_PollEvent has nothing more; poll_sticks takes the lock.
EventsDone ==
    /\ pc = "events"
    /\ pc' = "poll" /\ side' = 0
    /\ UNCHANGED <<device, slots, bound, last, table, machine, ev, drives, dir, capture,
                   pending, stopReq, ui, events, calls, ghosts>>

(***************************************************************************)
(* The SDL thread: poll_sticks                                             *)
(***************************************************************************)
NextSide == IF side + 1 < NSides THEN side' = side + 1 /\ pc' = "poll"
                                 ELSE side' = 0 /\ pc' = "sleep"

PollBound ==
    /\ pc = "poll"
    /\ IF Driver(side) = NoPad THEN NextSide /\ UNCHANGED dir
       ELSE dir' = FromBound(side, Driver(side)) /\ pc' = "rest" /\ UNCHANGED side
    /\ UNCHANGED <<device, slots, bound, last, table, machine, ev, drives, capture, pending,
                   stopReq, ui, events, calls, ghosts>>

\* The bindings may have changed since rung 1 was read.
PollRest ==
    /\ pc = "rest"
    /\ LET p == Driver(side)
           new == Reading(side, p, dir) IN
       IF new # last[p][side]
       THEN /\ disc' = [disc EXCEPT ![side] = new]
            /\ last' = [last EXCEPT ![p][side] = new]
            /\ loose' = IF dir = FromBound(side, p) THEN loose \ {side} ELSE loose
            /\ overrun' = IF ui = "resetting" THEN overrun \cup {side} ELSE overrun \ {side}
       ELSE UNCHANGED <<disc, last, loose, overrun>>
    /\ dir' = Centre
    /\ NextSide
    /\ UNCHANGED <<device, slots, bound, table, keys, ev, drives, capture, pending, stopReq,
                   ui, events, calls, lost>>

\* Mutant: the stop flag is looked at only while no pad is attached.
WakesIdle == pc' = IF stopReq /\ slots = <<>> THEN "off" ELSE "events"

Wakes == pc' = IF stopReq THEN "off" ELSE "events"

\* SDL_Delay is over; the thread ends if it was told to, closing every slot.
Wake ==
    /\ pc = "sleep" /\ Wakes
    /\ slots' = IF pc' = "off" THEN <<>> ELSE slots
    /\ Reordered(slots', bound)
    /\ UNCHANGED <<device, bound, last, table, machine, local, capture, pending, stopReq,
                   ui, events, calls>>

(***************************************************************************)
(* The UI thread                                                           *)
(***************************************************************************)
Call == /\ ui = "idle" /\ calls < MaxCalls /\ calls' = calls + 1
ThreadAlone == UNCHANGED <<device, slots, pc, local, pending, stopReq, events>>

\* intvsession_reset_game: first forget the discs ...
ResetGame ==
    /\ Call /\ Unlocked
    /\ Forget /\ loose' = {} /\ overrun' = {}
    /\ ui' = "resetting"
    /\ ThreadAlone /\ UNCHANGED <<bound, table, machine, capture, lost>>

\* ... then intv_host_reset.
ResetHost ==
    /\ ui = "resetting"
    /\ ClearMachine
    /\ ui' = "idle"
    /\ ThreadAlone /\ UNCHANGED <<bound, last, table, capture, calls, loose, overrun>>

\* Mutant: intvsession_pads_clear leaves the discs to the next change.
ForgetNothing == UNCHANGED last

ForgetDiscs == Forget

\* intvsession_pads_clear, when the window loses the focus.
PadsClear ==
    /\ Call
    /\ ClearMachine
    /\ ui' = "clearing"
    /\ ThreadAlone /\ UNCHANGED <<bound, last, table, capture, loose, overrun>>

PadsForget ==
    /\ ui = "clearing" /\ Unlocked
    /\ ForgetDiscs /\ loose' = {} /\ overrun' = {}
    /\ ui' = "idle"
    /\ ThreadAlone /\ UNCHANGED <<bound, table, machine, capture, calls, lost>>

\* A keyboard's or a clicked disc: intvsession_pad_disc.
WriteDisc(s, d) ==
    /\ Call /\ disc[s] # d
    /\ disc' = [disc EXCEPT ![s] = d]
    /\ loose' = loose \cup {s}
    /\ ThreadAlone /\ UNCHANGED <<bound, last, table, keys, capture, ui, overrun, lost>>

\* intvsession_target_set_button, as this thread sees it.
Rebind(t) ==
    /\ Call /\ t # table
    /\ table' = t
    /\ lost' = lost \cup {s \in Sides : keys[s] # {}}
    /\ loose' = loose \cup {s \in Sides : t[s] # table[s]}
    /\ ThreadAlone /\ UNCHANGED <<bound, last, machine, capture, ui, overrun>>

\* intvsession_gamepad_assign
Assign(p, s) ==
    /\ Call /\ Unlocked /\ p \in Open /\ bound[p] # s
    /\ bound' = [bound EXCEPT ![p] = s]
    /\ Reordered(slots, bound')
    /\ ThreadAlone /\ UNCHANGED <<last, table, machine, capture, ui>>

CaptureBegin ==
    /\ Call /\ Unlocked /\ ~armed
    /\ armed' = TRUE /\ have' = FALSE /\ result' = "none"
    /\ ThreadAlone /\ UNCHANGED <<bound, last, table, machine, ui, ghosts>>

\* intvsession_gamepad_capture_poll, by the Map window's timer.
CapturePoll ==
    /\ ui = "idle" /\ Unlocked /\ have
    /\ armed' = FALSE /\ have' = FALSE /\ result' = "none"
    /\ ThreadAlone /\ UNCHANGED <<bound, last, table, machine, ui, calls, ghosts>>

CaptureCancel ==
    /\ ui = "idle" /\ Unlocked /\ armed
    /\ armed' = FALSE /\ have' = FALSE /\ result' = "none"
    /\ ThreadAlone /\ UNCHANGED <<bound, last, table, machine, ui, calls, ghosts>>

\* The window's timer: sysaction_take, then reset_to_config, whose
\* intvsession_stop begins with intv_gamepad_stop.
DrainTimer ==
    /\ ui = "idle" /\ pending
    /\ pending' = FALSE
    /\ stopReq' = TRUE /\ ui' = "joining"
    /\ UNCHANGED <<device, slots, bound, last, table, machine, pc, local, capture, events,
                   calls, ghosts>>

\* Mutant: a session starts with no action pending.
PendingCleared == pending' = FALSE

PendingKept == pending' = pending

\* The thread has been joined and the session started again: a new thread
\* opens the devices there are.  Whether the machine's pad cells start clear
\* is jzIntv's affair.
Restarted ==
    /\ ui = "joining" /\ pc = "off"
    /\ stopReq' = FALSE /\ ui' = "idle"
    /\ pc' = "events"
    /\ slots' \in OpenOrders
    /\ bound' = [p \in Pads |-> Automatic]
    /\ last' = [p \in Pads |-> [s \in Sides |-> Centre]]
    /\ \/ ClearMachine
       \/ /\ lost' = {s \in Sides : keys[s] # {}}
          /\ UNCHANGED machine
    /\ loose' = Sides
    /\ PendingKept
    /\ UNCHANGED <<device, table, local, capture, events, calls, overrun>>

Players ==
    \/ \E p \in Pads : \/ \E b \in Buttons : Button(p, b)
                       \/ \E st \in Stick : MoveStick(p, st)
                       \/ PlugIn(p)
                       \/ Unplug(p)
Thread == Dispatch \/ Handle \/ Handled \/ EventsDone \/ PollBound \/ PollRest \/ Wake
User ==
    \/ ResetGame \/ PadsClear \/ CaptureBegin \/ CaptureCancel
    \/ \E s \in Sides : \E d \in Clicks : WriteDisc(s, d)
    \/ \E t \in Tables : Rebind(t)
    \/ \E p \in Pads, s \in Sides \cup {Automatic} : Assign(p, s)
Ui == ResetHost \/ PadsForget \/ CapturePoll \/ DrainTimer \/ Restarted

Next == Players \/ Thread \/ User \/ Ui

Spec == Init /\ [][Next]_vars

\* Both threads run; what the players do and the user calls is theirs.
\* (The SDL thread sleeps with its lock free, so the UI gets it in the end.)
FairSpec == Spec /\ WF_vars(Thread) /\ SF_vars(Ui)

(***************************************************************************)
(* Properties                                                              *)
(***************************************************************************)
DevicesOK ==
    /\ stick \in [Pads -> Stick] /\ down \in [Pads -> SUBSET Buttons]
    /\ plugged \subseteq Pads
SlotsOK ==
    /\ slots \in Seq(plugged) /\ Len(slots) <= MaxPads
    /\ \A i, j \in DOMAIN slots : slots[i] = slots[j] => i = j
    /\ bound \in [Pads -> Sides \cup {Automatic}]
CellsOK ==
    /\ last \in [Pads -> [Sides -> Positions \cup {Forgotten}]]
    /\ table \in Tables
    /\ disc \in [Sides -> Positions] /\ keys \in [Sides -> SUBSET Keys]
ThreadOK ==
    /\ pc \in {"events", "dispatch", "handle", "poll", "rest", "sleep", "off"}
    /\ ev \in {NoEvent} \cup [pad : Pads, button : Buttons, press : BOOLEAN]
    /\ ev = NoEvent <=> pc \notin {"dispatch", "handle"}
    /\ drives \subseteq Sides
    /\ drives # {} => pc = "handle"
    /\ side \in Sides /\ dir \in Positions
    /\ pc = "rest" => Driver(side) # NoPad
UiOK ==
    /\ armed \in BOOLEAN /\ have \in BOOLEAN /\ result \in Buttons \cup {"none"}
    /\ pending \in BOOLEAN /\ stopReq \in BOOLEAN
    /\ ui \in {"idle", "resetting", "clearing", "joining"}
    /\ events \in 0..MaxEvents /\ calls \in 0..MaxCalls
GhostsOK == loose \subseteq Sides /\ overrun \subseteq Sides /\ lost \subseteq Sides

TypeOK == DevicesOK /\ SlotsOK /\ CellsOK /\ ThreadOK /\ UiOK /\ GhostsOK

\* What a pad's last_disc says it has sent is what the machine's disc holds,
\* or it has been told to forget: so "unchanged" may be skipped.  Not while
\* the pads are being cleared, and not where the keyboard or another pad has
\* written, or a poll has come between the two halves of a UI reset.
CacheHonest ==
    ui # "clearing" => \A s \in Sides \ (loose \cup overrun) :
        Driver(s) # NoPad => last[Driver(s)][s] \in {Forgotten, disc[s]}

Follows(s) ==
    LET p == Driver(s) IN
    p # NoPad /\ last[p][s] # Forgotten => disc[s] = Reading(s, p, FromBound(s, p))

\* Between two polls the disc of a side stands where the pad that drives it
\* points, after any plugging, pad clearing and resets from the pad itself.
DiscFollows ==
    pc = "sleep" /\ ui = "idle" => \A s \in Sides \ (loose \cup overrun) : Follows(s)

\* "otherwise a stick or D-pad still held at the moment of reset [...] stays
\* stuck centered" (gamepad_sdl.h:29-35): after a reset by the UI too, a poll
\* has put the disc back where a held stick has it.
HeldNotCentred ==
    pc = "sleep" /\ ui = "idle" => \A s \in Sides \ loose :
        LET p == Driver(s) IN
        p # NoPad /\ stick[p].depth = 2 /\ last[p][s] # Forgotten => disc[s] # Centre

\* One press does one thing: a D-pad button bound to a key does not push the
\* disc as well (gamepad_sdl.c:16-18).
KeyOrDisc ==
    pc = "sleep" /\ ui = "idle" => \A s \in Sides \ (loose \cup overrun) :
        LET p == Driver(s) IN
        /\ p # NoPad /\ last[p][s] # Forgotten
        /\ stick[p].depth = 0 /\ \A b \in down[p] : table[s][b].kind = "key"
        => disc[s] = Centre

\* A key the pad holds down in the machine has its button held: but for a
\* release that a capture, a rebinding or another assignment has diverted.
NoStuckKey ==
    pc \notin {"dispatch", "handle"} => \A s \in Sides \ lost : \A k \in keys[s] :
        Driver(s) # NoPad /\ \E b \in down[Driver(s)] : table[s][b] = [kind |-> "key", key |-> k]

\* A posted RESET_CONFIG stops the session, a press during the stop as well.
PostedFires == pending ~> ~pending /\ stopReq

\* The UI thread gets out of intv_gamepad_stop, whatever the pads do.
StopReturns == stopReq ~> ~stopReq
=============================================================================
