--------------------------- MODULE Gamepad_proofs ---------------------------
(***************************************************************************)
(* What holds of the SDL thread and the UI for any number of pads, sides,  *)
(* buttons and bindings: types, that a pad's cache of the disc is honest,  *)
(* that the disc follows the pad, that a bound D-pad button does one       *)
(* thing, and that no key is left down.                                    *)
(***************************************************************************)
EXTENDS Gamepad, TLAPS, WellFoundedInduction

-----------------------------------------------------------------------------
(* The pure functions                                                      *)

LEMMA LeastNatural ==
    ASSUME NEW S \in SUBSET Nat, S # {}
    PROVE  First(S) \in S
<1> DEFINE R == OpToRel(<, Nat)
<1>1. IsWellFoundedOn(R, Nat)
  BY NatLessThanWellFounded
<1>2. \A x, y \in Nat : ~(<<y, x>> \in R) => x <= y
  <2>1. \A x, y \in Nat : y < x => <<y, x>> \in R
    BY DEF OpToRel
  <2> SUFFICES ASSUME NEW x \in Nat, NEW y \in Nat, ~(y < x) PROVE x <= y
    BY <2>1
  <2> QED OBVIOUS
<1> HIDE DEF R
<1>3. PICK m \in S : \A n \in S : ~(<<n, m>> \in R)
  BY <1>1, WFMin
<1>4. \A n \in S : m <= n
  BY <1>2, <1>3
<1> QED BY <1>4 DEF First

\* A side is driven by an open pad or by none.
LEMMA PortFacts ==
    ASSUME NEW o \in Seq(Pads), NEW b, NEW s
    PROVE  PadForPort(o, b, s) \in {o[i] : i \in DOMAIN o} \cup {NoPad}
<1> DEFINE autos    == {i \in DOMAIN o : b[o[i]] = Automatic}
           explicit == {i \in DOMAIN o : b[o[i]] = s}
           nth      == {i \in autos : Cardinality({j \in autos : j < i}) = s}
<1>1. explicit \in SUBSET Nat /\ nth \in SUBSET Nat
  OBVIOUS
<1>2. explicit # {} => First(explicit) \in DOMAIN o
  BY <1>1, LeastNatural
<1>3. nth # {} => First(nth) \in nth
  BY <1>1, LeastNatural
<1>4. nth # {} => First(nth) \in DOMAIN o
  BY <1>3
<1>5. PadForPort(o, b, s) = IF explicit # {} THEN o[First(explicit)]
                            ELSE IF nth # {} THEN o[First(nth)] ELSE NoPad
  BY DEF PadForPort
<1> HIDE DEF explicit, nth
<1> QED BY <1>2, <1>4, <1>5

LEMMA DriverFacts ==
    ASSUME TypeOK, NEW s
    PROVE  Driver(s) \in Open \cup {NoPad} /\ Open \subseteq Pads
<1>1. slots \in Seq(Pads)
  BY DEF TypeOK, SlotsOK, DevicesOK
<1>2. Open \subseteq Pads
  BY <1>1 DEF Open
<1> QED BY <1>1, <1>2, PortFacts DEF Driver, Open

LEMMA DpadType == \A S : FromDpad(S) \in Positions
<1> SUFFICES ASSUME NEW S PROVE FromDpad(S) \in Positions
  OBVIOUS
<1> DEFINE x == (IF "right" \in S THEN 1 ELSE 0) - (IF "left" \in S THEN 1 ELSE 0)
           y == (IF "up" \in S THEN 1 ELSE 0) - (IF "down" \in S THEN 1 ELSE 0)
<1>1. x \in {-1, 0, 1} /\ y \in {-1, 0, 1}
  OBVIOUS
<1>2. FromDpad(S) = CASE x = 0  /\ y = 0  -> Centre
         [] x = 1  /\ y = 0  -> 0   [] x = 1  /\ y = 1  -> 2
         [] x = 0  /\ y = 1  -> 4   [] x = -1 /\ y = 1  -> 6
         [] x = -1 /\ y = 0  -> 8   [] x = -1 /\ y = -1 -> 10
         [] x = 0  /\ y = -1 -> 12  [] x = 1  /\ y = -1 -> 14
  BY DEF FromDpad
<1> HIDE DEF x, y
<1> QED BY <1>1, <1>2 DEF Positions, Centre

LEMMA BoundType == ASSUME NEW s, NEW p PROVE FromBound(s, p) \in Positions
<1> DEFINE held == {d \in 0..15 : \E b \in down[p] : table[s][b] = [kind |-> "disc", pos |-> d]}
<1>1. held \in SUBSET Nat
  OBVIOUS
<1>2. held # {} => First(held) \in 0..15
  BY <1>1, LeastNatural
<1>3. FromBound(s, p) = IF held = {} THEN Centre ELSE First(held)
  BY DEF FromBound
<1> HIDE DEF held
<1> QED BY <1>2, <1>3 DEF Positions, Centre

LEMMA ReadingType ==
    ASSUME TypeOK, NEW s, NEW p \in Pads, NEW d \in Positions
    PROVE  Reading(s, p, d) \in Positions
<1>1. FreeDpad(s, p) \in Positions
  BY DpadType DEF FreeDpad
<1>2. stick[p].dir \in 0..15
  <2>1. stick[p] \in Stick
    BY DEF TypeOK, DevicesOK
  <2>2. StickDirs \subseteq 0..15
    BY GamepadAssumption
  <2> QED BY <2>1, <2>2 DEF Stick
<1>3. Analog(s, p) \in Positions
  BY <1>2 DEF Analog, FromStick, Positions, Centre
<1> QED BY <1>1, <1>3 DEF Reading

-----------------------------------------------------------------------------
(* Type correctness                                                        *)

\* Taking a device out of the slots.
LEMMA WithoutFacts ==
    ASSUME NEW o \in Seq(Pads), \A i, j \in DOMAIN o : o[i] = o[j] => i = j,
           NEW p \in {o[i] : i \in DOMAIN o}
    PROVE  /\ Without(o, p) \in Seq(Pads)
           /\ Len(Without(o, p)) = Len(o) - 1
           /\ \A i \in DOMAIN Without(o, p) :
                 Without(o, p)[i] \in {o[k] : k \in DOMAIN o} \ {p}
           /\ \A i, j \in DOMAIN Without(o, p) :
                 Without(o, p)[i] = Without(o, p)[j] => i = j
<1> DEFINE at == CHOOSE i \in DOMAIN o : o[i] = p
           w  == [j \in 1..(Len(o) - 1) |-> IF j < at THEN o[j] ELSE o[j + 1]]
<1>1. at \in DOMAIN o /\ o[at] = p
  OBVIOUS
<1>2. Without(o, p) = w
  BY DEF Without
<1>3. Len(o) \in Nat /\ Len(o) > 0 /\ DOMAIN o = 1..Len(o) /\ at \in 1..Len(o)
  BY <1>1
<1> HIDE DEF at
<1>4. w \in Seq(Pads) /\ Len(w) = Len(o) - 1 /\ DOMAIN w = 1..(Len(o) - 1)
  BY <1>3
<1>5. \A j \in DOMAIN w : w[j] \in {o[k] : k \in DOMAIN o} \ {p}
  BY <1>1, <1>3, <1>4
<1>6. \A i, j \in DOMAIN w : w[i] = w[j] => i = j
  BY <1>3, <1>4
<1> HIDE DEF w
<1> QED BY <1>2, <1>4, <1>5, <1>6

\* The devices found when a thread starts.
LEMMA OrderFacts ==
    ASSUME NEW o \in OpenOrders
    PROVE  /\ o \in Seq(plugged) /\ Len(o) <= MaxPads
           /\ \A i, j \in DOMAIN o : o[i] = o[j] => i = j
<1>1. PICK n \in 0..MaxPads : o \in [1..n -> plugged]
  BY DEF OpenOrders
<1>2. o \in Seq(plugged) /\ Len(o) = n
  BY <1>1, GamepadAssumption
<1> QED BY <1>1, <1>2, GamepadAssumption DEF OpenOrders

LEMMA ForgetType == TypeOK /\ Forget => last' \in [Pads -> [Sides -> Positions \cup {Forgotten}]]
BY DEF TypeOK, CellsOK, Forget

\* The side dispatch_button serves next.
LEMMA FirstDrive == TypeOK /\ drives # {} => First(drives) \in drives /\ First(drives) \in Sides
<1> SUFFICES ASSUME TypeOK, drives # {} PROVE First(drives) \in drives /\ First(drives) \in Sides
  OBVIOUS
<1>1. drives \in SUBSET Nat /\ drives \subseteq Sides
  BY GamepadAssumption DEF TypeOK, ThreadOK, Sides
<1> QED BY <1>1, LeastNatural

\* What SDL knows of the devices.
LEMMA DevicesStep == TypeOK /\ [Next]_vars => DevicesOK'
<1> SUFFICES ASSUME TypeOK, [Next]_vars PROVE DevicesOK'
  OBVIOUS
<1>a. DevicesOK
  BY DEF TypeOK
<1>1. ASSUME NEW p \in Pads, NEW b \in Buttons, Button(p, b) PROVE DevicesOK'
  BY <1>a, <1>1 DEF Button, Event, Unmoved, DevicesOK
<1>2. ASSUME NEW p \in Pads, NEW st \in Stick, MoveStick(p, st) PROVE DevicesOK'
  BY <1>a, <1>2 DEF MoveStick, Event, Unmoved, DevicesOK
<1>3. ASSUME NEW p \in Pads, PlugIn(p) PROVE DevicesOK'
  BY <1>a, <1>3 DEF PlugIn, Event, Unmoved, DevicesOK
<1>4. ASSUME NEW p \in Pads, Unplug(p) PROVE DevicesOK'
  <2>1. stick' \in [Pads -> Stick]
    BY <1>a, <1>4 DEF Unplug, DevicesOK, Stick
  <2> QED BY <1>a, <1>4, <2>1 DEF Unplug, Event, Unmoved, DevicesOK
<1>5. CASE Dispatch \/ Handle \/ Handled \/ EventsDone \/ PollBound \/ PollRest
          \/ Wake \/ Restarted \/ ResetGame \/ PadsClear \/ CaptureBegin
          \/ CaptureCancel \/ (\E s \in Sides, d \in Clicks : WriteDisc(s, d))
          \/ (\E t \in Tables : Rebind(t))
          \/ (\E p \in Pads, s \in Sides \cup {Automatic} : Assign(p, s))
          \/ ResetHost \/ PadsForget \/ CapturePoll \/ DrainTimer
          \/ UNCHANGED vars
  <2>1. UNCHANGED <<stick, down, plugged>>
    BY <1>5 DEF Dispatch, Handle, Handled, EventsDone, PollBound, PollRest, Wake,
       Restarted, ResetGame, Call, ThreadAlone, PadsClear, CaptureBegin, CaptureCancel,
       WriteDisc, Rebind, Assign, ResetHost, PadsForget, CapturePoll, DrainTimer, vars,
       device, machine, capture, local, ghosts
  <2> QED BY <1>a, <2>1 DEF DevicesOK
<1> QED
  BY <1>1, <1>2, <1>3, <1>4, <1>5 DEF Next, Players, Thread, User, Ui

\* The slots.
LEMMA SlotsStep == TypeOK /\ [Next]_vars => SlotsOK'
<1> SUFFICES ASSUME TypeOK, [Next]_vars PROVE SlotsOK'
  OBVIOUS
<1>a. SlotsOK
  BY DEF TypeOK
<1>1. ASSUME NEW p \in Pads, PlugIn(p) PROVE SlotsOK'
  <2>1. CASE OpenPad(p)
    <3>1. p \notin Open /\ Len(slots) < MaxPads /\ slots' = Append(slots, p)
          /\ plugged' = plugged \cup {p} /\ bound' = [bound EXCEPT ![p] = Automatic]
      BY <2>1, <1>1 DEF PlugIn, OpenPad
    <3>2. slots \in Seq(plugged \cup {p}) /\ \A i \in DOMAIN slots : slots[i] # p
      BY <3>1, <1>a DEF SlotsOK, Open
    <3>3. slots' \in Seq(plugged') /\ Len(slots') = Len(slots) + 1
      BY <3>1, <3>2
    <3>4. \A i, j \in DOMAIN slots' : slots'[i] = slots'[j] => i = j
      BY <3>1, <3>2, <1>a DEF SlotsOK
    <3> QED BY <3>1, <3>3, <3>4, <1>a, GamepadAssumption DEF SlotsOK
  <2>2. CASE ~OpenPad(p)
    BY <2>2, <1>1, <1>a DEF PlugIn, SlotsOK
  <2> QED BY <2>1, <2>2
<1>2. ASSUME NEW p \in Pads, Unplug(p) PROVE SlotsOK'
  <2> DEFINE o == {slots[i] : i \in DOMAIN slots}
  <2>1. slots \in Seq(Pads)
    BY <1>a DEF SlotsOK, TypeOK, DevicesOK
  <2>2. CASE p \notin Open
    <3>1. slots' = slots /\ plugged' = plugged \ {p} /\ bound' = bound
      BY <2>2, <1>2 DEF Unplug
    <3>2. slots \in Seq(plugged \ {p})
      BY <2>2, <1>a DEF SlotsOK, Open
    <3> QED BY <3>1, <3>2, <1>a DEF SlotsOK
  <2>3. CASE p \in Open
    <3>1. slots' = Without(slots, p) /\ plugged' = plugged \ {p} /\ bound' = bound
      BY <2>3, <1>2 DEF Unplug
    <3> DEFINE w == Without(slots, p)
    <3>2. /\ w \in Seq(Pads) /\ Len(w) = Len(slots) - 1
          /\ \A i \in DOMAIN w : w[i] \in o \ {p}
          /\ \A i, j \in DOMAIN w : w[i] = w[j] => i = j
      BY <1>a, <2>1, <2>3, WithoutFacts DEF SlotsOK, Open
    <3>3. o \subseteq plugged
      BY <1>a DEF SlotsOK
    <3> HIDE DEF w
    <3>4. w \in Seq(plugged \ {p})
      BY <3>2, <3>3
    <3> QED BY <3>1, <3>2, <3>4, <1>a, GamepadAssumption DEF SlotsOK, w
  <2> QED BY <2>2, <2>3
<1>3. CASE Wake
  BY <1>a, <1>3, GamepadAssumption DEF Wake, SlotsOK, device
<1>4. CASE Restarted
  <2>1. slots' \in Seq(plugged) /\ Len(slots') <= MaxPads
        /\ \A i, j \in DOMAIN slots' : slots'[i] = slots'[j] => i = j
    BY <1>4, OrderFacts DEF Restarted
  <2> QED BY <1>4, <2>1 DEF Restarted, SlotsOK, device
<1>5. ASSUME NEW p \in Pads, NEW s \in Sides \cup {Automatic}, Assign(p, s) PROVE SlotsOK'
  BY <1>a, <1>5 DEF Assign, Call, ThreadAlone, SlotsOK, device
<1>6. CASE (\E p \in Pads, b \in Buttons : Button(p, b))
          \/ (\E p \in Pads, st \in Stick : MoveStick(p, st)) \/ Dispatch
          \/ Handle \/ Handled \/ EventsDone \/ PollBound \/ PollRest \/ ResetGame
          \/ PadsClear \/ CaptureBegin \/ CaptureCancel
          \/ (\E s \in Sides, d \in Clicks : WriteDisc(s, d))
          \/ (\E t \in Tables : Rebind(t)) \/ ResetHost \/ PadsForget
          \/ CapturePoll \/ DrainTimer \/ UNCHANGED vars
  <2>1. UNCHANGED <<plugged, slots, bound>>
    BY <1>6 DEF Button, Event, Unmoved, MoveStick, Dispatch, Handle, Handled, EventsDone,
       PollBound, PollRest, ResetGame, Call, ThreadAlone, PadsClear, CaptureBegin,
       CaptureCancel, WriteDisc, Rebind, ResetHost, PadsForget, CapturePoll, DrainTimer,
       vars, device, machine, capture, local, ghosts
  <2> QED BY <1>a, <2>1 DEF SlotsOK
<1> QED
  BY <1>1, <1>2, <1>3, <1>4, <1>5, <1>6 DEF Next, Players, Thread, User, Ui

\* The caches, the bindings and the machine's pad cells.
LEMMA CellsStep == TypeOK /\ [Next]_vars => CellsOK'
<1> SUFFICES ASSUME TypeOK, [Next]_vars PROVE CellsOK'
  OBVIOUS
<1>a. CellsOK
  BY DEF TypeOK
<1>1. ASSUME NEW p \in Pads, PlugIn(p) PROVE CellsOK'
  <2>1. last' \in [Pads -> [Sides -> Positions \cup {Forgotten}]]
    BY SMTT(30), <1>a, <1>1 DEF PlugIn, CellsOK, Positions, Centre
  <2> QED BY <1>a, <2>1, <1>1 DEF PlugIn, Unmoved, machine, CellsOK
<1>2. CASE Handle
  <2> DEFINE s == First(drives)
             t == table[s][ev.button]
  <2>1. s \in Sides
    BY <1>2, FirstDrive DEF Handle
  <2>2. t.kind = "key" => t.key \in Keys
    <3>1. ev.button \in Buttons
      BY <1>2 DEF Handle, TypeOK, ThreadOK, NoEvent
    <3>2. t \in Target
      BY <3>1, <2>1, <1>a, GamepadAssumption DEF CellsOK
    <3> QED BY <3>2 DEF Target
  <2> HIDE DEF s, t
  <2>3. CASE t.kind = "reset" /\ ev.press
    BY <1>2, <1>a, <2>3, ForgetType DEF Handle, ResetHere, ClearMachine, CellsOK,
       Positions, Centre, s, t
  <2>4. CASE ~(t.kind = "reset" /\ ev.press) /\ t.kind = "key"
    BY <1>2, <1>a, <2>1, <2>2, <2>4 DEF Handle, HandleKey, CellsOK, s, t
  <2>5. CASE ~(t.kind = "reset" /\ ev.press) /\ t.kind # "key"
    BY <1>2, <1>a, <2>5 DEF Handle, CellsOK, s, t
  <2> QED BY <2>3, <2>4, <2>5
<1>3. CASE PollRest
  <2> DEFINE p == Driver(side)
             new == Reading(side, p, dir)
  <2>1. side \in Sides /\ p \in Pads /\ dir \in Positions
    BY <1>3, DriverFacts DEF PollRest, TypeOK, ThreadOK
  <2>2. new \in Positions
    BY <2>1, ReadingType
  <2> HIDE DEF p, new
  <2>3. CASE new # last[p][side]
    BY <1>3, <1>a, <2>1, <2>2, <2>3 DEF PollRest, CellsOK, p, new
  <2>4. CASE new = last[p][side]
    BY <1>3, <1>a, <2>4 DEF PollRest, CellsOK, p, new
  <2> QED BY <2>3, <2>4
<1>4. CASE Restarted
  BY <1>a, <1>4 DEF Restarted, CellsOK, ClearMachine, machine, Positions, Centre
<1>5. CASE ResetGame
  BY <1>a, <1>5, ForgetType DEF ResetGame, Call, ThreadAlone, CellsOK, machine
<1>6. CASE PadsClear
  BY <1>a, <1>6 DEF PadsClear, Call, ThreadAlone, CellsOK, ClearMachine, Positions, Centre
<1>7. ASSUME NEW s \in Sides, NEW d \in Clicks, WriteDisc(s, d) PROVE CellsOK'
  BY <1>a, <1>7, GamepadAssumption DEF WriteDisc, Call, ThreadAlone, CellsOK
<1>8. ASSUME NEW t \in Tables, Rebind(t) PROVE CellsOK'
  BY <1>a, <1>8 DEF Rebind, Call, ThreadAlone, CellsOK, machine
<1>9. CASE ResetHost
  BY <1>a, <1>9 DEF ResetHost, ThreadAlone, CellsOK, ClearMachine, Positions, Centre
<1>10. CASE PadsForget
  BY <1>a, <1>10, ForgetType DEF PadsForget, ThreadAlone, CellsOK, ForgetDiscs, machine
<1>11. CASE (\E p \in Pads, b \in Buttons : Button(p, b))
          \/ (\E p \in Pads, st \in Stick : MoveStick(p, st))
          \/ (\E p \in Pads : Unplug(p)) \/ Dispatch \/ Handled \/ EventsDone
          \/ PollBound \/ Wake \/ CaptureBegin \/ CaptureCancel
          \/ (\E p \in Pads, s \in Sides \cup {Automatic} : Assign(p, s))
          \/ CapturePoll \/ DrainTimer \/ UNCHANGED vars
  <2>1. UNCHANGED <<last, table, disc, keys>>
    BY <1>11 DEF Button, Event, Unmoved, MoveStick, Unplug, Dispatch, Handled, EventsDone,
       PollBound, Wake, CaptureBegin, Call, ThreadAlone, CaptureCancel, Assign,
       CapturePoll, DrainTimer, vars, device, machine, capture, local, ghosts
  <2> QED BY <1>a, <2>1 DEF CellsOK
<1> QED
  BY <1>1, <1>2, <1>3, <1>4, <1>5, <1>6, <1>7, <1>8, <1>9, <1>10, <1>11 DEF Next, Players,
     Thread, User, Ui

\* Where the SDL thread is.
LEMMA ThreadStep == TypeOK /\ [Next]_vars => ThreadOK'
<1> SUFFICES ASSUME TypeOK, [Next]_vars PROVE ThreadOK'
  OBVIOUS
<1>a. ThreadOK
  BY DEF TypeOK
<1>1. ASSUME NEW p \in Pads, NEW b \in Buttons, Button(p, b) PROVE ThreadOK'
  <2>1. ev' \in [pad : Pads, button : Buttons, press : BOOLEAN] /\ ev'.button = b
    BY <1>1 DEF Button
  <2>2. ev' # NoEvent
    BY <2>1, GamepadAssumption DEF NoEvent
  <2>3. /\ pc = "events" /\ pc' = "dispatch"
        /\ UNCHANGED <<drives, side, dir>>
    BY <1>1 DEF Button, Event
  <2> QED BY <1>a, <2>1, <2>2, <2>3 DEF ThreadOK
<1>2. ASSUME NEW p \in Pads, PlugIn(p) PROVE ThreadOK'
  BY <1>a, <1>2 DEF PlugIn, Event, Unmoved, ThreadOK, local
<1>3. ASSUME NEW p \in Pads, Unplug(p) PROVE ThreadOK'
  BY <1>a, <1>3 DEF Unplug, Event, Unmoved, ThreadOK, local
<1>4. CASE Dispatch
  BY <1>a, <1>4 DEF Dispatch, ThreadOK, NoEvent
<1>5. CASE Handle
  BY <1>a, <1>5 DEF Handle, ThreadOK, Driver
<1>6. CASE Handled
  BY <1>a, <1>6 DEF Handled, ThreadOK
<1>7. CASE EventsDone
  BY <1>a, <1>7, GamepadAssumption DEF EventsDone, ThreadOK, Sides
<1>8. CASE PollBound
  <2>1. CASE Driver(side) = NoPad
    <3>1. side' \in Sides
      BY <1>8, <2>1, <1>a, GamepadAssumption DEF PollBound, NextSide, ThreadOK, Sides
    <3> QED BY <1>8, <2>1, <3>1, <1>a DEF PollBound, NextSide, ThreadOK
  <2>2. CASE Driver(side) # NoPad
    <3>1. dir' \in Positions
      BY <1>8, <2>2, BoundType DEF PollBound
    <3> QED BY <1>8, <2>2, <3>1, <1>a DEF PollBound, ThreadOK, Driver
  <2> QED BY <2>1, <2>2
<1>9. CASE PollRest
  <2>1. side' \in Sides
    BY <1>9, <1>a, GamepadAssumption DEF PollRest, NextSide, ThreadOK, Sides
  <2> QED BY <1>9, <2>1, <1>a DEF PollRest, NextSide, ThreadOK, Positions, Centre
<1>10. CASE Wake
  BY <1>a, <1>10 DEF Wake, ThreadOK, Wakes, local
<1>11. CASE Restarted
  BY <1>a, <1>11 DEF Restarted, ThreadOK, local
<1>12. ASSUME NEW p \in Pads, NEW s \in Sides \cup {Automatic}, Assign(p, s) PROVE ThreadOK'
  BY <1>a, <1>12 DEF Assign, Call, ThreadAlone, ThreadOK, Unlocked, local, Driver
<1>13. CASE (\E p \in Pads, st \in Stick : MoveStick(p, st)) \/ ResetGame
          \/ PadsClear \/ CaptureBegin \/ CaptureCancel
          \/ (\E s \in Sides, d \in Clicks : WriteDisc(s, d))
          \/ (\E t \in Tables : Rebind(t)) \/ ResetHost \/ PadsForget
          \/ CapturePoll \/ DrainTimer \/ UNCHANGED vars
  <2>1. UNCHANGED <<slots, bound, pc, ev, drives, side, dir>>
    BY <1>13 DEF MoveStick, Event, Unmoved, ResetGame, Call, ThreadAlone, PadsClear,
       CaptureBegin, CaptureCancel, WriteDisc, Rebind, ResetHost, PadsForget, CapturePoll,
       DrainTimer, vars, device, machine, capture, local, ghosts
  <2> QED BY <1>a, <2>1 DEF ThreadOK, Driver
<1> QED
  BY <1>1, <1>2, <1>3, <1>4, <1>5, <1>6, <1>7, <1>8, <1>9, <1>10, <1>11, <1>12, <1>13 DEF
     Next, Players, Thread, User, Ui

\* The capture, the flags and the bounds.
LEMMA UiStep == TypeOK /\ [Next]_vars => UiOK'
<1> SUFFICES ASSUME TypeOK, [Next]_vars PROVE UiOK'
  OBVIOUS
<1>a. UiOK
  BY DEF TypeOK
<1>1. ASSUME NEW p \in Pads, NEW b \in Buttons, Button(p, b) PROVE UiOK'
  BY <1>a, <1>1, GamepadAssumption DEF Button, Event, Unmoved, UiOK, capture
<1>2. ASSUME NEW p \in Pads, NEW st \in Stick, MoveStick(p, st) PROVE UiOK'
  BY <1>a, <1>2, GamepadAssumption DEF MoveStick, Event, Unmoved, UiOK, capture
<1>3. ASSUME NEW p \in Pads, PlugIn(p) PROVE UiOK'
  BY <1>a, <1>3, GamepadAssumption DEF PlugIn, Event, Unmoved, UiOK, capture
<1>4. ASSUME NEW p \in Pads, Unplug(p) PROVE UiOK'
  BY <1>a, <1>4, GamepadAssumption DEF Unplug, Event, Unmoved, UiOK, capture
<1>5. CASE Dispatch
  <2>1. result' \in Buttons \cup {"none"} /\ have' \in BOOLEAN
    BY <1>5, <1>a DEF Dispatch, UiOK, TypeOK, ThreadOK, NoEvent
  <2> QED BY <1>5, <2>1, <1>a DEF Dispatch, UiOK
<1>6. CASE Handle
  BY <1>a, <1>6, GamepadAssumption DEF Handle, UiOK, capture
<1>7. CASE Restarted
  BY <1>a, <1>7 DEF Restarted, UiOK, PendingKept, capture
<1>8. CASE ResetGame
  BY <1>a, <1>8, GamepadAssumption DEF ResetGame, Call, ThreadAlone, UiOK, capture
<1>9. CASE PadsClear
  BY <1>a, <1>9, GamepadAssumption DEF PadsClear, Call, ThreadAlone, UiOK, capture
<1>10. CASE CaptureBegin
  <2>1. calls' \in 0..MaxCalls
    BY <1>a, <1>10, GamepadAssumption DEF CaptureBegin, Call, UiOK
  <2> QED BY <1>a, <1>10, <2>1 DEF CaptureBegin, Call, ThreadAlone, UiOK
<1>11. CASE CaptureCancel
  BY <1>a, <1>11 DEF CaptureCancel, ThreadAlone, UiOK
<1>12. ASSUME NEW s \in Sides, NEW d \in Clicks, WriteDisc(s, d) PROVE UiOK'
  BY <1>a, <1>12, GamepadAssumption DEF WriteDisc, Call, ThreadAlone, UiOK, capture
<1>13. ASSUME NEW t \in Tables, Rebind(t) PROVE UiOK'
  BY <1>a, <1>13, GamepadAssumption DEF Rebind, Call, ThreadAlone, UiOK, capture
<1>14. ASSUME NEW p \in Pads, NEW s \in Sides \cup {Automatic}, Assign(p, s) PROVE UiOK'
  BY <1>a, <1>14, GamepadAssumption DEF Assign, Call, ThreadAlone, UiOK, capture
<1>15. CASE ResetHost
  BY <1>a, <1>15, GamepadAssumption DEF ResetHost, ThreadAlone, UiOK, capture
<1>16. CASE PadsForget
  BY <1>a, <1>16, GamepadAssumption DEF PadsForget, ThreadAlone, UiOK, capture
<1>17. CASE CapturePoll
  BY <1>a, <1>17 DEF CapturePoll, ThreadAlone, UiOK
<1>18. CASE DrainTimer
  BY <1>a, <1>18, GamepadAssumption DEF DrainTimer, UiOK, capture
<1>19. CASE Handled \/ EventsDone \/ PollBound \/ PollRest \/ Wake \/ UNCHANGED vars
  <2>1. UNCHANGED <<armed, have, result, pending, stopReq, ui, events, calls>>
    BY <1>19 DEF Handled, EventsDone, PollBound, PollRest, Wake, vars, device, machine,
       capture, local, ghosts
  <2> QED BY <1>a, <2>1 DEF UiOK
<1> QED
  BY <1>1, <1>2, <1>3, <1>4, <1>5, <1>6, <1>7, <1>8, <1>9, <1>10, <1>11, <1>12, <1>13,
     <1>14, <1>15, <1>16, <1>17, <1>18, <1>19 DEF Next, Players, Thread, User, Ui

\* The histories.
LEMMA GhostsStep == TypeOK /\ [Next]_vars => GhostsOK'
<1> SUFFICES ASSUME TypeOK, [Next]_vars PROVE GhostsOK'
  OBVIOUS
<1>a. GhostsOK
  BY DEF TypeOK
<1>1. ASSUME NEW p \in Pads, PlugIn(p) PROVE GhostsOK'
  BY <1>a, <1>1 DEF PlugIn, Event, Unmoved, GhostsOK, Reordered
<1>2. ASSUME NEW p \in Pads, Unplug(p) PROVE GhostsOK'
  BY <1>a, <1>2 DEF Unplug, Event, Unmoved, GhostsOK, Reordered
<1>3. CASE Dispatch
  BY <1>a, <1>3 DEF Dispatch, GhostsOK
<1>4. CASE Handle
  BY <1>a, <1>4 DEF Handle, GhostsOK, ResetHere, ClearMachine
<1>5. CASE PollRest
  BY <1>a, <1>5, TypeOK DEF PollRest, GhostsOK, TypeOK, ThreadOK
<1>6. CASE Wake
  BY <1>a, <1>6 DEF Wake, GhostsOK, Reordered
<1>7. CASE Restarted
  BY <1>a, <1>7 DEF Restarted, GhostsOK, ClearMachine
<1>8. CASE ResetGame
  BY <1>a, <1>8 DEF ResetGame, Call, ThreadAlone, GhostsOK
<1>9. CASE PadsClear
  BY <1>a, <1>9 DEF PadsClear, Call, ThreadAlone, GhostsOK, ClearMachine
<1>10. ASSUME NEW s \in Sides, NEW d \in Clicks, WriteDisc(s, d) PROVE GhostsOK'
  BY <1>a, <1>10 DEF WriteDisc, Call, ThreadAlone, GhostsOK
<1>11. ASSUME NEW t \in Tables, Rebind(t) PROVE GhostsOK'
  BY <1>a, <1>11 DEF Rebind, Call, ThreadAlone, GhostsOK
<1>12. ASSUME NEW p \in Pads, NEW s \in Sides \cup {Automatic}, Assign(p, s) PROVE GhostsOK'
  BY <1>a, <1>12 DEF Assign, Call, ThreadAlone, GhostsOK, Reordered
<1>13. CASE ResetHost
  BY <1>a, <1>13 DEF ResetHost, ThreadAlone, GhostsOK, ClearMachine
<1>14. CASE PadsForget
  BY <1>a, <1>14 DEF PadsForget, ThreadAlone, GhostsOK
<1>15. CASE (\E p \in Pads, b \in Buttons : Button(p, b))
          \/ (\E p \in Pads, st \in Stick : MoveStick(p, st)) \/ Handled
          \/ EventsDone \/ PollBound \/ CaptureBegin \/ CaptureCancel
          \/ CapturePoll \/ DrainTimer \/ UNCHANGED vars
  <2>1. UNCHANGED <<loose, overrun, lost>>
    BY <1>15 DEF Button, Event, Unmoved, MoveStick, Handled, EventsDone, PollBound,
       CaptureBegin, Call, ThreadAlone, CaptureCancel, CapturePoll, DrainTimer, vars,
       device, machine, capture, local, ghosts
  <2> QED BY <1>a, <2>1 DEF GhostsOK
<1> QED
  BY <1>1, <1>2, <1>3, <1>4, <1>5, <1>6, <1>7, <1>8, <1>9, <1>10, <1>11, <1>12, <1>13,
     <1>14, <1>15 DEF Next, Players, Thread, User, Ui

\* The types hold always.
THEOREM TypeCorrect == Spec => []TypeOK
<1>1. Init => TypeOK
  <2> SUFFICES ASSUME Init PROVE TypeOK
    OBVIOUS
  <2>1. SlotsOK
    BY OrderFacts DEF Init, SlotsOK
  <2>2. DevicesOK
    BY DEF Init, DevicesOK
  <2>3. CellsOK
    BY DEF Init, CellsOK, Positions, Centre
  <2>4. ThreadOK
    <3>1. side \in Sides /\ dir \in Positions
      BY GamepadAssumption DEF Init, Sides, Positions, Centre
    <3> QED BY <3>1 DEF Init, ThreadOK
  <2>5. UiOK /\ GhostsOK
    <3>1. events \in 0..MaxEvents /\ calls \in 0..MaxCalls
      BY GamepadAssumption DEF Init
    <3> QED BY <3>1 DEF Init, UiOK, GhostsOK
  <2> QED BY <2>1, <2>2, <2>3, <2>4, <2>5 DEF TypeOK
<1>2. TypeOK /\ [Next]_vars => TypeOK'
  BY DevicesStep, SlotsStep, CellsStep, ThreadStep, UiStep, GhostsStep DEF TypeOK
<1> QED BY <1>1, <1>2, PTL DEF Spec

-----------------------------------------------------------------------------
(* The cache of the disc                                                   *)

\* Between the two halves of a UI reset the caches are forgotten, but where
\* a poll has come between.
ResetInv ==
    ui = "resetting" => \A s \in Sides \ (loose \cup overrun) :
        Driver(s) # NoPad => last[Driver(s)][s] = Forgotten

CacheInv == CacheHonest /\ ResetInv

\* Neither the disc, its driver nor the driver's cache changes.
SameCell(s) ==
    /\ Driver(s)' = Driver(s) /\ disc'[s] = disc[s]
    /\ Driver(s) # NoPad => last'[Driver(s)][s] = last[Driver(s)][s]

LEMMA CellsKept ==
    ASSUME CacheInv,
           ui' = "resetting" => ui = "resetting", ui = "clearing" => ui' = "clearing",
           \A s \in Sides \ (loose' \cup overrun') : s \notin loose \cup overrun /\ SameCell(s)
    PROVE  CacheInv'
BY DEF CacheInv, CacheHonest, ResetInv, SameCell

LEMMA Forgets ==
    TypeOK /\ Forget => \A s \in Sides : Driver(s) # NoPad => last'[Driver(s)][s] = Forgotten
BY DriverFacts DEF Forget

\* The inductive step.
LEMMA CacheStep == TypeOK /\ CacheInv /\ [Next]_vars => CacheInv'
<1> SUFFICES ASSUME TypeOK, CacheInv, [Next]_vars PROVE CacheInv'
  OBVIOUS
<1>1. CASE \/ \E p \in Pads, b \in Buttons : Button(p, b)
           \/ \E p \in Pads, st \in Stick : MoveStick(p, st)
           \/ Dispatch \/ Handled \/ EventsDone \/ PollBound
           \/ \E t \in Tables : Rebind(t)
           \/ CaptureBegin \/ CapturePoll \/ CaptureCancel \/ DrainTimer \/ UNCHANGED vars
  <2>1. /\ UNCHANGED <<slots, bound, last, disc, overrun>> /\ loose \subseteq loose'
        /\ ui' = ui \/ (ui = "idle" /\ ui' = "joining")
    BY <1>1 DEF Button, MoveStick, Event, Unmoved, Dispatch, Handled, EventsDone, PollBound,
       Rebind, Call, ThreadAlone, CaptureBegin, CapturePoll, CaptureCancel, DrainTimer, vars,
       device, machine, capture, local, ghosts
  <2>2. \A s \in Sides : SameCell(s)
    BY <2>1 DEF SameCell, Driver
  <2> QED BY <2>1, <2>2, CellsKept
<1>2. ASSUME NEW s \in Sides, NEW d \in Clicks, WriteDisc(s, d) PROVE CacheInv'
  <2>1. /\ UNCHANGED <<slots, bound, last, overrun, ui>> /\ loose' = loose \cup {s}
        /\ disc' = [disc EXCEPT ![s] = d]
    BY <1>2 DEF WriteDisc, Call, ThreadAlone
  <2>2. \A r \in Sides \ {s} : SameCell(r)
    BY <2>1 DEF SameCell, Driver, TypeOK, CellsOK
  <2> QED BY <2>1, <2>2, CellsKept
<1>3. ASSUME NEW p \in Pads, PlugIn(p) PROVE CacheInv'
  <2>1. /\ UNCHANGED <<disc, overrun, ui>> /\ loose \subseteq loose'
        /\ \A s \in Sides \ loose' : Driver(s)' = Driver(s)
    BY <1>3 DEF PlugIn, Unmoved, machine, Reordered, Driver
  <2>2. \A q \in Open : last'[q] = last[q]
    BY <1>3, DriverFacts DEF PlugIn, OpenPad, TypeOK, CellsOK
  <2>3. \A s \in Sides \ loose' : SameCell(s)
    BY <2>1, <2>2, DriverFacts DEF SameCell
  <2> QED BY <2>1, <2>3, CellsKept
<1>4. CASE (\E p \in Pads : Unplug(p)) \/ Wake
           \/ \E p \in Pads, s \in Sides \cup {Automatic} : Assign(p, s)
  <2>1. /\ UNCHANGED <<disc, last, overrun, ui>> /\ loose \subseteq loose'
        /\ \A s \in Sides \ loose' : Driver(s)' = Driver(s)
    BY <1>4 DEF Unplug, Wake, Assign, Unmoved, Call, ThreadAlone, machine, Reordered, Driver
  <2>2. \A s \in Sides \ loose' : SameCell(s)
    BY <2>1 DEF SameCell
  <2> QED BY <2>1, <2>2, CellsKept
<1>5. CASE Handle
  <2>1. CASE ResetHere
    <3>1. /\ \A s \in Sides : Driver(s)' = Driver(s)
          /\ \A s \in Sides : Driver(s) # NoPad => last'[Driver(s)][s] = Forgotten
      BY <1>5, <2>1, Forgets DEF Handle, ResetHere, Driver
    <3> QED BY <3>1 DEF CacheInv, CacheHonest, ResetInv
  <2>2. CASE UNCHANGED <<last, disc, lost, loose, overrun>>
    <3>1. UNCHANGED <<slots, bound, ui>>
      BY <1>5 DEF Handle
    <3>2. \A s \in Sides : SameCell(s)
      BY <2>2, <3>1 DEF SameCell, Driver
    <3> QED BY <2>2, <3>1, <3>2, CellsKept
  <2> QED BY <1>5, <2>1, <2>2 DEF Handle
<1>6. CASE PollRest
  <2> DEFINE p   == Driver(side)
             new == Reading(side, p, dir)
  <2>1. /\ \A s \in Sides : Driver(s)' = Driver(s)
        /\ ui' = ui /\ side \in Sides /\ p \in Pads
    BY <1>6, DriverFacts DEF PollRest, Driver, TypeOK, ThreadOK
  <2>2. CASE new = last[p][side]
    BY <1>6, <2>1, <2>2, CellsKept DEF PollRest, SameCell
  <2>3. CASE new # last[p][side]
    <3>1. /\ disc' = [disc EXCEPT ![side] = new]
          /\ last' = [last EXCEPT ![p][side] = new]
          /\ \A s \in Sides \ {side} : s \in loose \cup overrun => s \in loose' \cup overrun'
          /\ ui = "resetting" => side \in overrun'
      BY <1>6, <2>3 DEF PollRest
    <3> HIDE DEF p, new
    <3>2. disc'[side] = new /\ last'[p][side] = new
      BY <2>1, <3>1 DEF TypeOK, CellsOK
    <3>3. \A s \in Sides \ {side} :
            disc'[s] = disc[s] /\ \A q \in Pads : last'[q][s] = last[q][s]
      BY <2>1, <3>1 DEF TypeOK, CellsOK
    <3>4. \A s \in Sides : Driver(s) # NoPad => Driver(s) \in Pads
      BY DriverFacts
    <3>5. CacheHonest'
      BY <2>1, <3>1, <3>2, <3>3, <3>4 DEF CacheInv, CacheHonest, p
    <3>6. ResetInv'
      BY <2>1, <3>1, <3>3, <3>4 DEF CacheInv, ResetInv
    <3> QED BY <3>5, <3>6 DEF CacheInv
  <2> QED BY <2>2, <2>3
<1>7. CASE ResetGame \/ PadsForget
  <2>1. /\ \A s \in Sides : Driver(s)' = Driver(s)
        /\ \A s \in Sides : Driver(s) # NoPad => last'[Driver(s)][s] = Forgotten
    BY <1>7, Forgets DEF ResetGame, PadsForget, ForgetDiscs, Call, ThreadAlone, Driver
  <2> QED BY <2>1 DEF CacheInv, CacheHonest, ResetInv
<1>8. CASE ResetHost
  <2>1. /\ \A s \in Sides : Driver(s)' = Driver(s)
        /\ UNCHANGED <<last, loose, overrun>> /\ ui = "resetting" /\ ui' = "idle"
    BY <1>8 DEF ResetHost, ThreadAlone, Driver
  <2> QED BY <2>1 DEF CacheInv, CacheHonest, ResetInv
<1>9. CASE PadsClear
  BY <1>9 DEF PadsClear, CacheInv, CacheHonest, ResetInv
<1>10. CASE Restarted
  BY <1>10 DEF Restarted, CacheInv, CacheHonest, ResetInv
<1> QED
  BY <1>1, <1>2, <1>3, <1>4, <1>5, <1>6, <1>7, <1>8, <1>9, <1>10
     DEF Next, Players, Thread, User, Ui

LEMMA CacheInvariant == Spec => []CacheInv
<1>1. Init => CacheInv
  <2> SUFFICES ASSUME Init PROVE CacheInv
    OBVIOUS
  <2>1. slots \in Seq(Pads)
    BY OrderFacts DEF Init
  <2>2. \A s \in Sides : Driver(s) # NoPad => Driver(s) \in Pads
    BY <2>1, PortFacts DEF Driver
  <2> QED BY <2>2 DEF Init, CacheInv, CacheHonest, ResetInv
<1>2. TypeOK /\ CacheInv /\ [Next]_vars => CacheInv'
  BY CacheStep
<1> QED BY <1>1, <1>2, TypeCorrect, PTL DEF Spec

\* A pad that skips a disc it believes sent is right to: the machine has it.
THEOREM CacheHonesty == Spec => []CacheHonest
<1>1. CacheInv => CacheHonest
  BY DEF CacheInv
<1> QED BY <1>1, CacheInvariant, PTL

-----------------------------------------------------------------------------
(* The disc follows the pad                                                *)

\* The sides this round of poll_sticks has served.
DoneSides == CASE pc \in {"poll", "rest"} -> {s \in Sides : s < side}
               [] pc = "sleep" -> Sides
               [] OTHER -> {}

\* Polling the side again would change nothing.
Settled(s) ==
    Driver(s) # NoPad /\ last[Driver(s)][s] # Forgotten =>
        last[Driver(s)][s] = Reading(s, Driver(s), FromBound(s, Driver(s)))

\* What rung 1 has read is still so, unless Map mode has rebound the side.
RestInv == pc = "rest" /\ side \notin loose => dir = FromBound(side, Driver(side))

Polled == \A s \in DoneSides \ (loose \cup overrun) : Settled(s)

PollInv == RestInv /\ Polled

\* The deadzones overlap: reading a stick again with its answer remembered
\* gives the answer.
LEMMA Hysteresis ==
    ASSUME TypeOK, NEW p \in Pads, NEW x,
           x = FromStick(stick[p], Exit) \/ x = FromStick(stick[p], Enter)
    PROVE  FromStick(stick[p], IF x # Centre THEN Exit ELSE Enter) = x
<1>1. stick[p].depth \in 0..2 /\ stick[p].dir \in StickDirs
  BY DEF TypeOK, DevicesOK, Stick
<1>2. stick[p].dir # Centre
  BY <1>1, GamepadAssumption DEF Centre
<1> QED BY <1>1, <1>2 DEF FromStick, Exit, Enter

\* What does not change between two polls.
LEMMA ReadingKept ==
    ASSUME NEW s, NEW p, UNCHANGED <<stick, down>>, table'[s] = table[s], last'[p][s] = last[p][s]
    PROVE  /\ FromBound(s, p)' = FromBound(s, p)
           /\ \A d : Reading(s, p, d)' = Reading(s, p, d)
<1>1. FromBound(s, p)' = FromBound(s, p)
  BY DEF FromBound
<1>2. FreeDpad(s, p)' = FreeDpad(s, p) /\ Analog(s, p)' = Analog(s, p)
  BY DEF FreeDpad, Analog
<1> QED BY <1>1, <1>2 DEF Reading

\* The inductive step.
LEMMA PollStep == TypeOK /\ PollInv /\ [Next]_vars => PollInv'
<1> SUFFICES ASSUME TypeOK, PollInv, [Next]_vars PROVE PollInv'
  OBVIOUS
<1>a. \A s \in Sides : Driver(s) # NoPad => Driver(s) \in Pads
  BY DriverFacts
<1>1. CASE pc' \in {"events", "dispatch", "handle", "off"}
  BY <1>1 DEF PollInv, RestInv, Polled, DoneSides
<1>2. CASE EventsDone
  <2>1. \A s \in Sides : ~(s < 0)
    BY GamepadAssumption DEF Sides
  <2> QED BY <1>2, <2>1 DEF EventsDone, PollInv, RestInv, Polled, DoneSides
<1>3. ASSUME pc \in {"poll", "rest", "sleep"},
             UNCHANGED <<stick, down, slots, bound, last, pc, side, dir, overrun>>,
             loose \subseteq loose',
             \A s \in Sides \ loose' : table'[s] = table[s]
      PROVE  PollInv'
  <2>1. \A s \in Sides : Driver(s)' = Driver(s)
    BY <1>3 DEF Driver
  <2>2. \A s \in Sides \ loose' : FromBound(s, Driver(s))' = FromBound(s, Driver(s))
    BY <1>3, <2>1, ReadingKept
  <2>3. \A s \in Sides \ loose' : Settled(s) => Settled(s)'
    BY <1>3, <2>1, <2>2, ReadingKept DEF Settled
  <2>4. RestInv'
    BY <1>3, <2>1, <2>2 DEF PollInv, RestInv, TypeOK, ThreadOK
  <2>5. DoneSides' = DoneSides /\ DoneSides \subseteq Sides
    BY <1>3 DEF DoneSides
  <2> QED BY <1>3, <2>3, <2>4, <2>5 DEF PollInv, Polled
<1>4. CASE pc \in {"poll", "rest", "sleep"} /\
           (\/ \E s \in Sides, d \in Clicks : WriteDisc(s, d)
            \/ \E t \in Tables : Rebind(t)
            \/ ResetHost \/ PadsClear \/ CaptureBegin \/ CapturePoll \/ CaptureCancel
            \/ DrainTimer \/ UNCHANGED vars)
  <2>1. /\ UNCHANGED <<stick, down, slots, bound, last, pc, side, dir, overrun>>
        /\ loose \subseteq loose' /\ \A s \in Sides \ loose' : table'[s] = table[s]
    BY <1>4 DEF WriteDisc, Rebind, ResetHost, PadsClear, CaptureBegin, CapturePoll,
       CaptureCancel, DrainTimer, Call, ThreadAlone, vars, device, local, ghosts
  <2> QED BY <1>3, <1>4, <2>1
<1>5. CASE pc = "sleep" /\ (ResetGame \/ PadsForget)
  <2>1. /\ \A s \in Sides : Driver(s)' = Driver(s)
        /\ \A s \in Sides : Driver(s) # NoPad => last'[Driver(s)][s] = Forgotten
        /\ pc' = "sleep"
    BY <1>5, Forgets DEF ResetGame, PadsForget, ForgetDiscs, Call, ThreadAlone, Driver
  <2> QED BY <2>1 DEF PollInv, RestInv, Polled, DoneSides, Settled
<1>6. CASE pc = "sleep" /\ \E p \in Pads, s \in Sides \cup {Automatic} : Assign(p, s)
  <2>1. /\ UNCHANGED <<stick, down, table, last, pc, overrun>> /\ loose \subseteq loose'
        /\ \A s \in Sides \ loose' : Driver(s)' = Driver(s)
    BY <1>6 DEF Assign, Call, ThreadAlone, device, Reordered, Driver
  <2>2. \A s \in Sides \ loose' : Settled(s) => Settled(s)'
    BY <2>1, ReadingKept DEF Settled
  <2> QED BY <1>6, <2>1, <2>2 DEF PollInv, RestInv, Polled, DoneSides
<1>7. CASE PollBound
  <2>1. /\ pc = "poll" /\ side \in Sides
        /\ UNCHANGED <<stick, down, slots, bound, last, table, loose, overrun>>
    BY <1>7 DEF PollBound, device, ghosts, TypeOK, ThreadOK
  <2>2. \A s \in Sides : Driver(s)' = Driver(s)
    BY <2>1 DEF Driver
  <2>3. \A s \in Sides : Settled(s) => Settled(s)'
    BY <2>1, <2>2, ReadingKept DEF Settled
  <2>4. CASE Driver(side) = NoPad
    <3>1. DoneSides' \subseteq DoneSides \cup {side} /\ pc' # "rest"
      BY <1>7, <2>1, <2>4, GamepadAssumption DEF PollBound, NextSide, DoneSides, Sides
    <3>2. Settled(side)
      BY <2>4 DEF Settled
    <3> QED BY <2>1, <2>3, <3>1, <3>2 DEF PollInv, RestInv, Polled, DoneSides
  <2>5. CASE Driver(side) # NoPad
    <3>1. side' = side /\ pc' = "rest" /\ dir' = FromBound(side, Driver(side))
      BY <1>7, <2>5 DEF PollBound
    <3>2. FromBound(side, Driver(side))' = FromBound(side, Driver(side))
      BY <2>1, <2>2, <3>1, ReadingKept
    <3>3. DoneSides' = DoneSides
      BY <2>1, <3>1 DEF DoneSides
    <3> QED BY <2>1, <2>3, <3>1, <3>2, <3>3 DEF PollInv, RestInv, Polled, DoneSides
  <2> QED BY <2>4, <2>5
<1>8. CASE PollRest
  <2> DEFINE p   == Driver(side)
             new == Reading(side, p, dir)
  <2>1. /\ pc = "rest" /\ side \in Sides /\ p \in Pads
        /\ UNCHANGED <<stick, down, slots, bound, table>>
    BY <1>8, <1>a DEF PollRest, device, TypeOK, ThreadOK
  <2>2. \A s \in Sides : Driver(s)' = Driver(s)
    BY <2>1 DEF Driver
  <2>3. DoneSides' \subseteq DoneSides \cup {side} /\ DoneSides \subseteq Sides \ {side}
        /\ pc' # "rest"
    BY <1>8, <2>1, GamepadAssumption DEF PollRest, NextSide, DoneSides, Sides
  <2>4. /\ last'[p][side] = new
        /\ \A q \in Pads : \A s \in Sides \ {side} : last'[q][s] = last[q][s]
    <3>1. CASE new = last[p][side]
      BY <1>8, <3>1 DEF PollRest
    <3>2. CASE new # last[p][side]
      <4>1. last' = [last EXCEPT ![p][side] = new]
        BY <1>8, <3>2 DEF PollRest
      <4> HIDE DEF p, new
      <4> QED BY <2>1, <4>1 DEF TypeOK, CellsOK
    <3> QED BY <3>1, <3>2
  <2>5. \A s \in Sides \ {side} : s \in loose \cup overrun => s \in loose' \cup overrun'
    BY <1>8 DEF PollRest
  <2>6. \A s \in Sides \ {side} : Settled(s) => Settled(s)'
    BY <1>a, <2>1, <2>2, <2>4, ReadingKept DEF Settled
  <2>7. side \notin loose' => dir = FromBound(side, p)
    BY <1>8, <2>1 DEF PollRest, PollInv, RestInv
  <2>8. ASSUME NEW s \in Sides, s = side, dir = FromBound(side, p)
        PROVE  Settled(s)'
    <3>1. PICK q \in Pads : q = p
      BY <2>1
    <3>2. Driver(s) = q /\ Driver(s)' = q /\ last'[q][s] = Reading(s, q, dir)
      BY <2>2, <2>4, <2>8, <3>1
    <3>3. FromBound(s, q)' = dir /\ FreeDpad(s, q)' = FreeDpad(s, q)
      BY <2>1, <2>8, <3>1 DEF FromBound, FreeDpad
    <3>4. Analog(s, q)' = FromStick(stick[q], IF Reading(s, q, dir) # Centre THEN Exit ELSE Enter)
      BY <2>1, <3>2 DEF Analog
    <3>5. Reading(s, q, dir) = Analog(s, q) => Analog(s, q)' = Analog(s, q)
      BY <2>1, <3>4, Hysteresis DEF Analog
    <3>6. Reading(s, q, FromBound(s, q))' = Reading(s, q, dir)
      BY <3>3, <3>5 DEF Reading
    <3> QED BY <3>2, <3>6 DEF Settled
  <2> QED BY <2>1, <2>3, <2>5, <2>6, <2>7, <2>8 DEF PollInv, RestInv, Polled
<1>9. CASE Wake
  BY <1>1, <1>9 DEF Wake, Wakes
<1>10. CASE pc \in {"events", "dispatch", "handle", "off"}
  <2>1. EventsDone \/ pc' \in {"events", "dispatch", "handle", "off"}
    BY <1>10 DEF Next, Players, Thread, User, Ui, Button, MoveStick, PlugIn, Unplug, Dispatch,
       Handle, Handled, PollBound, PollRest, Wake, ResetGame, PadsClear, CaptureBegin,
       CaptureCancel, WriteDisc, Rebind, Assign, ResetHost, PadsForget, CapturePoll,
       DrainTimer, Restarted, ThreadAlone, vars
  <2> QED BY <1>1, <1>2, <2>1
<1>11. CASE pc \in {"poll", "rest", "sleep"}
  <2>1. pc # "sleep" => ~Unlocked
    BY <1>11 DEF Unlocked
  <2>2. ~Players /\ ~Dispatch /\ ~Handle /\ ~Handled /\ ~EventsDone /\ ~Restarted
    BY <1>11 DEF Players, Button, MoveStick, PlugIn, Unplug, Event, Dispatch, Handle, Handled,
       EventsDone, Restarted
  <2>3. ResetGame \/ PadsForget \/ (\E p \in Pads, s \in Sides \cup {Automatic} : Assign(p, s))
          => Unlocked
    BY DEF ResetGame, PadsForget, Assign
  <2> QED BY <1>4, <1>5, <1>6, <1>7, <1>8, <1>9, <1>11, <2>1, <2>2, <2>3
             DEF Next, Thread, User, Ui
<1> QED BY <1>10, <1>11 DEF TypeOK, ThreadOK

LEMMA PollInvariant == Spec => []PollInv
<1>1. Init => PollInv
  BY DEF Init, PollInv, RestInv, Polled, DoneSides
<1>2. TypeOK /\ PollInv /\ [Next]_vars => PollInv'
  BY PollStep
<1> QED BY <1>1, <1>2, TypeCorrect, PTL DEF Spec

\* After a poll the disc is where the pad points: the pad has sent what it
\* reads, and what it has sent the machine has.
THEOREM DiscFollowsAlways == Spec => []DiscFollows
<1>1. CacheInv /\ PollInv => DiscFollows
  BY DEF CacheInv, CacheHonest, PollInv, Polled, DoneSides, Settled, DiscFollows, Follows
<1> QED BY <1>1, CacheInvariant, PollInvariant, PTL

\* A pad with only bound keys held does not push the disc.
THEOREM KeyOrDiscAlways == Spec => []KeyOrDisc
<1>1. TypeOK /\ DiscFollows => KeyOrDisc
  <2> SUFFICES ASSUME TypeOK, DiscFollows, pc = "sleep" /\ ui = "idle",
                      NEW s \in Sides \ (loose \cup overrun), NEW p, p = Driver(s),
                      p # NoPad, last[p][s] # Forgotten, stick[p].depth = 0,
                      \A b \in down[p] : table[s][b].kind = "key"
               PROVE  disc[s] = Centre
    BY DEF KeyOrDisc
  <2>1. disc[s] = Reading(s, p, FromBound(s, p))
    BY DEF DiscFollows, Follows
  <2>2. FromBound(s, p) = Centre
    BY DEF FromBound
  <2>3. FreeDpad(s, p) = Centre
    <3>1. {b \in down[p] \cap DpadButtons : table[s][b].kind = "none"} = {}
      OBVIOUS
    <3>2. FromDpad({}) = Centre
      BY DEF FromDpad
    <3> QED BY <3>1, <3>2 DEF FreeDpad
  <2>4. Analog(s, p) = Centre
    BY DEF Analog, FromStick, Exit, Enter
  <2> QED BY <2>1, <2>2, <2>3, <2>4 DEF Reading
<1> QED BY <1>1, TypeCorrect, DiscFollowsAlways, PTL

-----------------------------------------------------------------------------
(* Keys are released                                                       *)

Held(s, k) ==
    Driver(s) # NoPad /\ \E b \in down[Driver(s)] : table[s][b] = [kind |-> "key", key |-> k]

\* The release of the key is on its way to the side.
Releasing(s, k) ==
    /\ ~ev.press /\ Driver(s) = ev.pad /\ table[s][ev.button] = [kind |-> "key", key |-> k]
    /\ pc = "dispatch" \/ (pc = "handle" /\ s \in drives)

\* An event under way agrees with SDL's state, and goes to sides of its pad.
EventInv ==
    /\ pc \in {"dispatch", "handle"} => (ev.press <=> ev.button \in down[ev.pad])
    /\ pc = "handle" => \A s \in drives \ lost : Driver(s) = ev.pad

KeyInv ==
    /\ \A s \in Sides \ lost : \A k \in keys[s] : Held(s, k) \/ Releasing(s, k)
    /\ EventInv

\* The inductive step.
LEMMA KeyStep == TypeOK /\ KeyInv /\ [Next]_vars => KeyInv'
<1> SUFFICES ASSUME TypeOK, KeyInv, [Next]_vars PROVE KeyInv'
  OBVIOUS
<1>a. drives \subseteq Sides
  BY DEF TypeOK, ThreadOK
<1>1. ASSUME UNCHANGED <<down, table, keys, drives, ev>>,
             pc' = pc \/ {pc, pc'} \cap {"dispatch", "handle"} = {},
             \A s \in Sides \ lost' : s \notin lost /\ (Touched(s) => Driver(s)' = Driver(s))
      PROVE  KeyInv'
  <2>1. ASSUME NEW s \in Sides \ lost', NEW k \in keys'[s]
        PROVE  Held(s, k)' \/ Releasing(s, k)'
    <3>1. Driver(s)' = Driver(s) /\ k \in keys[s] /\ s \notin lost
      BY <1>1, <2>1 DEF Touched
    <3>2. CASE Held(s, k)
      BY <1>1, <3>1, <3>2 DEF Held
    <3>3. CASE Releasing(s, k)
      BY <1>1, <3>1, <3>3 DEF Releasing
    <3> QED BY <3>1, <3>2, <3>3 DEF KeyInv
  <2>2. EventInv'
    BY <1>1, <1>a DEF KeyInv, EventInv, Touched
  <2> QED BY <2>1, <2>2 DEF KeyInv
<1>2. CASE \/ \E p \in Pads, st \in Stick : MoveStick(p, st)
           \/ EventsDone \/ PollBound \/ PollRest \/ ResetGame \/ PadsForget
           \/ \E s \in Sides, d \in Clicks : WriteDisc(s, d)
           \/ CaptureBegin \/ CapturePoll \/ CaptureCancel \/ DrainTimer \/ UNCHANGED vars
  <2>1. /\ UNCHANGED <<down, slots, bound, table, keys, drives, ev, lost>>
        /\ pc' = pc \/ {pc, pc'} \cap {"dispatch", "handle"} = {}
    BY <1>2 DEF MoveStick, Event, Unmoved, EventsDone, PollBound, PollRest, NextSide, ResetGame,
       PadsForget, WriteDisc, CaptureBegin, CapturePoll, CaptureCancel, DrainTimer, Call,
       ThreadAlone, vars, device, machine, local, ghosts
  <2>2. \A s \in Sides : Driver(s)' = Driver(s)
    BY <2>1 DEF Driver
  <2> QED BY <1>1, <2>1, <2>2
<1>3. CASE \/ \E p \in Pads : PlugIn(p) \/ Unplug(p)
           \/ Wake \/ \E p \in Pads, s \in Sides \cup {Automatic} : Assign(p, s)
  <2>1. /\ UNCHANGED <<down, table, keys, drives, ev>>
        /\ pc' = pc \/ {pc, pc'} \cap {"dispatch", "handle"} = {}
    BY <1>3 DEF PlugIn, Unplug, Wake, Wakes, Assign, Event, Unmoved, Call, ThreadAlone, device,
       machine, local
  <2>2. \A s \in Sides \ lost' : s \notin lost /\ (Touched(s) => Driver(s)' = Driver(s))
    <3>1. \/ Reordered(slots', bound')
          \/ Reordered(slots', bound) /\ bound' = bound
          \/ Reordered(slots, bound') /\ slots' = slots
      BY <1>3 DEF PlugIn, Unplug, Wake, Assign, ThreadAlone
    <3> HIDE DEF Touched
    <3> QED BY <3>1 DEF Reordered, Driver
  <2> QED BY <1>1, <2>1, <2>2
<1>4. ASSUME NEW p \in Pads, NEW b \in Buttons, Button(p, b) PROVE KeyInv'
  <2>1. /\ down' = [down EXCEPT ![p] = IF b \in @ THEN @ \ {b} ELSE @ \cup {b}]
        /\ ev' = [pad |-> p, button |-> b, press |-> b \notin down[p]]
        /\ pc = "events" /\ pc' = "dispatch"
        /\ UNCHANGED <<table, keys, lost>> /\ \A s \in Sides : Driver(s)' = Driver(s)
    BY <1>4 DEF Button, Event, Unmoved, machine, ghosts, Driver
  <2>2. down'[p] = IF b \in down[p] THEN down[p] \ {b} ELSE down[p] \cup {b}
    BY <2>1 DEF TypeOK, DevicesOK
  <2>3. \A q : q # p => down'[q] = down[q]
    BY <2>1 DEF TypeOK, DevicesOK
  <2>4. ASSUME NEW s \in Sides \ lost, NEW k \in keys[s]
        PROVE  Held(s, k)' \/ Releasing(s, k)'
    <3>1. Held(s, k)
      BY <2>1, <2>4 DEF KeyInv, Releasing
    <3>2. PICK c \in down[Driver(s)] : table[s][c] = [kind |-> "key", key |-> k]
      BY <3>1 DEF Held
    <3>3. CASE c \in down'[Driver(s)]
      BY <2>1, <3>1, <3>2, <3>3 DEF Held
    <3>4. CASE c \notin down'[Driver(s)]
      <4>1. Driver(s) = p /\ c = b /\ b \in down[p]
        BY <2>2, <2>3, <3>2, <3>4
      <4> QED BY <2>1, <3>2, <4>1 DEF Releasing
    <3> QED BY <3>3, <3>4
  <2>5. EventInv'
    <3>1. ev'.pad = p /\ ev'.button = b /\ ev'.press = (b \notin down[p])
      BY <2>1
    <3>2. pc' = "dispatch"
      BY <2>1
    <3>3. b \in down'[p] <=> b \notin down[p]
      BY <2>2
    <3>4. ev'.press <=> ev'.button \in down'[ev'.pad]
      BY <3>1, <3>3
    <3> QED BY <3>2, <3>4 DEF EventInv
  <2> QED BY <2>1, <2>4, <2>5 DEF KeyInv
<1>5. CASE Dispatch
  <2>1. /\ pc = "dispatch" /\ UNCHANGED <<down, table, keys>>
        /\ \A s \in Sides : Driver(s)' = Driver(s)
    BY <1>5 DEF Dispatch, device, machine, Driver
  <2>2. CASE armed
    <3>1. pc' = "events" /\ ~ev.press => \A s \in Sides \ lost' : keys[s] = {}
      BY <1>5, <2>2 DEF Dispatch
    <3>2. /\ pc' = "events" /\ lost \subseteq lost'
          /\ \A s \in Sides \ lost' : \A k \in keys[s] : ev.press
      BY <1>5, <2>2, <3>1 DEF Dispatch
    <3> QED BY <2>1, <3>2 DEF KeyInv, EventInv, Held, Releasing
  <2>3. CASE ~armed
    <3>1. /\ pc' = "handle" /\ ev' = ev /\ lost' = lost
          /\ drives' = {s \in Sides : Driver(s) = ev.pad}
      BY <1>5, <2>3 DEF Dispatch
    <3> QED BY <2>1, <3>1 DEF KeyInv, EventInv, Held, Releasing
  <2> QED BY <2>2, <2>3
<1>6. CASE Handle
  <2>a. First(drives) \in drives /\ First(drives) \in Sides
    BY <1>6, FirstDrive DEF Handle
  <2> PICK s \in Sides : s = First(drives) /\ s \in drives
    BY <2>a
  <2> DEFINE t == table[s][ev.button]
  <2>1. /\ pc = "handle" /\ UNCHANGED <<down, table, pc, ev>> /\ drives' = drives \ {s}
        /\ \A r \in Sides : Driver(r)' = Driver(r)
        /\ ev \in [pad : Pads, button : Buttons, press : BOOLEAN]
    BY <1>6 DEF Handle, device, Driver, TypeOK, ThreadOK
  <2>2. CASE ResetHere
    <3>1. lost' = lost \cap drives /\ \A r \in Sides : keys'[r] = {}
      BY <2>2 DEF ResetHere, ClearMachine
    <3> QED BY <1>a, <2>1, <3>1 DEF KeyInv, EventInv
  <2>3. CASE /\ lost' = lost
             /\ keys' = IF t.kind = "key"
                              THEN [keys EXCEPT ![s] = IF ev.press THEN @ \cup {t.key}
                                                                   ELSE @ \ {t.key}]
                              ELSE keys
    <3>1. EventInv'
      BY <1>a, <2>1, <2>3 DEF KeyInv, EventInv
    <3>2. ASSUME NEW r \in Sides \ lost, NEW k \in keys'[r], r # s
          PROVE  Held(r, k)' \/ Releasing(r, k)'
      <4>1. k \in keys[r]
        BY <2>1, <2>3, <3>2 DEF TypeOK, CellsOK
      <4> QED BY <2>1, <3>2, <4>1 DEF KeyInv, Held, Releasing
    <3>3. ASSUME NEW k \in keys'[s], s \notin lost
          PROVE  Held(s, k)'
      <4>1. Driver(s) = ev.pad /\ (ev.press <=> ev.button \in down[ev.pad])
        BY <2>1, <3>3 DEF KeyInv, EventInv
      <4>2. ev.pad # NoPad
        BY <2>1, GamepadAssumption
      <4>3. CASE k \in keys[s] /\ Held(s, k)
        BY <2>1, <4>3 DEF Held
      <4>4. CASE k \in keys[s] /\ Releasing(s, k)
        <5>1. t = [kind |-> "key", key |-> k] /\ ~ev.press
          BY <4>4 DEF Releasing
        <5>2. keys' = [keys EXCEPT ![s] = @ \ {k}]
          BY <2>3, <5>1
        <5>3. k \notin keys'[s]
          BY <2>1, <5>2 DEF TypeOK, CellsOK
        <5> QED BY <3>3, <5>3
      <4>5. CASE k \notin keys[s]
        <5>1. t.kind = "key"
          BY <2>3, <3>3, <4>5
        <5>2. ev.press /\ k = t.key
          BY <2>1, <2>3, <3>3, <4>5, <5>1 DEF TypeOK, CellsOK
        <5>3. t \in Target
          BY <2>1, GamepadAssumption DEF TypeOK, CellsOK
        <5>4. t = [kind |-> "key", key |-> k]
          <6>1. t \in [kind : {"key"}, key : Keys]
            BY <5>1, <5>3 DEF Target
          <6> QED BY <5>2, <6>1
        <5>5. ev.button \in down'[ev.pad] /\ table'[s][ev.button] = t /\ Driver(s)' = ev.pad
          BY <2>1, <4>1, <5>2
        <5> QED BY <4>2, <5>4, <5>5 DEF Held
      <4> QED BY <2>1, <3>3, <4>3, <4>4, <4>5 DEF KeyInv
    <3> QED BY <2>3, <3>1, <3>2, <3>3 DEF KeyInv
  <2>4. \/ ResetHere
        \/ /\ lost' = lost
           /\ keys' = IF t.kind = "key"
                        THEN [keys EXCEPT ![s] = IF ev.press THEN @ \cup {t.key}
                                                             ELSE @ \ {t.key}]
                        ELSE keys
    <3>1. First(drives) = s
      OBVIOUS
    <3>2. CASE t.kind = "reset" /\ ev.press
      BY <1>6, <3>1, <3>2 DEF Handle
    <3>3. CASE ~(t.kind = "reset" /\ ev.press) /\ t.kind = "key"
      BY <1>6, <3>1, <3>3 DEF Handle, HandleKey
    <3>4. CASE ~(t.kind = "reset" /\ ev.press) /\ t.kind # "key"
      BY <1>6, <3>1, <3>4 DEF Handle
    <3> QED BY <3>2, <3>3, <3>4
  <2> QED BY <2>2, <2>3, <2>4
<1>7. CASE Handled
  <2>1. /\ drives = {} /\ pc = "handle" /\ pc' = "events" /\ UNCHANGED <<down, table, keys, lost>>
        /\ \A s \in Sides : Driver(s)' = Driver(s)
    BY <1>7 DEF Handled, device, machine, ghosts, Driver
  <2> QED BY <2>1 DEF KeyInv, EventInv, Held, Releasing
<1>8. CASE ResetHost \/ PadsClear
  <2>1. /\ lost' = lost \cap drives /\ \A s \in Sides : keys'[s] = {}
        /\ UNCHANGED <<down, pc, ev, drives>> /\ \A s \in Sides : Driver(s)' = Driver(s)
    BY <1>8 DEF ResetHost, PadsClear, ClearMachine, Call, ThreadAlone, device, local, Driver
  <2> QED BY <1>a, <2>1 DEF KeyInv, EventInv
<1>9. CASE \E t \in Tables : Rebind(t)
  <2>1. /\ lost' = lost \cup {s \in Sides : keys[s] # {}} /\ keys' = keys
        /\ UNCHANGED <<down, pc, ev, drives>> /\ \A s \in Sides : Driver(s)' = Driver(s)
    BY <1>9 DEF Rebind, Call, ThreadAlone, device, local, machine, Driver
  <2> QED BY <1>a, <2>1 DEF KeyInv, EventInv
<1>10. CASE Restarted
  <2>1. /\ pc' = "events"
        /\ (\A s \in Sides : keys'[s] = {}) \/ (keys' = keys /\ lost' = {s \in Sides : keys[s] # {}})
    BY <1>10 DEF Restarted, ClearMachine, machine
  <2> QED BY <2>1 DEF KeyInv, EventInv
<1> QED
  BY <1>2, <1>3, <1>4, <1>5, <1>6, <1>7, <1>8, <1>9, <1>10 DEF Next, Players, Thread, User, Ui

LEMMA KeyInvariant == Spec => []KeyInv
<1>1. Init => KeyInv
  BY DEF Init, KeyInv, EventInv
<1>2. TypeOK /\ KeyInv /\ [Next]_vars => KeyInv'
  BY KeyStep
<1> QED BY <1>1, <1>2, TypeCorrect, PTL DEF Spec

\* Whatever is plugged, reset or cleared meanwhile, a key the machine sees
\* held by a pad is held on the pad, but for the diverted releases.
THEOREM NoStuckKeys == Spec => []NoStuckKey
<1>1. KeyInv => NoStuckKey
  BY DEF KeyInv, NoStuckKey, Held, Releasing
<1> QED BY <1>1, KeyInvariant, PTL
=============================================================================
