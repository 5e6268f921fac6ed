----------------------------- MODULE Host_proofs -----------------------------
(***************************************************************************)
(* What holds of the host of the machine.  Of starting and stopping it,    *)
(* for every number of restarts, every set of cartridges and every         *)
(* library: one machine at a time, only its own sound, and nothing left    *)
(* running by a call that fails.  Of its sound, for every set of chips and *)
(* every size of buffers and ring: no buffer is lost or given out twice,   *)
(* and the ring passes the samples on as a lossy stream does.  Of its      *)
(* picture and of the callback, for every set of pictures, of frontends,   *)
(* of lost devices and of textures GTK keeps.                              *)
(***************************************************************************)
EXTENDS HostSession, AudioPath, Displays, FiniteSetTheorems, TLAPS, WellFoundedInduction

-----------------------------------------------------------------------------
(***************************************************************************)
(* The machine, started and stopped.                                       *)
(***************************************************************************)
-----------------------------------------------------------------------------
(* Types.                                                                  *)

\* A call that goes on to a start leaves room for one machine more, until
\* that machine is there.
BeforeTheMachine == {"pads off", "audio off", "host off", "join", "fujinet off",
                     "check", "link", "host on"}
Room == starting /\ phase \in BeforeTheMachine => gen < MaxRuns
OnlyStarts == phase \in {"check", "link", "host on"} => starting

\* Adding to the ring's end, and losing its oldest sample.
LEMMA RingFacts ==
    /\ <<>> \in Seq(1 .. MaxRuns)
    /\ \A s \in Seq(1 .. MaxRuns), m \in 1 .. MaxRuns : Append(s, m) \in Seq(1 .. MaxRuns)
    /\ \A s \in Seq(1 .. MaxRuns) : s # <<>> => Tail(s) \in Seq(1 .. MaxRuns)
OBVIOUS

\* The variables a phase leaves alone keep their types; the ones it moves are
\* the phase and what the other steps name.
Callish == /\ phase \in Phases /\ starting \in BOOLEAN /\ up \in BOOLEAN
           /\ opts \in Options /\ cart \in Carts \cup {NoCart}
Linkish == /\ host \in {"own", "external"} /\ external \in BOOLEAN
           /\ endpoint \in {"nobody", "own", "external"}
Machinish == /\ gen \in 0 .. MaxRuns /\ live \subseteq 1 .. MaxRuns /\ looping \subseteq live
             /\ running \in BOOLEAN /\ do_exit \in BOOLEAN
             /\ argv \in [cart : Carts \cup {NoCart}, dials : {"nobody", "own", "external"}]
Soundish == /\ samples \in Seq(1 .. MaxRuns) /\ audio \in {"off", "paused", "playing"}
            /\ voice \in Voices
Bridgish == /\ handle \in {"none", "good", "bad"} /\ bridge \in BOOLEAN /\ crashed \in BOOLEAN
Typed == Callish /\ Linkish /\ Machinish /\ Soundish /\ Bridgish /\ pads \in BOOLEAN
TypeInv == Typed /\ Room /\ OnlyStarts

LEMMA TypedIsType == Typed => SessionTypeOK
BY DEF Typed, SessionTypeOK, Callish, Linkish, Machinish, Soundish, Bridgish

LEMMA InitTypeInv == SessionInit => TypeInv
<1> SUFFICES ASSUME SessionInit PROVE Typed /\ Room /\ OnlyStarts
  BY DEF TypeInv
<1>1. MaxRuns \in Nat
  BY SessionAssumption
<1>2. Callish
  BY DEF SessionInit, Callish, Phases, Options
<1>3. Linkish /\ Bridgish /\ pads \in BOOLEAN
  BY DEF SessionInit, Linkish, Bridgish
<1>4. Machinish
  <2>1. NoArgs \in [cart : Carts \cup {NoCart}, dials : {"nobody", "own", "external"}]
    BY DEF NoArgs
  <2>2. 0 \in 0 .. MaxRuns
    BY <1>1
  <2> QED BY <2>1, <2>2 DEF SessionInit, Machinish
<1>5. Soundish
  BY <1>1, RingFacts DEF SessionInit, Soundish, Voices
<1>6. Room /\ OnlyStarts
  BY DEF SessionInit, Room, BeforeTheMachine, OnlyStarts
<1> QED BY <1>2, <1>3, <1>4, <1>5, <1>6 DEF Typed

Phased == \/ PadsOff \/ AudioOff \/ HostOff \/ Join \/ FujiNetOff
          \/ Check \/ LinkExternal \/ LinkOwn \/ HostRefused \/ HostOn
          \/ PadsOn \/ AudioOpen \/ AudioOn
Begun == \/ \E f \in {"own", "external", "malformed"} :
               \/ Restart(f)
               \/ \E path \in Carts \cup {NoCart} : LoadCart(path, f)
         \/ Stop
Meanwhile == \/ \E m \in live : SetUp(m) \/ Sound(m) \/ End(m) \/ Speak(m)
             \/ Play \/ ResetGame

LEMMA Steps == SessionNext => Begun \/ Phased \/ Meanwhile
BY DEF SessionNext, Begun, Phased, Meanwhile

\* A call begins.
LEMMA BegunTypes == TypeInv /\ Begun => TypeInv'
<1> SUFFICES ASSUME Typed, Room, OnlyStarts, Begun PROVE Typed' /\ Room' /\ OnlyStarts'
  BY DEF TypeInv
<1> USE SessionAssumption
<1>1. Linkish' /\ Machinish' /\ Soundish' /\ Bridgish' /\ pads' \in BOOLEAN
  <2>1. /\ UNCHANGED <<host, external, endpoint, gen, live, looping, running, do_exit, argv>>
        /\ UNCHANGED <<samples, audio, voice, handle, bridge, crashed, pads>>
    BY DEF Begun, Restart, LoadCart, Stop, Call, linkVars, hostVars, soundVars, bridgeVars
  <2> QED BY <2>1 DEF Typed, Linkish, Machinish, Soundish, Bridgish
<1>2. Callish'
  <2>1. phase' = "pads off" /\ starting' \in BOOLEAN /\ up' = FALSE
    BY DEF Begun, Restart, LoadCart, Stop, Call
  <2>2. cart' \in Carts \cup {NoCart}
    BY DEF Begun, Restart, LoadCart, Stop, Typed, Callish
  <2>3. opts' \in Options
    <3>1. CASE Stop
      BY <3>1 DEF Stop, Typed, Callish
    <3>2. ASSUME NEW f \in {"own", "external", "malformed"}, Restart(f)
          PROVE  opts' \in Options
      <4>1. opts' = [cart |-> cart, fujinet |-> f] /\ cart \in Carts \cup {NoCart}
        BY <3>2 DEF Restart, Typed, Callish
      <4> QED BY <4>1 DEF Options
    <3>3. ASSUME NEW f \in {"own", "external", "malformed"}, NEW path \in Carts \cup {NoCart},
                 LoadCart(path, f)
          PROVE  opts' \in Options
      <4>1. opts' = [cart |-> path, fujinet |-> f]
        BY <3>3 DEF LoadCart
      <4> QED BY <4>1 DEF Options
    <3> QED BY <3>1, <3>2, <3>3 DEF Begun
  <2> QED BY <2>1, <2>2, <2>3 DEF Callish, Phases
<1>3. Room' /\ OnlyStarts'
  BY DEF Begun, Restart, LoadCart, Stop, Call, hostVars, Room, OnlyStarts
<1> QED BY <1>1, <1>2, <1>3 DEF Typed

\* A call goes on.
LEMMA PhasedTypes == TypeInv /\ Phased => TypeInv'
<1> SUFFICES ASSUME Typed, Room, OnlyStarts, Phased PROVE Typed' /\ Room' /\ OnlyStarts'
  BY DEF TypeInv
<1> USE SessionAssumption DEF Typed, At, GoTo
<1>1. Callish'
  BY DEF Phased, PadsOff, AudioOff, HostOff, Join, FujiNetOff, Check, LinkExternal, LinkOwn, HostRefused,
         HostOn, PadsOn, AudioOpen, AudioOn, Fail, Unstarted, Started, Callish, Phases
<1>2. Linkish'
  BY DEF Phased, PadsOff, AudioOff, HostOff, Join, FujiNetOff, Check, LinkExternal, LinkOwn, HostRefused,
         HostOn, PadsOn, AudioOpen, AudioOn, linkVars, Linkish
<1>3. Machinish'
  <2>1. CASE HostOn
    <3>1. gen < MaxRuns
      BY <2>1 DEF HostOn, Room, BeforeTheMachine, OnlyStarts
    <3>2. gen + 1 \in 1 .. MaxRuns /\ gen + 1 \in 0 .. MaxRuns
      BY <3>1 DEF Machinish
    <3>3. gen' \in 0 .. MaxRuns /\ live' \subseteq 1 .. MaxRuns /\ looping' \subseteq live'
      BY <2>1, <3>2 DEF HostOn, Machinish
    <3>4. argv' \in [cart : Carts \cup {NoCart}, dials : {"nobody", "own", "external"}]
      BY <2>1 DEF HostOn, Callish, Linkish, Options
    <3>5. running' \in BOOLEAN /\ do_exit' \in BOOLEAN
      BY <2>1 DEF HostOn, Machinish
    <3> QED BY <3>3, <3>4, <3>5 DEF Machinish
  <2>2. CASE ~HostOn
    <3>1. UNCHANGED <<gen, live, looping, running>>
      BY <2>2 DEF Phased, PadsOff, AudioOff, HostOff, Join, FujiNetOff, Check, LinkExternal, LinkOwn,
                  HostRefused, PadsOn, AudioOpen, AudioOn, Unstarted, hostVars
    <3>2. do_exit' \in {TRUE, do_exit} /\ argv' \in {argv, NoArgs}
      BY <2>2 DEF Phased, PadsOff, AudioOff, HostOff, Join, FujiNetOff, Check, LinkExternal, LinkOwn,
                  HostRefused, PadsOn, AudioOpen, AudioOn, Unstarted, hostVars
    <3>3. NoArgs \in [cart : Carts \cup {NoCart}, dials : {"nobody", "own", "external"}]
      BY DEF NoArgs
    <3> QED BY <3>1, <3>2, <3>3 DEF Machinish
  <2> QED BY <2>1, <2>2
<1>4. Soundish'
  <2>1. samples' \in {samples, <<>>} /\ voice' \in {voice, 0}
    BY DEF Phased, PadsOff, AudioOff, HostOff, Join, FujiNetOff, Check, LinkExternal, LinkOwn, HostRefused,
           HostOn, PadsOn, AudioOpen, AudioOn, Unstarted, BridgeStopped, soundVars
  <2>2. audio' \in {audio, "off", "paused", "playing"}
    BY DEF Phased, PadsOff, AudioOff, HostOff, Join, FujiNetOff, Check, LinkExternal, LinkOwn, HostRefused,
           HostOn, PadsOn, AudioOpen, AudioOn, Unstarted, soundVars
  <2>3. samples' \in Seq(1 .. MaxRuns)
    BY <2>1, RingFacts DEF Soundish
  <2>4. voice' \in Voices
    BY <2>1 DEF Soundish, Voices
  <2>5. audio' \in {"off", "paused", "playing"}
    BY <2>2 DEF Soundish
  <2> QED BY <2>3, <2>4, <2>5 DEF Soundish
<1>5. Bridgish'
  BY DEF Phased, PadsOff, AudioOff, HostOff, Join, FujiNetOff, Check, LinkExternal, LinkOwn, HostRefused,
         HostOn, PadsOn, AudioOpen, AudioOn, Unstarted, BridgeStopped, Load, bridgeVars, Bridgish
<1>6. pads' \in BOOLEAN
  BY DEF Phased, PadsOff, AudioOff, HostOff, Join, FujiNetOff, Check, LinkExternal, LinkOwn, HostRefused,
         HostOn, PadsOn, AudioOpen, AudioOn
<1>7. Room' /\ OnlyStarts'
  <2>1. starting' = starting
    BY DEF Phased, PadsOff, AudioOff, HostOff, Join, FujiNetOff, Check, LinkExternal, LinkOwn, HostRefused,
           HostOn, PadsOn, AudioOpen, AudioOn, Fail, Unstarted, Started
  <2>2. CASE HostOn \/ PadsOn \/ AudioOpen \/ AudioOn
    BY <2>2 DEF HostOn, PadsOn, AudioOpen, AudioOn, Started, Room, BeforeTheMachine, OnlyStarts
  <2>3. CASE ~(HostOn \/ PadsOn \/ AudioOpen \/ AudioOn)
    <3>1. gen' = gen /\ phase \in BeforeTheMachine
      BY <2>3 DEF Phased, PadsOff, AudioOff, HostOff, Join, FujiNetOff, Check, LinkExternal, LinkOwn,
                  HostRefused, Unstarted, hostVars, BeforeTheMachine
    <3>2. phase' \in {"check", "link", "host on"} => (phase = "fujinet off" /\ starting) \/ phase \in {"check", "link"}
      BY <2>3 DEF Phased, PadsOff, AudioOff, HostOff, Join, FujiNetOff, Check, LinkExternal, LinkOwn,
                  HostRefused, Unstarted, Fail, BeforeTheMachine
    <3> QED BY <2>1, <3>1, <3>2 DEF Room, OnlyStarts, Callish
  <2> QED BY <2>2, <2>3
<1> QED BY <1>1, <1>2, <1>3, <1>4, <1>5, <1>6, <1>7 DEF Typed
\* The other threads.
LEMMA MeanwhileTypes == TypeInv /\ Meanwhile => TypeInv'
<1> SUFFICES ASSUME Typed, Room, OnlyStarts, Meanwhile PROVE Typed' /\ Room' /\ OnlyStarts'
  BY DEF TypeInv
<1> USE SessionAssumption DEF Meanwhile, SetUp, Sound, End, Speak, Play, ResetGame, Typed
<1>1. Callish' /\ Linkish' /\ Bridgish' /\ pads' \in BOOLEAN
  BY DEF callVars, linkVars, bridgeVars, Callish, Linkish, Bridgish
<1>2. Machinish'
  <2>1. ASSUME NEW m \in live, SetUp(m) PROVE Machinish'
    BY <2>1 DEF SetUp, Machinish
  <2>2. ASSUME NEW m \in live, End(m) PROVE Machinish'
    BY <2>2 DEF Machinish
  <2>3. ASSUME UNCHANGED hostVars PROVE Machinish'
    BY <2>3 DEF hostVars, Machinish
  <2>4. UNCHANGED hostVars \/ \E m \in live : SetUp(m) \/ End(m)
    OBVIOUS
  <2> QED BY <2>1, <2>2, <2>3, <2>4
<1>3. Soundish'
  <2>1. \A m \in live : m \in 1 .. MaxRuns /\ m \in Voices
    BY DEF Machinish, Voices
  <2>2. samples # <<>> => Tail(samples) \in Seq(1 .. MaxRuns)
    BY RingFacts DEF Soundish
  <2>3. Len(samples) >= RingMax => samples # <<>>
    BY DEF Soundish
  <2>4. samples' \in Seq(1 .. MaxRuns)
    <3>1. CASE \E m \in live : Sound(m)
      <4>1. PICK m \in live : samples' = IF Len(samples) < RingMax THEN Append(samples, m)
                                         ELSE Append(Tail(samples), m)
        BY <3>1
      <4>2. m \in 1 .. MaxRuns /\ samples \in Seq(1 .. MaxRuns)
        BY <2>1 DEF Soundish
      <4>3. CASE Len(samples) < RingMax
        BY <4>1, <4>2, <4>3, RingFacts
      <4>4. CASE ~(Len(samples) < RingMax)
        <5>1. Tail(samples) \in Seq(1 .. MaxRuns)
          BY <2>2, <2>3, <4>2, <4>4
        <5> QED BY <4>1, <4>2, <4>4, <5>1, RingFacts
      <4> QED BY <4>3, <4>4
    <3>2. CASE Play
      <4>1. samples # <<>> /\ samples' = Tail(samples)
        BY <3>2
      <4> QED BY <2>2, <4>1
    <3>3. CASE ResetGame
      BY <3>3, RingFacts
    <3>4. CASE \E m \in live : SetUp(m) \/ End(m) \/ Speak(m)
      BY <3>4 DEF Soundish, soundVars
    <3> QED BY <3>1, <3>2, <3>3, <3>4
  <2>5. audio' \in {"off", "paused", "playing"} /\ voice' \in Voices
    BY <2>1 DEF Soundish, soundVars, Voices
  <2> QED BY <2>4, <2>5 DEF Soundish
<1>4. Room' /\ OnlyStarts'
  <2>1. UNCHANGED <<phase, starting, gen>>
    BY DEF callVars, hostVars
  <2> QED BY <2>1 DEF Room, OnlyStarts
<1> QED BY <1>1, <1>2, <1>3, <1>4

LEMMA StepTypeInv == TypeInv /\ [SessionNext]_sessionVars => TypeInv'
<1> SUFFICES ASSUME TypeInv, [SessionNext]_sessionVars PROVE TypeInv'
  OBVIOUS
<1>1. CASE UNCHANGED sessionVars
  <2>1. /\ UNCHANGED <<phase, starting, opts, cart, up, host, external, endpoint, gen, live, running>>
        /\ UNCHANGED <<looping, do_exit, argv, samples, audio, pads, handle, bridge, voice, crashed>>
    BY <1>1 DEF sessionVars, callVars, linkVars, hostVars, soundVars, bridgeVars
  <2>2. Typed => Typed'
    BY <2>1 DEF Typed, Callish, Linkish, Machinish, Soundish, Bridgish
  <2>3. Room /\ OnlyStarts => Room' /\ OnlyStarts'
    BY <2>1 DEF Room, OnlyStarts
  <2> QED BY <2>2, <2>3 DEF TypeInv
<1> QED BY <1>1, Steps, BegunTypes, PhasedTypes, MeanwhileTypes

LEMMA TypeAlways == SessionSpec => []TypeInv
<1> QED BY InitTypeInv, StepTypeInv, PTL DEF SessionSpec

\* The types of a session hold in every reachable state, and no call goes on
\* to more machines than there is room for (intvsession_start, _stop).
THEOREM TypeCorrect == SessionSpec => []SessionTypeOK
<1>1. TypeInv => SessionTypeOK
  BY TypedIsType DEF TypeInv
<1> QED BY <1>1, TypeAlways, PTL

-----------------------------------------------------------------------------
(* One machine at a time.                                                  *)

\* Inside a start, and at the end of a stop, no machine is there.
NoMachineYet == phase \in {"fujinet off", "check", "link", "host on"} => live = {} /\ ~running
MachineInv == OneMachine /\ NoMachineYet

LEMMA StepMachineInv == TypeInv /\ MachineInv /\ [SessionNext]_sessionVars => MachineInv'
<1> SUFFICES ASSUME Typed, MachineInv, [SessionNext]_sessionVars PROVE MachineInv'
  BY DEF TypeInv
<1> USE DEF MachineInv, OneMachine, NoMachineYet, Typed, Machinish
<1>1. CASE Begun
  BY <1>1 DEF Begun, Restart, LoadCart, Stop, Call, hostVars
<1>2. CASE HostOn
  <2>1. live' = {gen'} /\ running' /\ phase' = "pads on"
    BY <1>2 DEF HostOn, At, GoTo
  <2>2. argv' # NoArgs
    BY <1>2 DEF HostOn, NoArgs, Typed, Linkish
  <2> QED BY <2>1, <2>2
<1>3. CASE HostOff \/ Join
  <2>1. UNCHANGED <<gen, live, running>> /\ (argv' = argv \/ live = {})
    BY <1>3 DEF HostOff, Join
  <2>2. phase' = "fujinet off" => live = {} /\ ~running
    BY <1>3 DEF HostOff, Join, At, GoTo
  <2>3. phase' \in {"join", "fujinet off"}
    BY <1>3 DEF HostOff, Join, At, GoTo
  <2> QED BY <2>1, <2>2, <2>3
<1>4. CASE HostRefused
  BY <1>4 DEF HostRefused, Unstarted, Fail, At, GoTo
<1>5. CASE Phased /\ ~(HostOn \/ HostOff \/ Join \/ HostRefused)
  <2>1. UNCHANGED <<gen, live, running, argv>>
    BY <1>5 DEF Phased, PadsOff, AudioOff, FujiNetOff, Check, LinkExternal, LinkOwn, PadsOn, AudioOpen,
                AudioOn, hostVars
  <2>2. phase' \in {"fujinet off", "check", "link", "host on"} => phase \in {"fujinet off", "check", "link"}
    BY <1>5 DEF Phased, PadsOff, AudioOff, FujiNetOff, Check, LinkExternal, LinkOwn, PadsOn, AudioOpen,
                AudioOn, Fail, Started, At, GoTo
  <2> QED BY <2>1, <2>2
<1>6. CASE Meanwhile
  <2>1. UNCHANGED <<phase, gen, argv>>
    BY <1>6 DEF Meanwhile, SetUp, Sound, End, Speak, Play, ResetGame, callVars, hostVars
  <2>2. \/ UNCHANGED <<live, running>>
        \/ \E m \in live : live' = live \ {m} /\ running' = FALSE
    BY <1>6 DEF Meanwhile, SetUp, Sound, End, Speak, Play, ResetGame, hostVars
  <2>3. CASE UNCHANGED <<live, running>>
    BY <2>1, <2>3
  <2>4. CASE \E m \in live : live' = live \ {m} /\ running' = FALSE
    <3>1. live' = {} /\ running' = FALSE
      BY <2>4
    <3> QED BY <3>1
  <2> QED BY <2>2, <2>3, <2>4
<1>7. CASE UNCHANGED sessionVars
  BY <1>7 DEF sessionVars, callVars, hostVars
<1> QED BY <1>1, <1>2, <1>3, <1>4, <1>5, <1>6, <1>7, Steps DEF Phased

LEMMA InitMachineInv == SessionInit => MachineInv
BY DEF SessionInit, MachineInv, OneMachine, NoMachineYet

\* intv_host_start and intv_host_stop: never a second machine, and the one
\* that is there has the arguments that were made for it.
THEOREM OneMachineAlways == SessionSpec => []OneMachine
<1>1. TypeInv /\ MachineInv /\ [SessionNext]_sessionVars => MachineInv'
  BY StepMachineInv
<1>2. SessionSpec => []MachineInv
  BY <1>1, InitMachineInv, TypeAlways, PTL DEF SessionSpec
<1>3. MachineInv => OneMachine
  BY DEF MachineInv
<1> QED BY <1>2, <1>3, PTL

-----------------------------------------------------------------------------
(* A call that fails leaves nothing running.                               *)

\* What a stop has put away by the time it is in each phase, and what a start
\* has not yet brought back.
PadsQuiet == phase \in {"audio off", "host off", "join", "fujinet off", "check", "link",
                        "host on", "pads on"} => ~pads
AudioQuiet == phase \in {"host off", "join", "fujinet off", "check", "link", "host on",
                         "pads on", "audio open"} => audio = "off"
BridgeQuiet == phase \in {"check", "link"} => ~bridge
Down == phase = "idle" /\ ~up => /\ live = {} /\ ~running /\ ~bridge
                                /\ audio = "off" /\ ~pads
QuietInv == PadsQuiet /\ AudioQuiet /\ BridgeQuiet /\ Down

LEMMA InitQuietInv == SessionInit => QuietInv
BY DEF SessionInit, QuietInv, PadsQuiet, AudioQuiet, BridgeQuiet, Down

LEMMA StepQuietInv == /\ TypeInv /\ MachineInv /\ QuietInv
                      /\ [SessionNext]_sessionVars
                      => QuietInv'
<1> SUFFICES ASSUME Typed, OnlyStarts, MachineInv, QuietInv, [SessionNext]_sessionVars
             PROVE  QuietInv'
  BY DEF TypeInv
<1> USE DEF QuietInv, PadsQuiet, AudioQuiet, BridgeQuiet, Down
<1>1. CASE Begun
  <2>1. phase' = "pads off"
    BY <1>1 DEF Begun, Restart, LoadCart, Stop, Call
  <2> QED BY <2>1
<1>2. CASE PadsOff
  <2>1. phase' = "audio off" /\ pads' = FALSE
    BY <1>2 DEF PadsOff, GoTo
  <2> QED BY <2>1
<1>11. CASE AudioOff
  <2>1. phase = "audio off" /\ phase' = "host off" /\ audio' = "off" /\ pads' = pads
    BY <1>11 DEF AudioOff, At, GoTo
  <2> QED BY <2>1
<1>12. CASE HostOff \/ Join
  <2>1. phase \in {"host off", "join"} /\ phase' \in {"join", "fujinet off"}
    BY <1>12 DEF HostOff, Join, At, GoTo
  <2>2. UNCHANGED <<audio, pads>>
    BY <1>12 DEF HostOff, Join, soundVars
  <2> QED BY <2>1, <2>2
<1>3. CASE FujiNetOff
  <2>1. ~bridge' /\ UNCHANGED <<live, running, audio, pads, starting, up>>
    BY <1>3 DEF FujiNetOff, BridgeStopped, GoTo, hostVars
  <2>2. phase = "fujinet off" /\ phase' \in {"check", "idle"}
    BY <1>3 DEF FujiNetOff, At, GoTo
  <2> QED BY <2>1, <2>2 DEF MachineInv, NoMachineYet
<1>4. CASE Check \/ LinkExternal
  <2>1. UNCHANGED <<live, running, audio, pads, bridge>>
    BY <1>4 DEF Check, LinkExternal, hostVars, soundVars, bridgeVars
  <2>2. phase \in {"check", "link"} /\ phase' \in {"link", "host on", "idle"}
    BY <1>4 DEF Check, LinkExternal, At, GoTo, Fail
  <2> QED BY <2>1, <2>2 DEF MachineInv, NoMachineYet
<1>5. CASE LinkOwn
  <2>1. UNCHANGED <<audio, pads>> /\ phase = "link" /\ phase' = "host on"
    BY <1>5 DEF LinkOwn, At, GoTo, soundVars
  <2> QED BY <2>1
<1>6. CASE HostRefused
  <2>1. ~bridge' /\ UNCHANGED <<live, running, audio, pads>>
    BY <1>6 DEF HostRefused, Unstarted, BridgeStopped
  <2>2. phase = "host on" /\ phase' = "idle"
    BY <1>6 DEF HostRefused, Unstarted, Fail, At, GoTo
  <2> QED BY <2>1, <2>2 DEF MachineInv, NoMachineYet
<1>7. CASE HostOn
  <2>1. UNCHANGED <<audio, pads>> /\ phase = "host on" /\ phase' = "pads on"
    BY <1>7 DEF HostOn, At, GoTo, soundVars
  <2> QED BY <2>1
<1>13. CASE PadsOn
  <2>1. audio' = audio /\ phase = "pads on" /\ phase' = "audio open"
    BY <1>13 DEF PadsOn, At, GoTo, soundVars
  <2> QED BY <2>1
<1>8. CASE AudioOpen \/ AudioOn
  <2>1. phase' = "audio on" \/ (phase' = "idle" /\ up' = TRUE)
    BY <1>8 DEF AudioOpen, AudioOn, GoTo, Started
  <2> QED BY <2>1
<1>9. CASE Meanwhile
  <2>1. UNCHANGED <<phase, up, audio, bridge, pads>>
    BY <1>9 DEF Meanwhile, SetUp, Sound, End, Speak, Play, ResetGame, callVars, soundVars, bridgeVars
  <2>2. live' \subseteq live /\ running' \in {running, FALSE}
    BY <1>9 DEF Meanwhile, SetUp, Sound, End, Speak, Play, ResetGame, hostVars
  <2>3. Down'
    <3> SUFFICES ASSUME phase = "idle", ~up
                 PROVE  /\ live' = {} /\ ~running' /\ ~bridge'
                        /\ audio' = "off" /\ ~pads'
      BY <2>1
    <3>1. live = {} /\ running' = FALSE
      BY <2>2 DEF Typed, Machinish
    <3>2. live' = {}
      BY <2>2, <3>1
    <3> QED BY <2>1, <3>1, <3>2
  <2>4. PadsQuiet' /\ AudioQuiet' /\ BridgeQuiet'
    BY <2>1
  <2> HIDE DEF PadsQuiet, AudioQuiet, BridgeQuiet, Down
  <2> QED BY <2>3, <2>4
<1>10. CASE UNCHANGED sessionVars
  BY <1>10 DEF sessionVars, callVars, hostVars, soundVars, bridgeVars
<1> QED BY <1>1, <1>2, <1>3, <1>4, <1>5, <1>6, <1>7, <1>8, <1>9, <1>10, <1>11, <1>12, <1>13, Steps DEF Phased

LEMMA QuietAlways == SessionSpec => [](MachineInv /\ QuietInv)
<1>1. SessionInit => MachineInv /\ QuietInv
  BY InitMachineInv, InitQuietInv
<1>2. TypeInv /\ MachineInv /\ QuietInv /\ [SessionNext]_sessionVars => (MachineInv /\ QuietInv)'
  BY StepMachineInv, StepQuietInv
<1> QED BY <1>1, <1>2, TypeAlways, PTL DEF SessionSpec

\* Whichever phase of intvsession_start failed, and however the machine before
\* it ended, a session that is not up has no machine, no FujiNet, no audio
\* device and no gamepad thread.
THEOREM DownAlways == SessionSpec => []DownIsDown
<1>1. QuietInv => DownIsDown
  BY DEF QuietInv, Down, DownIsDown, Idle
<1> QED BY <1>1, QuietAlways, PTL

-----------------------------------------------------------------------------
(* Only its own sound.                                                     *)

\* The ring holds the present machine's samples while the device plays, and
\* the FujiNet has words only for the present machine.
RingInv == audio = "playing" => samples \in Seq({gen})
VoiceInv == /\ voice # 0 => bridge /\ voice = gen
            /\ phase = "host on" => voice = 0
SoundInv == RingInv /\ VoiceInv

LEMMA OwnRing ==
    ASSUME NEW g
    PROVE  /\ <<>> \in Seq({g})
           /\ \A s \in Seq({g}) : Append(s, g) \in Seq({g})
           /\ \A s \in Seq({g}) : s # <<>> => Tail(s) \in Seq({g})
           /\ \A s \in Seq({g}) : \A i \in DOMAIN s : s[i] = g
OBVIOUS

LEMMA InitSoundInv == SessionInit => SoundInv
BY DEF SessionInit, SoundInv, RingInv, VoiceInv

LEMMA StepRingInv == /\ TypeInv /\ MachineInv /\ QuietInv /\ RingInv
                     /\ [SessionNext]_sessionVars
                     => RingInv'
<1> SUFFICES ASSUME Typed, MachineInv, QuietInv, RingInv, [SessionNext]_sessionVars,
                    audio' = "playing"
             PROVE  samples' \in Seq({gen'})
  BY DEF TypeInv, RingInv
<1>1. CASE AudioOn
  <2>1. samples' = <<>>
    BY <1>1 DEF AudioOn
  <2> QED BY <2>1, OwnRing
<1>2. CASE HostOn
  <2>1. audio' = audio /\ phase = "host on"
    BY <1>2 DEF HostOn, At, soundVars
  <2> QED BY <2>1 DEF QuietInv, AudioQuiet
<1>3. CASE (Begun \/ Phased) /\ ~AudioOn /\ ~HostOn
  <2>1. UNCHANGED <<samples, gen>>
    BY <1>3 DEF Begun, Restart, LoadCart, Stop, Call, Phased, PadsOff, AudioOff, HostOff, Join, FujiNetOff,
                Check, LinkExternal, LinkOwn, HostRefused, Unstarted, PadsOn, AudioOpen, hostVars, soundVars
  <2>2. audio = "playing"
    BY <1>3 DEF Begun, Restart, LoadCart, Stop, Call, Phased, PadsOff, AudioOff, HostOff, Join, FujiNetOff,
                Check, LinkExternal, LinkOwn, HostRefused, PadsOn, AudioOpen, soundVars
  <2> QED BY <2>1, <2>2 DEF RingInv
<1>4. CASE Meanwhile
  <2>1. audio = "playing" /\ gen' = gen
    BY <1>4 DEF Meanwhile, SetUp, Sound, End, Speak, Play, ResetGame, hostVars, soundVars
  <2>2. samples \in Seq({gen})
    BY <2>1 DEF RingInv
  <2>3. \A m \in live : m = gen
    BY DEF MachineInv, OneMachine
  <2>4. CASE \E m \in live : Sound(m)
    <3>1. samples' = IF Len(samples) < RingMax THEN Append(samples, gen) ELSE Append(Tail(samples), gen)
      BY <2>3, <2>4 DEF Sound
    <3>2. RingMax \in Nat \ {0}
      BY SessionAssumption
    <3>3. Len(samples) >= RingMax => samples # <<>>
      BY <2>2, <3>2
    <3>4. CASE Len(samples) < RingMax
      BY <2>1, <2>2, <3>1, <3>4, OwnRing
    <3>5. CASE ~(Len(samples) < RingMax)
      <4>1. samples # <<>>
        BY <2>2, <3>2, <3>3, <3>5
      <4>2. Tail(samples) \in Seq({gen})
        BY <2>2, <4>1, OwnRing
      <4> QED BY <2>1, <3>1, <3>5, <4>2, OwnRing
    <3> QED BY <3>4, <3>5
  <2>5. CASE Play
    <3>1. samples # <<>> /\ samples' = Tail(samples)
      BY <2>5 DEF Play
    <3> QED BY <2>1, <2>2, <3>1, OwnRing
  <2>6. CASE ResetGame
    BY <2>6, OwnRing DEF ResetGame
  <2>7. CASE \E m \in live : SetUp(m) \/ End(m) \/ Speak(m)
    BY <2>1, <2>2, <2>7 DEF SetUp, End, Speak, soundVars
  <2> QED BY <1>4, <2>4, <2>5, <2>6, <2>7 DEF Meanwhile
<1>5. CASE UNCHANGED sessionVars
  BY <1>5 DEF sessionVars, hostVars, soundVars, RingInv
<1> QED BY <1>1, <1>2, <1>3, <1>4, <1>5, Steps

LEMMA StepVoiceInv == /\ TypeInv /\ MachineInv /\ QuietInv /\ VoiceInv
                      /\ [SessionNext]_sessionVars
                      => VoiceInv'
<1> SUFFICES ASSUME Typed, MachineInv, QuietInv, VoiceInv, [SessionNext]_sessionVars
             PROVE  VoiceInv'
  BY DEF TypeInv
<1>0. voice \in Voices /\ bridge \in BOOLEAN
  BY DEF Typed, Soundish, Bridgish
<1>1. CASE FujiNetOff \/ HostRefused
  <2>1. ~bridge' /\ voice' = IF bridge THEN 0 ELSE voice
    BY <1>1 DEF FujiNetOff, HostRefused, Unstarted, BridgeStopped
  <2>2. voice' = 0
    BY <1>0, <2>1 DEF VoiceInv
  <2> QED BY <2>1, <2>2 DEF VoiceInv
<1>2. CASE Check \/ LinkExternal \/ LinkOwn
  <2>1. voice' = voice /\ phase \in {"check", "link"}
    BY <1>2 DEF Check, LinkExternal, LinkOwn, At, soundVars
  <2>2. voice' = 0
    BY <2>1 DEF VoiceInv, QuietInv, BridgeQuiet
  <2> QED BY <2>2 DEF VoiceInv
<1>3. CASE HostOn
  <2>1. voice' = voice /\ phase = "host on"
    BY <1>3 DEF HostOn, At, soundVars
  <2> QED BY <2>1 DEF VoiceInv
<1>4. CASE Begun \/ PadsOff \/ AudioOff \/ HostOff \/ Join \/ PadsOn \/ AudioOpen \/ AudioOn
  <2>1. UNCHANGED <<voice, bridge, gen>>
    BY <1>4 DEF Begun, Restart, LoadCart, Stop, Call, PadsOff, AudioOff, HostOff, Join, PadsOn, AudioOpen,
                AudioOn, hostVars, soundVars, bridgeVars
  <2>2. phase' # "host on"
    BY <1>4 DEF Begun, Restart, LoadCart, Stop, Call, PadsOff, AudioOff, HostOff, Join, PadsOn, AudioOpen,
                AudioOn, GoTo, Started
  <2> QED BY <2>1, <2>2 DEF VoiceInv
<1>5. CASE Meanwhile
  <2>1. UNCHANGED <<phase, gen, bridge>>
    BY <1>5 DEF Meanwhile, SetUp, Sound, End, Speak, Play, ResetGame, callVars, hostVars, bridgeVars
  <2>2. voice' \in {voice, 0} \/ (bridge /\ \E m \in live : voice' = m)
    BY <1>5 DEF Meanwhile, SetUp, Sound, End, Speak, Play, ResetGame, soundVars
  <2> QED BY <2>1, <2>2 DEF VoiceInv, MachineInv, OneMachine, NoMachineYet
<1>6. CASE UNCHANGED sessionVars
  BY <1>6 DEF sessionVars, callVars, hostVars, soundVars, bridgeVars, VoiceInv
<1> QED BY <1>1, <1>2, <1>3, <1>4, <1>5, <1>6, Steps DEF Phased

\* audio_start empties the ring before the device plays, and fujinet_stop the
\* FujiNet's samples: across any number of restarts and of machines that end
\* by themselves, no sample and no word of the machine before is heard.
THEOREM OwnSoundAlways == SessionSpec => []SoundIsOwn
<1>1. /\ TypeInv /\ (MachineInv /\ QuietInv) /\ SoundInv
      /\ [SessionNext]_sessionVars
      => SoundInv'
  BY StepRingInv, StepVoiceInv DEF SoundInv
<1>2. SessionSpec => []SoundInv
  BY <1>1, InitSoundInv, TypeAlways, QuietAlways, PTL DEF SessionSpec
<1>3. SoundInv => SoundIsOwn
  <2> SUFFICES ASSUME SoundInv, audio = "playing"
               PROVE  (\A i \in DOMAIN samples : samples[i] = gen) /\ (bridge => voice \in {0, gen})
    BY DEF SoundIsOwn
  <2>1. samples \in Seq({gen})
    BY DEF SoundInv, RingInv
  <2>2. \A i \in DOMAIN samples : samples[i] = gen
    BY <2>1, OwnRing
  <2>3. voice # 0 => voice = gen
    BY DEF SoundInv, VoiceInv
  <2> QED BY <2>2, <2>3
<1> QED BY <1>2, <1>3, PTL

-----------------------------------------------------------------------------
(***************************************************************************)
(* Its sound.                                                              *)
(***************************************************************************)

\* A set of numbers has a least one.
LEMMA WellOrdered ==
  ASSUME NEW T \in SUBSET Nat, T # {}
  PROVE \E x \in T : \A y \in T : x <= y
<1>1. IsWellFoundedOn(OpToRel(<, Nat), Nat) BY NatLessThanWellFounded
<1>2. PICK x \in T : \A y \in T : <<y, x>> \notin OpToRel(<, Nat)
  <2> HIDE DEF OpToRel, IsWellFoundedOn
  <2> QED BY <1>1, WFMin
<1>3. \A y \in T : ~ (y < x)
  BY <1>2, Zenon DEF OpToRel
<1> QED BY <1>3, SMT

LEMMA MinIs ==
    ASSUME NEW T \in SUBSET Nat, T # {}
    PROVE  Min(T) \in T /\ \A y \in T : Min(T) <= y
<1>1. \E x \in T : \A y \in T : x <= y
  BY WellOrdered
<1> QED BY <1>1 DEF Min

\* The lesser of two numbers.
LEMMA MinOfTwo ==
    ASSUME NEW a \in Nat, NEW b \in Nat
    PROVE  /\ Min({a, b}) \in Nat /\ Min({a, b}) <= a /\ Min({a, b}) <= b
           /\ Min({a, b}) = a \/ Min({a, b}) = b
<1>1. {a, b} \in SUBSET Nat /\ {a, b} # {}
  OBVIOUS
<1>2. Min({a, b}) \in {a, b} /\ \A y \in {a, b} : Min({a, b}) <= y
  BY <1>1, MinIs
<1> HIDE DEF Min
<1> QED BY <1>2

\* Positions of the ring, one turn back or ahead.
Wrap(i) == IF i < 0 THEN i + Capacity ELSE IF i < Capacity THEN i ELSE i - Capacity

\* The sizes are positive, and fit.
LEMMA AudioSizes ==
    /\ Capacity \in Nat \ {0} /\ BufSize \in Nat \ {0} /\ BufSize <= Capacity
    /\ BufCnt \in Nat \ {0} /\ Request \in Nat \ {0}
    /\ Target \in Nat \ {0} /\ HighWater \in Nat /\ Target <= HighWater /\ HighWater <= Capacity
BY AudioAssumption

\* Between those, the remainder is one turn.
LEMMA WrapIs ==
    ASSUME NEW i \in Int, - Capacity <= i, i < 2 * Capacity
    PROVE  i % Capacity = Wrap(i) /\ Wrap(i) \in 0 .. Capacity - 1
<1>1. \A c \in Nat \ {0} : \A a \in 0 .. c - 1 : a % c = a
  BY SMT
<1>2. \A c \in Nat \ {0} : \A a \in c .. 2 * c - 1 : a % c = a - c
  BY SMT
<1>3. \A c \in Nat \ {0} : \A a \in Int : - c <= a /\ a < 0 => a % c = a + c
  BY SMT
<1>4. Capacity \in Nat \ {0}
  BY AudioSizes
<1>5. CASE i < 0
  BY <1>3, <1>4, <1>5 DEF Wrap
<1>6. CASE 0 <= i /\ i < Capacity
  <2>1. i \in 0 .. Capacity - 1
    BY <1>4, <1>6
  <2>2. i % Capacity = i
    BY <1>1, <1>4, <2>1
  <2> QED BY <1>6, <2>1, <2>2 DEF Wrap
<1>7. CASE Capacity <= i
  <2>1. i \in Capacity .. 2 * Capacity - 1
    BY <1>4, <1>7
  <2>2. i % Capacity = i - Capacity
    BY <1>2, <1>4, <2>1
  <2> QED BY <1>4, <1>7, <2>1, <2>2 DEF Wrap
<1> QED BY <1>4, <1>5, <1>6, <1>7

\* The samples that wait in the ring are the last ones that were published,
\* each in its place.
PlacesInv == /\ head \in 0 .. Capacity - 1 /\ count \in 0 .. Capacity
           /\ published \in Nat /\ count <= published
           /\ \A j \in 1 .. count : ring[Wrap(head - j)].at = published - j + 1

\* What the stream sees: the samples sent, the ones gone, the last answer.
streamVars == <<published, published - count, heard>>

LEMMA InitPlacesInv == AudioInit => PlacesInv
BY AudioSizes DEF AudioInit, PlacesInv

\* Publishing a buffer keeps the newest samples, each in its place.
LEMMA PublishRing ==
    ASSUME PlacesInv, NEW of, Publish(of)
    PROVE  /\ PlacesInv' /\ published' > published
           /\ published' - count' \in (published - count) .. published'
<1> DEFINE h == head
           n == published
<1>1. /\ h \in Nat /\ h < Capacity /\ count \in Nat /\ count <= Capacity /\ n \in Nat
      /\ count <= n
  BY AudioSizes DEF PlacesInv
<1>2. /\ Capacity \in Nat /\ BufSize \in Nat /\ 0 < BufSize /\ BufSize <= Capacity
  BY AudioSizes
<1>3. /\ count' \in Nat /\ count' <= count + BufSize /\ count' <= Capacity
      /\ count' = count + BufSize \/ count' = Capacity
  <2>1. count + BufSize \in Nat /\ count' = Min({count + BufSize, Capacity})
    BY <1>1, <1>2 DEF Publish
  <2> QED BY <1>2, <2>1, MinOfTwo
<1>4. n' = n + BufSize
  BY DEF Publish
<1>5. h' = Wrap(h + BufSize) /\ h' \in 0 .. Capacity - 1
  <2>1. h' = (h + BufSize) % Capacity
    BY DEF Publish
  <2>2. h + BufSize \in Int /\ - Capacity <= h + BufSize /\ h + BufSize < 2 * Capacity
    BY <1>1, <1>2
  <2> HIDE DEF h
  <2> QED BY <2>1, <2>2, WrapIs
<1>6. ASSUME NEW i \in 0 .. Capacity - 1
      PROVE  ring'[i] = IF Wrap(i - h) < BufSize
                        THEN [at |-> n + Wrap(i - h) + 1, of |-> of] ELSE ring[i]
  <2>1. (i - h) % Capacity = Wrap(i - h)
    BY <1>1, <1>2, WrapIs
  <2> QED BY <2>1 DEF Publish
<1> HIDE DEF h, n
<1>7. ASSUME NEW j \in 1 .. count' PROVE ring'[Wrap(h' - j)].at = n' - j + 1
  <2> DEFINE i == Wrap(h' - j)
  <2>1. j \in Nat /\ 1 <= j /\ j <= Capacity /\ j <= count + BufSize
    BY <1>1, <1>2, <1>3
  <2>2. i \in 0 .. Capacity - 1
    BY <1>2, <1>5, <2>1 DEF Wrap
  <2>3. CASE j <= BufSize
    <3>1. Wrap(i - h) = BufSize - j
      BY <1>1, <1>2, <1>5, <2>1, <2>3 DEF Wrap
    <3> HIDE DEF i
    <3>2. ring'[i] = [at |-> n + (BufSize - j) + 1, of |-> of]
      BY <1>2, <1>6, <2>1, <2>2, <3>1
    <3>3. ring'[i].at = n + (BufSize - j) + 1
      BY <3>2
    <3> QED BY <1>1, <1>2, <1>4, <2>1, <3>3 DEF i
  <2>4. CASE j > BufSize
    <3>1. Wrap(i - h) = BufSize - j + Capacity /\ i = Wrap(h - (j - BufSize))
      BY <1>1, <1>2, <1>5, <2>1, <2>4 DEF Wrap
    <3>2. ~(Wrap(i - h) < BufSize)
      BY <1>2, <2>1, <3>1
    <3>3. ring'[i] = ring[Wrap(h - (j - BufSize))]
      <4> HIDE DEF i
      <4> QED BY <1>6, <2>2, <3>1, <3>2
    <3>4. j - BufSize \in 1 .. count
      BY <1>1, <1>2, <2>1, <2>4
    <3>5. ring[Wrap(h - (j - BufSize))].at = n - (j - BufSize) + 1
      BY <3>4 DEF PlacesInv, h, n
    <3> QED BY <1>1, <1>2, <1>4, <2>1, <3>3, <3>5
  <2> QED BY <1>2, <2>1, <2>3, <2>4
<1>8. /\ published \in Nat /\ count \in Nat /\ count <= published /\ count <= Capacity
      /\ published' = published + BufSize
  BY <1>1, <1>4 DEF n
<1>9. published' \in Nat /\ published' > published
  BY <1>2, <1>8
<1>10. count' \in 0 .. Capacity /\ count' <= published'
  <2>1. count' <= count + BufSize /\ count + BufSize <= published'
    BY <1>2, <1>3, <1>8
  <2> QED BY <1>2, <1>3, <1>8, <1>9, <2>1
<1>11. published' - count' \in (published - count) .. published'
  <2>1. count' <= count + BufSize /\ count' \in Nat
    BY <1>3
  <2>2. \A a, b, c, p, q \in Nat : p <= b + c /\ q = a + c => a - b <= q - p
    OBVIOUS
  <2>3. published - count <= published' - count'
    BY <1>2, <1>8, <1>9, <2>1, <2>2
  <2>4. published' - count' <= published' /\ published - count \in Int /\ published' - count' \in Int
    BY <1>8, <1>9, <2>1
  <2> QED BY <1>9, <2>3, <2>4
<1>12. PlacesInv'
  BY <1>5, <1>7, <1>9, <1>10 DEF PlacesInv, h, n
<1> QED BY <1>9, <1>11, <1>12

\* What is left when a backlog is cut.
LEMMA TrimmedIs == PlacesInv => Trimmed \in 0 .. count
BY AudioSizes DEF PlacesInv, Trimmed

\* An answer is the samples from the oldest one in the ring on.
LEMMA CopyRing ==
    ASSUME PlacesInv, NEW max \in Nat, Copy(max)
    PROVE  /\ PlacesInv' /\ published' = published
           /\ LET from == published - Trimmed
              IN  \E n \in 0 .. Trimmed : /\ heard' = (from + 1) .. (from + n)
                                          /\ published' - count' = from + n
<1> DEFINE t == Trimmed
           from == published - t
<1>1. /\ t \in Nat /\ t <= count /\ count \in Nat /\ count <= Capacity /\ published \in Nat
      /\ count <= published /\ head \in Nat /\ head < Capacity /\ Capacity \in Nat
  BY TrimmedIs, AudioSizes DEF PlacesInv
<1>2. UNCHANGED <<ring, head, published>>
  BY DEF Copy
<1>3. ASSUME NEW n \in 0 .. t, count' = t - n PROVE PlacesInv'
  <2>1. count' \in 0 .. count
    <3> HIDE DEF t
    <3> QED BY <1>1, <1>3
  <2>2. \A j \in 1 .. count' : j \in 1 .. count
    BY <1>1, <2>1
  <2> QED BY <1>1, <1>2, <2>1, <2>2 DEF PlacesInv
<1>4. ASSUME NEW i \in 0 .. t - 1
      PROVE  ring[(head - t + i) % Capacity].at = from + i + 1
  <2> HIDE DEF t
  <2>1. t - i \in 1 .. count /\ head - t + i = head - (t - i)
    BY <1>1
  <2>2. (head - t + i) % Capacity = Wrap(head - (t - i))
    BY <1>1, <2>1, WrapIs
  <2>3. ring[Wrap(head - (t - i))].at = published - (t - i) + 1
    BY <2>1 DEF PlacesInv
  <2> QED BY <1>1, <2>2, <2>3
<1>5. CASE ~primed /\ t < Target
  <2>1. count' = t /\ heard' = {}
    BY <1>5 DEF Copy
  <2> HIDE DEF t
  <2>2. heard' = (from + 1) .. (from + 0) /\ published' - count' = from + 0 /\ 0 \in 0 .. t
    BY <1>1, <1>2, <2>1
  <2>3. PlacesInv'
    BY <1>1, <1>3, <2>1
  <2> QED BY <1>2, <2>2, <2>3 DEF t
<1>6. CASE ~(~primed /\ t < Target)
  <2> DEFINE n == Min({max, t})
  <2>1. n \in 0 .. t
    <3> HIDE DEF t
    <3> QED BY <1>1, MinOfTwo
  <2>2. /\ heard' = {ring[(head - t + i) % Capacity].at : i \in 0 .. n - 1}
        /\ count' = t - n
    BY <1>6 DEF Copy
  <2> HIDE DEF n, t
  <2>3. \A i \in 0 .. n - 1 : ring[(head - t + i) % Capacity].at = from + i + 1
    <3>1. \A i \in 0 .. n - 1 : i \in 0 .. t - 1
      BY <1>1, <2>1
    <3> HIDE DEF from
    <3> QED BY <1>4, <3>1
  <2>4. {ring[(head - t + i) % Capacity].at : i \in 0 .. n - 1} = {from + i + 1 : i \in 0 .. n - 1}
    BY <2>3
  <2>5. {from + i + 1 : i \in 0 .. n - 1} = (from + 1) .. (from + n)
    <3>1. from \in Nat /\ n \in Nat
      BY <1>1, <2>1
    <3> HIDE DEF from
    <3>2. \A x \in (from + 1) .. (from + n) : x - from - 1 \in 0 .. n - 1 /\ x = from + (x - from - 1) + 1
      BY <3>1
    <3>3. \A i \in 0 .. n - 1 : from + i + 1 \in (from + 1) .. (from + n)
      BY <3>1
    <3> QED BY <3>2, <3>3
  <2>6. published' - count' = from + n
    BY <1>1, <1>2, <2>1, <2>2
  <2> HIDE DEF from
  <2> QED BY <1>2, <1>3, <2>1, <2>2, <2>4, <2>5, <2>6 DEF from, t
<1> QED BY <1>5, <1>6

LEMMA KeptRing == PlacesInv /\ UNCHANGED <<ringVars, published, heard>>
                  => PlacesInv' /\ UNCHANGED streamVars
BY DEF PlacesInv, ringVars, streamVars

\* Each step is one of the lossy stream's, or one it does not see.
LEMMA StepStream ==
    ASSUME PlacesInv, [AudioNext]_audioVars
    PROVE  PlacesInv' /\ [Stream!Next]_streamVars
<1> USE DEF streamVars
<1>1. CASE \E s \in Chips : Fill(s)
  BY <1>1, KeptRing DEF Fill
<1>2. CASE TickBegin \/ Reclaim
  BY <1>2, KeptRing DEF TickBegin, Reclaim
<1>3. CASE MixOne
  <2>1. PICK of : Publish(of)
    BY <1>3 DEF MixOne
  <2>2. heard' = heard
    BY <1>3 DEF MixOne
  <2>3. published' \in Nat
    BY <2>1, PublishRing DEF PlacesInv
  <2> QED BY <2>1, <2>2, <2>3, PublishRing DEF Stream!Next, Stream!Send
<1>4. CASE Device
  <2>1. PICK max \in Nat : Copy(max)
    BY <1>4, AudioSizes DEF Device
  <2> DEFINE from == published - Trimmed
  <2>2. PICK n \in 0 .. Trimmed : /\ heard' = (from + 1) .. (from + n)
                                  /\ published' - count' = from + n
    BY <2>1, CopyRing
  <2>3. PlacesInv' /\ published' = published
    BY <2>1, CopyRing
  <2>4. from \in (published - count) .. published /\ from + n \in from .. published
    <3>1. Trimmed \in 0 .. count /\ count \in Nat /\ published \in Nat /\ count <= published
      BY TrimmedIs DEF PlacesInv
    <3> HIDE DEF Trimmed
    <3> QED BY <3>1
  <2>5. Stream!Listen
    <3> HIDE DEF from
    <3> QED BY <2>2, <2>3, <2>4 DEF Stream!Listen
  <2> QED BY <2>3, <2>5 DEF Stream!Next
<1>5. CASE ResetRing
  <2>1. head' = 0 /\ count' = 0 /\ published' = published /\ heard' = heard
    BY <1>5 DEF ResetRing
  <2>2. PlacesInv'
    BY <2>1, AudioSizes DEF PlacesInv
  <2>3. published' - count' \in (published - count) .. published
    BY <2>1 DEF PlacesInv
  <2> QED BY <2>1, <2>2, <2>3 DEF Stream!Next, Stream!Skip
<1>6. CASE UNCHANGED audioVars
  BY <1>6, KeptRing DEF audioVars
<1> QED BY <1>1, <1>2, <1>3, <1>4, <1>5, <1>6 DEF AudioNext

\* The device's thread hears what the emulator thread published as a lossy
\* stream passes it on: in order, nothing twice, gaps only at the front of
\* what waits (intv_audio.c's publish, copy, trim and reset).
THEOREM StreamAlways == AudioSpec => StreamSpec
<1>1. AudioInit => Stream!Init
  BY DEF AudioInit, Stream!Init
<1>2. PlacesInv /\ [AudioNext]_audioVars => [Stream!Next]_streamVars
  BY StepStream
<1>3. PlacesInv /\ [AudioNext]_audioVars => PlacesInv'
  BY StepStream
<1> QED
  BY <1>1, <1>2, <1>3, InitPlacesInv, PTL DEF AudioSpec, StreamSpec, Stream!Spec, streamVars

-----------------------------------------------------------------------------
\* The places a buffer can be in: a set of free buffers, or one of the
\* places of a chip's filled ones.
Owners == Chips \cup {Mixer}
In(b, o, i) == \/ i = 0 /\ b \in clean[o]
               \/ i > 0 /\ o \in Chips /\ i \in DOMAIN dirtied[o] /\ dirtied[o][i] = b

BufTypes == /\ srcs \in SUBSET Chips /\ srcs # {} /\ at \in Nat
            /\ clean \in [Owners -> SUBSET Buffers]
            /\ dirtied \in [Chips -> Seq(Buffers)]
\* No buffer is lost, none is in two places, and each chip and the mixer has
\* as many as it began with.
Somewhere == \A b \in Buffers : \E o \in Owners, i \in Nat : In(b, o, i)
Once == \A b \in Buffers : \A o \in Owners, q \in Owners, i \in Nat, j \in Nat :
               In(b, o, i) /\ In(b, q, j) => o = q /\ i = j
Counted == /\ \A o \in Owners : IsFiniteSet(clean[o])
           /\ \A s \in Chips : Cardinality(clean[s]) + Len(dirtied[s]) = BufCnt
           /\ Cardinality(clean[Mixer]) = BufCnt
BufInv == BufTypes /\ Somewhere /\ Once /\ Counted

\* snd_tick mixes no more buffers than each chip has filled.
LEMMA ReadyIs ==
    ASSUME BufTypes
    PROVE  Ready \in Nat /\ \A s \in srcs : Ready <= Len(dirtied[s])
<1> DEFINE T == {Len(dirtied[s]) : s \in srcs}
<1>1. \A s \in srcs : Len(dirtied[s]) \in Nat
  BY DEF BufTypes
<1>2. T \in SUBSET Nat /\ T # {}
  BY <1>1 DEF BufTypes
<1>3. Min(T) \in T /\ \A y \in T : Min(T) <= y
  <2> HIDE DEF T
  <2> QED BY <1>2, MinIs
<1> QED BY <1>2, <1>3 DEF Ready

LEMMA InitBufInv == AudioInit => BufInv
<1> SUFFICES ASSUME AudioInit PROVE BufInv
  OBVIOUS
<1>1. /\ clean = [o \in Owners |-> {o} \X (1 .. BufCnt)] /\ dirtied = [s \in Chips |-> <<>>]
      /\ at = 0 /\ srcs \in SUBSET Chips /\ srcs # {}
  <2>1. clean = [o \in Owners |-> {o} \X (1 .. BufCnt)] /\ dirtied = [s \in Chips |-> <<>>]
    BY Zenon DEF AudioInit, Owners, Owned
  <2>2. at = 0 /\ srcs \in SUBSET Chips /\ srcs # {}
    BY DEF AudioInit
  <2> QED BY <2>1, <2>2
<1>2. BufTypes
  <2>1. \A o \in Owners : {o} \X (1 .. BufCnt) \in SUBSET Buffers
    BY DEF Buffers, Owners
  <2>2. <<>> \in Seq(Buffers)
    OBVIOUS
  <2> QED BY <1>1, <2>1, <2>2 DEF BufTypes
<1>3. \A b, o, i : o \in Owners /\ In(b, o, i) <=> o \in Owners /\ i = 0 /\ b \in {o} \X (1 .. BufCnt)
  BY <1>1 DEF In
<1>4. Somewhere
  <2> SUFFICES ASSUME NEW b \in Buffers PROVE \E o \in Owners, i \in Nat : In(b, o, i)
    BY DEF Somewhere
  <2>1. b[1] \in Owners /\ b \in {b[1]} \X (1 .. BufCnt)
    BY DEF Buffers, Owners
  <2> QED BY <1>3, <2>1
<1>5. Once
  <2>1. \A b, o, q : b \in {o} \X (1 .. BufCnt) /\ b \in {q} \X (1 .. BufCnt) => o = q
    OBVIOUS
  <2> QED BY <1>3, <2>1 DEF Once
<1>6. \A o \in Owners : IsFiniteSet(clean[o]) /\ Cardinality(clean[o]) = BufCnt
  <2> TAKE o \in Owners
  <2>1. BufCnt \in Nat
    BY AudioSizes
  <2>2. /\ IsFiniteSet({o}) /\ Cardinality({o}) = 1
        /\ IsFiniteSet(1 .. BufCnt) /\ Cardinality(1 .. BufCnt) = BufCnt
    <3>1. IsFiniteSet({o}) /\ Cardinality({o}) = 1
      BY FS_Singleton
    <3>2. /\ IsFiniteSet(1 .. BufCnt)
          /\ Cardinality(1 .. BufCnt) = IF 1 > BufCnt THEN 0 ELSE BufCnt - 1 + 1
      BY <2>1, FS_Interval
    <3> QED BY <2>1, <3>1, <3>2
  <2>3. /\ IsFiniteSet({o} \X (1 .. BufCnt))
        /\ Cardinality({o} \X (1 .. BufCnt)) = Cardinality({o}) * Cardinality(1 .. BufCnt)
    BY <2>2, FS_Product
  <2>4. 1 * BufCnt = BufCnt
    BY <2>1
  <2> QED BY <1>1, <2>2, <2>3, <2>4
<1>7. Counted
  <2>1. \A s \in Chips : Len(dirtied[s]) = 0 /\ s \in Owners
    BY <1>1 DEF Owners
  <2>2. BufCnt + 0 = BufCnt /\ Mixer \in Owners
    BY AudioSizes DEF Owners
  <2> QED BY <1>6, <2>1, <2>2 DEF Counted
<1> QED BY <1>2, <1>4, <1>5, <1>7 DEF BufInv

\* A free buffer of a chip becomes its last filled one.
LEMMA FillBuf == ASSUME BufInv, NEW s \in Chips, Fill(s) PROVE BufInv'
<1>1. PICK b \in clean[s] : /\ clean' = [clean EXCEPT ![s] = @ \ {b}]
                            /\ dirtied' = [dirtied EXCEPT ![s] = Append(@, b)]
  BY DEF Fill
<1>2. /\ s \in Owners /\ b \in Buffers /\ UNCHANGED <<srcs, at>> /\ Mixer # s
      /\ clean \in [Owners -> SUBSET Buffers] /\ dirtied \in [Chips -> Seq(Buffers)]
  BY AudioAssumption DEF BufInv, BufTypes, Owners, Fill
<1> DEFINE d == dirtied[s]
           n == Len(d)
<1>3. d \in Seq(Buffers) /\ n \in Nat
  BY <1>2
<1> HIDE DEF d, n
<1>4. /\ dirtied'[s] = Append(d, b) /\ \A q \in Chips \ {s} : dirtied'[q] = dirtied[q]
      /\ clean'[s] = clean[s] \ {b} /\ \A q \in Owners \ {s} : clean'[q] = clean[q]
  BY <1>1, <1>2 DEF d
<1>5. /\ Len(Append(d, b)) = n + 1 /\ Append(d, b)[n + 1] = b
      /\ DOMAIN Append(d, b) = 1 .. n + 1 /\ DOMAIN d = 1 .. n
      /\ \A i \in 1 .. n : Append(d, b)[i] = d[i]
      /\ Append(d, b) \in Seq(Buffers)
  BY <1>2, <1>3 DEF n
<1>6. BufTypes'
  <2>1. clean' \in [Owners -> SUBSET Buffers]
    BY <1>1, <1>2
  <2>2. dirtied' \in [Chips -> Seq(Buffers)]
    BY <1>1, <1>2, <1>4, <1>5
  <2> QED BY <1>2, <2>1, <2>2 DEF BufInv, BufTypes
<1>7. In(b, s, 0)
  BY DEF In
<1>8. \A o \in Owners, i \in Nat : In(b, o, i) => o = s /\ i = 0
  BY <1>2, <1>7 DEF BufInv, Once
<1>9. \A x \in Buffers, o \in Owners, i \in Nat : x # b => (In(x, o, i)' <=> In(x, o, i))
  <2> TAKE x \in Buffers, o \in Owners, i \in Nat
  <2> HAVE x # b
  <2>1. CASE o # s
    BY <1>4, <2>1 DEF In
  <2>2. CASE o = s
    <3>1. i > 0 => (i \in 1 .. n + 1 /\ Append(d, b)[i] = x <=> i \in 1 .. n /\ d[i] = x)
      BY <1>3, <1>5
    <3> QED BY <1>4, <1>5, <2>2, <3>1 DEF In, d
  <2> QED BY <2>1, <2>2
<1>10. \A o \in Owners, i \in Nat : In(b, o, i)' => o = s /\ i = n + 1
  <2> TAKE o \in Owners, i \in Nat
  <2> HAVE In(b, o, i)'
  <2>1. CASE o # s
    <3>1. In(b, o, i)
      BY <1>4, <2>1 DEF In
    <3> QED BY <1>8, <2>1, <3>1
  <2>2. CASE o = s
    <3>1. i > 0 /\ i \in 1 .. n + 1 /\ Append(d, b)[i] = b
      BY <1>4, <1>5, <2>2 DEF In
    <3>2. i \in 1 .. n => d[i] = b
      BY <1>5, <3>1
    <3>3. i \notin 1 .. n
      <4>1. i \in 1 .. n => In(b, s, i)
        BY <1>2, <1>5, <3>2 DEF In, d
      <4> QED BY <1>2, <1>8, <4>1
    <3> QED BY <1>3, <2>2, <3>1, <3>3
  <2> QED BY <2>1, <2>2
<1>11. PICK k \in Nat : k = n + 1
  BY <1>3
<1>K. In(b, s, k)'
  <2>1. k > 0 /\ k \in 1 .. n + 1
    BY <1>3, <1>11
  <2> QED BY <1>4, <1>5, <1>11, <2>1 DEF In
<1>12. Somewhere'
  <2>1. \A x \in Buffers : \E o \in Owners, i \in Nat : In(x, o, i)'
    BY <1>2, <1>9, <1>K DEF BufInv, Somewhere
  <2> QED BY <2>1 DEF Somewhere
<1>13. Once'
  <2>1. ASSUME NEW x \in Buffers, NEW o \in Owners, NEW q \in Owners, NEW i \in Nat, NEW j \in Nat,
               In(x, o, i)', In(x, q, j)'
        PROVE  o = q /\ i = j
    <3>1. CASE x = b
      BY <1>10, <2>1, <3>1
    <3>2. CASE x # b
      BY <1>9, <2>1, <3>2 DEF BufInv, Once
    <3> QED BY <3>1, <3>2
  <2> QED BY <2>1 DEF Once
<1>14. Counted'
  <2>1. \A o \in Owners : IsFiniteSet(clean[o])
    BY DEF BufInv, Counted
  <2>2. IsFiniteSet(clean[s] \ {b}) /\ Cardinality(clean[s] \ {b}) = Cardinality(clean[s]) - 1
    BY <1>2, <2>1, FS_RemoveElement
  <2>3. Cardinality(clean[s]) \in Nat
    BY <1>2, <2>1, FS_CardinalityType
  <2>4. Cardinality(clean'[s]) + Len(dirtied'[s]) = BufCnt
    <3>1. Cardinality(clean[s]) + n = BufCnt
      BY DEF BufInv, Counted, n, d
    <3> QED BY <1>3, <1>4, <1>5, <2>2, <2>3, <3>1
  <2>5. \A q \in Chips : q \in Owners /\ Mixer \in Owners
    BY DEF Owners
  <2> QED BY <1>2, <1>4, <2>1, <2>2, <2>4, <2>5 DEF BufInv, Counted
<1> QED BY <1>6, <1>12, <1>13, <1>14 DEF BufInv

\* The lists are left as they are.
LEMMA KeptBuf == ASSUME BufInv, UNCHANGED <<srcs, clean, dirtied>>, at' \in Nat PROVE BufInv'
<1>1. \A b, o, i : In(b, o, i)' <=> In(b, o, i)
  BY DEF In
<1>2. BufTypes'
  BY DEF BufInv, BufTypes
<1>3. Somewhere'
  <2>1. \A b \in Buffers : \E o \in Owners, i \in Nat : In(b, o, i)'
    BY <1>1 DEF BufInv, Somewhere
  <2> QED BY <2>1 DEF Somewhere
<1>4. Once'
  <2>1. \A b \in Buffers : \A o \in Owners, q \in Owners, i \in Nat, j \in Nat :
           In(b, o, i)' /\ In(b, q, j)' => o = q /\ i = j
    BY <1>1 DEF BufInv, Once
  <2> QED BY <2>1 DEF Once
<1>5. Counted'
  BY DEF BufInv, Counted
<1> QED BY <1>2, <1>3, <1>4, <1>5 DEF BufInv

\* A single chip's buffer changes places with one of the mixer's.
LEMMA MixBuf == ASSUME BufInv, MixOne PROVE BufInv'
<1>1. /\ at \in Nat /\ at > 0 /\ at' = at + 1 /\ srcs' = srcs
      /\ clean \in [Owners -> SUBSET Buffers] /\ dirtied \in [Chips -> Seq(Buffers)]
      /\ srcs \in SUBSET Chips /\ srcs # {}
  BY DEF BufInv, BufTypes, MixOne
<1>2. CASE UNCHANGED <<clean, dirtied>>
  BY <1>1, <1>2, KeptBuf
<1>3. CASE ~UNCHANGED <<clean, dirtied>>
  <2>1. PICK s \in srcs, m \in clean[Mixer] :
           /\ dirtied' = [dirtied EXCEPT ![s][at] = m]
           /\ clean' = [clean EXCEPT ![Mixer] = (@ \ {m}) \cup {dirtied[s][at]}]
    BY <1>3 DEF MixOne
  <2> DEFINE d == dirtied[s]
             n == Len(d)
  <2>2. s \in Chips /\ s \in Owners /\ Mixer \in Owners /\ s # Mixer /\ m \in Buffers
    BY <1>1, <2>1, AudioAssumption DEF Owners
  <2>3. d \in Seq(Buffers) /\ n \in Nat /\ at \in 1 .. n /\ DOMAIN d = 1 .. n
    <3>1. d \in Seq(Buffers)
      BY <1>1, <2>2
    <3>2. at \in 1 .. Ready /\ Ready \in Nat /\ Ready <= n
      BY <2>1, ReadyIs DEF MixOne, BufInv
    <3> HIDE DEF d
    <3> QED BY <3>1, <3>2
  <2>4. PICK x \in Buffers : x = dirtied[s][at]
    BY <2>3
  <2>5. PICK k \in Nat : k = at
    BY <1>1
  <2> HIDE DEF d, n
  <2>6. /\ dirtied'[s] = [d EXCEPT ![k] = m] /\ \A q \in Chips \ {s} : dirtied'[q] = dirtied[q]
        /\ clean'[Mixer] = (clean[Mixer] \ {m}) \cup {x}
        /\ \A q \in Owners \ {Mixer} : clean'[q] = clean[q]
    <3>1. dirtied' = [dirtied EXCEPT ![s] = [dirtied[s] EXCEPT ![k] = m]]
      BY <2>1, <2>5
    <3> QED BY <1>1, <2>1, <2>2, <2>4, <3>1 DEF d
  <2>7. /\ DOMAIN dirtied'[s] = 1 .. n /\ dirtied'[s] \in Seq(Buffers) /\ Len(dirtied'[s]) = n
        /\ dirtied'[s][k] = m /\ \A i \in 1 .. n : i # k => dirtied'[s][i] = d[i]
        /\ k \in 1 .. n /\ d[k] = x
    BY <2>2, <2>3, <2>4, <2>5, <2>6 DEF d
  <2>8. In(m, Mixer, 0) /\ In(x, s, k)
    <3>1. In(m, Mixer, 0)
      BY <2>1 DEF In
    <3>2. In(x, s, k)
      BY <1>1, <2>2, <2>3, <2>5, <2>7 DEF In, d
    <3> QED BY <3>1, <3>2
  <2>9. /\ \A o \in Owners, i \in Nat : In(m, o, i) => o = Mixer /\ i = 0
        /\ \A o \in Owners, i \in Nat : In(x, o, i) => o = s /\ i = k
        /\ x # m
    <3>1. /\ \A o \in Owners, i \in Nat : In(m, o, i) => o = Mixer /\ i = 0
          /\ \A o \in Owners, i \in Nat : In(x, o, i) => o = s /\ i = k
      BY <2>2, <2>8 DEF BufInv, Once
    <3> QED BY <2>2, <2>8, <3>1
  <2>10. ASSUME NEW b \in Buffers, NEW o \in Owners, NEW i \in Nat, b # x, b # m
         PROVE  In(b, o, i)' <=> In(b, o, i)
    <3>1. CASE i = 0
      <4>1. b \in clean'[o] <=> b \in clean[o]
        BY <2>6, <2>10
      <4> QED BY <3>1, <4>1 DEF In
    <3>2. CASE i > 0 /\ o # s
      BY <2>6, <3>2 DEF In
    <3>3. CASE i > 0 /\ o = s
      <4>1. i \in 1 .. n /\ dirtied'[s][i] = b <=> i \in 1 .. n /\ d[i] = b
        BY <2>7, <2>10
      <4> QED BY <2>3, <2>7, <3>3, <4>1 DEF In, d
    <3> QED BY <3>1, <3>2, <3>3
  <2>11. In(x, Mixer, 0)' /\ In(m, s, k)'
    <3>1. In(x, Mixer, 0)'
      BY <2>6 DEF In
    <3>2. In(m, s, k)'
      BY <1>1, <2>2, <2>5, <2>7 DEF In
    <3> QED BY <3>1, <3>2
  <2>12. ASSUME NEW o \in Owners, NEW i \in Nat, In(x, o, i)' PROVE o = Mixer /\ i = 0
    <3>1. CASE i = 0
      <4>1. o # Mixer => In(x, o, 0)
        BY <2>6, <2>12, <3>1 DEF In
      <4> QED BY <1>1, <2>5, <2>9, <3>1, <4>1
    <3>2. CASE i > 0 /\ o # s
      <4>1. In(x, o, i)
        BY <2>6, <2>12, <3>2 DEF In
      <4> QED BY <2>9, <3>2, <4>1
    <3>3. CASE i > 0 /\ o = s
      <4>1. i \in 1 .. n /\ dirtied'[s][i] = x
        BY <2>7, <2>12, <3>3 DEF In
      <4>2. i # k /\ d[i] = x
        BY <2>7, <2>9, <4>1
      <4>3. In(x, s, i)
        BY <2>2, <2>3, <3>3, <4>1, <4>2 DEF In, d
      <4> QED BY <2>2, <2>9, <4>2, <4>3
    <3> QED BY <3>1, <3>2, <3>3
  <2>13. ASSUME NEW o \in Owners, NEW i \in Nat, In(m, o, i)' PROVE o = s /\ i = k
    <3>1. CASE i = 0
      <4>1. o # Mixer => In(m, o, 0)
        BY <2>6, <2>13, <3>1 DEF In
      <4>2. o = Mixer => m \in clean'[Mixer]
        BY <2>13, <3>1 DEF In
      <4> QED BY <2>6, <2>9, <3>1, <4>1, <4>2
    <3>2. CASE i > 0 /\ o # s
      <4>1. In(m, o, i)
        BY <2>6, <2>13, <3>2 DEF In
      <4> QED BY <2>9, <3>2, <4>1
    <3>3. CASE i > 0 /\ o = s
      <4>1. i \in 1 .. n /\ dirtied'[s][i] = m
        BY <2>7, <2>13, <3>3 DEF In
      <4>2. i # k => In(m, s, i)
        BY <2>2, <2>3, <2>7, <3>3, <4>1 DEF In, d
      <4> QED BY <2>2, <2>9, <3>3, <4>2
    <3> QED BY <3>1, <3>2, <3>3
  <2>14. BufTypes'
    <3>1. clean' \in [Owners -> SUBSET Buffers]
      BY <1>1, <2>1, <2>2, <2>4
    <3>2. dirtied' \in [Chips -> Seq(Buffers)]
      <4>1. dirtied' = [dirtied EXCEPT ![s] = dirtied'[s]]
        BY <1>1, <2>1, <2>2
      <4> QED BY <1>1, <2>7, <4>1
    <3> QED BY <1>1, <3>1, <3>2 DEF BufTypes
  <2>15. Somewhere'
    <3>1. ASSUME NEW b \in Buffers PROVE \E o \in Owners, i \in Nat : In(b, o, i)'
      <4>1. CASE b = x \/ b = m
        BY <2>2, <2>11, <4>1
      <4>2. CASE b # x /\ b # m
        BY <2>10, <4>2 DEF BufInv, Somewhere
      <4> QED BY <4>1, <4>2
    <3> QED BY <3>1 DEF Somewhere
  <2>16. Once'
    <3>1. ASSUME NEW b \in Buffers, NEW o \in Owners, NEW q \in Owners, NEW i \in Nat, NEW j \in Nat,
                 In(b, o, i)', In(b, q, j)'
          PROVE  o = q /\ i = j
      <4>1. CASE b = x
        BY <2>12, <3>1, <4>1
      <4>2. CASE b = m
        BY <2>13, <3>1, <4>2
      <4>3. CASE b # x /\ b # m
        BY <2>10, <3>1, <4>3 DEF BufInv, Once
      <4> QED BY <4>1, <4>2, <4>3
    <3> QED BY <3>1 DEF Once
  <2>17. Counted'
    <3> DEFINE c == clean[Mixer]
    <3>1. /\ IsFiniteSet(c) /\ Cardinality(c) = BufCnt /\ m \in c /\ x \notin c /\ BufCnt \in Nat
      <4>1. x \notin c
        <5>1. x \in c => In(x, Mixer, 0)
          BY DEF In
        <5> QED BY <2>2, <2>9, <5>1
      <4> QED BY <2>1, <2>2, <4>1, AudioSizes DEF BufInv, Counted
    <3> HIDE DEF c
    <3>2. IsFiniteSet(c \ {m}) /\ Cardinality(c \ {m}) = BufCnt - 1 /\ x \notin c \ {m}
      BY <3>1, FS_RemoveElement
    <3>3. /\ IsFiniteSet((c \ {m}) \cup {x})
          /\ Cardinality((c \ {m}) \cup {x}) = (BufCnt - 1) + 1
      BY <3>2, FS_AddElement
    <3>4. clean'[Mixer] = (c \ {m}) \cup {x} /\ (BufCnt - 1) + 1 = BufCnt
      BY <2>6, <3>1 DEF c
    <3>5. \A q \in Chips : q \in Owners /\ clean'[q] = clean[q] /\ Len(dirtied'[q]) = Len(dirtied[q])
      BY <2>6, <2>7, AudioAssumption DEF Owners, d, n
    <3>6. \A q \in Owners : q = Mixer \/ q \in Chips
      BY DEF Owners
    <3> QED BY <3>3, <3>4, <3>5, <3>6 DEF BufInv, Counted
  <2> QED BY <2>14, <2>15, <2>16, <2>17 DEF BufInv
<1> QED BY <1>2, <1>3

\* Entries of a sequence that are all different are as many as their places.
Firsts(f, r) == {f[i] : i \in 1 .. r}

LEMMA FirstOnes ==
    ASSUME NEW S, NEW f \in Seq(S), NEW r \in Nat, r <= Len(f),
           \A i \in 1 .. r, j \in 1 .. r : f[i] = f[j] => i = j
    PROVE  IsFiniteSet(Firsts(f, r)) /\ Cardinality(Firsts(f, r)) = r
<1> DEFINE T == Firsts(f, r)
           g == [i \in 1 .. r |-> f[i]]
<1>1. IsFiniteSet(1 .. r) /\ Cardinality(1 .. r) = r
  <2>1. /\ IsFiniteSet(1 .. r)
        /\ Cardinality(1 .. r) = IF 1 > r THEN 0 ELSE r - 1 + 1
    BY FS_Interval
  <2> QED BY <2>1
<1>2. ExistsBijection(1 .. r, T)
  <2>1. g \in [1 .. r -> T]
    BY DEF Firsts
  <2>2. \A i \in 1 .. r, j \in 1 .. r : g[i] = g[j] => i = j
    OBVIOUS
  <2>3. \A t \in T : \E i \in 1 .. r : g[i] = t
    BY DEF Firsts
  <2> HIDE DEF g, T
  <2>4. IsInjective(g)
    BY <2>1, <2>2 DEF IsInjective
  <2>5. g \in Bijection(1 .. r, T)
    BY <2>1, <2>3, <2>4 DEF Bijection, Injection, Surjection
  <2> QED BY <2>5 DEF ExistsBijection
<1> QED BY <1>1, <1>2, FS_Bijection

\* The mixed buffers go back, and the others move up.
LEMMA ReclaimBuf == ASSUME BufInv, Reclaim PROVE BufInv'
<1>1. PICK r \in Nat : r = Ready /\ \A s \in srcs : r <= Len(dirtied[s])
  BY ReadyIs DEF BufInv
<1>2. /\ srcs' = srcs /\ at' = 0 /\ srcs \in SUBSET Chips /\ srcs # {}
      /\ clean \in [Owners -> SUBSET Buffers] /\ dirtied \in [Chips -> Seq(Buffers)]
  BY DEF BufInv, BufTypes, Reclaim
<1> DEFINE Back(s) == {dirtied[s][i] : i \in 1 .. r}
           Left(s) == SubSeq(dirtied[s], r + 1, Len(dirtied[s]))
<1>3. /\ clean' = [o \in Owners |-> IF o \in srcs THEN clean[o] \cup Back(o) ELSE clean[o]]
      /\ dirtied' = [s \in Chips |-> IF s \in srcs THEN Left(s) ELSE dirtied[s]]
  <2>1. DOMAIN clean = Owners
    BY <1>2
  <2> QED BY <1>1, <2>1 DEF Reclaim
<1>4. \A s \in Chips : s \in Owners
  BY DEF Owners
<1>5. ASSUME NEW s \in srcs
      PROVE  /\ Left(s) \in Seq(Buffers) /\ Len(Left(s)) = Len(dirtied[s]) - r
             /\ DOMAIN Left(s) = 1 .. Len(dirtied[s]) - r
             /\ \A i \in 1 .. Len(dirtied[s]) - r : Left(s)[i] = dirtied[s][i + r]
             /\ dirtied[s] \in Seq(Buffers) /\ Len(dirtied[s]) \in Nat /\ r <= Len(dirtied[s])
             /\ DOMAIN dirtied[s] = 1 .. Len(dirtied[s])
             /\ Back(s) \in SUBSET Buffers
             /\ clean'[s] = clean[s] \cup Back(s) /\ dirtied'[s] = Left(s)
  <2> DEFINE d == dirtied[s]
  <2>1. d \in Seq(Buffers) /\ r <= Len(d) /\ s \in Chips /\ s \in Owners
    BY <1>1, <1>2, <1>4
  <2>2. clean'[s] = clean[s] \cup Back(s) /\ dirtied'[s] = Left(s)
    BY <1>3, <2>1
  <2> HIDE DEF d
  <2>3. /\ Len(d) \in Nat /\ DOMAIN d = 1 .. Len(d)
        /\ \A i \in 1 .. r : d[i] \in Buffers
    BY <2>1
  <2> DEFINE l == SubSeq(d, r + 1, Len(d))
  <2>4. l \in Seq(Buffers) /\ Len(l) = Len(d) - r
    <3>1. CASE r = Len(d)
      <4>1. l = <<>>
        BY <2>1, <2>3, <3>1
      <4> QED BY <2>3, <3>1, <4>1
    <3>2. CASE r < Len(d)
      <4>1. r + 1 \in 1 .. Len(d) /\ Len(d) - (r + 1) + 1 = Len(d) - r
        BY <2>3, <3>2
      <4> QED BY <2>1, <2>3, <4>1
    <3>3. r = Len(d) \/ r < Len(d)
      <4>1. \A a, b \in Nat : a <= b => a = b \/ a < b
        OBVIOUS
      <4>2. r \in Nat /\ Len(d) \in Nat /\ r <= Len(d)
        BY <1>1, <2>1, <2>3
      <4> HIDE DEF l
      <4> QED BY <4>1, <4>2, Zenon
    <3> QED BY <3>1, <3>2, <3>3
  <2>5. \A i \in 1 .. Len(d) - r : l[i] = d[i + r]
    <3> TAKE i \in 1 .. Len(d) - r
    <3>1. i \in Nat /\ i + r = (r + 1) + i - 1
      BY <2>3
    <3> QED BY <2>1, <2>3, <3>1
  <2>6. DOMAIN l = 1 .. Len(d) - r
    <3> HIDE DEF l
    <3> QED BY <2>4
  <2> QED BY <2>1, <2>2, <2>3, <2>4, <2>5, <2>6 DEF d
<1>6. \A o \in Owners : o \notin srcs => clean'[o] = clean[o]
  BY <1>3
<1>7. \A s \in Chips : s \notin srcs => dirtied'[s] = dirtied[s]
  BY <1>3
<1> HIDE DEF Back, Left
<1>8. ASSUME NEW b \in Buffers, NEW o \in Owners, NEW i \in Nat, In(b, o, i)'
      PROVE  \/ o \notin srcs /\ In(b, o, i)
             \/ o \in srcs /\ i = 0 /\ (In(b, o, 0) \/ \E j \in 1 .. r : In(b, o, j))
             \/ o \in srcs /\ i > 0 /\ In(b, o, i + r)
  <2>1. CASE o \notin srcs
    BY <1>6, <1>7, <1>8, <2>1 DEF In
  <2>2. CASE o \in srcs /\ i = 0
    <3>1. b \in clean[o] \/ b \in Back(o)
      BY <1>5, <1>8, <2>2 DEF In
    <3>2. b \in Back(o) => \E j \in 1 .. r : In(b, o, j)
      <4>1. \A j \in 1 .. r : j > 0 /\ j \in DOMAIN dirtied[o]
        BY <1>5, <2>2
      <4> QED BY <1>2, <2>2, <4>1 DEF Back, In
    <3> QED BY <2>2, <3>1, <3>2 DEF In
  <2>3. CASE o \in srcs /\ i > 0
    <3>1. i \in 1 .. Len(dirtied[o]) - r /\ Left(o)[i] = b
      BY <1>5, <1>8, <2>3 DEF In
    <3>2. i + r > 0 /\ i + r \in DOMAIN dirtied[o] /\ dirtied[o][i + r] = b
      BY <1>5, <2>3, <3>1
    <3> QED BY <1>2, <2>3, <3>2 DEF In
  <2> QED BY <2>1, <2>2, <2>3
<1>9. Once'
  <2>1. ASSUME NEW b \in Buffers, NEW o \in Owners, NEW q \in Owners, NEW i \in Nat, NEW j \in Nat,
               In(b, o, i)', In(b, q, j)'
        PROVE  o = q /\ i = j
    <3>1. PICK u \in Nat : /\ In(b, o, u)
                           /\ \/ o \notin srcs /\ u = i
                              \/ o \in srcs /\ i = 0 /\ u <= r
                              \/ o \in srcs /\ i > 0 /\ u = i + r
      BY <1>8, <2>1
    <3>2. PICK v \in Nat : /\ In(b, q, v)
                           /\ \/ q \notin srcs /\ v = j
                              \/ q \in srcs /\ j = 0 /\ v <= r
                              \/ q \in srcs /\ j > 0 /\ v = j + r
      BY <1>8, <2>1
    <3>3. o = q /\ u = v
      BY <3>1, <3>2 DEF BufInv, Once
    <3> QED BY <3>1, <3>2, <3>3
  <2> QED BY <2>1 DEF Once
<1>10. Somewhere'
  <2>1. ASSUME NEW b \in Buffers PROVE \E o \in Owners, i \in Nat : In(b, o, i)'
    <3>1. PICK o \in Owners, i \in Nat : In(b, o, i)
      BY DEF BufInv, Somewhere
    <3>2. CASE o \notin srcs
      <4>1. In(b, o, i)'
        BY <1>6, <1>7, <3>1, <3>2 DEF In
      <4> QED BY <4>1
    <3>3. CASE o \in srcs /\ i = 0
      <4>1. In(b, o, i)'
        BY <1>5, <3>1, <3>3 DEF In
      <4> QED BY <4>1
    <3>4. CASE o \in srcs /\ i \in 1 .. r
      <4>1. b \in Back(o)
        BY <3>1, <3>4 DEF In, Back
      <4>2. In(b, o, 0)'
        BY <1>5, <3>4, <4>1 DEF In
      <4> QED BY <4>2
    <3>5. CASE o \in srcs /\ i > r
      <4>1. PICK k \in Nat : k = i - r
        BY <3>5
      <4>2. k > 0 /\ k \in 1 .. Len(dirtied[o]) - r /\ dirtied[o][k + r] = b
        <5>1. i > 0 /\ i \in 1 .. Len(dirtied[o]) /\ dirtied[o][i] = b
          BY <1>5, <3>1, <3>5 DEF In
        <5>2. Len(dirtied[o]) \in Nat /\ k + r = i
          BY <1>5, <3>5, <4>1
        <5> QED BY <3>5, <4>1, <5>1, <5>2
      <4>3. In(b, o, k)'
        BY <1>2, <1>5, <3>5, <4>2 DEF In
      <4> QED BY <4>3
    <3> QED BY <3>2, <3>3, <3>4, <3>5
  <2> QED BY <2>1 DEF Somewhere
<1>11. BufTypes'
  <2>1. clean' \in [Owners -> SUBSET Buffers]
    BY <1>2, <1>3, <1>5
  <2>2. dirtied' \in [Chips -> Seq(Buffers)]
    BY <1>2, <1>3, <1>5
  <2> QED BY <1>2, <2>1, <2>2 DEF BufTypes
<1>12. Counted'
  <2>1. ASSUME NEW s \in srcs
        PROVE  /\ IsFiniteSet(clean'[s])
               /\ Cardinality(clean'[s]) + Len(dirtied'[s]) = BufCnt
    <3> DEFINE d == dirtied[s]
               c == clean[s]
    <3>1. s \in Chips /\ s \in Owners /\ IsFiniteSet(c) /\ Cardinality(c) + Len(d) = BufCnt
          /\ Cardinality(c) \in Nat /\ c \in SUBSET Buffers
      BY <1>2, <1>4, FS_CardinalityType DEF BufInv, Counted
    <3>2. d \in Seq(Buffers) /\ Len(d) \in Nat /\ r <= Len(d) /\ DOMAIN d = 1 .. Len(d)
      BY <1>5
    <3>3. \A i \in 1 .. r : d[i] \in Buffers /\ In(d[i], s, i)
      <4>1. \A i \in 1 .. r : i \in DOMAIN d /\ i > 0 /\ d[i] \in Buffers
        BY <3>2
      <4> QED BY <3>1, <4>1 DEF In
    <3>4. \A i \in 1 .. r, j \in 1 .. r : d[i] = d[j] => i = j
      <4>1. \A i \in 1 .. r : i \in Nat
        OBVIOUS
      <4> QED BY <3>1, <3>3, <4>1 DEF BufInv, Once
    <3>5. c \cap Back(s) = {}
      <4>1. \A i \in 1 .. r : d[i] \notin c
        <5> TAKE i \in 1 .. r
        <5>1. d[i] \in c => In(d[i], s, 0)
          BY DEF In
        <5>2. i \in Nat /\ 0 \in Nat /\ i # 0
          OBVIOUS
        <5> QED BY <3>1, <3>3, <5>1, <5>2 DEF BufInv, Once
      <4> QED BY <4>1 DEF Back
    <3> HIDE DEF d, c
    <3>6. IsFiniteSet(Back(s)) /\ Cardinality(Back(s)) = r
      <4>1. IsFiniteSet(Firsts(d, r)) /\ Cardinality(Firsts(d, r)) = r
        BY <3>2, <3>4, FirstOnes
      <4>2. Firsts(d, r) = Back(s)
        BY DEF Firsts, Back, d
      <4> QED BY <4>1, <4>2
    <3>7. /\ IsFiniteSet(c \cup Back(s))
          /\ Cardinality(c \cup Back(s)) =
                Cardinality(c) + Cardinality(Back(s)) - Cardinality(c \cap Back(s))
      BY <3>1, <3>6, FS_Union
    <3>8. Cardinality(c \cap Back(s)) = 0
      BY <3>5, FS_EmptySet
    <3>9. clean'[s] = c \cup Back(s) /\ Len(dirtied'[s]) = Len(d) - r
      BY <1>5 DEF c, d
    <3>10. Cardinality(clean'[s]) + Len(dirtied'[s]) = BufCnt
      <4>1. \A a, b, e \in Nat : r <= b /\ a + b = e => (a + r - 0) + (b - r) = e
        OBVIOUS
      <4>2. Cardinality(clean'[s]) = Cardinality(c) + r - 0
        BY <3>6, <3>7, <3>8, <3>9
      <4>3. (Cardinality(c) + r - 0) + (Len(d) - r) = BufCnt
        BY <3>1, <3>2, <4>1, AudioSizes
      <4> QED BY <3>9, <4>2, <4>3
    <3> QED BY <3>7, <3>9, <3>10
  <2>2. \A o \in Owners \ srcs : IsFiniteSet(clean'[o])
    BY <1>6 DEF BufInv, Counted
  <2>3. \A s \in Chips \ srcs : Cardinality(clean'[s]) + Len(dirtied'[s]) = BufCnt
    BY <1>4, <1>6, <1>7 DEF BufInv, Counted
  <2>4. Cardinality(clean'[Mixer]) = BufCnt
    <3>1. Mixer \in Owners /\ Mixer \notin srcs
      BY <1>2, AudioAssumption DEF Owners
    <3> QED BY <1>6, <3>1 DEF BufInv, Counted
  <2> QED BY <2>1, <2>2, <2>3, <2>4 DEF Counted
<1> QED BY <1>9, <1>10, <1>11, <1>12 DEF BufInv

LEMMA StepBufInv == BufInv /\ [AudioNext]_audioVars => BufInv'
<1> SUFFICES ASSUME BufInv, [AudioNext]_audioVars PROVE BufInv'
  OBVIOUS
<1>1. CASE TickBegin
  BY <1>1, KeptBuf DEF TickBegin
<1>2. CASE Device \/ ResetRing \/ UNCHANGED audioVars
  <2>1. UNCHANGED <<srcs, clean, dirtied, at>>
    BY <1>2 DEF Device, Copy, ResetRing, audioVars, mixVars
  <2>2. at' \in Nat
    BY <2>1 DEF BufInv, BufTypes
  <2> QED BY <2>1, <2>2, KeptBuf
<1> QED BY <1>1, <1>2, FillBuf, MixBuf, ReclaimBuf DEF AudioNext

LEMMA BufInvOwns == BufInv => OwnedOnce
<1> SUFFICES ASSUME BufInv PROVE OwnedOnce
  OBVIOUS
<1> DEFINE places(b) == {<<o, 0>> : o \in {x \in DOMAIN clean : b \in clean[x]}}
                        \cup {p \in Chips \X (1 .. BufCnt) :
                                p[2] \in DOMAIN dirtied[p[1]] /\ dirtied[p[1]][p[2]] = b}
<1>1. ASSUME NEW b \in Buffers PROVE Cardinality(places(b)) = 1
  <2>1. PICK o \in Owners, i \in Nat : In(b, o, i)
    BY DEF BufInv, Somewhere
  <2>2. DOMAIN clean = Owners /\ dirtied \in [Chips -> Seq(Buffers)] /\ \A s \in Chips : s \in Owners
    BY DEF BufInv, BufTypes, Owners
  <2>3. \A q \in Owners, j \in Nat : In(b, q, j) => q = o /\ j = i
    BY <2>1 DEF BufInv, Once
  <2>4. <<o, i>> \in places(b)
    <3>1. CASE i = 0
      BY <2>1, <2>2, <3>1 DEF In
    <3>2. CASE i > 0
      <4>1. o \in Chips /\ i \in DOMAIN dirtied[o] /\ dirtied[o][i] = b
        BY <2>1, <3>2 DEF In
      <4>2. i \in 1 .. BufCnt
        <5>1. /\ Cardinality(clean[o]) \in Nat /\ BufCnt \in Nat
              /\ Cardinality(clean[o]) + Len(dirtied[o]) = BufCnt
          BY FS_CardinalityType, AudioSizes, <4>1 DEF BufInv, Counted
        <5>2. Len(dirtied[o]) \in Nat /\ i \in 1 .. Len(dirtied[o])
          BY <2>2, <4>1
        <5> QED BY <5>1, <5>2
      <4> QED BY <4>1, <4>2
    <3> QED BY <3>1, <3>2
  <2>5. ASSUME NEW p \in places(b) PROVE p = <<o, i>>
    <3>1. CASE \E q \in Owners : p = <<q, 0>> /\ b \in clean[q]
      <4>1. PICK q \in Owners : p = <<q, 0>> /\ b \in clean[q]
        BY <3>1
      <4>2. In(b, q, 0)
        BY <4>1 DEF In
      <4> QED BY <2>3, <4>1, <4>2
    <3>2. CASE \E s \in Chips, j \in 1 .. BufCnt :
                  p = <<s, j>> /\ j \in DOMAIN dirtied[s] /\ dirtied[s][j] = b
      <4>1. PICK s \in Chips, j \in 1 .. BufCnt :
                  p = <<s, j>> /\ j \in DOMAIN dirtied[s] /\ dirtied[s][j] = b
        BY <3>2
      <4>2. In(b, s, j) /\ j \in Nat
        BY <4>1, AudioSizes DEF In
      <4> QED BY <2>2, <2>3, <4>1, <4>2
    <3> QED BY <2>2, <2>5, <3>1, <3>2
  <2>6. places(b) = {<<o, i>>}
    BY <2>4, <2>5
  <2> HIDE DEF places
  <2> QED BY <2>6, FS_Singleton
<1> QED BY <1>1 DEF OwnedOnce, BufInv, Counted

\* Every buffer of every chip and of the mixer is in one place, one that
\* snd_desktop.c's exchange and reclaim can find it in again, and none is lost.
THEOREM OwnedOnceAlways == AudioSpec => []OwnedOnce
BY InitBufInv, StepBufInv, BufInvOwns, PTL DEF AudioSpec

-----------------------------------------------------------------------------
(***************************************************************************)
(* Its picture.                                                            *)
(***************************************************************************)

\* Everything but the machine's own steps: none of it draws or keeps a
\* picture.
WindowStep == OnFrame \/ Copies \/ Draws \/ Windowing \/ Resources

LEMMA DisplaySteps == DisplayNext => Machine \/ WindowStep
BY DEF DisplayNext, WindowStep

LEMMA WindowsOnlyRead == WindowStep => UNCHANGED <<gfxVars, storeVars>>
<1>1. Copies => UNCHANGED <<gfxVars, storeVars>>
  BY DEF Copies, GnomeTick, WinCopy, GdiCopy, PullFrame, KdeReady, KdeShowSoftware, KdeDeliver, frameVars
<1>2. Draws => UNCHANGED <<gfxVars, storeVars>>
  BY DEF Draws, GnomeDraw, KdeDraw, WinPresent, WinLost, GdiPaint, DrawRect, frameVars
<1>3. Windowing => UNCHANGED <<gfxVars, storeVars>>
  BY DEF Windowing, GnomeShow, KdeShow, WinShow, MacShow, frameVars
<1>4. Resources => UNCHANGED <<gfxVars, storeVars>>
  BY DEF Resources, GnomeRelease, GnomeDispose, KdeNewRhi, KdeUseSoftware, KdeDeleteOld, DeviceRemoved,
         frameVars
<1>5. OnFrame => UNCHANGED <<gfxVars, storeVars>>
  BY DEF OnFrame
<1> QED BY <1>1, <1>2, <1>3, <1>4, <1>5 DEF WindowStep

-----------------------------------------------------------------------------
(* The picture that is kept.                                               *)

\* The brightness that waits for a redraw is the one last asked for; with
\* nothing to redraw, nothing waits.
GfxInv == /\ enabled \in 0 .. 3 /\ asked \in {On, Off} /\ dirty \in BOOLEAN
          /\ asked = Committed
          /\ ~dirty => enabled < 2
DrawnInv == GfxInv /\ KeptIsDrawn

LEMMA InitDrawnInv == DisplayInit => DrawnInv
BY DEF DisplayInit, FrameInit, DrawnInv, GfxInv, KeptIsDrawn, Committed, On, Off

LEMMA VidEnableDrawn == ASSUME DrawnInv, NEW e \in {On, Off}, VidEnable(e) PROVE DrawnInv'
<1> USE DEF DrawnInv, GfxInv, Committed, On, Off
<1>1. UNCHANGED <<vid, pixels>> /\ asked' = e
  BY DEF VidEnable, storeVars
<1>2. CASE enabled % 2 # e
  <2>1. enabled' = (enabled % 2) + 2 /\ dirty' = TRUE
    BY <1>2 DEF VidEnable
  <2>2. enabled \in {0, 1, 2, 3}
    OBVIOUS
  <2>3. enabled' \in 0 .. 3 /\ 1 - (enabled' % 2) = e /\ enabled' >= 2
    BY <1>2, <2>1, <2>2
  <2> QED BY <1>1, <2>1, <2>3 DEF KeptIsDrawn
<1>3. CASE enabled % 2 = e
  <2>1. enabled' = e /\ dirty' = dirty
    BY <1>3 DEF VidEnable
  <2>2. e \in {0, 1} /\ (dirty' = FALSE => enabled' < 2)
    BY <2>1
  <2>4. enabled' \in 0 .. 3 /\ asked' \in {0, 1} /\ dirty' \in BOOLEAN
    BY <1>1, <2>1, <2>2
  <2>5. asked' = Committed'
    BY <1>1, <2>1, <2>2
  <2>3. ~dirty => asked = e
    BY <1>3
  <2>6. GfxInv'
    BY <2>1, <2>2, <2>4, <2>5
  <2> QED BY <1>1, <2>1, <2>3, <2>6 DEF KeptIsDrawn
<1> QED BY <1>2, <1>3

LEMMA RefreshDrawn == ASSUME DrawnInv, Refresh PROVE DrawnInv'
<1> USE DEF DrawnInv, GfxInv, On, Off
<1>1. UNCHANGED <<vid, asked>> /\ enabled' = Committed /\ dirty' = FALSE
  BY DEF Refresh
<1>2. Committed \in {0, 1}
  BY DEF Committed
<1>3. pixels' = <<vid, Committed>>
  BY DEF Refresh, Keep, storeVars
<1>4. GfxInv'
  <2>1. enabled' \in {0, 1} /\ asked' = enabled' /\ dirty' = FALSE
    BY <1>1, <1>2
  <2>4. ~(enabled' >= 2)
    BY <2>1
  <2>2. Committed' = enabled'
    BY ONLY <2>4 DEF Committed
  <2>3. enabled' \in 0 .. 3 /\ enabled' < 2
    BY <2>1
  <2> QED BY <2>1, <2>2, <2>3
<1> QED BY <1>1, <1>3, <1>4 DEF KeptIsDrawn

LEMMA StepDrawnInv == DrawnInv /\ [DisplayNext]_displayVars => DrawnInv'
<1> SUFFICES ASSUME DrawnInv, [DisplayNext]_displayVars PROVE DrawnInv'
  OBVIOUS
<1>1. CASE UNCHANGED <<gfxVars, storeVars>>
  BY <1>1 DEF DrawnInv, GfxInv, KeptIsDrawn, Committed, gfxVars, storeVars
<1>2. CASE Draw \/ NewMachine
  <2>1. dirty' = TRUE
    BY <1>2 DEF Draw, NewMachine
  <2>2. UNCHANGED <<asked, enabled>> \/ (asked' = Off /\ enabled' = 0)
    BY <1>2 DEF Draw, NewMachine
  <2> QED BY <2>1, <2>2 DEF DrawnInv, GfxInv, KeptIsDrawn, Committed, On, Off
<1>3. CASE CallBegin
  BY <1>1, <1>3 DEF CallBegin
<1>4. CASE Machine
  BY <1>2, <1>3, <1>4, VidEnableDrawn, RefreshDrawn DEF Machine
<1>5. CASE UNCHANGED displayVars
  BY <1>1, <1>5 DEF displayVars, frameVars
<1> QED BY <1>1, <1>4, <1>5, DisplaySteps, WindowsOnlyRead

\* gfx_vid_enable, gfx_refresh and intv_frame_publish: with nothing left to
\* redraw, a window that copies gets what the STIC drew, as bright as it last
\* asked for, whatever it switched on and off between two frames.
THEOREM DrawnAlways == DisplaySpec => []KeptIsDrawn
<1>1. DrawnInv => KeptIsDrawn
  BY DEF DrawnInv
<1> QED BY <1>1, InitDrawnInv, StepDrawnInv, PTL DEF DisplaySpec

-----------------------------------------------------------------------------
(* The feed that is called.                                                *)

FeedInv == /\ feeds \in [Displayed -> Feed] /\ disp \in Displayed
           /\ callback \in Displayed \cup {Nobody}
           /\ feeds[disp].alive
           /\ slot = "swap" => disp = "soft"
           /\ CallbackIsLive

LEMMA InitFeedInv == DisplayInit => FeedInv
<1> SUFFICES ASSUME DisplayInit PROVE FeedInv
  OBVIOUS
<1>1. /\ feeds = [f \in Displayed |-> [NewFeed EXCEPT !.alive = (f = "gpu")]]
      /\ disp = "gpu" /\ slot = "idle" /\ callback = Nobody
  BY DEF DisplayInit, FrameInit
<1>2. \A f \in Displayed : [NewFeed EXCEPT !.alive = (f = "gpu")] \in Feed
  BY DEF NewFeed, Feed
<1>3. feeds \in [Displayed -> Feed]
  BY <1>1, <1>2
<1>4. feeds["gpu"].alive
  BY <1>1 DEF Displayed, NewFeed
<1> QED BY <1>1, <1>3, <1>4 DEF FeedInv, CallbackIsLive, Displayed

\* FrameFeed::setActive of the display in use keeps the slot in order.
LEMMA SetActiveInOrder ==
    ASSUME FeedInv, NEW on \in BOOLEAN, SetActive(disp, on)
    PROVE  /\ feeds' \in [Displayed -> Feed]
           /\ callback' \in {Nobody, callback, disp}
           /\ \A f \in Displayed : feeds'[f].alive = feeds[f].alive
           /\ callback' # Nobody => feeds'[callback'].active /\ callback' = disp
<1> USE DEF FeedInv
<1>1. CASE on = feeds[disp].active
  BY <1>1 DEF SetActive, CallbackIsLive
<1>2. CASE on # feeds[disp].active
  <2>1. /\ callback' = IF on THEN disp ELSE Nobody
        /\ feeds' = [feeds EXCEPT ![disp].active = on]
    BY <1>2 DEF SetActive, SetCallback
  <2>2. feeds[disp] \in Feed
    OBVIOUS
  <2>3. [feeds[disp] EXCEPT !.active = on] \in Feed
    BY <2>2 DEF Feed
  <2>4. feeds' \in [Displayed -> Feed] /\ \A f \in Displayed : feeds'[f].alive = feeds[f].alive
    BY <2>1, <2>2, <2>3 DEF Feed
  <2>5. feeds'[disp].active = on
    BY <2>1, <2>2 DEF Feed
  <2> QED BY <2>1, <2>4, <2>5
<1> QED BY <1>1, <1>2

LEMMA StepFeedInv == FeedInv /\ [DisplayNext]_displayVars => FeedInv'
<1> SUFFICES ASSUME FeedInv, [DisplayNext]_displayVars PROVE FeedInv'
  OBVIOUS
<1> USE DEF FeedInv
<1>1. CASE UNCHANGED <<feeds, disp, callback>> /\ slot' \in {slot, "idle", "ready"}
  BY <1>1 DEF CallbackIsLive
<1>2. CASE OnFrame
  <2>1. feeds' = [feeds EXCEPT ![callback].pending = TRUE,
                               ![callback].posted = @ \/ ~feeds[callback].pending]
        /\ UNCHANGED <<disp, callback, slot>>
    BY <1>2 DEF OnFrame
  <2>2. feeds' \in [Displayed -> Feed]
    BY <2>1 DEF Feed
  <2>3. \A f \in Displayed : feeds'[f].alive = feeds[f].alive /\ feeds'[f].active = feeds[f].active
    BY <2>1 DEF Feed
  <2> QED BY <2>1, <2>2, <2>3 DEF CallbackIsLive
<1>3. ASSUME NEW f \in Displayed, KdeDeliver(f) PROVE FeedInv'
  <2>1. feeds' = [feeds EXCEPT ![f].posted = FALSE, ![f].pending = FALSE]
        /\ UNCHANGED <<disp, callback>> /\ slot' # "swap"
    BY <1>3 DEF KdeDeliver, frameVars
  <2>2. feeds' \in [Displayed -> Feed]
    BY <2>1 DEF Feed
  <2>3. \A g \in Displayed : feeds'[g].alive = feeds[g].alive /\ feeds'[g].active = feeds[g].active
    BY <2>1 DEF Feed
  <2> QED BY <2>1, <2>2, <2>3 DEF CallbackIsLive
<1>4. CASE KdeShow
  <2>1. SetActive(disp, ~visible) /\ disp' = disp /\ slot' # "swap"
    BY <1>4 DEF KdeShow
  <2> QED BY <2>1, SetActiveInOrder DEF CallbackIsLive
<1>5. CASE KdeShowSoftware
  <2>1. SetActive(disp, TRUE) /\ disp' = disp /\ slot' # "swap"
    BY <1>5 DEF KdeShowSoftware
  <2> QED BY <2>1, SetActiveInOrder DEF CallbackIsLive
<1>6. CASE KdeUseSoftware
  <2>1. disp = "gpu" /\ disp' = "soft"
    BY <1>6 DEF KdeUseSoftware
  <2>2. feeds' = [feeds EXCEPT !["gpu"].active = FALSE, !["soft"].alive = TRUE]
    BY <1>6 DEF KdeUseSoftware
  <2>3. callback' = Nobody
    BY <1>6, <2>1 DEF KdeUseSoftware, SetCallback, CallbackIsLive
  <2>4. feeds' \in [Displayed -> Feed]
    BY <2>2 DEF Feed, Displayed
  <2>5. feeds'["soft"].alive
    BY <2>2 DEF Feed, Displayed
  <2> QED BY <2>1, <2>3, <2>4, <2>5 DEF CallbackIsLive, Displayed
<1>7. CASE KdeDeleteOld
  <2>1. disp = "soft" /\ UNCHANGED <<disp, slot>> /\ callback' \in {callback, Nobody}
    BY <1>7 DEF KdeDeleteOld, SetCallback
  <2>2. feeds' = [feeds EXCEPT !["gpu"] = [NewFeed EXCEPT !.alive = FALSE]]
    BY <1>7 DEF KdeDeleteOld
  <2>3. [NewFeed EXCEPT !.alive = FALSE] \in Feed
    BY DEF NewFeed, Feed
  <2>4. feeds' \in [Displayed -> Feed] /\ feeds'["soft"] = feeds["soft"]
    BY <2>2, <2>3 DEF Displayed
  <2> QED BY <2>1, <2>4 DEF CallbackIsLive
<1>8. CASE Machine
  <2>1. callback' = callback
    BY <1>8 DEF Machine, Draw, VidEnable, Refresh, Keep, NewMachine, CallBegin
  <2> QED BY <1>1, <1>8, <2>1 DEF Machine, kdeVars
<1>9. CASE GnomeTick \/ WinCopy \/ GdiCopy \/ PullFrame \/ KdeReady
  BY <1>1, <1>9 DEF GnomeTick, WinCopy, GdiCopy, PullFrame, KdeReady, frameVars, kdeVars
<1>10. CASE Draws
  BY <1>1, <1>10 DEF Draws, GnomeDraw, KdeDraw, WinPresent, WinLost, GdiPaint, DrawRect, frameVars, kdeVars
<1>11. CASE GnomeShow \/ WinShow \/ MacShow
  BY <1>1, <1>11 DEF GnomeShow, WinShow, MacShow, frameVars, kdeVars
<1>12. CASE GnomeRelease \/ GnomeDispose \/ KdeNewRhi \/ DeviceRemoved
  BY <1>1, <1>12 DEF GnomeRelease, GnomeDispose, KdeNewRhi, DeviceRemoved, frameVars, kdeVars
<1>13. CASE UNCHANGED displayVars
  BY <1>1, <1>13 DEF displayVars, frameVars, kdeVars
<1>14. CASE Copies
  BY <1>14, <1>3, <1>5, <1>9 DEF Copies
<1>15. CASE Windowing
  BY <1>15, <1>4, <1>11 DEF Windowing
<1>16. CASE Resources
  BY <1>16, <1>6, <1>7, <1>12 DEF Resources
<1> QED BY <1>2, <1>8, <1>10, <1>13, <1>14, <1>15, <1>16 DEF DisplayNext

\* FrameFeed::setActive, useSoftwareDisplay, intv_frame_set_frame_callback:
\* the core never calls a display that was deleted, hidden or replaced.
THEOREM CallbackAlwaysLive == DisplaySpec => []CallbackIsLive
<1>1. FeedInv => CallbackIsLive
  BY DEF FeedInv
<1> QED BY <1>1, InitFeedInv, StepFeedInv, PTL DEF DisplaySpec

-----------------------------------------------------------------------------
(* The pool of gnome.                                                      *)

\* One reference is the widget's, one each loan's.
PoolInv == /\ pool \in [widget : BOOLEAN, spare : 0 .. PoolKeep, loans : Nat, refs : Nat]
           /\ pool.refs = pool.loans + IF pool.widget THEN 1 ELSE 0

LEMMA InitPoolInv == DisplayInit => PoolInv
BY DisplayAssumption DEF DisplayInit, PoolInv

LEMMA StepPoolInv == PoolInv /\ [DisplayNext]_displayVars => PoolInv'
<1> SUFFICES ASSUME PoolInv, [DisplayNext]_displayVars PROVE PoolInv'
  OBVIOUS
<1>0. PoolKeep \in Nat
  BY DisplayAssumption
<1>1. CASE pool' = pool
  BY <1>1 DEF PoolInv
<1>2. CASE GnomeTick
  <2>1. pool' = [pool EXCEPT !.spare = IF @ > 0 THEN @ - 1 ELSE @, !.loans = @ + 1, !.refs = @ + 1]
    BY <1>2 DEF GnomeTick, Lent
  <2> DEFINE p == [pool EXCEPT !.spare = IF @ > 0 THEN @ - 1 ELSE @, !.loans = @ + 1, !.refs = @ + 1]
  <2>5. /\ (IF pool.spare > 0 THEN pool.spare - 1 ELSE pool.spare) \in 0 .. PoolKeep
        /\ pool.loans + 1 \in Nat /\ pool.refs + 1 \in Nat
    BY <1>0 DEF PoolInv
  <2>2. /\ p.widget = pool.widget
        /\ p.loans = pool.loans + 1 /\ p.refs = pool.refs + 1
        /\ p \in [widget : BOOLEAN, spare : 0 .. PoolKeep, loans : Nat, refs : Nat]
    BY <2>5 DEF PoolInv
  <2>3. p.refs = p.loans + IF p.widget THEN 1 ELSE 0
    BY <2>2 DEF PoolInv
  <2> HIDE DEF p
  <2>4. pool' = p
    BY <2>1 DEF p
  <2> QED BY <2>2, <2>3, <2>4 DEF PoolInv
<1>3. CASE GnomeRelease
  <2>1. pool' = [pool EXCEPT !.spare = IF @ < PoolKeep THEN @ + 1 ELSE @, !.loans = @ - 1, !.refs = @ - 1]
    BY <1>3 DEF GnomeRelease, Returned
  <2>2. pool.loans > 0
    BY <1>3 DEF GnomeRelease, PoolInv
  <2> DEFINE p == [pool EXCEPT !.spare = IF @ < PoolKeep THEN @ + 1 ELSE @, !.loans = @ - 1, !.refs = @ - 1]
  <2>3. /\ (IF pool.spare < PoolKeep THEN pool.spare + 1 ELSE pool.spare) \in 0 .. PoolKeep
        /\ pool.loans - 1 \in Nat /\ pool.refs - 1 \in Nat
    BY <1>0, <2>2 DEF PoolInv
  <2>4. /\ p.widget = pool.widget
        /\ p.loans = pool.loans - 1 /\ p.refs = pool.refs - 1
        /\ p \in [widget : BOOLEAN, spare : 0 .. PoolKeep, loans : Nat, refs : Nat]
    BY <2>3 DEF PoolInv
  <2>5. p.refs = p.loans + IF p.widget THEN 1 ELSE 0
    BY <2>4 DEF PoolInv
  <2> HIDE DEF p
  <2>6. pool' = p
    BY <2>1 DEF p
  <2> QED BY <2>4, <2>5, <2>6 DEF PoolInv
<1>4. CASE GnomeDispose
  <2>1. pool' = [pool EXCEPT !.widget = FALSE, !.refs = @ - 1] /\ pool.widget
    BY <1>4 DEF GnomeDispose
  <2>2. pool.refs - 1 \in Nat /\ pool.refs - 1 = pool.loans
    BY <2>1 DEF PoolInv
  <2>3. pool' \in [widget : BOOLEAN, spare : 0 .. PoolKeep, loans : Nat, refs : Nat]
    BY <2>1, <2>2 DEF PoolInv
  <2>4. pool'.loans = pool.loans /\ pool'.refs = pool.refs - 1 /\ pool'.widget = FALSE
    BY <2>1 DEF PoolInv
  <2> QED BY <2>2, <2>3, <2>4 DEF PoolInv
<1>5. CASE Machine \/ OnFrame \/ Draws \/ Windowing
  <2>1. pool' = pool
    BY <1>5 DEF Machine, OnFrame, Draws, GnomeDraw, KdeDraw, WinPresent, WinLost, GdiPaint, DrawRect,
                Windowing, GnomeShow, KdeShow, WinShow, MacShow
  <2> QED BY <1>1, <2>1
<1>6. CASE Copies
  <2>1. GnomeTick \/ pool' = pool
    BY <1>6 DEF Copies, WinCopy, GdiCopy, PullFrame, KdeReady, KdeShowSoftware, KdeDeliver
  <2> QED BY <1>1, <1>2, <2>1
<1>7. CASE Resources
  <2>1. GnomeRelease \/ GnomeDispose \/ pool' = pool
    BY <1>7 DEF Resources, KdeNewRhi, KdeUseSoftware, KdeDeleteOld, DeviceRemoved, uiVars
  <2> QED BY <1>1, <1>3, <1>4, <2>1
<1>8. CASE UNCHANGED displayVars
  BY <1>1, <1>8 DEF displayVars
<1> QED BY <1>5, <1>6, <1>7, <1>8 DEF DisplayNext

\* pool_unref, pool_give: the pool is freed exactly when its widget is gone
\* and no texture borrows from it, however many GTK keeps.
THEOREM PoolAlwaysSound == DisplaySpec => []PoolSound
<1>1. PoolInv => PoolSound
  BY DEF PoolInv, PoolSound
<1> QED BY <1>1, InitPoolInv, StepPoolInv, PTL DEF DisplaySpec
=============================================================================
