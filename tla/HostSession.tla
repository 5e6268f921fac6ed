------------------------------ MODULE HostSession ------------------------------
(***************************************************************************)
(* Starting and stopping the machine: intvsession_start and _stop, as the  *)
(* frontends call them, with what they start and stop in turn -- the       *)
(* in-process FujiNet, jzIntv's thread, the gamepad thread, the audio      *)
(* device.  Each phase of a call is a step, and the machine, the device    *)
(* and the pads can come between any two.                                  *)
(*                                                                         *)
(* Every frontend calls intvsession_stop before it starts again, and calls *)
(* both from its one UI thread; jzIntv may end by itself at any time.      *)
(***************************************************************************)
EXTENDS Naturals, Sequences

CONSTANTS Carts,       \* the cartridge paths a frontend can pass
          NoCart,      \* no path: jzIntv boots the embedded CONFIG program
          Libraries,   \* what dlopen can find: "none", "good", "bad"
          MaxRuns,     \* bound: machines started
          RingMax      \* bound: samples the ring holds

ASSUME SessionAssumption ==
    /\ NoCart \notin Carts
    /\ Libraries \subseteq {"none", "good", "bad"}
    /\ MaxRuns \in Nat /\ RingMax \in Nat \ {0}

VARIABLES phase,     \* where the call in progress is, or "idle"
          starting,  \* it goes on to intvsession_start
          opts,      \* the intvsession_start_opts of the call
          cart,      \* the "cart" setting
          up,        \* the last call was a start and returned 0
          host,      \* s->boip_host
          external,  \* s->fujinet_external
          endpoint,  \* s->boip_endpoint
          gen,       \* machines started so far: the number of the last one
          live,      \* the machines inside jzintv_entry_point
          looping,   \* those past cfg_init, in jzIntv's main loop
          running,   \* s_running
          do_exit,   \* intv.do_exit
          argv,      \* s_argv, or NoArgs once it is freed
          samples,   \* whose samples intv_audio's ring holds, oldest first
          audio,     \* the SDL stream: "off", "paused" or "playing"
          pads,      \* the gamepad thread runs
          handle,    \* g_handle and g_start: "none", "good" or "bad"
          bridge,    \* s->fujinet_running
          voice,     \* the FujiNet's own samples: the machine they spoke for
          crashed    \* g_start was called through NULL

callVars == <<phase, starting, opts, cart, up>>
linkVars == <<host, external, endpoint>>
hostVars == <<gen, live, looping, running, do_exit, argv>>
soundVars == <<samples, audio, voice>>
bridgeVars == <<handle, bridge, crashed>>
sessionVars == <<callVars, linkVars, hostVars, soundVars, bridgeVars, pads>>

NoArgs == [cart |-> NoCart, dials |-> "nobody"]
Options == [cart : Carts \cup {NoCart}, fujinet : {"own", "external", "malformed"}]

Phases == {"idle"} \cup {"pads off", "audio off", "host off", "join", "fujinet off"}
                   \cup {"check", "link", "host on", "pads on", "audio open", "audio on"}

SessionInit ==
    /\ phase = "idle" /\ starting = FALSE /\ opts \in Options /\ cart = opts.cart /\ up = FALSE
    /\ host = "own" /\ external = FALSE /\ endpoint = "nobody"
    /\ gen = 0 /\ live = {} /\ looping = {} /\ running = FALSE /\ do_exit = FALSE
    /\ argv = NoArgs
    /\ samples = <<>> /\ audio = "off" /\ voice = 0
    /\ handle = "none" /\ bridge = FALSE /\ crashed = FALSE
    /\ pads = FALSE

-----------------------------------------------------------------------------
\* The calls.  Nothing else of the session runs on the UI thread meanwhile.

Idle == phase = "idle" /\ ~crashed

Call(first, starts) ==
    /\ Idle
    /\ phase' = first /\ starting' = starts /\ up' = FALSE
    /\ UNCHANGED <<linkVars, hostVars, soundVars, bridgeVars, pads>>

\* on_activate, main: the first start; restart_session: stop, then start,
\* with the settings as they are now.
Restart(fujinet) ==
    /\ Call("pads off", TRUE)
    /\ gen < MaxRuns
    /\ opts' = [cart |-> cart, fujinet |-> fujinet]
    /\ UNCHANGED cart

\* intvsession_load_cart; with no path, intvsession_reset_to_config.
LoadCart(path, fujinet) ==
    /\ Call("pads off", TRUE)
    /\ gen < MaxRuns
    /\ cart' = path
    /\ opts' = [cart |-> cart', fujinet |-> fujinet]

\* intvsession_stop, and what intvsession_free does to the machine.
Stop == /\ Call("pads off", FALSE)
        /\ UNCHANGED <<opts, cart>>

-----------------------------------------------------------------------------
\* intvsession_stop

At(p) == phase = p /\ ~crashed
GoTo(p) == phase' = p /\ UNCHANGED <<starting, opts, cart, up>>

\* intv_gamepad_stop joins the gamepad thread.
PadsOff == /\ At("pads off") /\ GoTo("audio off")
           /\ pads' = FALSE
           /\ UNCHANGED <<linkVars, hostVars, soundVars, bridgeVars>>

\* audio_stop: SDL waits for a callback in progress.
AudioOff == /\ At("audio off") /\ GoTo("host off")
            /\ audio' = "off"
            /\ UNCHANGED <<linkVars, hostVars, samples, voice, bridgeVars, pads>>

\* Mutant: the machine is not told to leave.
HostOffUnasked ==
    /\ At("host off")
    /\ GoTo(IF running THEN "join" ELSE "fujinet off")
    /\ UNCHANGED <<linkVars, hostVars, soundVars, bridgeVars, pads>>

\* intv_host_stop up to the join: of a machine that ended by itself nothing
\* is joined or freed.
HostOff ==
    /\ At("host off")
    /\ \/ running /\ do_exit' = TRUE /\ GoTo("join")
       \/ ~running /\ do_exit' = do_exit /\ GoTo("fujinet off")
    /\ UNCHANGED <<linkVars, gen, live, looping, running, argv,
                   soundVars, bridgeVars, pads>>

\* Mutant: the thread is not waited for.
JoinAtOnce == /\ At("join") /\ GoTo("fujinet off")
              /\ argv' = NoArgs
              /\ UNCHANGED <<linkVars, gen, live, looping, running, do_exit,
                             soundVars, bridgeVars, pads>>

\* pthread_join(s_thread): the last machine has left its thread.
Join == /\ At("join") /\ GoTo("fujinet off")
        /\ gen \notin live /\ ~running
        /\ argv' = NoArgs
        /\ UNCHANGED <<linkVars, gen, live, looping, running, do_exit,
                       soundVars, bridgeVars, pads>>

\* fujinet_stop: the runtime is stopped, then its samples are cleared.
BridgeStopped == /\ bridge' = FALSE
                 /\ voice' = IF bridge THEN 0 ELSE voice
                 /\ UNCHANGED <<handle, crashed>>
FujiNetOff == /\ At("fujinet off") /\ GoTo(IF starting THEN "check" ELSE "idle")
              /\ BridgeStopped
              /\ external' = FALSE
              /\ UNCHANGED <<host, endpoint, hostVars, samples, audio, pads>>

-----------------------------------------------------------------------------
\* intvsession_start

\* A phase that fails ends the call with -1.
Fail == GoTo("idle")

\* exec.bin and grom.bin, and ecs.bin where ECS is on.
Check == /\ At("check")
         /\ GoTo("link") \/ Fail
         /\ UNCHANGED <<linkVars, hostVars, soundVars, bridgeVars, pads>>

\* An external FujiNet, or an address that names none.
LinkExternal ==
    /\ At("link") /\ opts.fujinet # "own"
    /\ IF opts.fujinet = "malformed"
         THEN Fail /\ host' = "own" /\ external' = FALSE /\ endpoint' = endpoint
         ELSE GoTo("host on") /\ host' = "external" /\ external' = TRUE /\ endpoint' = "external"
    /\ UNCHANGED <<hostVars, soundVars, bridgeVars, pads>>

\* load_library_locked: the handle is kept whatever it lacks, and found
\* again by the next call.
Load(lib) == handle' = IF handle = "none" THEN lib ELSE handle
Loads(lib) == IF handle = "none" THEN lib = "good" ELSE TRUE

\* fujinet_start, best effort: provisioning, the library or the runtime may
\* fail; then fujinet_wait_for_boip, whose time-out changes nothing.
LinkOwn ==
    /\ At("link") /\ opts.fujinet = "own"
    /\ GoTo("host on")
    /\ host' = "own" /\ external' = FALSE /\ endpoint' = "own"
    /\ \/ bridge /\ UNCHANGED bridgeVars
       \/ ~bridge /\ UNCHANGED bridgeVars
       \/ /\ ~bridge
          /\ \E lib \in Libraries :
                /\ Load(lib)
                /\ crashed' = (Loads(lib) /\ handle = "bad")
                /\ bridge' \in IF Loads(lib) THEN BOOLEAN ELSE {FALSE}
    /\ UNCHANGED <<hostVars, soundVars, pads>>

\* Mutant: a start that fails leaves the FujiNet running.
UnstartedHalf == Fail /\ UNCHANGED <<gen, live, looping, running, voice, bridgeVars>>

\* intv_host_start.  It refuses a second machine, missing ROMs, a cartridge
\* it cannot read and a thread it cannot create; it builds argv in between.
Unstarted == /\ Fail
             /\ BridgeStopped
             /\ UNCHANGED <<gen, live, looping, running>>
HostRefused == /\ At("host on")
               /\ Unstarted
               /\ argv' \in IF running THEN {argv} ELSE {argv, NoArgs}
               /\ UNCHANGED <<linkVars, do_exit, samples, audio, pads>>
\* The thread is created.  do_exit is left as the last stop left it: it is
\* for the new machine's own set-up to clear.
HostOn ==
    /\ At("host on") /\ ~running
    /\ GoTo("pads on")
    /\ argv' = [cart |-> opts.cart, dials |-> host]
    /\ running' = TRUE
    /\ gen' = gen + 1 /\ live' = live \cup {gen'}
    /\ UNCHANGED <<linkVars, looping, do_exit, soundVars, bridgeVars, pads>>

PadsOn == /\ At("pads on") /\ GoTo("audio open")
          /\ pads' \in BOOLEAN
          /\ UNCHANGED <<linkVars, hostVars, soundVars, bridgeVars>>

\* audio_start: an open stream is left alone; without a device the machine
\* is silent; else the ring is emptied before the stream runs.
Started == phase' = "idle" /\ up' = TRUE /\ UNCHANGED <<starting, opts, cart>>
AudioOpen == /\ At("audio open")
             /\ \/ audio = "off" /\ audio' = "paused" /\ GoTo("audio on")
                \/ audio' = audio /\ Started
             /\ UNCHANGED <<linkVars, hostVars, samples, voice, bridgeVars, pads>>

\* Mutant: the ring keeps what the machine before left in it.
AudioOnStale == /\ At("audio on")
                /\ Started
                /\ audio' = "playing"
                /\ UNCHANGED <<linkVars, hostVars, samples, voice, bridgeVars, pads>>

AudioOn == /\ At("audio on")
           /\ Started
           /\ samples' = <<>>
           /\ audio' = "playing"
           /\ UNCHANGED <<linkVars, hostVars, voice, bridgeVars, pads>>

-----------------------------------------------------------------------------
\* The other threads

\* jzIntv's cfg_init, on the machine's thread: a machine is set up from
\* nothing, which wipes an exit request made in the meantime.
SetUp(m) == /\ m \in live /\ m \notin looping
            /\ looping' = looping \cup {m}
            /\ do_exit' = FALSE
            /\ UNCHANGED <<callVars, linkVars, gen, live, running, argv,
                           soundVars, bridgeVars, pads>>

\* A machine publishes a buffer; what does not fit pushes the oldest out.
Sound(m) == /\ m \in live /\ m \in looping /\ ~crashed
            /\ samples' = IF Len(samples) < RingMax THEN Append(samples, m)
                         ELSE Append(Tail(samples), m)
            /\ UNCHANGED <<callVars, linkVars, hostVars, audio, voice, bridgeVars, pads>>

\* jzIntv leaves its main loop, asked to or not; thread_main says so.
End(m) == /\ m \in live /\ m \in looping
          /\ live' = live \ {m} /\ looping' = looping \ {m}
          /\ running' = FALSE
          /\ UNCHANGED <<callVars, linkVars, gen, do_exit, argv, soundVars, bridgeVars, pads>>
\* An exit that was asked for is taken at the end of a frame.
Exit(m) == do_exit /\ End(m)

\* audio_cb: intvsession_render_audio takes the ring's oldest samples and
\* mixes the FujiNet's in while that runs.
Play == /\ audio = "playing" /\ samples # <<>> /\ ~crashed
        /\ samples' = Tail(samples)
        /\ voice' = IF bridge THEN 0 ELSE voice
        /\ UNCHANGED <<callVars, linkVars, hostVars, audio, bridgeVars, pads>>

\* The FujiNet speaks (SAM) for the machine that asks it to.
Speak(m) == /\ bridge /\ m \in live /\ m \in looping /\ argv.dials = "own" /\ ~crashed
            /\ voice' = m
            /\ UNCHANGED <<callVars, linkVars, hostVars, samples, audio, bridgeVars, pads>>

\* intv_host_reset, from the UI thread or the gamepad thread: the ring is
\* emptied so that nothing of before the reset is heard after it.
ResetGame == /\ Idle \/ pads
             /\ running /\ ~crashed
             /\ samples' = <<>>
             /\ UNCHANGED <<callVars, linkVars, hostVars, audio, voice, bridgeVars, pads>>

SessionNext ==
    \/ \E f \in {"own", "external", "malformed"} :
          \/ Restart(f)
          \/ \E path \in Carts \cup {NoCart} : LoadCart(path, f)
    \/ Stop
    \/ PadsOff \/ AudioOff \/ HostOff \/ Join \/ FujiNetOff
    \/ Check \/ LinkExternal \/ LinkOwn \/ HostRefused \/ HostOn
    \/ PadsOn \/ AudioOpen \/ AudioOn
    \/ \E m \in live : SetUp(m) \/ Sound(m) \/ End(m) \/ Speak(m)
    \/ Play \/ ResetGame

\* The UI thread goes on with a call it has begun, a machine's thread with
\* its set-up, and a machine that was told to leave its loop looks at the
\* flag every frame (DebugEngine has the exception: a parked machine).
CallStep == PadsOff \/ AudioOff \/ HostOff \/ Join \/ FujiNetOff
            \/ Check \/ LinkExternal \/ LinkOwn \/ HostRefused \/ HostOn
            \/ PadsOn \/ AudioOpen \/ AudioOn
SessionFairness == /\ WF_sessionVars(CallStep)
                   /\ WF_sessionVars(\E m \in live : SetUp(m))
                   /\ WF_sessionVars(\E m \in live : Exit(m))

SessionSpec == SessionInit /\ [][SessionNext]_sessionVars /\ SessionFairness

-----------------------------------------------------------------------------
Voices == 0 .. MaxRuns

SessionTypeOK ==
    /\ phase \in Phases /\ starting \in BOOLEAN
    /\ opts \in Options /\ cart \in Carts \cup {NoCart} /\ up \in BOOLEAN
    /\ host \in {"own", "external"} /\ external \in BOOLEAN
    /\ endpoint \in {"nobody", "own", "external"}
    /\ gen \in 0 .. MaxRuns /\ live \subseteq 1 .. MaxRuns /\ looping \subseteq live
    /\ running \in BOOLEAN /\ do_exit \in BOOLEAN
    /\ argv \in [cart : Carts \cup {NoCart}, dials : {"nobody", "own", "external"}]
    /\ samples \in Seq(1 .. MaxRuns) /\ audio \in {"off", "paused", "playing"}
    /\ pads \in BOOLEAN /\ handle \in {"none", "good", "bad"}
    /\ bridge \in BOOLEAN /\ voice \in Voices /\ crashed \in BOOLEAN

\* There is never more than one machine -- jzIntv is full of process-wide
\* state -- and the argument vector jzIntv reads for as long as it lives is
\* the one that was made for it.
OneMachine == \A m \in live : m = gen /\ running /\ argv # NoArgs

\* Once the device plays, what it plays is the present machine's: no sample
\* of the machine before a restart, no speech of a FujiNet session before.
SoundIsOwn == audio = "playing" => /\ \A i \in DOMAIN samples : samples[i] = gen
                                   /\ bridge => voice \in {0, gen}

\* Between calls, a session that is not up has nothing running: whichever
\* phase of the last start failed, and however the machine before it ended.
DownIsDown == Idle /\ ~up => /\ live = {} /\ ~running /\ ~bridge
                             /\ audio = "off" /\ ~pads

\* The machine runs the cartridge and dials the FujiNet that the session
\* reports, and where that FujiNet is somebody else's, none runs in-process.
RunsAsReported ==
    Idle /\ up /\ live # {} =>
        /\ argv.cart = cart
        /\ argv.dials = endpoint
        /\ external <=> (endpoint = "external")
        /\ external => ~bridge

\* A call comes back that is made when no machine is still in its set-up:
\* whichever machines before were told to leave, or left by themselves, the
\* request of this stop reaches the machine that this stop joins
\* (intv_host_stop).  The machine is not parked in the debugger: DebugEngine's
\* StopJoins is about that.
CallReturns == (phase = "pads off" /\ live \subseteq looping) ~> (phase = "idle")

\* A call made sooner may wait for ever: cfg_init wipes the request between
\* intv_host.c:426 and the join in the next line.  TLC refutes this one.
EveryCallReturns == (phase = "pads off") ~> (phase = "idle")

\* "Leave the handle mapped (never dlclose); just mark it unusable"
\* (fujinet_runtime.c:82): a library without the entry points is never
\* called.
NeverCallsNull == ~crashed
================================================================================
