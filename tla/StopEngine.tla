----------------------------- MODULE StopEngine -----------------------------
(***************************************************************************)
(* What the debugger's engine is to its windows: a machine that stops,     *)
(* each time with a new serial, because somebody asked for it or because   *)
(* it met a breakpoint, and that goes on when it is let go.  DebugEngine   *)
(* shows how: the CPU, its hook, the two threads.                          *)
(***************************************************************************)
EXTENDS Integers

CONSTANT Places      \* where a breakpoint may be

VARIABLES paused,    \* intvdebug_is_paused()
          serial,    \* intvdebug_stop_serial()
          wanted,     \* a pause or a step was asked for
          armed,     \* a breakpoint is set, or a one-shot, or was just met
          marks      \* the user's breakpoints

stopVars == <<paused, serial, wanted, armed, marks>>

StopInit == /\ paused = FALSE /\ serial = 0
            /\ wanted = FALSE /\ armed = FALSE /\ marks = {}

\* debug_tick() holds the emulator thread; a one-shot is spent.
Stops ==
    /\ ~paused /\ (wanted \/ armed)
    /\ paused' = TRUE /\ serial' = serial + 1
    /\ armed' \in {armed, FALSE}
    /\ UNCHANGED <<wanted, marks>>

\* A breakpoint that was met is forgotten at the end of a timeslice.
Lapses == armed /\ armed' = FALSE /\ UNCHANGED <<paused, serial, wanted, marks>>

\* intvdebug_pause
Asks == wanted' = TRUE /\ UNCHANGED <<paused, serial, armed, marks>>

\* intvdebug_resume, _step, _step_over and _step_out: the last two may leave a
\* one-shot in the CPU.
LetsGo(step, once) ==
    /\ paused /\ paused' = FALSE
    /\ wanted' = step
    /\ armed' = (armed \/ once)
    /\ UNCHANGED <<serial, marks>>

\* intvdebug_set_engaged(d, 0)
Releases == IF paused THEN LetsGo(FALSE, FALSE) ELSE UNCHANGED stopVars

\* intvdebug_breakpoint_toggle and _clear_all
Marks(m) ==
    /\ marks' = m
    /\ IF m \subseteq marks THEN armed' \in {armed, FALSE} ELSE armed' = TRUE
    /\ UNCHANGED <<paused, serial, wanted>>

StopNext == \/ Stops \/ Lapses \/ Asks
            \/ \E step, once \in BOOLEAN : LetsGo(step, once)
            \/ \E m \in SUBSET Places : Marks(m)

StopSpec == StopInit /\ [][StopNext]_stopVars
=============================================================================
