----------------------------- MODULE DebugEngine -----------------------------
(***************************************************************************)
(* debugger.c: the debugger engine, between the UI thread that calls it    *)
(* and the emulator thread that runs the CPU and blocks in its hook; and   *)
(* the start and the stop of that thread (intv_host.c), which find the     *)
(* engine in whatever state the UI left it.                                *)
(*                                                                         *)
(* A critical section of d->lock is one step.  What the UI thread does     *)
(* outside the lock (intvdebug_pause, intvdebug_set_engaged) takes several *)
(* steps.  The CPU executes Prog, where an address stands for a whole      *)
(* instruction; cp1600_run() runs it in slices of at most SliceLen         *)
(* instructions and visits its do_instr_tick label after each slice, after *)
(* each instruction when step_count is 1, and at each breakpoint.          *)
(***************************************************************************)
EXTENDS Integers, Sequences, FiniteSets

CONSTANTS Prog,          \* the program: what each address does
          SliceLen,      \* bound: instructions of a timeslice
          MaxBreak,      \* INTVDEBUG_MAX_BREAKPOINTS
          MaxCmds,       \* bound: calls the UI makes
          BreakAt,       \* bound: where the user sets breakpoints
          Restarts       \* may the UI stop and start the session?

Addr == DOMAIN Prog
Ops  == {"op", "jump", "jsr", "ret"}

ASSUME DebugAssumption ==
    /\ Prog \in [Addr -> [op : Ops, to : Addr]]
    /\ 0 \in Addr
    /\ \A a \in Addr : Prog[a].op \in {"op", "jsr"} => a + 1 \in Addr
    /\ SliceLen \in Nat \ {0}
    /\ MaxBreak \in Nat /\ MaxCmds \in Nat
    /\ BreakAt \subseteq Addr
    /\ Restarts \in BOOLEAN

VARIABLES
    \* struct intvdebug
    engaged, paused, stepMode, serial, bps,
    \* cp1600_t: the hook, its counters, the breakpoints
    hook, stepCount, steps, hit, bkpt, once,
    \* ... and the machine's own state
    pc, r5,
    \* the emulator thread: where it is, how far in its slice, whether the
    \* instruction at pc is executed although it has a breakpoint
    emu, slice, over,
    \* intv_host: s_running, intv.do_exit
    running, doExit,
    \* the UI thread: where it is in a call; calls made
    ui, ncmd,
    \* history: the last command that set the machine going, the instructions
    \* executed and whether a breakpoint was met since
    last, ran, broke

dbgVars  == <<engaged, paused, stepMode, serial, bps>>
hookVars == <<hook, stepCount>>
cpuVars  == <<pc, r5>>
hostVars == <<running, doExit>>
uiVars   == <<ui, ncmd>>
runVars  == <<steps, hit, emu, slice, over>>
histVars == <<ran, broke>>
vars == <<dbgVars, hookVars, cpuVars, hostVars, uiVars, runVars, histVars,
          bkpt, once, last>>

DebugTypeOK ==
    /\ engaged \in BOOLEAN /\ paused \in BOOLEAN /\ stepMode \in BOOLEAN
    /\ serial \in Nat
    /\ bps \in Seq(Addr) /\ Len(bps) <= MaxBreak

CpuTypeOK ==
    /\ hook \in {"console", "ours", "none"}
    /\ stepCount \in {"one", "free"} /\ steps \in {"one", "free"}
    /\ hit \in BOOLEAN
    /\ bkpt \subseteq Addr /\ once \subseteq Addr
    /\ pc \in Addr /\ r5 \in Addr

ThreadTypeOK ==
    /\ emu \in {"none", "boot", "run", "label", "tick", "parked", "top"}
    /\ slice \in 0..SliceLen
    /\ emu = "run" => slice < SliceLen
    /\ over \in BOOLEAN
    /\ running \in BOOLEAN /\ doExit \in BOOLEAN
    /\ ui \in {"idle", "pausing", "released", "unhooked", "joining"}
    /\ ncmd \in 0..MaxCmds

HistTypeOK ==
    /\ last \in {"none", "run", "step", "over", "out"}
    /\ ran \in 0..2 /\ broke \in BOOLEAN

TypeOK == DebugTypeOK /\ CpuTypeOK /\ ThreadTypeOK /\ HistTypeOK

\* A session that runs, with the debugger's window not open yet.
Init ==
    /\ engaged = FALSE /\ paused = FALSE /\ stepMode = FALSE
    /\ serial = 0 /\ bps = <<>>
    /\ hook = "console" /\ stepCount = "free" /\ steps = "free"
    /\ hit = FALSE /\ bkpt = {} /\ once = {}
    /\ pc = 0 /\ r5 = 0
    /\ emu = "run" /\ slice = 0 /\ over = FALSE
    /\ running = TRUE /\ doExit = FALSE
    /\ ui = "idle" /\ ncmd = 0
    /\ last = "none" /\ ran = 0 /\ broke = FALSE

-----------------------------------------------------------------------------
(* The emulator thread.                                                    *)

\* What one instruction does.  JSR leaves its return address in R5.
Executes(i) ==
    \/ /\ i.op = "op"
       /\ pc' = pc + 1
       /\ UNCHANGED r5
    \/ /\ i.op = "jump"
       /\ pc' = i.to
       /\ UNCHANGED r5
    \/ /\ i.op = "jsr"
       /\ r5' = pc + 1
       /\ pc' = i.to
    \/ /\ i.op = "ret"
       /\ pc' = r5
       /\ UNCHANGED r5

AtBreak == pc \in bkpt \cup once /\ ~over

CpuExec ==
    /\ emu = "run" /\ ~AtBreak
    /\ Executes(Prog[pc])
    /\ over' = FALSE
    /\ slice' \in {slice + 1, SliceLen}
    /\ emu' = IF steps = "one" \/ slice' = SliceLen THEN "label" ELSE "run"
    /\ ran' = IF ran = 2 THEN 2 ELSE ran + 1
    /\ UNCHANGED <<dbgVars, hookVars, hostVars, uiVars, steps, hit, broke, bkpt, once,
                   last>>

CpuBreaks ==
    /\ emu = "run" /\ AtBreak
    /\ hit' = TRUE
    /\ once' = once \ {pc}
    /\ over' = TRUE
    /\ emu' = "label"
    /\ broke' = TRUE
    /\ UNCHANGED <<dbgVars, hookVars, cpuVars, hostVars, uiVars, steps, slice, ran, bkpt,
                   last>>

\* steps_remaining is refilled, and the slice goes on if there is any left.
Continues(count) == /\ steps' = count
                    /\ emu' = IF slice = SliceLen THEN "top" ELSE "run"

\* do_instr_tick: the hook is called, if it is ours.
CpuLabel ==
    /\ emu = "label"
    /\ \/ /\ hook = "ours"
          /\ emu' = "tick"
          /\ UNCHANGED steps
       \/ /\ hook # "ours"
          /\ Continues(stepCount)
    /\ UNCHANGED <<dbgVars, hookVars, cpuVars, hostVars, uiVars, hit, slice, over,
                   histVars, bkpt, once, last>>

\* debug_tick() with nothing asked for.
TickPasses ==
    /\ emu = "tick" /\ ~hit /\ ~stepMode
    /\ Continues(stepCount)
    /\ UNCHANGED <<dbgVars, hookVars, cpuVars, hostVars, uiVars, hit, slice, over,
                   histVars, bkpt, once, last>>

\* Mutant: the breakpoint that stopped the machine stays pending.
TickParksStale ==
    /\ emu = "tick" /\ (hit \/ stepMode)
    /\ paused' = TRUE
    /\ serial' = serial + 1
    /\ emu' = "parked"
    /\ UNCHANGED <<engaged, stepMode, bps, hookVars, cpuVars, hostVars, uiVars, steps, hit,
                   slice, over, histVars, bkpt, once, last>>

\* Mutant: the stop is not counted.
TickParksUncounted ==
    /\ emu = "tick" /\ (hit \/ stepMode)
    /\ paused' = TRUE
    /\ hit' = FALSE
    /\ emu' = "parked"
    /\ UNCHANGED <<engaged, stepMode, serial, bps, hookVars, cpuVars, hostVars, uiVars, steps,
                   slice, over, histVars, bkpt, once, last>>

\* debug_tick() stops the machine: the thread waits for d->cond.
TickParks ==
    /\ emu = "tick" /\ (hit \/ stepMode)
    /\ paused' = TRUE
    /\ serial' = serial + 1
    /\ hit' = FALSE
    /\ emu' = "parked"
    /\ UNCHANGED <<engaged, stepMode, bps, hookVars, cpuVars, hostVars, uiVars, steps,
                   slice, over, histVars, bkpt, once, last>>

\* Mutant: woken, the machine runs free whatever it was woken for.
RunMode == "free"

StepCount == IF stepMode THEN "one" ELSE "free"

\* Mutant: a wakeup is believed without looking at d->paused.
TickWakesSpurious ==
    /\ emu = "parked"
    /\ stepCount' = StepCount
    /\ Continues(StepCount)
    /\ over' = TRUE
    /\ ran' = 0 /\ broke' = FALSE
    /\ UNCHANGED <<dbgVars, hook, cpuVars, hostVars, uiVars, hit, slice, bkpt, once,
                   last>>

\* debug_tick() wakes up, and sets the run mode for what happens next.
TickWakes ==
    /\ emu = "parked" /\ ~paused
    /\ stepCount' = StepCount
    /\ Continues(StepCount)
    /\ over' = TRUE
    /\ ran' = 0 /\ broke' = FALSE
    /\ UNCHANGED <<dbgVars, hook, cpuVars, hostVars, uiVars, hit, slice, bkpt, once,
                   last>>

\* jzIntv's main loop, between two slices: it ends when do_exit is set, and
\* the thread with it; the next slice forgets the breakpoint of this one.
LoopTop ==
    /\ emu = "top"
    /\ hit' = FALSE
    /\ \/ /\ doExit
          /\ running' = FALSE
          /\ emu' = "none"
          /\ UNCHANGED slice
       \/ /\ ~doExit
          /\ slice' = 0
          /\ emu' = "run"
          /\ UNCHANGED running
    /\ UNCHANGED <<dbgVars, hookVars, cpuVars, doExit, uiVars, steps, over, histVars,
                   bkpt, once, last>>

\* cfg_init(): a new machine, with jzIntv's own console debugger as its hook.
Boots ==
    /\ emu = "boot"
    /\ hook' = "console" /\ stepCount' = "free" /\ steps' = "free"
    /\ pc' = 0 /\ r5' = 0
    /\ slice' = 0 /\ over' = FALSE /\ hit' = FALSE
    /\ emu' = "run"
    /\ UNCHANGED <<dbgVars, hostVars, uiVars, histVars, bkpt, once, last>>

-----------------------------------------------------------------------------
(* The UI thread.                                                          *)

\* Calls.  They are made one at a time, and not while the thread is in
\* pthread_join().
Calls == /\ ui = "idle"
         /\ ncmd < MaxCmds
         /\ ncmd' = ncmd + 1

UIOnly == UNCHANGED <<serial, bps, cpuVars, runVars, histVars, hostVars>>

\* intvdebug_set_engaged(d, 1)
Engage ==
    /\ Calls
    /\ ~engaged
    /\ engaged' = TRUE
    /\ hook' = "ours"
    /\ last' = "none"
    /\ UNCHANGED <<ui, paused, stepMode, stepCount, bkpt, once>>
    /\ UIOnly

\* Mutant: asking for a pause does not change the mode, only the count.
PauseCountOnly ==
    /\ Calls
    /\ engaged
    /\ ui' = "pausing"
    /\ last' = "none"
    /\ UNCHANGED <<engaged, paused, stepMode, hookVars, bkpt, once>>
    /\ UIOnly

\* intvdebug_pause(): the mode under the lock, then the count without it.
Pause ==
    /\ Calls
    /\ engaged
    /\ stepMode' = TRUE
    /\ ui' = "pausing"
    /\ last' = "none"
    /\ UNCHANGED <<engaged, paused, hookVars, bkpt, once>>
    /\ UIOnly

PauseCounts ==
    /\ ui = "pausing"
    /\ stepCount' = "one"
    /\ ui' = "idle"
    /\ UNCHANGED <<engaged, paused, stepMode, hook, ncmd, bkpt, once, last>>
    /\ UIOnly

\* The thread in the hook is woken in the mode it is to run in.
Release(mode, cmd) == /\ paused
                      /\ paused' = FALSE
                      /\ stepMode' = mode
                      /\ last' = cmd

ResumeLets == Release(FALSE, "run")

Resume ==
    /\ Calls
    /\ ResumeLets
    /\ UNCHANGED <<ui, engaged, hookVars, bkpt, once>>
    /\ UIOnly

Step ==
    /\ Calls
    /\ Release(TRUE, "step")
    /\ UNCHANGED <<ui, engaged, hookVars, bkpt, once>>
    /\ UIOnly

\* A one-shot breakpoint on the instruction after a call; any other
\* instruction is stepped.
StepOver ==
    /\ Calls
    /\ \/ /\ Prog[pc].op = "jsr"
          /\ Release(FALSE, "over")
          /\ once' = once \cup {pc + 1}
       \/ /\ Prog[pc].op # "jsr"
          /\ Release(TRUE, "step")
          /\ UNCHANGED once
    /\ UNCHANGED <<ui, engaged, hookVars, bkpt>>
    /\ UIOnly

\* A one-shot breakpoint where R5 points.
StepOut ==
    /\ Calls
    /\ Release(FALSE, "out")
    /\ once' = once \cup {r5}
    /\ UNCHANGED <<ui, engaged, hookVars, bkpt>>
    /\ UIOnly

\* intvdebug_set_engaged(d, 0), in three steps: the resume, the hook, the count.
Disengage ==
    /\ Calls
    /\ engaged
    /\ \/ ResumeLets
       \/ /\ ~paused
          /\ UNCHANGED <<paused, stepMode, last>>
    /\ ui' = "released"
    /\ UNCHANGED <<engaged, hookVars, bkpt, once>>
    /\ UIOnly

Unhook ==
    /\ ui = "released"
    /\ engaged' = FALSE
    /\ hook' = "none"
    /\ ui' = "unhooked"
    /\ last' = "none"
    /\ UNCHANGED <<paused, stepMode, stepCount, ncmd, bkpt, once>>
    /\ UIOnly

SetFree ==
    /\ ui = "unhooked"
    /\ stepCount' = "free"
    /\ ui' = "idle"
    /\ UNCHANGED <<engaged, paused, stepMode, hook, ncmd, bkpt, once, last>>
    /\ UIOnly

BpOnly == UNCHANGED <<ui, engaged, paused, stepMode, serial, hookVars, once, last,
                      cpuVars, runVars, histVars, hostVars>>

\* Mutant: the table has no end.
BreakToggleUnbounded(a) ==
    /\ Calls
    /\ \A i \in 1..Len(bps) : bps[i] # a
    /\ bps' = Append(bps, a)
    /\ bkpt' = bkpt \cup {a}
    /\ BpOnly

\* intvdebug_breakpoint_toggle(): the table and the CPU's own set; a full
\* table refuses.
BreakToggle(a) ==
    /\ Calls
    /\ \/ \E i \in 1..Len(bps) :
            /\ bps[i] = a
            /\ bps' = [j \in 1..(Len(bps) - 1) |-> IF j < i THEN bps[j] ELSE bps[j + 1]]
            /\ bkpt' = bkpt \ {a}
       \/ /\ \A i \in 1..Len(bps) : bps[i] # a
          /\ Len(bps) < MaxBreak
          /\ bps' = Append(bps, a)
          /\ bkpt' = bkpt \cup {a}
    /\ BpOnly

BreakClearAll ==
    /\ Calls
    /\ bps # <<>>
    /\ bkpt' = bkpt \ {bps[i] : i \in 1..Len(bps)}
    /\ bps' = <<>>
    /\ BpOnly

\* intv_host_stop(): do_exit, then pthread_join().
HostStop ==
    /\ Restarts
    /\ Calls
    /\ running
    /\ doExit' = TRUE
    /\ ui' = "joining"
    /\ UNCHANGED <<dbgVars, hookVars, cpuVars, runVars, histVars, running, bkpt, once,
                   last>>

HostJoined ==
    /\ ui = "joining" /\ emu = "none"
    /\ ui' = "idle"
    /\ UNCHANGED <<dbgVars, hookVars, cpuVars, runVars, histVars, hostVars, ncmd, bkpt,
                   once, last>>

\* intv_host_start()
HostStart ==
    /\ Restarts
    /\ Calls
    /\ ~running
    /\ running' = TRUE /\ doExit' = FALSE
    /\ emu' = "boot"
    /\ last' = "none"
    /\ UNCHANGED <<ui, dbgVars, hookVars, cpuVars, steps, hit, slice, over, histVars, bkpt,
                   once>>

-----------------------------------------------------------------------------
Emulator == CpuExec \/ CpuBreaks \/ CpuLabel \/ TickPasses \/ TickParks \/ TickWakes
            \/ LoopTop \/ Boots

\* What the UI thread is in the middle of.
Finishes == PauseCounts \/ Unhook \/ SetFree \/ HostJoined

Command == \/ Engage \/ Pause \/ Resume \/ Step \/ StepOver \/ StepOut \/ Disengage
           \/ \E a \in BreakAt : BreakToggle(a)
           \/ BreakClearAll
           \/ HostStop \/ HostStart

Next == Emulator \/ Finishes \/ Command

Spec == Init /\ [][Next]_vars

\* Both threads are scheduled.  The user is not obliged to press anything.
FairSpec == Spec /\ WF_vars(Emulator) /\ WF_vars(Finishes)
-----------------------------------------------------------------------------
(* Properties.                                                             *)

\* While d->paused reads true the emulator thread is inside the hook, so that
\* registers and memory can be read from the UI thread (intvdebug.h, THREADING),
\* whatever calls, stops and starts came before.
InspectQuiet == paused => emu = "parked" /\ running

\* ... which holds because a thread that has not ended belongs to a session.
QuietInv == /\ InspectQuiet
            /\ emu # "none" => running

\* A single step executes exactly one instruction before the machine stops.
StepIsOne == (emu = "parked" /\ paused /\ last = "step") => ran = 1

\* ... which holds because a step in progress under the engine's hook keeps the
\* mode and the count until the machine stops, and passes the breakpoint it
\* starts from; without the hook it does not stop at all.
StepUnderway == last = "step" /\ ~paused /\ emu # "none"

StepInv ==
    /\ StepIsOne
    /\ ui = "unhooked" => last = "none"
    /\ StepUnderway => stepMode /\ emu # "boot"
    /\ (StepUnderway /\ emu = "tick") => ran = 1
    /\ (StepUnderway /\ hook = "ours") =>
          /\ emu # "parked" => steps = "one"
          /\ emu \in {"run", "top"} => ran = 0 /\ over
          /\ emu = "label" => ran = 1

\* A machine that was resumed stops again only at a breakpoint, not for the
\* one it was resumed from.
NoSpuriousStop == (emu = "parked" /\ paused /\ last = "run") => broke

\* A pause takes effect, unless the debugger is released or the session stopped.
PauseStops == ui = "pausing" ~> (paused \/ hook # "ours" \/ ~running \/ doExit)

\* debugger.c, intvdebug_set_engaged: "never leave the emulator thread parked".
ReleasedRuns == (emu = "parked" /\ paused) => engaged

\* intv_host.h: intv_host_stop "joins" the emulator thread.
StopJoins == ui = "joining" ~> ui = "idle"

\* intvdebug.h: engaging puts the engine's hook in place of the console
\* debugger's.
EngagedHooked == (engaged /\ ui = "idle" /\ emu \notin {"none", "boot"}) => hook = "ours"

\* Seen from its windows, the engine is StopEngine: it stops with a new serial
\* if it was asked to or has a breakpoint, and goes on only when let go, across
\* hooks, counts, timeslices, and sessions that end and start underneath.
Stop == INSTANCE StopEngine WITH
            Places <- Addr,
            wanted <- stepMode,
            armed  <- hit \/ bkpt \cup once # {},
            marks  <- {bps[i] : i \in DOMAIN bps}
StopSpec == Stop!StopSpec

=============================================================================
