----------------------------- MODULE DebugWindow -----------------------------
(***************************************************************************)
(* The four debugger windows (gnome, kde, windows: dbg_window.c and        *)
(* DebuggerWindow.cpp; macos: DebuggerWindow.m).  Nothing tells a window   *)
(* that the machine stopped: it polls the engine's serial and its paused   *)
(* flag, both without the lock, and draws its panes anew when one of them  *)
(* is not what it drew last.  A command that changes what the panes say    *)
(* without a stop forgets the serial, so that the next poll redraws.       *)
(*                                                                         *)
(* A handler of the UI thread is one step, but for the poll and for a      *)
(* redraw, which read the engine more than once while the machine runs.    *)
(* GNOME's poll is a frame callback that it takes away when it has nothing *)
(* to watch; the others' is a timer, KDE's while its window is shown.      *)
(***************************************************************************)
EXTENDS StopEngine

CONSTANTS Fronts,    \* the frontends: "gnome", "kde", "windows", "macos"
          Spots,     \* what the memory view and the card view may be moved to
          Home,      \* ... and where they start
          KickTicks, \* GNOME: frames it goes on polling after an action (60)
          MaxActs    \* bound: what the user does

ASSUME WindowAssumption == Home \in Spots /\ KickTicks \in Nat \ {0} /\ MaxActs \in Nat

VARIABLES front,     \* the frontend that runs
          window,    \* "closed", "shown", or "hidden" (minimised, covered)
          tick,      \* the poll is installed
          kick,      \* GNOME: frames left
          stage,     \* the UI thread: "idle", or where it is in a poll
          got,       \* ... the serial that poll has read
          seen_serial, was_paused,  \* the serial and the mode drawn last
          mem, card, \* where the memory view and the card view are
          syms,      \* the symbol table, shared by all windows there will be
          panes,     \* what the window shows
          acts       \* bound: what the user did so far

windowVars == <<front, window, tick, kick, stage, got, seen_serial, was_paused, mem, card, syms, panes, acts>>
debugWindowVars == <<stopVars, windowVars>>

Mode == IF paused THEN "paused" ELSE "running"

\* What refresh_all draws: the machine's state where it stopped, or nothing;
\* the STIC's picture stays.  Where p is TRUE the machine stays as it is until
\* this thread lets it go.
Registers(p) == IF p THEN serial ELSE 0
Lines(p)     == IF p THEN <<serial, marks, syms>> ELSE <<>>
Memory(p)    == IF p THEN <<serial, mem>> ELSE <<>>
Picture(p)   == IF p THEN <<serial, card>> ELSE panes.stic

Panes(p) == [run |-> p, regs |-> Registers(p), rows |-> Lines(p), words |-> Memory(p), stic |-> Picture(p)]
Truth == Panes(paused)

NoPanes == [run |-> FALSE, regs |-> 0, rows |-> <<>>, words |-> <<>>, stic |-> <<>>]

NewWindow == /\ tick = FALSE /\ kick = 0 /\ got = 0 /\ seen_serial = 0 /\ was_paused = "running"
         /\ mem = Home /\ card = Home /\ panes = NoPanes

WindowInit == /\ StopInit
              /\ front \in Fronts /\ window = "closed" /\ stage = "idle"
              /\ syms = 0 /\ acts = 0
              /\ NewWindow

-----------------------------------------------------------------------------
(* The poll.                                                               *)

Engine == /\ Stops \/ Lapses
          /\ UNCHANGED windowVars

\* A stop that was asked for lands before the frames run out.
Countdown == IF kick = 1 /\ wanted /\ ~paused THEN 1 ELSE IF kick = 0 THEN 0 ELSE kick - 1

PollReads ==
    /\ stage = "idle" /\ tick
    /\ got' = serial
    /\ kick' = Countdown
    /\ stage' = "compare"
    /\ UNCHANGED <<stopVars, front, window, tick, seen_serial, was_paused, mem, card, syms, panes, acts>>

\* macOS reads the flag once, and hands on what it read; the others look again.
PollCompares ==
    /\ stage = "compare"
    /\ IF got = seen_serial /\ was_paused = Mode
         THEN /\ stage' = IF front = "gnome" THEN "tail" ELSE "idle"
              /\ UNCHANGED <<seen_serial, was_paused, panes>>
         ELSE /\ seen_serial' = got
              /\ IF front = "macos"
                   THEN was_paused' = Mode /\ panes' = Panes(paused) /\ stage' = "idle"
                   ELSE stage' = "redraw" /\ UNCHANGED <<was_paused, panes>>
    /\ UNCHANGED <<stopVars, front, window, tick, kick, got, mem, card, syms, acts>>

Redraws ==
    /\ stage = "redraw"
    /\ panes' = Panes(paused) /\ was_paused' = Mode
    /\ stage' = IF front = "gnome" THEN "tail" ELSE "idle"
    /\ UNCHANGED <<stopVars, front, window, tick, kick, got, seen_serial, mem, card, syms, acts>>

\* "Paused with nothing pending: stop (this removes the callback)."
PollEnds ==
    /\ stage = "tail"
    /\ tick' = ~(paused /\ kick = 0)
    /\ stage' = "idle"
    /\ UNCHANGED <<stopVars, front, window, kick, got, seen_serial, was_paused, mem, card, syms, panes, acts>>

-----------------------------------------------------------------------------
(* The window.                                                             *)

Handler == stage = "idle" /\ UNCHANGED <<front, got>>
Act == acts < MaxActs /\ acts' = acts + 1

\* The window is made, engages the engine and asks it to pause.  macOS keeps
\* the window it closed, and its timer.
Opens ==
    /\ Handler /\ Act
    /\ window = "closed" /\ window' = "shown"
    /\ Asks
    /\ tick' = TRUE
    /\ kick' = IF front = "gnome" THEN KickTicks ELSE kick
    /\ stage' = IF front \in {"kde", "windows"} THEN "redraw" ELSE stage
    /\ was_paused' = IF front = "macos" /\ ~tick THEN "unknown" ELSE was_paused
    /\ UNCHANGED <<seen_serial, mem, card, syms, panes>>

\* The engine is released; all but macOS forget the window.
Closes ==
    /\ Handler /\ Act
    /\ window # "closed" /\ window' = "closed"
    /\ Releases
    /\ IF front = "macos" THEN UNCHANGED <<tick, kick, seen_serial, was_paused, mem, card, panes>>
       ELSE /\ tick' = FALSE /\ kick' = 0 /\ seen_serial' = 0 /\ was_paused' = "running"
            /\ mem' = Home /\ card' = Home /\ panes' = NoPanes
    /\ UNCHANGED <<stage, syms>>

Hides ==
    /\ Handler /\ Act
    /\ window = "shown" /\ window' = "hidden"
    /\ tick' = (tick /\ front \notin {"gnome", "kde"})
    /\ UNCHANGED <<stopVars, kick, stage, seen_serial, was_paused, mem, card, syms, panes>>

\* GNOME's window polls again if the machine runs or an action is recent.
Shows ==
    /\ Handler /\ Act
    /\ window = "hidden" /\ window' = "shown"
    /\ tick' = (front # "gnome" \/ ~paused \/ kick > 0)
    /\ stage' = IF front = "kde" THEN "redraw" ELSE stage
    /\ UNCHANGED <<stopVars, kick, seen_serial, was_paused, mem, card, syms, panes>>

-----------------------------------------------------------------------------
(* The commands.                                                           *)

\* A command of the window; in GNOME it keeps the poll going.
Command ==
    /\ Handler /\ Act
    /\ window = "shown"
    /\ IF front = "gnome" THEN tick' = TRUE /\ kick' = KickTicks ELSE UNCHANGED <<tick, kick>>
    /\ UNCHANGED <<window, stage>>
ViewsStay == UNCHANGED <<seen_serial, was_paused, mem, card, syms, panes>>

RunPause == Command /\ ViewsStay /\ (IF paused THEN LetsGo(FALSE, FALSE) ELSE Asks)
Step     == Command /\ ViewsStay /\ LetsGo(TRUE, FALSE)
StepOver == Command /\ ViewsStay /\ (LetsGo(TRUE, FALSE) \/ LetsGo(FALSE, TRUE))
StepOut  == Command /\ ViewsStay /\ LetsGo(FALSE, TRUE)

\* The markers are redrawn at the next poll.
Toggle(a) ==
    /\ Command
    /\ Marks(IF a \in marks THEN marks \ {a} ELSE marks \cup {a})
    /\ seen_serial' = 0
    /\ UNCHANGED <<was_paused, mem, card, syms, panes>>

\* Mutant: the markers of the breakpoints stay.
ClearMarksUnseen ==
    /\ Command
    /\ Marks({})
    /\ ViewsStay

ClearMarks ==
    /\ Command
    /\ Marks({})
    /\ seen_serial' = 0
    /\ UNCHANGED <<was_paused, mem, card, syms, panes>>

GoToAddr(m) ==
    /\ Command
    /\ mem' = m /\ seen_serial' = 0
    /\ UNCHANGED <<stopVars, was_paused, card, syms, panes>>

\* A symbol's row is clicked: all but GNOME show its memory at once.
GoToSymbol(m) ==
    /\ Command
    /\ mem' = m /\ seen_serial' = 0
    /\ panes' = IF paused /\ front # "gnome" THEN [panes EXCEPT !.words = <<serial, m>>] ELSE panes
    /\ UNCHANGED <<stopVars, was_paused, card, syms>>

\* Symbols are loaded, or dropped: all but GNOME redraw at once.
Symbols ==
    /\ Command
    /\ syms' = 1 - syms /\ seen_serial' = 0
    /\ IF paused /\ front # "gnome"
         THEN /\ panes' = [Panes(TRUE) EXCEPT !.rows = <<serial, marks, syms'>>]
              /\ was_paused' = IF front = "macos" THEN was_paused ELSE "paused"
         ELSE UNCHANGED <<panes, was_paused>>
    /\ UNCHANGED <<stopVars, mem, card>>

CardsPage(c) ==
    /\ Command
    /\ card' = c /\ seen_serial' = 0
    /\ panes' = IF paused THEN [panes EXCEPT !.stic = <<serial, c>>] ELSE panes
    /\ UNCHANGED <<stopVars, was_paused, mem, syms>>

-----------------------------------------------------------------------------
Poll == PollReads \/ PollCompares \/ Redraws \/ PollEnds

User == \/ Opens \/ Closes \/ Hides \/ Shows
        \/ RunPause \/ Step \/ StepOver \/ StepOut
        \/ \E a \in Places : Toggle(a)
        \/ ClearMarks
        \/ \E m \in Spots : GoToAddr(m) \/ GoToSymbol(m) \/ CardsPage(m)
        \/ Symbols

WindowNext == Engine \/ Poll \/ User

WindowSpec == WindowInit /\ [][WindowNext]_debugWindowVars

\* Frames and timers keep coming, and a handler that has begun ends.
FairWindowSpec == WindowSpec /\ WF_debugWindowVars(Poll)
-----------------------------------------------------------------------------
WindowTypeOK ==
    /\ paused \in BOOLEAN /\ serial \in Nat /\ wanted \in BOOLEAN /\ armed \in BOOLEAN
    /\ marks \subseteq Places
    /\ front \in Fronts /\ window \in {"closed", "shown", "hidden"}
    /\ tick \in BOOLEAN /\ kick \in 0 .. KickTicks
    /\ stage \in {"idle", "compare", "redraw", "tail"}
    /\ got \in Nat /\ seen_serial \in Nat /\ was_paused \in {"paused", "running", "unknown"}
    /\ mem \in Spots /\ card \in Spots /\ syms \in {0, 1} /\ acts \in 0 .. MaxActs

\* A poll that finds nothing new has nothing to draw: whenever the serial and
\* the mode are those drawn last, the panes are the machine's, the breakpoints,
\* the symbols and the views as they are now, wherever a stop fell between the
\* poll's reads (dbg_window.c:557-561: serial first, then the flag).
UnchangedIsShown == stage = "idle" /\ seen_serial = serial /\ was_paused = Mode => panes = Truth

\* The poll runs while "there is something to watch: the machine running (a
\* breakpoint can stop it at any time)" (gnome/debugger/dbg_window.c:92), so a
\* window in sight comes to show what the machine is doing.
WindowTells == []<>(window = "shown" => panes = Truth)
=============================================================================
