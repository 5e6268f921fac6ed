# FujiNet Go Intv Desktop: a verification project

FujiNet Go Intv Desktop runs the Intellivision emulator jzIntv inside a desktop
application (GNOME, KDE, Windows, macOS), with a FujiNet network adapter attached to the
emulated console, a debugger, remappable keys and game controllers. The modules in this
directory model the parts of it that several threads, a socket or a crash can put in an
order nobody tried, check them with TLC on small instances, and prove what matters most
with TLAPS for every value of the constants.

In this text `patch:N` is line N of `src/tools/jzintv/jzintv-fujinet.patch`, which holds
the FujiNet peripheral, the cartridge loader it drives and the changes to the CPU;
`session.c:N`, `gamepad_sdl.c:N` and so on are files of `src/core/`.

## 1. The system

### 1.1 Threads and what they share

| thread | runs | shares |
|---|---|---|
| UI | the frontend's toolkit loop; every `intvsession_*`, `intvdebug_*` call | everything below |
| emulator | jzIntv's main loop: CPU slices, `fujinet_tick`, `debug_tick`, `snd_tick`, `gfx_refresh` | `struct intvdebug`, the CPU's hook and breakpoints, `intv` (pads, `do_exit`, `do_reset`), audio ring, frame buffer, trace |
| render | Windows only: copies frames and presents them with Direct3D or GDI | frame buffer |
| SDL | gamepad events and a 60 Hz poll (`gamepad_sdl.c:638`) | pad slots under `s_lock`, pad cells of the machine without it, the latch of posted actions and of a captured button |
| audio | SDL's callback, drains the audio ring and mixes the FujiNet's own sound | audio ring |
| FujiNet runtime | a bridge loaded from a library, at the other end of a TCP connection | the connection, its samples |

### 1.2 Components

**FujiNet mailbox peripheral** (`fujinet.c`, `fn_sock.c`, `fuji_mailbox.h` in the
patch). State: a window of RAM cells (SEQ, ACKSEQ, STATUS, ERR, LINK, the request and
the reply), a state machine DISCONNECTED / CONNECTING / IDLE / SENDING / RXWAIT, a
socket, a deadline and a backoff, a receive buffer. Operations: one `fujinet_tick` per
emulator iteration, non-blocking connect with fallback addresses, console reset,
construction. It talks to the guest program through the cells and to the bridge through
the socket. Hard: the program pokes the cells one at a time, gives up and pokes again;
the bridge answers late, half or never; connections drop in every state; the console is
reset in the middle. Correct means: one transaction at a time, acknowledged once and
with its own reply; every request answered; LINK honest; the link comes back.

**ROM push** (`fujinet_handle_dbc_frame` and the loader, `patch:2169-3046`,
`patch:5540-5813`). State: two streams (.cfg, ROM) being collected, the progress cells,
the cartridge bound to the bus, its JLP RAM, the CPU's cacheable ranges and decoded
instructions. Operations: OPEN, WRITE, CLOSE, ABORT of either stream; commit; failure;
the CPU's own steps. Hard: the cartridge is replaced under a running CPU; a push may
stop anywhere, fail on any check or be followed by another; two different loaders take
turns on the bus. Correct means: one cartridge on the bus, a whole one, the one that was
pushed; no stale code; a failed push changes nothing.

**Debugger engine** (`debugger/debugger.c`, and start and stop of the emulator thread in
`jzintv/intv_host.c`). State: engaged, paused, step mode, breakpoints, stop serial; the
CPU's hook, step count and breakpoint flags. Operations: engage, release, pause, resume,
step, step over, step out, breakpoints, inspection; session stop and start underneath.
Hard: the CPU's fields are written by both threads, partly outside the lock; the
emulator thread blocks inside the hook; the engine outlives the machine. Correct means:
registers are only read while the machine stands; a step is one instruction; no stop
without a cause; nobody waits on a parked thread.

**FujiNet trace** (`debugger/fujitrace.c`). State: a ring of packets with repeat counts
and serials, a fold that may still have to be taken back. Operations: feed a request, the
head and the rest of a reply, clear, a window's refresh. Hard: an exchange is counted as
a repetition before its reply is known, while the ring evicts and windows redraw only
when two numbers change. Correct means: each packet counted once, no change unseen.

**Emulator host and session** (`jzintv/intv_host.c`, `src/session.c`), with the
**FujiNet runtime** (`src/fujinet_runtime.c`). State: the phase of the call, the machine
that runs, its arguments, running and exit flags, the FujiNet it dials, the bridge's
handle and listener, the audio device, the gamepad thread. Operations: start, stop,
restart, load a cartridge, reset; the machine's own end. Hard: the order of runtime,
emulator, audio and pads; failures in the middle; a thread that ends by itself. Correct
means: one machine; a failed start leaves nothing running; nothing of an old machine is
heard from a new one; a call returns (two ways in which it does not are in section 5).

**Audio ring** (`jzintv/intv_audio.c`, `desktop/snd_desktop.c`, `src/audio_sdl.c`).
State: per sound chip and for the mixer a list of free and of filled buffers, the ring
with its head, count and primed flag. Operations: a chip fills, the mixer mixes and
reclaims, the device copies, the ring is reset. Hard: chips run at their own paces, a
single chip's buffer is exchanged rather than copied, the ring overflows and is trimmed.
Correct means: samples in order, never twice, no buffer lost.

**Frame store and displays** (`jzintv/intv_frame.c`, `desktop/gfx_desktop.c`; the
display widgets of the four frontends). State: the STIC's buffer, the two bits of
`vid_enable`, the store and its serial, the one frame callback; per frontend what it
copied, uploaded and shows. Operations: draw, switch the display, publish, call back,
copy, upload, draw, show, hide, lose the graphics device, replace the display. Hard: a
publication between a wake-up and its copy, two displays on one callback slot, buffers
lent to GTK. Correct means: what is kept is what was drawn, the callback is a live one,
the newest picture reaches the glass.

**Keyboards, keypads and Map mode** (`session.c:338-436` and the four frontends'
windows). State: the ECS's scan matrix and the record of who put down which key; the
keypad window's Map mode and its capture; latched and clicked buttons; the focus.
Operations: key down, repeat and up in each window, clicks, Map / pick / key / captured
button / abort, mode switch, windows shown, hidden, closed, losing the keyboard. Hard:
the release of a key arrives elsewhere or under another character; toolkits repeat keys
differently; the gamepad thread captures while the UI ends the round. Correct means: no
key down without an owner, a capture ends with its round, one press fires once.

**Key and pad bindings** with **settings** (`src/bindings.c`, `src/settings.c`). State:
a table target -> (key, button); the settings store and its dirty flag; the settings
file and its temporary. Operations: bind a key, bind a button, reset, look up, pack,
unpack, flush, load. Hard: a binding steals its input from other targets; the table is
packed as differences from defaults; a flush can fail or the process die at each step.
Correct means: one input drives one target, now and after the next launch.

**Gamepads** (`src/gamepad_sdl.c`, with the reset, focus-loss and action-latch parts of
`src/session.c` and the pad cells of `jzintv/intv_host.c`). State: slots of open
devices, who drives which side, the last disc sent, Map mode's capture, the posted
actions, the stop flag. Operations: SDL's events, the poll, forget, assign, capture
begin / cancel / poll, start and stop. Hard: a cache of what the machine has, against a
machine that other threads reset; hot-plugging renumbers who drives what; an action of
the pad that would join its own thread. Correct means: the disc is where the pad points,
no key is left down, the stop returns.

**FujiBus codec** (`fujibus.c` in the patch): SLIP framing and a checksum. **ROM import
and media** (`src/roms.c`, `media.c`, `zipread.c`, `paths.c`): file I/O and format
checks. **Symbols and STIC view** (`debugger/symbols.c`, `sticview.c`): pure functions.
**Frontends** (`src/frontends/*`): four desktops over the same calls.

**Debugger windows** (`dbg_window.c`, `DebuggerWindow.cpp`, `DebuggerWindow.m`). State:
the serial and the mode drawn last, the places of the memory and card views, the symbol
table all windows share, the poll (a frame callback that comes and goes in GNOME, a timer
elsewhere). Operations: open, close, hide, show, poll, redraw, run and step, breakpoints,
go to an address or a symbol, page the cards, load and drop symbols. Hard: nobody tells a
window of a stop, and what it reads of the engine is read without the lock while the
machine may stop. Correct means: unchanged serial and mode leave nothing to draw; a window
in sight comes to show what the machine does.

`PROJECT.json` lists each with its status, and the hazards with their lines.

## 2. The modules

| module | models | role |
|---|---|---|
| `MailboxTxn` | what the mailbox promises its program | abstract specification |
| `FnSock` | `fn_sock.c` | socket part, extended by `FujiMailbox` |
| `FujiMailbox` | `fujinet.c`'s tick, the cells, the program, the bridge | component; implements `MailboxTxn` |
| `CartSlot` | what the cartridge slot promises | abstract specification |
| `RomPush` | the DBC stream, the commit, the loader, the CPU | component; implements `CartSlot` |
| `StopEngine` | what the engine promises a window: stops, serials, breakpoints | abstract specification, extended by `DebugWindow` |
| `DebugEngine` | `debugger.c` with the emulator thread and its start and stop | component; implements `StopEngine` |
| `DebugWindow` | the four frontends' debugger windows | component |
| `Bindings` | `bindings.c` through `settings.c` to the file | component |
| `Gamepad` | `gamepad_sdl.c` with the UI's half | component |
| `HostSession` | `session.c`'s start and stop with `intv_host.c`, `fujinet_runtime.c`, `audio_sdl.c` | component |
| `LossyStream` | what the sound path promises its listener | abstract specification |
| `AudioPath` | `snd_desktop.c`, `intv_audio.c`, the device's callback | component; implements `LossyStream` |
| `FrameStore` | `gfx_desktop.c`, `intv_frame.c` | part, extended by `Displays` |
| `Displays` | the four frontends' display widgets | component |
| `FujiTrace` | `fujitrace.c` and a window's refresh | component |
| `EcsKeys` | the ECS matrix and its record in `session.c` | part, extended by `Desk` |
| `Desk` | keyboard, windows, bindings and pad cells as the frontends share them | part, extended by the four below |
| `GnomeDesk`, `KdeDesk`, `WindowsDesk`, `MacDesk` | each frontend's handlers | components, composed by `Desks` |
| `Desks` | whichever frontend was started | composition |
| `MC*` | small instances | configuration |
| `*_proofs` | theorems of each component; `Host_proofs` has those of `HostSession`, `AudioPath` and `Displays`, `DebugWindow_proofs` those of `FujiTrace` too | proofs |

### 2.1 FujiMailbox

`fujinet_tick()` is one action per case of its switch and per way out of the case
(`ConnectBegins`, `ConnectFails`, ...), over the variables of `fujinet_t` and one
variable per cell. `Send` is the progress of `send()`, `Elapse` the clock,
`ConsoleReset` `fujinet_reset`, `Guest` the program of `fujitest.bas` (take a new SEQ,
poke the two halves of the request, poke SEQ, wait, give up, take the same number
again), `Bridge` the peer. A request is a number and a kind; its cells are two halves
since the program pokes them separately. An inbound frame is a head and a tail, because
`rx_resync` (`patch:3066`) may find itself between them. The pushes of ROMs appear as
frames the receiver has to skip and as the reset that a boot causes. `SeqMod = 3` stands
for 256; nothing depends on the modulus but that three numbers are distinct.

### 2.2 RomPush and CartSlot

Each frame is one action of `fujinet_handle_dbc_frame` with everything it calls
(`RxOpenRom`, `RxWriteRom`, `RxCloseRom`, ..., `RxAbort`), up to the commit: retire the
old cartridge, bind the new, cacheable ranges, JLP, mailbox on or off, reset of CPU and
bus. `CpuRuns`, `BusReset` are the emulator's steps between ticks; `Bridge*` the bridge,
which sends its .cfg and its ROM as it is acknowledged. Data are chunks `[of |-> title,
i |-> n]`, so a ROM of chunks of two titles, a cut .cfg or a .cfg of another title are
all visible. What happens of the transaction is `wait` and `link`; `FujiMailbox` has the rest.
A link that is lost is lost for good (`LinkDrops`, then `StartTxn` ends at once with
FB_ENOLINK), as `LinkRecovers` shows: what comes after a failed push comes after one whose
mount ran into its deadline or took a frame that does not parse (`TxnFails`).
`CartSlot` says only: the slot holds one complete cartridge; a boot replaces it and
turns the mailbox off if it covers its window.

### 2.3 DebugEngine

A critical section of `d->lock` is one step; what the UI writes outside the lock
(`PauseCounts` after `Pause`, `Unhook` after `Disengage`, `SetFree`) is a step of its
own. The CPU executes `Prog`, an address being a whole instruction. jzIntv's `cp1600.c`
is not in this repository; from the changes the patch makes to it and from how
`debugger.c` uses it, the model takes: slices call the label `do_instr_tick` after each
slice, after each instruction when `step_count` is 1 and at breakpoints; the hook runs
there, after which `steps_remaining` is refilled; resuming at a breakpoint executes the
instruction; the main loop reads `do_exit` between slices. These definitions are marked
external or mapped to the lines of the patch that show them.

The windows are built on `StopEngine` (five variables: paused, serial, whether a stop was
asked for, whether a breakpoint may cause one, the user's breakpoints), which the engine
implements with `wanted` its step mode, `armed` a hit or any breakpoint in the CPU
(`StopSpec`): what happens in hooks, counts, timeslices, sessions that end and start is a
stutter of it, a breakpoint forgotten at the end of a timeslice its `Lapses`.

### 2.4 Bindings

`key`, `button` are `s_table`; `setting`, `settings_dirty` the store; `file`, `tmp` the disk.
`SetKey`, `SetButton`, `BindingsReset` are the three calls with their stealing; `Store`,
then `OpenFails | Write | WriteFails`, `Remove` (Windows), `Rename | RenameFails` are
`intvsession_set_str` and `settings_flush` statement by statement; `Relaunch` may come
at any of them and runs `settings_init` and `bindings_init`. `spoilt` records what the
disk has done to the file (a refused flush, a torn file), which is the exact exception
the properties make.

### 2.5 Gamepad

`pc` is where the SDL thread is in `thread_main`: between events, in `dispatch_button`
(before and after its lock), in `poll_sticks` (two steps per side, since bindings are
read under another lock than the slots), asleep, ended. `poll` and `rest` hold `s_lock`,
so the calls that take it are guarded by `Unlocked`. The UI thread is idle, between the
halves of a reset or of a focus loss, or joining. What SDL knows of the devices changes
only while the thread pumps events. The histories `loose`, `overrun`, `lost` name the
sides about which the code makes no promise (another writer of the disc; a poll inside a
reset; a release that was diverted), and the properties except exactly these: of the poll
inside a reset and of the release that an assignment diverts between lookup and use, they
say only that nothing else goes wrong around it. A hat is a
D-pad, a raw joystick a pad; a stick is a direction at one of three depths, on either
side of the two deadzones. The four sides and eight pads of the code are constants.

### 2.6 HostSession

`phase` is where `intvsession_start` or `intvsession_stop` is: pads off, audio off, host
off, join, FujiNet off, check, link, host on, pads on, audio open, audio on. Each phase is
a step with its failures (`Fail`, `UnstartedHalf`, `Unstarted`, `HostRefused`), so that the machine
(`Sound`, `End`, `Exit`, `Speak`), the device (`Play`) and a reset (`ResetGame`) come between
any two. Machines are numbered: `live` are those inside `jzintv_entry_point`, `gen` the
last one, and a sample is the number of the machine that made it. The frontends call
stop before start and both from their one UI thread, which is why a `Call` starts from
`idle`. Nothing in the repository clears `do_exit`; that a session can be stopped and started
again (`hwopts_test.c`) shows that jzIntv's `cfg_init` does, on the machine's own thread
(`hwopts_test.c:93` waits 50 ms for it). So a machine has two stages: `HostOn` creates it,
with the flag as the last stop left it, and its own `SetUp` clears the flag and puts it
among the `looping`, which run, sound and look at the flag. The bridge's library is taken to export the optional `fujinet_desktop_clear_audio`
(`fujinet_runtime.c:74`), without which a stop would leave its samples. What runs in that
library is external; `Load` keeps the quirk of `fujinet_runtime.c:83` that a handle, once
there, counts as loaded.

### 2.7 AudioPath and LossyStream

`Fill` is a chip writing a buffer, `TickBegin`, `MixOne`, `Reclaim` the loop of
`snd_tick`, with the exchange of buffers when there is a single chip; `Copy` is
`intv_audio_copy_f32` under the ring's lock, `ResetRing` its reset. A sample carries its
number in the order of publication and which buffer of each chip it mixes. `LossyStream`
says: what is heard was sent, in order, never twice, without a hole inside one answer.
`past` is mapped to `published - count`: everything older than the ring's content is
gone.

### 2.8 FrameStore and Displays

`FrameStore` is the emulator thread's half: `Draw`, `VidEnable` (bit 0 what is shown,
bit 1 that it is to change), `Refresh` with `intv_frame_publish` up to the unlock,
`CallBegin` with the callback's own lock. `Displays` adds each frontend's half: GTK's
tick and the pool of buffers a texture borrows; KDE's `FrameFeed`, its posted event and
the software display that takes over; the render thread of Windows with its fall-back
from Direct3D to GDI; the timer of macOS. A behaviour shows one of them.

### 2.9 FujiTrace

`FeedRequest`, `FeedReplyHead`, `FeedReplyRest` are the tap's calls, each under
`trace_lock`, with `emit`, the folding of a repeated exchange, its take-back (`bump`) and
the eviction of the oldest entry as operators on the ring. `ShowTrace` is the window's
comparison of count and last serial, and its redraw. `fed`, `gone` and `newest` are the
ledger the properties compare the ring with.

### 2.10 DebugWindow

A handler of the UI thread is one step, but for the poll: `PollReads` takes the serial,
`PollCompares` looks at the flag, `Redraws` at the flag again and at the machine, and
`PollEnds` is GNOME's last look, which may take the callback away; `StopEngine`'s stops
come between any two. macOS reads the flag once and hands it on. `Opens` engages and asks
for a pause, `Closes` releases; all but macOS forget the window, whose timer goes on.
`Hides` and `Shows` are a window out of sight: GNOME's and KDE's poll stops, GNOME's
resumes only if `update_tick` finds something to watch. The commands are `RunPause`,
`Step`, `StepOver`, `StepOut` (of which two may leave a one-shot in the CPU), `Toggle`,
`ClearMarks`, `GoToAddr`, `GoToSymbol`, `Symbols`, `CardsPage`: each forgets the serial or
lets the machine go, some redraw a part at once. A pane is a tuple of what it was drawn
from (serial, breakpoints, symbols, place of the view). `StopEngine` lets the machine stop
at a breakpoint also while no debugger is engaged, which allows more than the code.

### 2.11 EcsKeys, Desk and the four frontends

`EcsKeys` is `ecs_held` and the matrix: a press is recorded with the ECS key it put
down, its release goes through the record. `Desk` has the host keyboard, the windows and
the focus, the routing of a bound key (`Route`), system actions (`Fire`) and Map mode's
variables; `Latch` is the gamepad thread's part of a capture. Each frontend module has its
handlers in its own order of checks: GNOME with its unmarked repeats and its reserved
Ctrl+R, KDE whose display claims all shortcuts but three (`DisplayGeometry.h:38`),
Windows with its repeat bit and its pre-translation, macOS with its dropped repeats and a title bar
that closes without a word. macOS may or may not call `resignFirstResponder` as a window
loses the keyboard: both are modelled. `down`, `fired`, `twice` are what the user's
fingers did. `Desks` has the four side by side: `Next` is a step of the frontend that was
started.

## 3. The runs

A run turns deadlock checking off where a budget (`MaxReq`, `MaxTxns`, `MaxCmds`,
`MaxCalls`, `MaxRuns`, `MaxMade`, `MaxSerial`, `TraceSerials`, `MaxActs`) may be used up in a state
where nothing is left to do, or where the user may simply stop: all but `gamepad`, whose
poll loop never ends.

| run | shows | expected |
|---|---|---|
| `mailbox_own` | with a bridge that does not answer dead transactions and a patient program: each transaction carries the program's own request, each reply it takes is its own, nothing is sent twice, every request is answered, the host connects until it has a link; and the mailbox implements `MailboxTxn` with liveness | pass |
| `mailbox_wild` | late answers, abandoned requests, resets and pushes: LINK stays honest and the transaction discipline holds | pass |
| `mailbox_lost_link` | a link lost inside a transaction is never re-established | `LinkRecovers` violated |
| `rom_push` | any pushes of five titles, with failures: one cartridge, whole, no stale code; implements `CartSlot` | pass |
| `rom_push_cfg` | the .cfg of a push whose mount timed out or took a bad frame maps the next title | `OwnCfg` violated |
| `debug` | pause, step, breakpoints, release, stop and start in any order: inspection only of a machine that stands, exact steps, no spurious stop, a pause lands; and the engine implements `StopEngine` | pass |
| `debug_stop` | stopping the session while the machine is paused never returns | `StopJoins` violated |
| `debug_window` | GNOME's debugger window says Running of a machine that stands, and has stopped looking | `WindowTells` violated |
| `gamepad` | players, SDL thread and UI interleaved: disc, keys, posted actions, stop | pass |
| `host` | six models of the threads around the machine, one at a time: start and stop with every failure; sound in order, implementing `LossyStream`; the newest picture on the glass of four frontends; every packet of the trace counted and seen; bindings made, saved, failing to be saved, lost and read back; four debugger windows that have nothing to draw when they see nothing new | pass |
| `desk` | four frontends' keyboards, keypad and ECS windows, Map mode against the gamepad thread: no ghost key, a capture ends with its round, one press fires once | pass |
| `desk_focus` | the main window loses the keyboard with a controller's key down, and nobody lets it go | `FocusLossReleases` violated |

`host` combines models that share no variable: its initial states choose the `part`, and
what is not chosen rests in one initial state. It has the runs of `HostSession`,
`AudioPath`, `Displays`, `FujiTrace`, `Bindings` and `DebugWindow` as its behaviours, and
no product of them.

### 3.1 Bounds

- *mailbox*: `SeqMod = 3` tells the number in flight, the acknowledged one and a third
  apart. Three requests (two in the wild run) allow an answer to the last but one; two
  addresses with only the second listening make every connect take the fallback; two
  chunks per request put the send between two ticks; two faults in `mailbox_own` are a
  drop inside the recovery from a drop. Timeouts are one unit, a mount two, so that they
  fire in every order the guards allow.
- *rom_push*: the five titles are the kinds the loader tells apart: with a header and
  covering the mailbox, paired with a .cfg too long for the buffer, paired with JLP,
  flat, and of odd length. Two chunks per ROM suffice to mix two of them; four
  transactions push, fail, push again and outlive a stalled push; two faults.
- *debug*: a program of six instructions with a loop, a jump and a call, slices of two
  instructions, one breakpoint at a time at one of two addresses (inside and after the
  call), five calls of the UI.
- *host*, bindings: four targets on two sides, one of each kind, five keysyms that include
  both cases of a letter and two default keys of one disc position, one button with a
  default on both sides; two calls give a steal, and a steal back or a reset. Three calls
  were checked once too (a million states, four minutes), and the theorems have no bound.
- *host*, windows, and *debug_window*: one breakpoint, two places of each view, four
  actions of the user (open, let go, and two between them), `KickTicks = 2` for the 60
  frames GNOME goes on polling after an action: one frame in which nothing has landed yet
  and the last. A stop that was asked for lands before the frames run out (`Countdown`), as
  a step takes microseconds and the frames a second; `WindowTells` is violated without
  that help of a slow machine.
- *gamepad*: two pads and two sides, a face button and a D-pad direction, one stick
  direction, two player events and one UI call, which may come at any point of the loop;
  four tables give each button each kind of target.
- *host*, session: three machines are one before, one at and one after a restart; the
  ring holds two samples, of two of them. Audio: two chips or one (the exchange of
  buffers), two buffers of two samples each, a ring of five so that it wraps out of step
  with the buffers (Capacity 5, HighWater 4, Target 2), the device taking one or two;
  three buffers per chip overflow and trim it. Displays: two pictures and two serials,
  two loans against a pool that keeps one, one lost device. Trace: two requests, one
  reply, a ring of three entries and six serials, so that a taken-back exchange evicts
  its own entry.
- *desk*: a letter, a sign that Shift moves, Shift and Ctrl; two keys down at once and a
  record of two slots, so that the record overflows when Shift and two keys meet; one
  Map round. With three keys down, and with two rounds, the same properties hold. The
  windows are used in two sets (keypad; ECS keyboard and settings), the only pairs that
  share state.

The theorems lift the bounds of the properties they are about.

### 3.2 Fairness

- `FujiMailbox`: weak fairness of the tick (the emulator's loop) and of time;
  `FairBridgeSpec` adds that the bridge comes back after every failure, which is what
  "answered in the end" supposes; the program and the bridge are not obliged to do
  anything else.
- `DebugEngine`: weak fairness of the emulator thread and of the UI finishing a call it
  has begun; the user is not obliged to press anything.
- `Gamepad`: weak fairness of the SDL thread, which polls at 60 Hz; strong fairness of
  the UI's pending steps, because the lock they need is free again and again: the SDL
  thread sleeps 16 ms of each round without it. Players and user are unfair.
- `HostSession`: weak fairness of the phases of a call (the UI thread goes on with what
  it has begun), of a machine's set-up, which is straight-line code on its thread, and of
  its exit once it was asked for: jzIntv looks at `do_exit` every frame. A machine need
  not end otherwise, nor make sound. It is not parked by the debugger here; a stop of a
  parked one is `StopJoins` of `DebugEngine`. `CallReturns` is about calls made when no
  machine is still in its set-up.
- `Displays`: weak fairness of the callback, of its end, of copying and drawing together
  (frame clock, event loop, render thread, timer go on), and of GTK giving a texture up
  when it holds all it may. No window need be shown, no picture drawn.
- `DebugWindow`: weak fairness of the poll while it is installed: frames and timers come.
- `Desk`: weak fairness of the poll for a captured button, a timer of the toolkit.

`RomPush`, `Bindings`, `AudioPath`, `FujiTrace` have no liveness properties of their own.

## 4. The proofs

Each `*_proofs` module has the type theorem (or the part of it the argument needs) and
the invariants below, for all values of the constants that the named assumption of the
component allows.

- **FujiMailbox**: `TypeCorrect`; `LinkCorrect`, by `LinkInv`: the descriptor and the
  state move together (pending exactly in CONNECTING, closed in DISCONNECTED, open in a
  transaction). `LinkHonest` alone is not inductive, since a failed link sets the cell
  from the state. `Refinement`: `Spec => TxnSafe`, each tick mapped to Begin, Refuse,
  Finish or a stutter. Under `Undisturbed` (no console reset, no push, a program that
  does not abandon), `OwnRequest` by `OwnInv`: whose turn it is follows from SEQ and
  ACKSEQ (`Turn`), what was sent is at most the request of now (`Once`), and no push is
  on the wire; `SentOnce` from the same invariant. Under `Prompt` as well (the bridge
  does not answer a dead transaction), `OwnReplyAccepted` by `ReplyInv`: inside a
  transaction only its own replies are on the wire or in the buffer. Each of these
  assumptions is needed: TLC refutes `AcceptOwn` with a reset in flight (see 5).
- **RomPush**: `TypeCorrect`, which includes that the percentage stays in 0..100;
  `OneCartOnBus`, `NoStaleCodeInCpu`, `WindowHasOneOwner` by `CartInv`: the bus holds
  exactly the cartridge the loader remembers (`Outgoing`), the CPU's ranges and decoded
  instructions are of it, the mailbox is off if it covers its window. These assume
  `~StartLegacy` (see 5). `HonestProgress`; `FailureHarmless`, an action property.
  `KeepsSlot`: under the same assumption `Spec => SlotSpec`, the refinement of
  `CartSlot`, by `ScriptInv`. That a commit has the whole ROM of one title says nothing
  of a single frame: it needs that the stream holds the frames of one title's script
  before the one on the wire and the bridge the rest, or that what is left does not
  matter any more (`PushInv`); that frame and acknowledgement alternate (`LinkInv`); and
  that a mailbox that a boot has switched off inside its transaction has nothing to come
  but the reply (`MailboxInv`).
- **DebugEngine**: `TypeCorrect`; `PausedIsQuiet` by `QuietInv` (a thread that has not
  ended belongs to a session); `StepIsExact` by `StepInv`: a step in progress under the
  engine's hook keeps its mode and count, has executed nothing before the label and one
  instruction at it, and passes the breakpoint it starts from; `ResumedStopsAtBreak` by
  `BreakInv`: a hit that is pending belongs to the address the machine stands at, which
  the leftovers of a released debugger would break without it. `EngineImplementsStops`:
  `Spec => StopSpec`, from `QuietInv` and the types, each action mapped to a stop, a lapse,
  a command or a stutter.
- **Bindings**: `TypeCorrect`; `OneTargetAlways` by `OneInv`, which asks the same of the
  packed value, the store and the file, as a relaunch reads them; `DurableAlways`, on
  the lemma that unpacking what was packed gives the table; `CrashSafety`, an action
  property from the same invariant.
- **Gamepad**: `TypeCorrect` (no device twice in the slots, a poll has a driver);
  `CacheHonesty` by `CacheInv`: `CacheHonest` with "inside a UI reset the caches are
  forgotten, but where a poll has come between", without which the machine's half of the
  reset would break it; `DiscFollowsAlways` from it and `PollInv`: the sides a round has
  served are settled, which needs that what rung 1 read is still so unless Map mode has
  rebound the side, and the lemma `Hysteresis`, that the two deadzones overlap so that
  reading a stick with its own answer remembered gives the answer; `KeyOrDiscAlways`
  from that; `NoStuckKeys` by `KeyInv`: a key that is down has its button down or its
  release on the way to its side.
- **HostSession**: `TypeCorrect`, whose invariant needs that a start on its way to the
  machine has one left of its budget (`Room`) and that the phases past the check belong
  to starts; `OneMachineAlways` by `MachineInv`: between the join and the next thread no
  machine is alive; `DownAlways` by `QuietInv`: after the phase that turned them off,
  pads, device and bridge stay off until the phase that turns them on, which is what
  makes every failure on the way harmless; `OwnSoundAlways` by `SoundInv`: a playing
  device implies the ring is of the present machine alone, and speech needs a bridge.
  A library without entry points is among the values of `Libraries` the theorems range
  over.
- **AudioPath**: `StreamAlways`: `AudioSpec => StreamSpec`, the refinement of
  `LossyStream`, by `PlacesInv`: the samples that wait are the last ones published, each
  in its place of the ring, which needs the lemma on remainders `WrapIs` (a place that
  wraps is taken once among `Capacity` consecutive samples). `OwnedOnceAlways` by
  `BufInv`: every buffer is somewhere (`Somewhere`), in one list or place only (`Once`),
  and a chip's two lists have as many as it has buffers (`Counted`), so that a reclaim
  always finds one. `AudioAssumption` says what `intv_audio.c`'s constants are:
  `Target` at most `HighWater`, that at most `Capacity`, a buffer no larger than the ring.
- **Displays**: `DrawnAlways` (what is kept is what was drawn, by `DrawnInv` over the two
  bits of `vid_enable`); `CallbackAlwaysLive` by `FeedInv` (a feed that is not in use is
  inactive before it dies); `PoolAlwaysSound` by `PoolInv`.
- **Desk**, for the four frontends together. `StepsAre` shows that every action of each
  frontend is, of Map mode, of the ECS's matrix with the pointer and the latches, of the
  hand controllers and of the windows, one of a few steps (`MapStep`, `MatrixStep`,
  `InputStep`, `RestStep`); the invariants are proved of those, once.
  `NoGhostAlways` by `GhostInv`, which adds the types of the record to `NoGhostKey`; a
  reused slot of the record is the interesting step. `CaptureAlwaysAwaited`:
  `CaptureIsAwaited` is inductive as it stands, given how each frontend ends a round.
  `DeskTypeAlways` by `DeskInv`: a round has a binding left of its budget (`Room`), and a
  target has one keysym (`OneKey`), which `bindings.c` supposes. `OnceAlways` by
  `OnceInv`: under GNOME a held key that has fired an action stands in its window's list
  (`Listed`), which is what swallows its repeats, whatever was bound or hidden meanwhile.
- **DebugWindow**, with **FujiTrace** in one module as both are about windows that compare
  two numbers: `UnchangedAlwaysShown` by `PanesInv`: the serial drawn last, if it is the
  present one, was drawn as "paused" of a machine that stands (so that letting it go is
  news), and outside of a redraw what was drawn under the present serial and mode is true.
  `UnchangedIsShown` alone is not inductive: it says nothing of a window that is about to
  redraw or whose machine is let go. `ChangeAlwaysSeen` by `SeenInv`: a window's key with the serial of now
  was taken from the entries of now. Its lemmas follow a ring through `emit`: every
  operator that changes an entry gives the last one a serial above all before.
  `NothingMiscountedAlways`: what a packet's entries count, with what left the ring, is
  how often it was fed. The sum over the ring is a recursive function, followed through
  each change of an entry, each entry added and the oldest dropped.

A sum over a sequence asks for an induction over its length. The library's induction
theorems cannot be used, as they take an operator; the proof has it as a statement about
a set: the numbers for which a claim fails, if there are any, have a least one (`WFMin`),
and that one's predecessor refutes it.

Every safety property of a passing run has a theorem. Only model-checked: what holds
under fairness (`PostedIsAnswered`, `RetriesUntilConnected`, `PauseStops`, `PostedFires`,
`StopReturns`, `CallReturns`, `NewestIsShown`, `CaptureIsTaken`, and `TxnSpec`, which is
`TxnSafe` with `MailboxTxn`'s liveness), as fairness and `ENABLED` are out of the prover's
reach.

## 5. What the code does otherwise than it says

With a run and a finding in `PROJECT.json`: `LinkRecovers`, `OwnCfg`, `StopJoins`,
`FocusLossReleases`, `WindowTells`. Stated in the modules and refuted by TLC on variants of the runs'
configurations, without a run of their own:

- `EveryCallReturns` (`HostSession`): a stop right after a start sets `do_exit` while jzIntv
  still sets up; the set-up clears it, and the join never returns (`intv_host.c:426`). The
  tests wait before they go on (`hwopts_test.c:93`); the application does not.
- `AcceptOwn` with a console reset in flight (`mailbox_own` with `MaxResets = 1`): the
  restarted program accepts the reply to the old request (`patch:1926`).
- `ReleasedRuns` (`DebugEngine`): a pause that lands after the release leaves the thread
  parked (`debugger.c:142`).
- `HeldNotCentred` (`Gamepad`): a poll between the halves of the UI's reset leaves a held
  stick centred (`session.c:115`).
- `HiddenIsDisarmed` (`Desk`), on macOS: closing the keypad window by its title bar
  leaves Map mode armed (`KeypadWindow.m:513`).
- `NeverCallsNull` (`HostSession`), with a library that lacks the entry points: it stays
  in the handle, and the next start takes it for loaded (`fujinet_runtime.c:83`).
- `OneCart` with `StartLegacy = TRUE`: a startup BIN+CFG is not unbound by `retire_cart`
  (`patch:2451`). The theorems assume it away, by name.
- `WholeCfg` (`RomPush`): `cfg_truncated` is set (`patch:2293`) and never read.
  `SavesOwn`: a stalled push that completes under a later mount saves under the later
  title's name (`patch:2103`).
- `EngagedHooked` (`DebugEngine`): a start with the debugger open leaves `engaged` set
  and the console's hook in the CPU (`debugger.c:136`). Step out can leave a stray
  one-shot (`debugger.c:237`).

Seen while modelling:

- BOOT_PCT stays 100 while a second push opens; a link lost in a push leaves BOOT_STATE
  at XFER; the dump file of an OPEN without CLOSE is not closed.
- An acknowledgement of a push gives up after 1000 tries and leaves half a frame on the
  wire (`patch:2169`).
- `gamepad_sdl.c:559` takes "-2, forgotten" and a D-pad's position for "pushed", so a
  stick that rests between the two radii counts as pushed after a reset or a D-pad
  press.
- A pad unplugged or given another side while it pushes leaves the disc pushed; a button
  held when a capture is armed, or its side rebound or reassigned, leaves its key down;
  Map mode swallows buttons but not the D-pad's disc. An automatic first pad drives
  nothing if the left side is explicitly another's.
- A full disk is not noticed by the flush (`settings.c:171`); on Windows there is a
  moment without the file.
- After a start with an external FujiNet has failed, the session reports that FujiNet
  until the next stop. An emulator thread that ends by itself is not joined by
  `intv_host_stop`; the next start makes another.
- Two host keys on one ECS key release it with the first. A latched Shift or Ctrl of the
  ECS window still shows as latched after a reset has cleared the matrix. Entering ECS
  mode does not release the hand controllers.
- On GNOME and Windows, Ctrl+R swallows the release of an R that was forwarded; a key
  that a Map round has just bound repeats into the machine. GNOME's toggle that hides the
  keypad does not reset the record of its held system actions. A key or pointer held as
  Map mode starts is swallowed on its release. On KDE the display claims the menu's F10
  and Ctrl+R.

## 6. Abstractions

Names, codes, formatting, logs and file contents are model values. The SLIP bytes, the
checksum and the 1000 retries of an acknowledgement in a push are left out (frames
arrive whole or bad, acknowledgements are not late, as they carry no number to be told
by). Whether pad cells survive a restart is jzIntv's affair and left open. The reset a
pad fires is one step: it runs on the thread that polls, so no poll can come between its
halves. A picture is a model value with its brightness, a sample the buffers it mixes,
a packet its first bytes, length and hash. In `Desk` the geometry of a click on the disc,
HID codes and the four hand controllers are one position, one keysym and one controller;
a reset lets every input go in the step that fires it. Histories (`published`, `fed`,
`spoilt`, `fired`, ...) are read by properties and never by a guard that stands for code;
the exceptions in the properties are such histories.

## 7. Not modelled

- *FujiBus codec*: encoder and decoder of SLIP frames, pure loops over bytes. The modules
  take its verdicts (too big, bad frame, reply, DBC frame).
- *ROM import, media, zip, paths* (`roms.c`, `media.c`, `zipread.c`, `paths.c`):
  straight-line file I/O and format checks without state between calls. `HostSession`
  takes their verdict.
- *Symbols and STIC view*: pure functions over listings and video memory.
- *Debugger windows*: the list of symbols with its filter, the status line, logs and
  layout. Where KDE's constructor and its `showEvent` redraw twice, `Opens` redraws once.
- *Settings dialogs, menus, layout* of the frontends, and *the other settings*, which
  take the same path through `settings.c` as the bindings' value.
- *jzIntv itself* (CPU, STIC, PSG): not in this repository but for the patch; external
  where the models need it.

What could come next: the codec against a reference definition, bytes instead of pieces
on the wire of a push, and what the liveness properties rest on (what stays true while
a call or a request waits) as theorems.
