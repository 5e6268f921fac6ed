------------------------------- MODULE Displays -------------------------------
(***************************************************************************)
(* How the four frontends get the machine's picture onto the glass:        *)
(*   gnome    a tick of GTK's frame clock while the window can be seen;    *)
(*            the frame goes into a pooled buffer that a texture borrows;  *)
(*   kde      woken by the frame callback through FrameFeed, drawn by a    *)
(*            QRhiWidget, or by a plain widget once that has failed;       *)
(*   windows  a render thread with Direct3D, which falls back to GDI;      *)
(*   macos    a timer on the main thread, drawing from the buffer itself.  *)
(* A behaviour shows one of them: `ui' never changes.                      *)
(***************************************************************************)
EXTENDS FrameStore

CONSTANTS UIs,          \* the frontends considered
          PoolKeep,     \* POOL_KEEP: idle buffers the pool of gnome keeps
          MaxLoans,     \* bound: textures GTK holds at once
          MaxFaults     \* bound: graphics devices lost

ASSUME DisplayAssumption ==
    /\ UIs \subseteq {"gnome", "kde", "windows", "macos"}
    /\ {PoolKeep, MaxLoans, MaxFaults} \subseteq Nat

VARIABLES ui,
          visible,  \* the window can be seen
          seen,     \* the serial the window copied last
          buf,      \* the buffer it copied into
          tex,      \* the texture made from it, where there is one
          redraw,   \* a redraw is queued
          glass,    \* what the window shows
          faults,   \* graphics devices lost so far
          pool,     \* gnome: [spare, loans, refs] of the frame pool, and
                  \*   whether its widget is there
          disp,     \* kde: the display in use, "gpu" or "soft"
          feeds,    \* kde: the FrameFeed of each display
          upload,   \* kde: m_dirty
          slot,     \* kde: what the GUI thread is in the middle of
          device    \* windows: "d3d", "removed" until noticed, or "gdi"

uiVars == <<ui, visible, seen, buf, tex, redraw, glass, faults>>
kdeVars == <<disp, feeds, upload, slot>>
displayVars == <<frameVars, uiVars, pool, kdeVars, device>>

Displayed == {"gpu", "soft"}
Feed == [active : BOOLEAN, pending : BOOLEAN, posted : BOOLEAN, alive : BOOLEAN]
NewFeed == [active |-> FALSE, pending |-> FALSE, posted |-> FALSE, alive |-> TRUE]

\* d3d_init, for the hardware and then for WARP: whatever of it fails, it
\* is there as a whole or not at all.
Rebuilt == {"d3d", "gdi"}

DisplayInit ==
    /\ FrameInit
    /\ ui \in UIs
    /\ visible = FALSE /\ seen = 0 /\ redraw = FALSE /\ faults = 0
    /\ buf = NoShot /\ tex = NoShot /\ glass = NoShot
    /\ pool = [widget |-> TRUE, spare |-> 0, loans |-> 0, refs |-> 1]
    /\ disp = "gpu" /\ upload = TRUE /\ slot = "idle"
    /\ feeds = [f \in Displayed |-> [NewFeed EXCEPT !.alive = (f = "gpu")]]
    /\ device \in IF ui = "windows" THEN Rebuilt ELSE {"d3d"}

\* intvsession_copy_frame into the window's buffer.
CopyFrame == /\ Newer(seen)
             /\ buf' = pixels
             /\ seen' = fserial

-----------------------------------------------------------------------------
\* gnome: display.c

GnomeShow == /\ ui = "gnome" /\ pool.widget
             /\ visible' = ~visible
             /\ redraw' = ~visible
             /\ UNCHANGED <<frameVars, ui, seen, buf, tex, glass, faults, pool, kdeVars, device>>

\* A buffer of the pool, or a new one, is lent to the new texture; one that
\* comes back is kept, or freed if enough are idle.
Lent == [pool EXCEPT !.spare = IF @ > 0 THEN @ - 1 ELSE @,
                     !.loans = @ + 1, !.refs = @ + 1]
Returned == [pool EXCEPT !.spare = IF @ < PoolKeep THEN @ + 1 ELSE @,
                         !.loans = @ - 1, !.refs = @ - 1]

\* tick_cb
GnomeTick ==
    /\ ui = "gnome" /\ visible
    /\ pool.loans < MaxLoans
    /\ CopyFrame
    /\ tex' = buf'
    /\ pool' = Lent
    /\ redraw' = TRUE
    /\ UNCHANGED <<frameVars, ui, visible, glass, faults, kdeVars, device>>

\* loan_release, when GSK drops the bytes of a texture that is not the
\* widget's any more.
GnomeRelease ==
    /\ ui = "gnome" /\ pool.loans > IF pool.widget THEN 1 ELSE 0
    /\ pool' = Returned
    /\ UNCHANGED <<frameVars, uiVars, kdeVars, device>>

\* intv_display_snapshot
GnomeDraw == /\ ui = "gnome" /\ visible /\ redraw
             /\ glass' = tex /\ redraw' = FALSE
             /\ UNCHANGED <<frameVars, ui, visible, seen, buf, tex, faults, pool, kdeVars, device>>

GnomeDispose == /\ ui = "gnome" /\ pool.widget
                /\ visible' = FALSE /\ redraw' = FALSE
                /\ pool' = [pool EXCEPT !.widget = FALSE, !.refs = @ - 1]
                /\ UNCHANGED <<frameVars, ui, seen, buf, tex, glass, faults, kdeVars, device>>

-----------------------------------------------------------------------------
\* kde: FrameFeed.cpp, DisplayWidget.cpp, SoftDisplayWidget.cpp

\* FrameFeed::onFrame, on the machine's thread under s_cb_lock.
OnFrame == /\ pub = "calling"
           /\ pub' = "idle"
           /\ feeds' = [feeds EXCEPT ![callback].pending = TRUE,
                                     ![callback].posted = @ \/ ~feeds[callback].pending]
           /\ UNCHANGED <<gfxVars, storeVars, callback, uiVars, pool, disp, upload, slot, device>>

\* FrameFeed::deliver, and setActive(true) once it has registered, end in
\* the frameReady signal: the display's onFrame.
KdeReady == /\ slot = "ready"
            /\ slot' = "idle"
            /\ IF Newer(seen)
               THEN CopyFrame /\ upload' = TRUE /\ redraw' = TRUE
               ELSE UNCHANGED <<seen, buf, upload, redraw>>
            /\ UNCHANGED <<frameVars, ui, visible, tex, glass, faults, pool, disp, feeds, device>>

KdeDeliver(f) ==
    /\ ui = "kde" /\ slot = "idle" /\ feeds[f].posted
    /\ feeds' = [feeds EXCEPT ![f].posted = FALSE, ![f].pending = FALSE]
    /\ slot' = IF feeds[f].active THEN "ready" ELSE "idle"
    /\ UNCHANGED <<frameVars, uiVars, pool, disp, upload, device>>

\* FrameFeed::setActive, of the display in use and of the other one.
SetActive(f, on) ==
    IF on = feeds[f].active
    THEN UNCHANGED <<feeds, callback>>
    ELSE /\ SetCallback(IF on THEN f ELSE Nobody)
         /\ feeds' = [feeds EXCEPT ![f].active = on]

KdeShow == /\ ui = "kde" /\ slot = "idle"
           /\ visible' = ~visible
           /\ redraw' = ~visible
           /\ SetActive(disp, ~visible)
           /\ slot' = IF visible THEN "idle" ELSE "ready"
           /\ UNCHANGED <<gfxVars, storeVars, pub, ui, seen, buf, tex, glass, faults, pool, disp, upload, device>>

\* DisplayWidget::render, or SoftDisplayWidget::paintEvent.
KdeDraw == /\ ui = "kde" /\ slot = "idle" /\ visible /\ redraw
           /\ tex' = IF disp = "soft" \/ upload THEN buf ELSE tex
           /\ upload' = FALSE
           /\ glass' = tex' /\ redraw' = FALSE
           /\ UNCHANGED <<frameVars, ui, visible, seen, buf, faults, pool, disp, feeds, slot, device>>

\* DisplayWidget::initialize on another QRhi: the texture is a new one.
KdeNewRhi == /\ ui = "kde" /\ disp = "gpu" /\ slot = "idle" /\ faults < MaxFaults
             /\ faults' = faults + 1
             /\ tex' = NoShot /\ upload' = TRUE /\ redraw' = TRUE
             /\ UNCHANGED <<frameVars, ui, visible, seen, buf, glass, pool, disp, feeds, slot, device>>

\* Mutant: the old display is not hidden first.
KdeUseSoftwareOver ==
    /\ ui = "kde" /\ disp = "gpu" /\ slot = "idle"
    /\ disp' = "soft"
    /\ feeds' = [feeds EXCEPT !["soft"].alive = TRUE]
    /\ seen' = 0 /\ buf' = NoShot
    /\ slot' = IF visible THEN "swap" ELSE "idle"
    /\ UNCHANGED <<frameVars, ui, visible, tex, redraw, glass, faults, pool, upload, device>>

\* MainWindow::useSoftwareDisplay takes the old display out of the stack,
\* which hides it, and then shows the new one in its place.
KdeUseSoftware ==
    /\ ui = "kde" /\ disp = "gpu" /\ slot = "idle"
    /\ disp' = "soft"
    /\ IF feeds["gpu"].active THEN SetCallback(Nobody) ELSE UNCHANGED callback
    /\ feeds' = [feeds EXCEPT !["gpu"].active = FALSE, !["soft"].alive = TRUE]
    /\ seen' = 0 /\ buf' = NoShot
    /\ slot' = IF visible THEN "swap" ELSE "idle"
    /\ UNCHANGED <<gfxVars, storeVars, pub, ui, visible, tex, redraw, glass, faults, pool, upload, device>>

KdeShowSoftware ==
    /\ slot = "swap"
    /\ SetActive("soft", TRUE)
    /\ redraw' = TRUE
    /\ slot' = "ready"
    /\ UNCHANGED <<gfxVars, storeVars, pub, ui, visible, seen, buf, tex, glass, faults, pool, disp, upload, device>>

\* Mutant: the destructor unregisters whoever is registered.
KdeDeleteOldBlindly ==
    /\ ui = "kde" /\ disp = "soft" /\ slot = "idle" /\ feeds["gpu"].alive
    /\ SetCallback(Nobody)
    /\ feeds' = [feeds EXCEPT !["gpu"] = [NewFeed EXCEPT !.alive = FALSE]]
    /\ UNCHANGED <<gfxVars, storeVars, pub, uiVars, pool, disp, upload, slot, device>>

\* The old display is deleted by the event loop: its feed's destructor.
KdeDeleteOld ==
    /\ ui = "kde" /\ disp = "soft" /\ slot = "idle" /\ feeds["gpu"].alive
    /\ IF feeds["gpu"].active THEN SetCallback(Nobody) ELSE UNCHANGED callback
    /\ feeds' = [feeds EXCEPT !["gpu"] = [NewFeed EXCEPT !.alive = FALSE]]
    /\ UNCHANGED <<gfxVars, storeVars, pub, uiVars, pool, disp, upload, slot, device>>

-----------------------------------------------------------------------------
\* windows: display.c

WinShow == /\ ui = "windows"
           /\ visible' = ~visible
           /\ redraw' = (~visible /\ device = "gdi")
           /\ UNCHANGED <<frameVars, ui, seen, buf, tex, glass, faults, pool, kdeVars, device>>

\* A driver update, or a reset of the graphics hardware.
DeviceRemoved == /\ ui = "windows" /\ device = "d3d" /\ faults < MaxFaults
                 /\ faults' = faults + 1
                 /\ device' = "removed"
                 /\ UNCHANGED <<frameVars, ui, visible, seen, buf, tex, redraw, glass, pool, kdeVars>>

\* d3d_upload gives no error: without a device nothing is uploaded.
Uploaded(shot) == IF device = "d3d" THEN shot ELSE tex

\* render_thread's round: what it copies it uploads.
WinCopy == /\ ui = "windows" /\ device # "gdi" /\ visible
           /\ CopyFrame
           /\ tex' = Uploaded(pixels)
           /\ UNCHANGED <<frameVars, ui, visible, redraw, glass, faults, pool, kdeVars, device>>

WinPresent == /\ ui = "windows" /\ device = "d3d" /\ visible
              /\ glass' = tex
              /\ UNCHANGED <<frameVars, ui, visible, seen, buf, tex, redraw, faults, pool, kdeVars, device>>

\* Present says the device is gone: everything is built again, or GDI takes
\* over.
WinLost == /\ ui = "windows" /\ device = "removed" /\ visible
           /\ device' \in Rebuilt
           /\ tex' = NoShot /\ seen' = 0
           /\ redraw' = (device' = "gdi")
           /\ UNCHANGED <<frameVars, ui, visible, buf, glass, faults, pool, kdeVars>>

\* gdi_loop copies for the window's own thread to paint.
GdiCopy == /\ ui = "windows" /\ device = "gdi"
           /\ CopyFrame
           /\ redraw' = (redraw \/ visible)
           /\ UNCHANGED <<frameVars, ui, visible, tex, glass, faults, pool, kdeVars, device>>

GdiPaint == /\ ui = "windows" /\ device = "gdi" /\ visible /\ redraw
            /\ glass' = buf /\ redraw' = FALSE
            /\ UNCHANGED <<frameVars, ui, visible, seen, buf, tex, faults, pool, kdeVars, device>>

-----------------------------------------------------------------------------
\* macos: DisplayView.m; the image that is drawn shares the buffer's bytes.

MacShow == /\ ui = "macos"
           /\ visible' = ~visible
           /\ redraw' = ~visible
           /\ UNCHANGED <<frameVars, ui, seen, buf, tex, glass, faults, pool, kdeVars, device>>

PullFrame == /\ ui = "macos"
             /\ CopyFrame
             /\ redraw' = TRUE
             /\ UNCHANGED <<frameVars, ui, visible, tex, glass, faults, pool, kdeVars, device>>

DrawRect == /\ ui = "macos" /\ visible /\ redraw
            /\ glass' = buf /\ redraw' = FALSE
            /\ UNCHANGED <<frameVars, ui, visible, seen, buf, tex, faults, pool, kdeVars, device>>

-----------------------------------------------------------------------------

\* The emulator thread; only kde registers a callback.
Machine == /\ \/ Draw \/ VidEnable(On) \/ VidEnable(Off) \/ Refresh \/ NewMachine \/ CallBegin
           /\ UNCHANGED <<uiVars, pool, kdeVars, device>>

Copies == GnomeTick \/ WinCopy \/ GdiCopy \/ PullFrame
          \/ KdeReady \/ KdeShowSoftware \/ (\E f \in Displayed : KdeDeliver(f))
Draws == GnomeDraw \/ KdeDraw \/ WinPresent \/ WinLost \/ GdiPaint \/ DrawRect
Windowing == GnomeShow \/ KdeShow \/ WinShow \/ MacShow
Resources == GnomeRelease \/ GnomeDispose \/ KdeNewRhi \/ KdeUseSoftware \/ KdeDeleteOld \/ DeviceRemoved

DisplayNext == Machine \/ OnFrame \/ Copies \/ Draws \/ Windowing \/ Resources

\* The threads go on; a window is not bound to be shown, nor the machine to
\* draw anything, nor GTK to give a texture up before it holds MaxLoans.
DisplayFairness ==
    /\ WF_frameVars(CallBegin) /\ WF_displayVars(OnFrame)
    /\ WF_displayVars(Copies \/ Draws)
    /\ WF_displayVars(GnomeRelease)

DisplaySpec == DisplayInit /\ [][DisplayNext]_displayVars /\ DisplayFairness

-----------------------------------------------------------------------------

\* Every variable has its type.
DisplayTypeOK ==
    /\ FrameTypeOK
    /\ ui \in UIs /\ {visible, redraw, upload} \subseteq BOOLEAN
    /\ seen \in 0 .. MaxSerial /\ faults \in 0 .. MaxFaults
    /\ {buf, tex, glass} \subseteq Shots \cup {NoShot}
    /\ callback \in Displayed \cup {Nobody} /\ disp \in Displayed
    /\ feeds \in [Displayed -> Feed]
    /\ slot \in {"idle", "ready", "swap"}
    /\ device \in {"d3d", "removed", "gdi"}

\* The callback that is registered, or running, is that of a feed that is
\* there and active, and of the display in use: the two feeds of kde share
\* the core's one slot, and the old one going away does not take the new
\* one's registration along (FrameFeed::setActive, useSoftwareDisplay,
\* intv_frame_set_frame_callback).
CallbackIsLive ==
    callback # Nobody =>
        /\ feeds[callback].alive /\ feeds[callback].active
        /\ callback = disp

\* The pool of gnome lives as long as a texture borrows from it, and keeps
\* no more idle buffers than it says (pool_unref, pool_give).
PoolSound == /\ pool.loans > 0 => pool.refs > 0
             /\ pool.refs = 0 <=> ~pool.widget /\ pool.loans = 0
             /\ pool.spare \in 0 .. PoolKeep

\* A window somebody looks at comes to show the newest picture, however the
\* publication and the wake-up, the hiding and showing, the change of
\* display and the loss of the device interleave: a machine that stands
\* still never leaves an old picture standing.
NewestIsShown == []<>(~visible \/ glass = pixels)

=============================================================================
